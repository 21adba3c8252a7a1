-------------------------------- MODULE Lists --------------------------------
(* A list that loses an element from its middle: Vec::remove, and the queue of   *)
(* a Notify.                                                                     *)
EXTENDS Sequences, Integers

\* s without its element i.
Without(s, i) == SubSeq(s, 1, i - 1) \o SubSeq(s, i + 1, Len(s))
===============================================================================
