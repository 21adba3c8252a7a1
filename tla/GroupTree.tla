----------------------------- MODULE GroupTree ------------------------------
(***************************************************************************)
(* What the session groups promise: a session is in a group, a group is a  *)
(* sequence of names, and renaming or deleting a group moves the sessions  *)
(* of it and of the groups in it, and no other.                            *)
(***************************************************************************)
EXTENDS Sequences, SequencesExt

CONSTANTS Sessions, Gone

VARIABLE where        \* the group of a session, or Gone

\* The group without names holds the ungrouped; so does the one whose name is empty.
Norm(g) == IF g = << <<>> >> THEN <<>> ELSE g
In(s, g) == where[s] # Gone /\ IsPrefix(g, where[s])
Below(s, g) == SubSeq(where[s], Len(g) + 1, Len(where[s]))
Moved(g, to(_)) == where' = [s \in Sessions |-> IF In(s, g) THEN Norm(to(s)) ELSE where[s]]

Put(ids, g) == where' = [s \in Sessions |-> IF s \in ids /\ where[s] # Gone THEN g ELSE where[s]]
\* A group is not moved into itself.
Rename(g, new) == g # <<>> /\ ~IsStrictPrefix(g, new) /\ Moved(g, LAMBDA s : new \o Below(s, g))
\* Its own sessions are ungrouped, the groups in it move up.
Dissolve(g) ==
  g # <<>> /\ Moved(g, LAMBDA s : IF where[s] = g THEN <<>> ELSE Front(g) \o Below(s, g))
DeleteGroup(g) ==
  g # <<>> /\ where' = [s \in Sessions |-> IF In(s, g) THEN Gone ELSE where[s]]
=============================================================================
