--------------------------- MODULE MCFlowControl ----------------------------
(*****************************************************************************)
(* What holds a producer back: a budget of permits and the credit of a       *)
(* stream,                                                                   *)
(* each by itself: a behaviour is one of one part, while the others stay     *)
(* in an initial state.                                                      *)
(*****************************************************************************)
EXTENDS Budget, StreamProtocol

VARIABLE part

allVars == <<part, vars, streamVars>>

MCInit ==
  /\ part \in {"budget", "credit"}
  /\ Init /\ StreamInit
MCNext ==
  /\ UNCHANGED part
  /\ \/ part = "budget" /\ Next /\ UNCHANGED <<streamVars>>
     \/ part = "credit" /\ StreamNext /\ UNCHANGED <<vars>>
\* The fairness of each part.
MCFairness ==
  /\ \A c \in Clients : WF_vars(part = "budget" /\ WaiterStep(c))
  /\ \A c \in Clients : WF_vars(part = "budget" /\ DropPermit(c))
MCSpec == MCInit /\ [][MCNext]_allVars /\ MCFairness
=============================================================================
