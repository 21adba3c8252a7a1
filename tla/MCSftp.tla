------------------------------- MODULE MCSftp -------------------------------
(*****************************************************************************)
(* The slots of SFTP and exec contexts, the table of contexts and the        *)
(* watcher of an edited file,                                                *)
(* each by itself: a behaviour is one of one part, while the others stay     *)
(* in an initial state.                                                      *)
(*****************************************************************************)
EXTENDS Sftp, Sequences

CONSTANT MaxSaves

VARIABLES
  part,
  local, deleted, locked, remote, alive, pc, last_mtime, data, missed

Edit == INSTANCE EditWatch

ASSUME MCContextsConstants == ContextsConstants

contextsVars == <<ctxSlot, made, ctxDead, idle, ctxTask, sweep, pauses, dropped, late>>
editVars == <<local, deleted, locked, remote, alive, pc, last_mtime, data, missed>>
allVars == <<part, vars, contextsVars, editVars>>

MCInit ==
  /\ part \in {"slot", "contexts", "edit"}
  /\ Init /\ Contexts!Init /\ Edit!Init
  /\ part = "slot" \/ role = "context"
MCNext ==
  /\ UNCHANGED part
  /\ \/ part = "slot" /\ Next /\ UNCHANGED <<contextsVars, editVars>>
     \/ part = "contexts" /\ Contexts!Next /\ UNCHANGED <<vars, editVars>>
     \/ part = "edit" /\ Edit!Next /\ UNCHANGED <<vars, contextsVars>>
\* The fairness of each part.
MCFairness ==
  /\ \A u \in Users : WF_vars(part = "slot" /\ CallerStep(u))
  /\ \A r \in Recoveries : WF_vars(part = "slot" /\ TaskStep(r))
  /\ WF_contextsVars(part = "contexts" /\ Contexts!Sweep)
  /\ WF_editVars(part = "edit" /\ Edit!Task)
  /\ WF_editVars(part = "edit" /\ Edit!Unlock)
MCSpec == MCInit /\ [][MCNext]_allVars /\ MCFairness

\* Each part gets where it has to: every caller that waits for a recovery is
\* served (WaiterServed), the contexts come down to their limit (SlotsBounded),
\* what an editor saved is uploaded (SavesUploaded).
SftpProgress ==
  []<>CASE part = "slot" -> Served
        [] part = "contexts" -> Contexts!WithinLimit
        [] part = "edit" -> Edit!Uploaded
=============================================================================
