-------------------------------- MODULE Sftp --------------------------------
(*****************************************************************************)
(* The slot of a context (SubsystemSlot) and, as an instance beside it, the  *)
(* table of the contexts of all the sessions, with what that one promises.   *)
(*****************************************************************************)
EXTENDS SubsystemSlot

CONSTANTS Sessions, Tasks, MaxSlots, MaxCtxs, MaxPauses

VARIABLES ctxSlot, made, ctxDead, idle, ctxTask, sweep, pauses, dropped, late

Contexts == INSTANCE SftpContexts WITH slot <- ctxSlot, dead <- ctxDead, task <- ctxTask

\* What the proofs need of the constants.
ContextsConstants == MaxCtxs \in Nat /\ Sessions # {}

\* Of the contexts: types, and the sweep takes none that is in use.
ContextsKept == Contexts!ContextTypeOK /\ Contexts!UsedIsKept
=============================================================================
