------------------------------ MODULE OpenTabs ------------------------------
(*****************************************************************************)
(* The tabs (TerminalSessions), with what is promised of them.               *)
(*****************************************************************************)
EXTENDS Naturals, FiniteSets

CONSTANTS Tabs, LocalTabs, AttemptLimits, MaxDrops

VARIABLES
  opening, sessions, writer, shell, task, aborted, tries, limit, closing, starter, stops, tunnel,
  shown, drops, early, late

Terminals == INSTANCE TerminalSessions WITH attempt <- tries

\* What the proofs need of the constants.
SessionsConstants == IsFiniteSet(Tabs) /\ AttemptLimits \subseteq Nat

\* Of the tabs: types; input goes to the shell whose output is shown, the last tab takes the
\* tunnels with it but for a late start, and every entry of the table has a supervisor.
TabsConsistent ==
  /\ Terminals!SessionsTypeOK
  /\ Terminals!InputFollowsOutput
  /\ Terminals!TunnelLeftOnlyByLateStart
  /\ Terminals!EntryHasSupervisor
=============================================================================
