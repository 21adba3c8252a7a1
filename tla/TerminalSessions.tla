-------------------------- MODULE TerminalSessions --------------------------
(***************************************************************************)
(* The terminals of a session profile and the tunnels that go with it:     *)
(* crates/app/src/terminal.rs (term_open, term_close), its supervisor in   *)
(* crates/app/src/terminal/session.rs (supervise, reconnect) and           *)
(* start_session_tunnels / stop_session_tunnels of crates/app/src/         *)
(* tunnels.rs.                                                             *)
(*                                                                         *)
(* Every tab belongs to the same profile, which has one with_session       *)
(* tunnel.  term_open, term_close, the supervisor of a tab and the two     *)
(* tunnel tasks run concurrently; they meet in TerminalManager.sessions    *)
(* and in the tunnel manager.  A step ends where the code awaits or gives  *)
(* the sessions lock back.                                                 *)
(***************************************************************************)
EXTENDS Naturals, FiniteSets

CONSTANTS
  Tabs, LocalTabs,    \* tabs, and those of a local shell (the others are SSH)
  AttemptLimits,      \* values terminal.reconnectAttempts may have
  MaxDrops            \* bound: times the shell of a tab ends

VARIABLES
  opening,            \* term_open of a tab
  sessions,           \* keys of TerminalManager.sessions
  writer,             \* TermSession.writer: the shell it writes to
  shell,              \* the shell ctx.reader reads
  task,               \* the supervise task
  aborted,            \* term_close has called task.abort()
  attempt, limit,     \* locals of reconnect
  closing,            \* term_close of a tab
  starter,            \* its start_session_tunnels task
  stops,              \* stop_session_tunnels tasks still to run
  tunnel,             \* the tunnel manager runs the tunnel
  shown,              \* last state frame sent for the tab
  drops,              \* bound: shells that have ended
  early,              \* history: tabs whose supervisor ended before the insert
  late                \* history: a start nobody was there for

open == <<opening, starter>>
table == <<sessions, writer>>
super == <<shell, task, attempt, limit>>
close == <<closing, aborted>>
tunnels == <<stops, tunnel, late>>
vars == <<open, table, super, close, tunnels, shown, drops, early>>

\* Where a supervise task waits, and can be aborted.
Awaits == {"read", "sleep", "connect"}
Over == {"none", "exit", "aborted"}

Init ==
  /\ opening = [t \in Tabs |-> "idle"] /\ starter = [t \in Tabs |-> "none"]
  /\ sessions = {} /\ writer = [t \in Tabs |-> 0]
  /\ shell = [t \in Tabs |-> 0] /\ task = [t \in Tabs |-> "none"]
  /\ attempt = [t \in Tabs |-> 0] /\ limit = [t \in Tabs |-> 0]
  /\ closing = [t \in Tabs |-> "none"] /\ aborted = {}
  /\ stops = 0 /\ tunnel = FALSE /\ late = FALSE
  /\ shown = [t \in Tabs |-> "none"] /\ drops = 0 /\ early = {}

(***************************************************************************)
(* term_open.                                                              *)
(***************************************************************************)
\* The profile is resolved and the connection made; with it, before there is
\* a PTY or an entry, the task that starts the session's tunnels.
OpenConnect(t) ==
  /\ opening[t] = "idle" /\ t \notin LocalTabs
  /\ \/ /\ opening' = [opening EXCEPT ![t] = "pty"]
        /\ starter' = [starter EXCEPT ![t] = "list"]
     \/ opening' = [opening EXCEPT ![t] = "failed"] /\ UNCHANGED starter
  /\ UNCHANGED <<table, super, close, tunnels, shown, drops, early>>

\* open_pty and spawn(supervise): the supervisor reads from here on.
OpenPty(t) ==
  /\ opening[t] = "pty"
  /\ \/ /\ opening' = [opening EXCEPT ![t] = "insert"]
        /\ task' = [task EXCEPT ![t] = "read"] /\ shell' = [shell EXCEPT ![t] = 1]
        /\ UNCHANGED late
     \/ /\ opening' = [opening EXCEPT ![t] = "failed"] /\ late' = TRUE
        /\ UNCHANGED <<task, shell>>
  /\ UNCHANGED <<starter, table, attempt, limit, close, stops, tunnel, shown, drops, early>>

\* A local shell: one spawn_blocking, no connection and no tunnels.
OpenLocal(t) ==
  /\ opening[t] = "idle" /\ t \in LocalTabs
  /\ \/ /\ opening' = [opening EXCEPT ![t] = "insert"]
        /\ task' = [task EXCEPT ![t] = "read"] /\ shell' = [shell EXCEPT ![t] = 1]
     \/ opening' = [opening EXCEPT ![t] = "failed"] /\ UNCHANGED <<task, shell>>
  /\ UNCHANGED <<starter, table, attempt, limit, close, tunnels, shown, drops, early>>

OpenInsert(t) ==
  /\ opening[t] = "insert"
  /\ opening' = [opening EXCEPT ![t] = "announce"]
  /\ sessions' = sessions \cup {t} /\ writer' = [writer EXCEPT ![t] = 1]
  /\ early' = IF task[t] \in Over THEN early \cup {t} ELSE early
  /\ UNCHANGED <<starter, super, close, tunnels, shown, drops>>

\* The connected frame; term_open returns the tab's id.
OpenAnnounce(t) ==
  /\ opening[t] = "announce"
  /\ opening' = [opening EXCEPT ![t] = "open"] /\ shown' = [shown EXCEPT ![t] = "connected"]
  /\ UNCHANGED <<starter, table, super, close, tunnels, drops, early>>

(***************************************************************************)
(* supervise and reconnect.                                                *)
(***************************************************************************)
\* A task that has been aborted dies where it next awaits.
At(t, pc) == [task EXCEPT ![t] = IF t \in aborted /\ pc \in Awaits THEN "aborted" ELSE pc]

\* read_loop returns: the shell ends, or the connection is lost.
ReadLoopEnds(t) ==
  /\ task[t] = "read" /\ drops < MaxDrops
  /\ drops' = drops + 1 /\ task' = [task EXCEPT ![t] = "ended"]
  /\ UNCHANGED <<open, table, shell, attempt, limit, close, tunnels, shown, early>>

\* After read_loop: the entry decides whether the user closed the tab; a
\* local shell is over; an SSH one reads its limit and goes to reconnect.
AfterReadLoop(t) ==
  /\ task[t] = "ended"
  /\ \/ /\ t \notin sessions
        /\ task' = [task EXCEPT ![t] = "exit"] /\ UNCHANGED limit
     \/ /\ t \in sessions /\ t \in LocalTabs
        /\ task' = [task EXCEPT ![t] = "giveup"] /\ UNCHANGED limit
     \/ /\ t \in sessions /\ t \notin LocalTabs
        /\ task' = [task EXCEPT ![t] = "attempt"]
        /\ \E n \in AttemptLimits : limit' = [limit EXCEPT ![t] = n]
  /\ attempt' = [attempt EXCEPT ![t] = 0]
  /\ UNCHANGED <<open, table, shell, close, tunnels, shown, drops, early>>

\* Mutant: the attempts are not counted.
AttemptUncounted(t) ==
  /\ task[t] = "attempt"
  /\ \/ attempt[t] + 1 > limit[t] /\ task' = At(t, "giveup") /\ UNCHANGED shown
     \/ /\ attempt[t] + 1 <= limit[t]
        /\ task' = At(t, "sleep") /\ shown' = [shown EXCEPT ![t] = "reconnecting"]
  /\ UNCHANGED <<open, table, shell, attempt, limit, close, tunnels, drops, early>>

Attempt(t) ==
  /\ task[t] = "attempt"
  /\ attempt' = [attempt EXCEPT ![t] = @ + 1]
  /\ \/ attempt'[t] > limit[t] /\ task' = At(t, "giveup") /\ UNCHANGED shown
     \/ /\ attempt'[t] <= limit[t]
        /\ task' = At(t, "sleep") /\ shown' = [shown EXCEPT ![t] = "reconnecting"]
  /\ UNCHANGED <<open, table, shell, limit, close, tunnels, drops, early>>

Wake(t) ==
  /\ task[t] = "sleep"
  /\ task' = At(t, IF t \in sessions THEN "connect" ELSE "giveup")
  /\ UNCHANGED <<open, table, shell, attempt, limit, close, tunnels, shown, drops, early>>

\* connect and open_pty, both of which may fail.
Connect(t) ==
  /\ task[t] = "connect"
  /\ \/ task' = At(t, "attempt")
     \/ task' = At(t, "swap")
  /\ UNCHANGED <<open, table, shell, attempt, limit, close, tunnels, shown, drops, early>>

\* Mutant: only ctx.writer is replaced.
SwapKeepsWriter(t) ==
  /\ task[t] = "swap"
  /\ \/ /\ t \in sessions /\ shell' = [shell EXCEPT ![t] = @ + 1]
        /\ shown' = [shown EXCEPT ![t] = "reconnected"] /\ task' = At(t, "read")
     \/ /\ t \notin sessions
        /\ task' = [task EXCEPT ![t] = "exit"] /\ UNCHANGED <<shell, shown>>
  /\ UNCHANGED <<open, table, attempt, limit, close, tunnels, drops, early>>

\* The new writer goes into the entry, if there still is one.
Swap(t) ==
  /\ task[t] = "swap"
  /\ \/ /\ t \in sessions
        /\ writer' = [writer EXCEPT ![t] = shell[t] + 1]
        /\ shell' = [shell EXCEPT ![t] = @ + 1]
        /\ shown' = [shown EXCEPT ![t] = "reconnected"] /\ task' = At(t, "read")
     \/ /\ t \notin sessions
        /\ task' = [task EXCEPT ![t] = "exit"] /\ UNCHANGED <<writer, shell, shown>>
  /\ UNCHANGED <<open, sessions, attempt, limit, close, tunnels, drops, early>>

\* Mutants: stop_session_tunnels_if_last before the remove; no remove.
GiveUpChecksFirst(t) ==
  /\ task[t] = "giveup"
  /\ shown' = [shown EXCEPT ![t] = "closed"]
  /\ stops' = IF sessions = {} THEN stops + 1 ELSE stops
  /\ sessions' = sessions \ {t} /\ task' = [task EXCEPT ![t] = "exit"]
  /\ UNCHANGED <<open, writer, shell, attempt, limit, close, tunnel, late, drops, early>>
GiveUpKeepsEntry(t) ==
  /\ task[t] = "giveup"
  /\ shown' = [shown EXCEPT ![t] = "closed"] /\ task' = [task EXCEPT ![t] = "last"]
  /\ UNCHANGED <<open, table, shell, attempt, limit, close, tunnels, drops, early>>

\* The end of a tab that the user did not close: closed frame, entry removed.
GiveUp(t) ==
  /\ task[t] = "giveup"
  /\ shown' = [shown EXCEPT ![t] = "closed"]
  /\ sessions' = sessions \ {t} /\ task' = [task EXCEPT ![t] = "last"]
  /\ UNCHANGED <<open, writer, shell, attempt, limit, close, tunnels, drops, early>>

\* A second use of the lock: no entry of the session left, so stop its tunnels.
StopIfLast == stops' = IF sessions = {} THEN stops + 1 ELSE stops

StopTunnelsIfLast(t) ==
  /\ task[t] = "last"
  /\ StopIfLast /\ task' = [task EXCEPT ![t] = "exit"]
  /\ UNCHANGED <<open, table, shell, attempt, limit, close, tunnel, late, shown, drops, early>>

(***************************************************************************)
(* term_close.                                                             *)
(***************************************************************************)
CloseRemove(t) ==
  /\ opening[t] = "open" /\ t \in sessions /\ closing[t] = "none"
  /\ sessions' = sessions \ {t} /\ closing' = [closing EXCEPT ![t] = "abort"]
  /\ UNCHANGED <<open, writer, super, aborted, tunnels, shown, drops, early>>

\* writer.close().await has returned.
CloseAbort(t) ==
  /\ closing[t] = "abort"
  /\ closing' = [closing EXCEPT ![t] = "last"] /\ aborted' = aborted \cup {t}
  /\ task' = [task EXCEPT ![t] = IF @ \in Awaits THEN "aborted" ELSE @]
  /\ UNCHANGED <<open, table, shell, attempt, limit, tunnels, shown, drops, early>>

CloseLast(t) ==
  /\ closing[t] = "last"
  /\ StopIfLast /\ closing' = [closing EXCEPT ![t] = "done"]
  /\ UNCHANGED <<open, table, super, aborted, tunnel, late, shown, drops, early>>

(***************************************************************************)
(* The tunnel tasks.                                                       *)
(***************************************************************************)
\* Tabs of the session that are open or about to be.
Present == sessions \cup {t \in Tabs : opening[t] \in {"pty", "insert"}}

\* for_session and start_tunnel's check that the tunnel does not run yet.
StartCheck(t) ==
  /\ starter[t] = "list"
  /\ starter' = [starter EXCEPT ![t] = IF tunnel THEN "none" ELSE "start"]
  /\ UNCHANGED <<opening, table, super, close, tunnels, shown, drops, early>>

\* mgr.start; it refuses a second tunnel of the same id, and may fail.
StartTunnel(t) ==
  /\ starter[t] = "start"
  /\ starter' = [starter EXCEPT ![t] = "none"]
  /\ \/ tunnel' = TRUE /\ late' = (late \/ Present = {})
     \/ UNCHANGED <<tunnel, late>>
  /\ UNCHANGED <<opening, table, super, close, stops, shown, drops, early>>

\* mgr.stop, NotFound included.
StopTunnel ==
  /\ stops > 0
  /\ stops' = stops - 1 /\ tunnel' = FALSE
  /\ UNCHANGED <<open, table, super, close, late, shown, drops, early>>

Opening(t) == OpenConnect(t) \/ OpenPty(t) \/ OpenLocal(t) \/ OpenInsert(t) \/ OpenAnnounce(t)
Supervise(t) == AfterReadLoop(t) \/ Attempt(t) \/ Wake(t) \/ Connect(t) \/ Swap(t) \/ GiveUp(t)
                  \/ StopTunnelsIfLast(t)
Closing(t) == CloseAbort(t) \/ CloseLast(t)
Starting(t) == StartCheck(t) \/ StartTunnel(t)

Next ==
  \/ \E t \in Tabs : Opening(t) \/ Supervise(t) \/ Closing(t) \/ Starting(t)
  \/ \E t \in Tabs : ReadLoopEnds(t) \/ CloseRemove(t)
  \/ StopTunnel

\* The user need not close anything and shells need not end; what has been
\* started is carried on: timers fire, connects end by their timeouts.
Spec == Init /\ [][Next]_vars
FairSpec == Spec /\ WF_vars(\E t \in Tabs : Supervise(t) \/ Closing(t))

(***************************************************************************)
(* Properties.                                                             *)
(***************************************************************************)
SessionsTypeOK ==
  /\ \A t \in Tabs : opening[t] \in {"idle", "pty", "insert", "announce", "open", "failed"}
  /\ sessions \subseteq Tabs /\ aborted \subseteq Tabs /\ early \subseteq Tabs
  /\ \A t \in Tabs : task[t] \in Over \cup Awaits \cup {"ended", "attempt", "swap", "giveup", "last"}
  /\ \A t \in Tabs : starter[t] \in {"none", "list", "start"}
  /\ \A t \in Tabs : closing[t] \in {"none", "abort", "last", "done"}
  /\ \A t \in Tabs : attempt[t] <= limit[t] + 1 /\ shell[t] <= 1 + drops
  /\ stops \in 0..2 * Cardinality(Tabs) /\ tunnel \in BOOLEAN /\ late \in BOOLEAN

\* While a tab's output is read, what the user types in it goes to the same
\* shell: after any number of reconnects the entry's writer and the reader of
\* supervise belong together, also when term_close runs alongside.
InputFollowsOutput ==
  \A t \in sessions : task[t] = "read" => writer[t] = shell[t]

\* Nothing is left to run: no open, close, supervisor step or tunnel task.
Quiet ==
  /\ \A t \in Tabs : /\ opening[t] \in {"idle", "open", "failed"} /\ starter[t] = "none"
                     /\ closing[t] \in {"none", "done"} /\ task[t] \in Over \cup {"read"}
  /\ stops = 0

\* Two tabs that go away at the same time, one closed by the user and one
\* given up by its supervisor, never each leave the tunnels to the other:
\* when the last tab is gone, a tunnel that still runs was started by a start
\* that came when no tab was there, or whose own tab failed to open its PTY.
TunnelLeftOnlyByLateStart == Quiet /\ sessions = {} /\ tunnel => late

\* A tab in the table has a supervisor, unless the supervisor had ended
\* before term_open inserted the entry.
EntryHasSupervisor ==
  \A t \in sessions \ early : task[t] \notin Over

Resolved == \A t \in Tabs : task[t] \in Over \/ (task[t] = "read" /\ closing[t] = "none")
\* A lost connection is either replaced or ends the tab, and the supervisor
\* of a closed tab ends, without anything that only the user could do.
SupervisorsEnd == []<>Resolved
=============================================================================
