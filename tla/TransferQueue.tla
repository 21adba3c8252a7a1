--------------------------- MODULE TransferQueue ---------------------------
(***************************************************************************)
(* The file transfer queue: crates/core-sftp/src/transfer.rs on the        *)
(* execution skeleton Executor::run of crates/core-sftp/src/executor.rs.   *)
(*                                                                         *)
(* Each transfer has a runner task (run_transfer) and is steered by user   *)
(* commands that run concurrently with it.  Runner and commands share the  *)
(* info mutex, the atomics pause, cancel and priority, the two priority    *)
(* ledgers and the permits, which are a Semaphore (see module Budget).     *)
(* A step is one critical section or one atomic access that another task   *)
(* can tell apart.  Bytes are left out: a transfer is one chunk, for what  *)
(* a later chunk does differs only in how far the file has got.            *)
(*                                                                         *)
(* The runner's pc:                                                        *)
(*   "top"       head of Executor::run's loop                              *)
(*   "edge", "edge_move"  inside pause_edge(true), before and after its CAS *)
(*   "paused"    the 200 ms pause spin                                     *)
(*   "gate", "gate_move"  inside pre_permit_gate, before and after its CAS *)
(*   "acquire"   waiting for a permit                                      *)
(*   "confirm"   the second look at cancel and pause, permit in hand       *)
(*   "open"      the attempt has started: sizes, files, handles            *)
(*   "chunk"     a chunk boundary: interruption check and yield_to_priority *)
(*   "io"        past the boundary, moving data                            *)
(*   "returned"  the attempt has a result; the permit is still held        *)
(*   "classify"  permit dropped; the result is being judged                *)
(*   "backoff"   RETRY_BACKOFF                                             *)
(*   "exit"      no runner                                                 *)
(***************************************************************************)
EXTENDS Semaphore, Integers

CONSTANTS MaxRetries,     \* TransferQueue.max_retries
          MaxCommands     \* bound: user commands in a behaviour

ASSUME QueueConstants == /\ MaxRetries \in Nat
                         /\ MaxCommands \in Nat

VARIABLES
  listed,            \* TransferQueue.transfers: the ids in the registry
  state,             \* info.state ("none" before enqueue)
  pause, cancel,     \* TransferInner.pause, .cancel
  priority,          \* TransferInner.priority: 0, 1 (waiting) or 2 (running)
  priority_waiting,  \* the two ledgers; usize counters that wrap below zero,
  priority_running,  \*   held as integers
  pc, attempt, result, \* the runner and its locals
  tail,              \* what a finished runner still has to do in repay_priority
  command,           \* a command caught between two of its steps
  commands           \* commands issued, up to MaxCommands

flags == <<pause, cancel>>
ledger == <<priority, priority_waiting, priority_running>>
runner == <<pc, attempt, result, tail>>
api == <<command, commands>>
vars == <<holders, listed, state, flags, ledger, runner, api>>

Terminal == {"Done", "Failed", "Canceled"}
Live == {"Queued", "Running", "Paused"}
PCs == {"top", "edge", "edge_move", "paused", "gate", "gate_move", "acquire",
        "confirm", "open", "chunk", "io", "returned", "classify", "backoff", "exit"}

\* Every variable has its type, and only the registered transfers have a life.
TypeOK ==
  /\ holders \subseteq Clients
  /\ listed \subseteq Clients
  /\ state \in [Clients -> Terminal \cup Live \cup {"none"}]
  /\ pause \in [Clients -> BOOLEAN]
  /\ cancel \in [Clients -> BOOLEAN]
  /\ priority \in [Clients -> 0..2]
  /\ priority_waiting \in Int
  /\ priority_running \in Int
  /\ pc \in [Clients -> PCs]
  /\ attempt \in [Clients -> 0..MaxRetries]
  /\ result \in [Clients -> {"ok", "interrupted", "error"}]
  /\ tail \in [Clients -> {"none", "repay", "sub1", "sub2"}]
  /\ command \in [Clients -> {"none", "resume", "add1", "add2", "retry"}]
  /\ commands \in 0..MaxCommands

Init ==
  /\ SemInit
  /\ listed = {}
  /\ state = [t \in Clients |-> "none"]
  /\ pause = [t \in Clients |-> FALSE]
  /\ cancel = [t \in Clients |-> FALSE]
  /\ priority = [t \in Clients |-> 0]
  /\ priority_waiting = 0
  /\ priority_running = 0
  /\ pc = [t \in Clients |-> "exit"]
  /\ attempt = [t \in Clients |-> 0]
  /\ result = [t \in Clients |-> "ok"]
  /\ tail = [t \in Clients |-> "none"]
  /\ command = [t \in Clients |-> "none"]
  /\ commands = 0

Goto(t, l) == pc' = [pc EXCEPT ![t] = l]
SetState(t, s) == state' = [state EXCEPT ![t] = s]
SetPriority(t, p) == priority' = [priority EXCEPT ![t] = p]

\* The info mutex is free: prioritize is the one command that keeps it over
\* two steps, its CAS and the addition to the ledger.
InfoFree(t) == command[t] \notin {"add1", "add2"}

\* "load(..) > 0" on a ledger: a counter wrapped below zero reads as positive.
Positive(ledgerCount) == ledgerCount # 0

-----------------------------------------------------------------------------
(* The runner: Executor::run with QueueFlow. *)

\* A new run: attempt is a local of Executor::run.
Spawn(t) == /\ Goto(t, "top")
            /\ attempt' = [attempt EXCEPT ![t] = 0]
            /\ UNCHANGED <<result, tail>>

\* The runner writes terminal state s under the info mutex; what is left of
\* it is repay_priority (and its local attempt is gone).
Finish(t, s) == /\ InfoFree(t)
                /\ tail[t] = "none"
                /\ SetState(t, s)
                /\ Goto(t, "exit")
                /\ attempt' = [attempt EXCEPT ![t] = 0]
                /\ tail' = [tail EXCEPT ![t] = "repay"]

\* The loop head: cancel wins over pause, pause over running on.
Top(t) ==
  /\ pc[t] = "top"
  /\ \/ /\ cancel[t]
        /\ Finish(t, "Canceled")
     \/ /\ ~cancel[t]
        /\ pause[t]
        /\ InfoFree(t)
        /\ SetState(t, "Paused")
        /\ Goto(t, "edge")
        /\ UNCHANGED <<attempt, tail>>
     \/ /\ ~cancel[t]
        /\ ~pause[t]
        /\ Goto(t, "gate")
        /\ UNCHANGED <<state, attempt, tail>>
  /\ UNCHANGED <<holders, listed, flags, ledger, result, api>>

\* pause_edge(true): a running-ledger entry moves to the waiting ledger.
PauseEdge(t) ==
  /\ pc[t] = "edge"
  /\ IF priority[t] = 2
       THEN SetPriority(t, 1) /\ Goto(t, "edge_move")
       ELSE Goto(t, "paused") /\ UNCHANGED priority
  /\ UNCHANGED <<holders, listed, state, flags, priority_waiting, priority_running,
                 attempt, result, tail, api>>

PauseEdgeMove(t) ==
  /\ pc[t] = "edge_move"
  /\ priority_running' = priority_running - 1
  /\ priority_waiting' = priority_waiting + 1
  /\ Goto(t, "paused")
  /\ UNCHANGED <<holders, listed, state, flags, priority, attempt, result, tail, api>>

\* The pause spin ends when pause is cleared or cancel set.
Unpause(t) ==
  /\ pc[t] = "paused"
  /\ ~pause[t] \/ cancel[t]
  /\ Goto(t, "top")
  /\ UNCHANGED <<holders, listed, state, flags, ledger, attempt, result, tail, api>>

\* pre_permit_gate keeps an ordinary transfer spinning while a prioritised one
\* waits; a prioritised one moves to the running ledger as it passes.
HeldAtGate(t) == /\ priority[t] = 0
                 /\ Positive(priority_waiting)
                 /\ ~pause[t]
                 /\ ~cancel[t]

Gate(t) ==
  /\ pc[t] = "gate"
  /\ ~HeldAtGate(t)
  /\ IF priority[t] = 1
       THEN SetPriority(t, 2) /\ Goto(t, "gate_move")
       ELSE Goto(t, "acquire") /\ UNCHANGED priority
  /\ UNCHANGED <<holders, listed, state, flags, priority_waiting, priority_running,
                 attempt, result, tail, api>>

GateMove(t) ==
  /\ pc[t] = "gate_move"
  /\ priority_waiting' = priority_waiting - 1
  /\ priority_running' = priority_running + 1
  /\ Goto(t, "acquire")
  /\ UNCHANGED <<holders, listed, state, flags, priority, attempt, result, tail, api>>

\* permits.acquire().await
Acquire(t) ==
  /\ pc[t] = "acquire"
  /\ Take(t)
  /\ Goto(t, "confirm")
  /\ UNCHANGED <<listed, state, flags, ledger, attempt, result, tail, api>>

\* Mutant: the permit is kept when the second look finds a pause or a cancel.
ConfirmKeepsPermit(t) ==
  /\ pc[t] = "confirm"
  /\ IF cancel[t] \/ pause[t]
       THEN Goto(t, "top") /\ UNCHANGED state
       ELSE InfoFree(t) /\ SetState(t, "Running") /\ Goto(t, "open")
  /\ UNCHANGED <<holders, listed, flags, ledger, attempt, result, tail, api>>

\* The second look at the flags, then prepare: info.state = Running.
Confirm(t) ==
  /\ pc[t] = "confirm"
  /\ IF cancel[t] \/ pause[t]
       THEN Give(t) /\ Goto(t, "top") /\ UNCHANGED state
       ELSE InfoFree(t) /\ SetState(t, "Running") /\ Goto(t, "open") /\ UNCHANGED holders
  /\ UNCHANGED <<listed, flags, ledger, attempt, result, tail, api>>

Return(t, r) == /\ Goto(t, "returned")
                /\ result' = [result EXCEPT ![t] = r]

\* The attempt up to its first chunk: getting the channel, stat and open may
\* fail; nothing here looks at pause, cancel or the ledgers.
Open(t) ==
  /\ pc[t] = "open"
  /\ \/ Goto(t, "chunk") /\ UNCHANGED result
     \/ Return(t, "error")
  /\ UNCHANGED <<holders, listed, state, flags, ledger, attempt, tail, api>>

\* yield_to_priority spins while this holds.
Yielding(t) == /\ priority[t] = 0
               /\ Positive(priority_running)
               /\ ~cancel[t]
               /\ ~pause[t]

\* A chunk boundary: an interruption ends the attempt, a running prioritised
\* transfer keeps an ordinary one here.
ChunkBoundary(t) ==
  /\ pc[t] = "chunk"
  /\ \/ /\ cancel[t] \/ pause[t]
        /\ Return(t, "interrupted")
     \/ /\ ~Yielding(t)
        /\ Goto(t, "io")
        /\ UNCHANGED result
  /\ UNCHANGED <<holders, listed, state, flags, ledger, attempt, tail, api>>

\* The data moves, or the connection or the disk fails.
Io(t) ==
  /\ pc[t] = "io"
  /\ \E r \in {"ok", "error"} : Return(t, r)
  /\ UNCHANGED <<holders, listed, state, flags, ledger, attempt, tail, api>>

\* drop(permit)
DropPermit(t) ==
  /\ pc[t] = "returned"
  /\ Give(t)
  /\ Goto(t, "classify")
  /\ UNCHANGED <<listed, state, flags, ledger, attempt, result, tail, api>>

\* The match on the result and QueueFlow::report.
Classify(t) ==
  /\ pc[t] = "classify"
  /\ result' = [result EXCEPT ![t] = "ok"]
  /\ \/ result[t] = "ok" /\ Finish(t, "Done")
     \/ result[t] # "ok" /\ cancel[t] /\ Finish(t, "Canceled")
     \/ /\ result[t] # "ok"
        /\ ~cancel[t]
        /\ pause[t]
        /\ Goto(t, "top")
        /\ UNCHANGED <<state, attempt, tail>>
     \/ /\ result[t] # "ok"
        /\ ~cancel[t]
        /\ ~pause[t]
        /\ \/ /\ attempt[t] + 1 > MaxRetries
              /\ Finish(t, "Failed")
           \/ /\ attempt[t] + 1 <= MaxRetries
              /\ InfoFree(t)
              /\ attempt' = [attempt EXCEPT ![t] = @ + 1]
              /\ Goto(t, "backoff")
              /\ UNCHANGED <<state, tail>>
  /\ UNCHANGED <<holders, listed, flags, ledger, api>>

\* RETRY_BACKOFF elapses.
Backoff(t) ==
  /\ pc[t] = "backoff"
  /\ Goto(t, "top")
  /\ UNCHANGED <<holders, listed, state, flags, ledger, attempt, result, tail, api>>

\* Mutant: a load in place of the swap.
RepayLoads(t) ==
  /\ tail[t] = "repay"
  /\ tail' = [tail EXCEPT ![t] = CASE priority[t] = 1 -> "sub1"
                                   [] priority[t] = 2 -> "sub2"
                                   [] OTHER -> "none"]
  /\ UNCHANGED <<holders, listed, state, flags, ledger, pc, attempt, result, api>>

\* repay_priority: the swap, then the subtraction from the ledger it names.
Repay(t) ==
  /\ tail[t] = "repay"
  /\ SetPriority(t, 0)
  /\ tail' = [tail EXCEPT ![t] = CASE priority[t] = 1 -> "sub1"
                                   [] priority[t] = 2 -> "sub2"
                                   [] OTHER -> "none"]
  /\ UNCHANGED <<holders, listed, state, flags, priority_waiting, priority_running,
                 pc, attempt, result, api>>

RepaySub(t) ==
  /\ \/ /\ tail[t] = "sub1"
        /\ priority_waiting' = priority_waiting - 1
        /\ UNCHANGED priority_running
     \/ /\ tail[t] = "sub2"
        /\ priority_running' = priority_running - 1
        /\ UNCHANGED priority_waiting
  /\ tail' = [tail EXCEPT ![t] = "none"]
  /\ UNCHANGED <<holders, listed, state, flags, priority, pc, attempt, result, api>>

RunnerStep(t) ==
  \/ Top(t) \/ PauseEdge(t) \/ PauseEdgeMove(t) \/ Unpause(t) \/ Gate(t) \/ GateMove(t)
  \/ Acquire(t) \/ Confirm(t) \/ Open(t) \/ ChunkBoundary(t) \/ Io(t) \/ DropPermit(t)
  \/ Classify(t) \/ Backoff(t)
TailStep(t) == Repay(t) \/ RepaySub(t)

-----------------------------------------------------------------------------
(* The commands.  One per transfer is in progress at a time. *)

\* enqueue: register, then spawn run_transfer.
Enqueue(t) ==
  /\ state[t] = "none"
  /\ listed' = listed \cup {t}
  /\ SetState(t, "Queued")
  /\ Spawn(t)
  /\ UNCHANGED <<holders, flags, ledger, api>>

Issue(t) == /\ t \in listed
            /\ command[t] = "none"
            /\ commands < MaxCommands
            /\ commands' = commands + 1

\* pause, and the iteration of pause_all for this transfer when it is live.
Pause(t) ==
  /\ Issue(t)
  /\ pause' = [pause EXCEPT ![t] = TRUE]
  /\ UNCHANGED <<holders, listed, state, cancel, ledger, runner, command>>

\* resume: clear the flag, then write Running.  resume_all does the same for
\* the transfers whose flag was set.
Resume(t) ==
  /\ Issue(t)
  /\ pause' = [pause EXCEPT ![t] = FALSE]
  /\ command' = [command EXCEPT ![t] = "resume"]
  /\ UNCHANGED <<holders, listed, state, cancel, ledger, runner>>

ResumeState(t) ==
  /\ command[t] = "resume"
  /\ SetState(t, "Running")
  /\ command' = [command EXCEPT ![t] = "none"]
  /\ UNCHANGED <<holders, listed, flags, ledger, runner, commands>>

Cancel(t) ==
  /\ Issue(t)
  /\ cancel' = [cancel EXCEPT ![t] = TRUE]
  /\ pause' = [pause EXCEPT ![t] = FALSE]
  /\ UNCHANGED <<holders, listed, state, ledger, runner, command>>

\* prioritize: the state decides the ledger; marking twice changes nothing;
\* a terminal transfer is refused.  The info mutex is held until the ledger
\* has been added to.
Prioritize(t) ==
  /\ Issue(t)
  /\ state[t] \in Live
  /\ priority[t] = 0
  /\ LET entry == IF state[t] = "Running" THEN 2 ELSE 1
     IN /\ SetPriority(t, entry)
        /\ command' = [command EXCEPT ![t] = IF entry = 2 THEN "add2" ELSE "add1"]
  /\ UNCHANGED <<holders, listed, state, flags, priority_waiting, priority_running, runner>>

PrioritizeAdd(t) ==
  /\ \/ /\ command[t] = "add1"
        /\ priority_waiting' = priority_waiting + 1
        /\ UNCHANGED priority_running
     \/ /\ command[t] = "add2"
        /\ priority_running' = priority_running + 1
        /\ UNCHANGED priority_waiting
  /\ command' = [command EXCEPT ![t] = "none"]
  /\ UNCHANGED <<holders, listed, state, flags, priority, runner, commands>>

\* Mutant: retry no longer checks the state.
RetryAnyState(t) ==
  /\ Issue(t)
  /\ SetState(t, "Queued")
  /\ command' = [command EXCEPT ![t] = "retry"]
  /\ UNCHANGED <<holders, listed, flags, ledger, runner>>

\* retry: a failed or cancelled transfer is queued again; the flags are reset
\* and the runner spawned after the info mutex is released.
Retry(t) ==
  /\ Issue(t)
  /\ state[t] \in {"Failed", "Canceled"}
  /\ SetState(t, "Queued")
  /\ command' = [command EXCEPT ![t] = "retry"]
  /\ UNCHANGED <<holders, listed, flags, ledger, runner>>

RetrySpawn(t) ==
  /\ command[t] = "retry"
  /\ pause' = [pause EXCEPT ![t] = FALSE]
  /\ cancel' = [cancel EXCEPT ![t] = FALSE]
  /\ Spawn(t)
  /\ command' = [command EXCEPT ![t] = "none"]
  /\ UNCHANGED <<holders, listed, state, ledger, commands>>

\* remove and clear_where: terminal transfers leave the registry.
Remove(t) ==
  /\ Issue(t)
  /\ state[t] \in Terminal
  /\ listed' = listed \ {t}
  /\ UNCHANGED <<holders, state, flags, ledger, runner, command>>

CommandStep(t) == ResumeState(t) \/ PrioritizeAdd(t) \/ RetrySpawn(t)
UserStep(t) == \/ Enqueue(t) \/ Pause(t) \/ Resume(t) \/ Cancel(t) \/ Prioritize(t)
               \/ Retry(t) \/ Remove(t)

Next == \E t \in Clients : RunnerStep(t) \/ TailStep(t) \/ CommandStep(t) \/ UserStep(t)

Spec == Init /\ [][Next]_vars

\* The runtime polls every ready task, a pause or gate spin re-reads its
\* condition every 200 ms, and a command that has begun runs to its end.  The
\* user owes nothing: no fairness on UserStep.
Fairness == \A t \in Clients : /\ WF_vars(RunnerStep(t))
                               /\ WF_vars(TailStep(t))
                               /\ WF_vars(CommandStep(t))

FairSpec == Spec /\ Fairness

-----------------------------------------------------------------------------
\* P1-8 of Executor::run: a permit is out exactly while an attempt is between
\* acquire and drop(permit), never in the pause spin, the gate, a backoff or
\* after the runner has gone, and no command leaks one.
PermitsOnlyInAttempts ==
  holders = {t \in Clients : pc[t] \in {"confirm", "open", "chunk", "io", "returned"}}

\* A prioritised entry is on its ledger except while some task is between its
\* CAS or swap and its fetch_add or fetch_sub: no interleaving of prioritize,
\* pause_edge, pre_permit_gate and repay_priority loses or doubles an entry.
Count(S) == Cardinality(S)
LedgersBalance ==
  /\ priority_waiting = Count({t \in Clients : priority[t] = 1})
                        - Count({t \in Clients : command[t] = "add1"})
                        - Count({t \in Clients : pc[t] = "edge_move"})
                        + Count({t \in Clients : pc[t] = "gate_move"})
                        + Count({t \in Clients : tail[t] = "sub1"})
  /\ priority_running = Count({t \in Clients : priority[t] = 2})
                        - Count({t \in Clients : command[t] = "add2"})
                        + Count({t \in Clients : pc[t] = "edge_move"})
                        - Count({t \in Clients : pc[t] = "gate_move"})
                        + Count({t \in Clients : tail[t] = "sub2"})

\* A transfer that is moving data is listed and shown as Running, so remove,
\* clear_where and retry refuse it: a file is never transferred by an entry the
\* user has removed, nor by two runners.
MovingIsRunning ==
  \A t \in Clients : pc[t] \in {"open", "chunk", "io", "returned"} =>
                       t \in listed /\ state[t] = "Running"

\* Both: what holds a permit or moves data is the one running attempt of its transfer.
AttemptsOwned == PermitsOnlyInAttempts /\ MovingIsRunning

\* Every transfer the user leaves running reaches an end, and a cancelled one
\* too, while nothing is prioritised: runners do not block one another for ever
\* (Executor::run, the gate, the permits and yield_to_priority together).
QueueDrains ==
  \A t \in Clients : (pc[t] # "exit" /\ ~pause[t])
                        ~> \/ pc[t] = "exit"
                           \/ pause[t]
                           \/ \E u \in Clients : priority[u] # 0

\* prioritize, "starts ahead of the ordinary transfers when a slot frees": a
\* prioritised transfer that is not paused gets through.
PriorityAdvances ==
  \A t \in Clients : (priority[t] # 0 /\ pc[t] # "exit" /\ ~pause[t])
                        ~> (pc[t] = "exit" \/ pause[t])
=============================================================================
