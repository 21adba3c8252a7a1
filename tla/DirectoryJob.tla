---------------------------- MODULE DirectoryJob ----------------------------
(***************************************************************************)
(* A directory transfer job: crates/core-sftp/src/job.rs on the execution  *)
(* skeleton Executor::run of crates/core-sftp/src/executor.rs.             *)
(*                                                                         *)
(* One job from submit to the exit of its last task.  Its tasks are the    *)
(* coordinator, which scans the tree and fills the ready queue, a list     *)
(* operation per directory, the workers, which transfer files, and, for a  *)
(* file in transfer, a watch task that carries pause and cancel over to    *)
(* its TransferInner.  They share atomics, two bounded channels and a      *)
(* Notify that only wakes who is already waiting (notify_waiters).         *)
(*                                                                         *)
(* Files of a directory are interchangeable and counted, not named; bytes  *)
(* are left out.  An upload scans like a download (its mkdir is one more   *)
(* way for the list operation to fail).                                    *)
(***************************************************************************)
EXTENDS Semaphore, Lists, Functions

CONSTANTS
  Dirs, Root,         \* the directories of the tree and its root
  Tree,               \* Tree[d]: the listing of d, [files, dirs, special]
  TooLong,            \* directories whose path exceeds MAX_PATH
  FrontierCap, ReadyCap, InFlightCap, MaxDepth,     \* SchedulerCaps
  MaxRetries,         \* DEFAULT_MAX_RETRIES
  Commands,           \* the commands the user may give
  MaxCommands         \* bound: commands in a behaviour

Workers == Clients

ASSUME JobConstants ==
  /\ IsFiniteSet(Dirs) /\ Root \in Dirs
  /\ Tree \in [Dirs -> [files : Nat, dirs : Seq(Dirs \ {Root}), special : Nat]]
  /\ {FrontierCap, ReadyCap, InFlightCap} \subseteq Nat \ {0}
  /\ {MaxDepth, MaxRetries, MaxCommands} \subseteq Nat

VARIABLES
  state,              \* JobInner.state
  emitted,            \* calls of on_job_terminal
  pause, cancel, scan_done, pending, active,        \* JobInner's atomics
  discovered, completed, failed, skipped,
  cpc, turn,          \* the coordinator and its index in place_held
  frontier, held, in_flight,                        \* Coordinator
  page,               \* the result channel
  op,                 \* the list operation of a directory
  ready, closed,      \* the ready channel: tasks in it, sender dropped
  wpc, attempt,       \* a worker and its local attempt
  watch,              \* the watch task of a worker's attempt
  tpause, tcancel,    \* TransferInner.pause, .cancel of that attempt
  command, commands,  \* a command between two of its steps; commands given
  fate,               \* history: what became of each directory
  gone, dropped       \* history: tasks reported Canceled, tasks dropped

jobVars == <<state, emitted>>
flags == <<pause, cancel>>
counts == <<discovered, completed, failed, skipped>>
coord == <<cpc, turn, frontier, held>>
scans == <<in_flight, page, op>>
queue == <<ready, closed>>
worker == <<wpc, attempt, watch, tpause, tcancel>>
api == <<command, commands>>
ends == <<gone, dropped>>
history == <<fate, ends>>
vars == <<holders, jobVars, flags, scan_done, pending, active, counts, coord, scans,
          queue, worker, api, history>>

Terminal == {"Completed", "Failed", "Canceled"}

\* A worker that has a task in hand.
InHand == {"resolve", "etop", "eregister", "easleep", "acquire", "io"}
WorkerPCs == InHand \cup {"done", "check", "register", "asleep", "torecv", "recv",
                          "woken", "settle", "leave", "exit"}

HeldFiles == SumFunction([i \in DOMAIN held |-> held[i].files])
TasksInHand == Cardinality({w \in Workers : wpc[w] \in InHand})

Depth[d \in Dirs] ==
  IF d = Root THEN 0
  ELSE 1 + Depth[CHOOSE p \in Dirs : d \in Range(Tree[p].dirs)]

Init ==
  /\ SemInit
  /\ state = "Scanning" /\ emitted = 0
  /\ pause = FALSE /\ cancel = FALSE /\ scan_done = FALSE
  /\ pending = 0 /\ active = 0
  /\ discovered = 0 /\ completed = 0 /\ failed = 0 /\ skipped = 0
  /\ cpc = "spawn" /\ turn = 1
  /\ frontier = <<Root>> /\ held = <<>> /\ in_flight = 0
  /\ page = <<>>
  /\ op = [d \in Dirs |-> "none"]
  /\ ready = 0 /\ closed = FALSE
  /\ wpc = [w \in Workers |-> "torecv"]
  /\ attempt = [w \in Workers |-> 0]
  /\ watch = [w \in Workers |-> "none"]
  /\ tpause = [w \in Workers |-> FALSE]
  /\ tcancel = [w \in Workers |-> FALSE]
  /\ command = "none" /\ commands = 0
  /\ fate = [d \in Dirs |-> "unseen"]
  /\ gone = 0 /\ dropped = 0

-----------------------------------------------------------------------------
(* Shared by coordinator and workers.  Steps between two awaits that no     *)
(* other task can tell apart are one action.                                *)

\* refresh_phase and then check_terminal, each under the state mutex: the
\* phase follows the counters, and once the scan is over and no task is left
\* the first caller to find a live state ends the job and reports it.
\* (JobInner.error is never set, so the Failed branch is not taken.)
NoTasks == pending = 0 /\ active = 0
Phase == IF ~scan_done THEN "Scanning" ELSE "Transferring"
Settle ==
  IF state \in Terminal THEN UNCHANGED jobVars
  ELSE IF scan_done /\ NoTasks THEN state' = "Completed" /\ emitted' = emitted + 1
  ELSE state' = Phase /\ UNCHANGED emitted

\* check_terminal alone.
CheckTerminal ==
  IF scan_done /\ NoTasks /\ state \notin Terminal
    THEN state' = "Completed" /\ emitted' = emitted + 1
    ELSE UNCHANGED jobVars

-----------------------------------------------------------------------------
(* The coordinator: Coordinator::run. *)

At(l) == cpc = l
CLeaves == UNCHANGED <<holders, flags, active, worker, api>>

\* Head of the loop: canceled, or place_held (from the first held result, if
\* there is one) and then new operations.
LoopHead(h) == IF cancel THEN "close" ELSE IF h = <<>> THEN "spawn" ELSE "place"

\* place_held on the result at turn.  Its dirs lane: while the frontier has room, the
\* next directory goes there, or is skipped when too deep or too long.
Refused(d) == Depth[d] > MaxDepth \/ d \in TooLong
CanPlaceDir == held[turn].dirs # <<>> /\ Len(frontier) < FrontierCap

PlaceDir ==
  /\ At("place") /\ CanPlaceDir
  /\ LET d == Head(held[turn].dirs)
     IN  IF Refused(d)
           THEN /\ skipped' = skipped + 1
                /\ fate' = [fate EXCEPT ![d] = "skipped"]
                /\ UNCHANGED frontier
           ELSE frontier' = Append(frontier, d) /\ UNCHANGED <<skipped, fate>>
  /\ held' = [held EXCEPT ![turn].dirs = Tail(@)]
  /\ CLeaves
  /\ UNCHANGED <<jobVars, scan_done, pending, discovered, completed, failed, cpc, turn, scans,
                 queue, ends>>

\* Then its files lane: a task goes to the ready channel, by try_send, while neither
\* paused nor canceled and while the channel takes it.
CanPlaceFile == held[turn].files > 0 /\ ~pause /\ ~cancel /\ ready < ReadyCap

PlaceFile ==
  /\ At("place") /\ ~CanPlaceDir /\ CanPlaceFile
  /\ ready' = ready + 1
  /\ held' = [held EXCEPT ![turn].files = @ - 1]
  /\ cpc' = "count"
  /\ CLeaves
  /\ UNCHANGED <<jobVars, scan_done, pending, counts, turn, frontier, scans, closed, history>>

\* Then the next result; one that has nothing left is removed.
Placed == held[turn].files = 0 /\ held[turn].dirs = <<>>
PlaceNext ==
  /\ At("place") /\ ~CanPlaceDir /\ ~CanPlaceFile
  /\ held' = IF Placed THEN Without(held, turn) ELSE held
  /\ LET next == IF Placed THEN turn ELSE turn + 1
     IN  IF next > Len(held') THEN cpc' = "spawn" /\ turn' = 1
                              ELSE UNCHANGED cpc /\ turn' = next
  /\ CLeaves
  /\ UNCHANGED <<jobVars, scan_done, pending, counts, frontier, scans, queue, history>>

Place == PlaceDir \/ PlaceFile \/ PlaceNext

\* pending.fetch_add comes after try_send: a worker may be done by now.
CountTask ==
  /\ At("count")
  /\ pending' = pending + 1
  /\ cpc' = "place"
  /\ CLeaves
  /\ UNCHANGED <<jobVars, scan_done, counts, turn, frontier, held, scans, queue, history>>

\* Scan over: nothing to scan, nothing to place, no operation under way and
\* none of their results still in the channel.
ScanOverEarly == frontier = <<>> /\ held = <<>> /\ in_flight = 0
ScanOver == frontier = <<>> /\ held = <<>> /\ in_flight = 0 /\ page = <<>>

Spawn ==
  /\ At("spawn")
  /\ IF in_flight < InFlightCap /\ frontier # <<>>
       THEN /\ frontier' = Tail(frontier)
            /\ in_flight' = in_flight + 1
            /\ op' = [op EXCEPT ![Head(frontier)] = "running"]
            /\ UNCHANGED cpc
       ELSE /\ cpc' = IF ScanOver THEN "close" ELSE "select"
            /\ UNCHANGED <<frontier, in_flight, op>>
  /\ CLeaves
  /\ UNCHANGED <<jobVars, scan_done, pending, counts, turn, held, page, queue, history>>

HeldNeverFull == FALSE
HeldFull == Len(held) >= InFlightCap
CanReceive == page # <<>> /\ ~HeldFull

\* The result of a list operation arrives.
Receive ==
  /\ At("select")
  /\ CanReceive
  /\ LET d == Head(page).dir
         l == Tree[d]
     IN  IF Head(page).ok
           THEN /\ skipped' = skipped + l.special
                /\ discovered' = discovered + l.files
                /\ held' = IF l.files > 0 \/ l.dirs # <<>>
                             THEN Append(held, [files |-> l.files, dirs |-> l.dirs])
                             ELSE held
                /\ fate' = [fate EXCEPT ![d] = "listed"]
                /\ UNCHANGED failed
           ELSE /\ failed' = failed + 1
                /\ fate' = [fate EXCEPT ![d] = "failed"]
                /\ UNCHANGED <<skipped, discovered, held>>
  /\ page' = Tail(page)
  /\ cpc' = LoopHead(held')
  /\ CLeaves
  /\ UNCHANGED <<jobVars, scan_done, pending, completed, turn, frontier, in_flight, op, queue, ends>>

\* A wake or the 50 ms poll, when there is no result to take.
Poll ==
  /\ At("select")
  /\ ~CanReceive
  /\ cpc' = LoopHead(held)
  /\ CLeaves
  /\ UNCHANGED <<jobVars, scan_done, pending, counts, turn, frontier, held, scans, queue, history>>

\* drop(ready_tx); page_rx goes with the coordinator, so later sends fail.
CloseReadyForgets ==
  /\ At("close")
  /\ cpc' = "mark"
  /\ CLeaves
  /\ UNCHANGED <<jobVars, scan_done, pending, counts, turn, frontier, held, scans, queue, history>>
CloseReady ==
  /\ At("close")
  /\ closed' = TRUE
  /\ cpc' = "mark"
  /\ CLeaves
  /\ UNCHANGED <<jobVars, scan_done, pending, counts, turn, frontier, held, scans, ready, history>>

MarkScanDone ==
  /\ At("mark")
  /\ scan_done' = TRUE
  /\ cpc' = "settle"
  /\ CLeaves
  /\ UNCHANGED <<jobVars, pending, counts, turn, frontier, held, scans, queue, history>>

CoordinatorSettle ==
  /\ At("settle")
  /\ Settle
  /\ cpc' = "exit"
  /\ CLeaves
  /\ UNCHANGED <<scan_done, pending, counts, turn, frontier, held, scans, queue, history>>

Coordinator == Place \/ CountTask \/ Spawn \/ Receive \/ Poll
                 \/ CloseReady \/ MarkScanDone \/ CoordinatorSettle

-----------------------------------------------------------------------------
(* A list operation: spawn_scan.  It sends one message and then gives its   *)
(* slot back.                                                               *)

OpLeaves == UNCHANGED <<holders, jobVars, flags, scan_done, pending, active, counts,
                        coord, queue, worker, api, history>>

OpScans(d) ==
  /\ op[d] = "running"
  /\ \E r \in {"listed", "failed"} : op' = [op EXCEPT ![d] = r]
  /\ OpLeaves /\ UNCHANGED <<in_flight, page>>

\* The coordinator owns page_rx: when it has exited the send fails at once.
OpSends(d) ==
  /\ op[d] \in {"listed", "failed"}
  /\ \/ /\ cpc # "exit"
        /\ Len(page) < InFlightCap
        /\ page' = Append(page, [dir |-> d, ok |-> op[d] = "listed"])
     \/ cpc = "exit" /\ UNCHANGED page
  /\ op' = [op EXCEPT ![d] = "sent"]
  /\ OpLeaves /\ UNCHANGED in_flight

OpReturnsSlot(d) ==
  /\ op[d] = "sent"
  /\ in_flight' = in_flight - 1
  /\ op' = [op EXCEPT ![d] = "done"]
  /\ OpLeaves /\ UNCHANGED page

Operation(d) == OpScans(d) \/ OpSends(d) \/ OpReturnsSlot(d)

-----------------------------------------------------------------------------
(* A worker: Worker::run, wait_unpaused, run_task and Executor::run.        *)

Goto(w, l) == wpc' = [wpc EXCEPT ![w] = l]
Is(w, l) == wpc[w] = l
WorkerLeaves == UNCHANGED <<flags, scan_done, coord, scans, closed, api, fate>>
AttemptUnchanged == UNCHANGED <<attempt, watch, tpause, tcancel>>

\* Head of Worker::run's loop, with the first look of wait_unpaused.
WorkerTop == IF cancel THEN "leave" ELSE IF pause THEN "register" ELSE "torecv"

\* wait_unpaused and the pause wait of Executor::run: after the look at the
\* flags the Notified future is made (register, eregister) and awaited
\* (asleep, easleep); notify_waiters reaches those asleep only.  check is
\* wait_unpaused's next look, after a wake.
PauseWait(w) ==
  /\ \/ Is(w, "register") /\ Goto(w, "asleep")
     \/ Is(w, "eregister") /\ Goto(w, "easleep")
     \/ Is(w, "check") /\ Goto(w, IF pause /\ ~cancel THEN "register" ELSE "torecv")
  /\ WorkerLeaves /\ AttemptUnchanged
  /\ UNCHANGED <<holders, jobVars, pending, active, counts, ready, ends>>

EnterSelect(w) ==
  /\ Is(w, "torecv")
  /\ Goto(w, "recv")
  /\ WorkerLeaves /\ AttemptUnchanged
  /\ UNCHANGED <<holders, jobVars, pending, active, counts, ready, ends>>

\* The select of Worker::run: a task (dropped without a report when the job
\* is canceled by now), the end of the queue, or a wake.
TakeTask(w) ==
  /\ wpc[w] \in {"recv", "woken"}
  /\ \/ /\ ready > 0
        /\ ready' = ready - 1
        /\ Goto(w, IF cancel THEN "leave" ELSE "resolve")
        /\ dropped' = IF cancel THEN dropped + 1 ELSE dropped
     \/ ready = 0 /\ closed /\ Goto(w, "leave") /\ UNCHANGED <<ready, dropped>>
     \/ Is(w, "woken") /\ Goto(w, WorkerTop) /\ UNCHANGED <<ready, dropped>>
  /\ WorkerLeaves /\ AttemptUnchanged
  /\ UNCHANGED <<holders, jobVars, pending, active, counts, gone>>

\* Conflict resolution: transfer it, skip it, or fail.
Resolve(w) ==
  /\ Is(w, "resolve")
  /\ \/ Goto(w, "etop") /\ UNCHANGED counts
     \/ Goto(w, "done") /\ skipped' = skipped + 1 /\ UNCHANGED <<discovered, completed, failed>>
     \/ Goto(w, "done") /\ failed' = failed + 1 /\ UNCHANGED <<discovered, completed, skipped>>
  /\ WorkerLeaves /\ AttemptUnchanged
  /\ UNCHANGED <<holders, jobVars, pending, active, ready, ends>>

\* Head of Executor::run's loop.
ExecTop(w) ==
  /\ Is(w, "etop")
  /\ IF cancel THEN Goto(w, "done") /\ gone' = gone + 1
     ELSE Goto(w, IF pause THEN "eregister" ELSE "acquire") /\ UNCHANGED gone
  /\ WorkerLeaves /\ AttemptUnchanged
  /\ UNCHANGED <<holders, jobVars, pending, active, counts, ready, dropped>>

\* A permit comes; the second look at the flags, which hands it back, or
\* JobFlow::prepare.
AcquirePermit(w) ==
  /\ Is(w, "acquire")
  /\ IF cancel \/ pause
       THEN /\ CanTake
            /\ Goto(w, "etop")
            /\ UNCHANGED <<holders, active, watch>>
       ELSE /\ Take(w)
            /\ Goto(w, "io")
            /\ active' = active + 1
            /\ watch' = [watch EXCEPT ![w] = "spawned"]
  /\ WorkerLeaves
  /\ UNCHANGED <<jobVars, pending, counts, attempt, tpause, tcancel, ready, ends>>

\* A raised bit of the TransferInner interrupts at the next chunk.
Outcomes(w) == IF tpause[w] \/ tcancel[w] THEN {"error"} ELSE {"ok", "error"}

\* attempt + 1 > max_retries
RetriesUsedUp(w) == attempt[w] >= MaxRetries

\* download_once / upload_once return, the permit is dropped, the result is
\* judged and reported; every way out drops the guard first.
Transferred(w) ==
  /\ Is(w, "io")
  /\ Give(w)
  /\ active' = active - 1
  /\ watch' = [watch EXCEPT ![w] = "none"]
  /\ tpause' = [tpause EXCEPT ![w] = FALSE]
  /\ tcancel' = [tcancel EXCEPT ![w] = FALSE]
  /\ \/ /\ "ok" \in Outcomes(w)
        /\ completed' = completed + 1 /\ Goto(w, "done")
        /\ UNCHANGED <<failed, attempt, gone>>
     \/ /\ cancel
        /\ gone' = gone + 1 /\ Goto(w, "done")
        /\ UNCHANGED <<completed, failed, attempt>>
     \/ /\ ~cancel /\ pause
        /\ Goto(w, "etop")
        /\ UNCHANGED <<completed, failed, attempt, gone>>
     \/ /\ ~cancel /\ ~pause
        /\ IF RetriesUsedUp(w)
             THEN failed' = failed + 1 /\ Goto(w, "done") /\ UNCHANGED attempt
             ELSE attempt' = [attempt EXCEPT ![w] = @ + 1] /\ Goto(w, "etop") /\ UNCHANGED failed
        /\ UNCHANGED <<completed, gone>>
  /\ WorkerLeaves
  /\ UNCHANGED <<jobVars, pending, discovered, skipped, ready, dropped>>

TaskDoneKeepsPending(w) ==
  /\ Is(w, "done")
  /\ attempt' = [attempt EXCEPT ![w] = 0]
  /\ Goto(w, "settle")
  /\ WorkerLeaves
  /\ UNCHANGED <<holders, jobVars, pending, active, counts, watch, tpause, tcancel, ready, ends>>
TaskDone(w) ==
  /\ Is(w, "done")
  /\ pending' = pending - 1
  /\ attempt' = [attempt EXCEPT ![w] = 0]
  /\ Goto(w, "settle")
  /\ WorkerLeaves
  /\ UNCHANGED <<holders, jobVars, active, counts, watch, tpause, tcancel, ready, ends>>

\* After a task, and once more on the way out.
WorkerSettle(w) ==
  /\ \/ Is(w, "settle") /\ Settle /\ Goto(w, WorkerTop)
     \/ Is(w, "leave") /\ CheckTerminal /\ Goto(w, "exit")
  /\ WorkerLeaves /\ AttemptUnchanged
  /\ UNCHANGED <<holders, pending, active, counts, ready, ends>>

Worker(w) ==
  \/ PauseWait(w) \/ EnterSelect(w) \/ TakeTask(w) \/ Resolve(w)
  \/ ExecTop(w) \/ AcquirePermit(w) \/ Transferred(w) \/ TaskDone(w) \/ WorkerSettle(w)

\* The watch task of an attempt: sleep, copy the job's flags, again.
Watch(w) ==
  /\ \/ /\ watch[w] = "spawned"
        /\ watch' = [watch EXCEPT ![w] = "asleep"]
        /\ UNCHANGED <<tpause, tcancel>>
     \/ /\ watch[w] = "woken"
        /\ tpause' = [tpause EXCEPT ![w] = pause]
        /\ tcancel' = [tcancel EXCEPT ![w] = cancel]
        /\ watch' = [watch EXCEPT ![w] = IF cancel THEN "none" ELSE "spawned"]
  /\ UNCHANGED <<holders, jobVars, flags, scan_done, pending, active, counts, coord,
                 scans, queue, wpc, attempt, api, history>>

-----------------------------------------------------------------------------
(* The commands pause, resume (and resume_all) and cancel.                  *)

ApiLeaves == UNCHANGED <<holders, scan_done, pending, active, counts, coord, scans, queue,
                         attempt, tpause, tcancel, history>>

Issue(c) == /\ command = "none"
            /\ c \in Commands
            /\ commands < MaxCommands
            /\ commands' = commands + 1

\* pause.store(true), and nobody is told.
Pause ==
  /\ Issue("pause")
  /\ pause' = TRUE
  /\ ApiLeaves /\ UNCHANGED <<jobVars, cancel, wpc, watch, command>>

Resume ==
  /\ Issue("resume")
  /\ pause' = FALSE
  /\ command' = "notify"
  /\ ApiLeaves /\ UNCHANGED <<jobVars, cancel, wpc, watch>>

Cancel ==
  /\ Issue("cancel")
  /\ state \notin Terminal
  /\ state' = "Canceled"
  /\ command' = "flags"
  /\ ApiLeaves /\ UNCHANGED <<emitted, flags, wpc, watch>>

CancelFlags ==
  /\ command = "flags"
  /\ cancel' = TRUE
  /\ pause' = FALSE
  /\ command' = "notify_emit"
  /\ ApiLeaves /\ UNCHANGED <<jobVars, wpc, watch, commands>>

\* wake.notify_waiters(); after a cancel, emit_job_terminal too.
NotifyWaiters ==
  /\ command \in {"notify", "notify_emit"}
  /\ wpc' = [w \in Workers |-> CASE wpc[w] = "asleep" -> "check"
                                 [] wpc[w] = "easleep" -> "etop"
                                 [] wpc[w] = "recv" -> "woken"
                                 [] OTHER -> wpc[w]]
  /\ watch' = [w \in Workers |-> IF watch[w] = "asleep" THEN "woken" ELSE watch[w]]
  /\ emitted' = IF command = "notify_emit" THEN emitted + 1 ELSE emitted
  /\ command' = "none"
  /\ ApiLeaves /\ UNCHANGED <<state, flags, commands>>

Command == Pause \/ Resume \/ Cancel \/ CancelFlags \/ NotifyWaiters

-----------------------------------------------------------------------------
Next ==
  \/ Coordinator
  \/ \E d \in Dirs : Operation(d)
  \/ \E w \in Workers : Worker(w) \/ Watch(w)
  \/ Command

Spec == Init /\ [][Next]_vars

\* Spawned tasks are scheduled; a remote operation and a transfer end.  Only
\* the coordinator can go round for ever, so the operations need no fairness
\* each, and neither do the workers.
FairSpec ==
  /\ Spec
  /\ WF_vars(Coordinator)
  /\ WF_vars(\E d \in Dirs : Operation(d))
  /\ WF_vars(\E w \in Workers : Worker(w))
  /\ WF_vars(CancelFlags \/ NotifyWaiters)

-----------------------------------------------------------------------------
(* Properties. *)

\* Every variable has its type.
JobTypeOK ==
  /\ holders \subseteq Workers
  /\ state \in Terminal \cup {"Scanning", "Transferring"}
  /\ emitted \in Nat
  /\ {pause, cancel, scan_done, closed} \subseteq BOOLEAN
  /\ pending \in Int /\ active \in 0..Cardinality(Workers)
  /\ {discovered, completed, failed, skipped, gone, dropped} \subseteq Nat
  /\ op \in [Dirs -> {"none", "running", "listed", "failed", "sent", "done"}]
  /\ wpc \in [Workers -> WorkerPCs]
  /\ attempt \in [Workers -> 0..MaxRetries]
  /\ watch \in [Workers -> {"none", "spawned", "asleep", "woken"}]
  /\ fate \in [Dirs -> {"unseen", "listed", "failed", "skipped"}]

\* Memory of a job is bounded by the caps of SchedulerCaps, however large the
\* tree: the frontier, the held results, the result channel, the operations
\* under way and the ready queue (module header of job.rs, C2).
QueuesBounded ==
  /\ Len(frontier) <= FrontierCap
  /\ Len(held) <= InFlightCap
  /\ Len(page) <= InFlightCap
  /\ in_flight \in 0..InFlightCap
  /\ ready \in 0..ReadyCap

DirsWith(f) == Cardinality({d \in Dirs : fate[d] = f})
Specials == SumFunctionOnSet([d \in Dirs |-> Tree[d].special], {d \in Dirs : fate[d] = "listed"})

\* No file is lost and none is counted twice, whatever pauses, retries and
\* cancels interleave: a discovered file is waiting in a held result or in
\* the ready queue, in a worker's hands, or in exactly one of the counters the
\* snapshot shows.
FilesAccounted ==
  discovered = HeldFiles + ready + TasksInHand + completed + gone + dropped
                 + (failed - DirsWith("failed"))
                 + (skipped - DirsWith("skipped") - Specials)

\* The two counters check_terminal relies on: pending counts the tasks not yet settled,
\* short of the one that try_send has just handed over, and active the attempts under
\* way, each of which holds a permit.
WorkCounted ==
  /\ pending = ready + TasksInHand + Cardinality({w \in Workers : Is(w, "done")})
                 - (IF cpc = "count" THEN 1 ELSE 0)
                 + dropped
  /\ active = Cardinality(holders) /\ holders = {w \in Workers : Is(w, "io")}

\* All of them: nothing is lost and nothing piles up.
JobAccounted == JobTypeOK /\ QueuesBounded /\ FilesAccounted /\ WorkCounted

\* A job that says Completed is: every directory below a listed one was
\* listed, failed or skipped, no result is in flight, and every discovered
\* file was transferred, failed or skipped (check_terminal, the two-fold end
\* test of Coordinator::run).
CompletedIsComplete ==
  state = "Completed" =>
    /\ fate[Root] \in {"listed", "failed"}
    /\ \A d \in Dirs : fate[d] = "listed" =>
         \A c \in Range(Tree[d].dirs) : fate[c] # "unseen"
    /\ held = <<>> /\ ready = 0 /\ TasksInHand = 0 /\ gone + dropped = 0

\* A job ends once: its terminal state never changes, and on_job_terminal is
\* called for it at most once, though coordinator, workers and cancel race to
\* end it.
EndsOnce == [][/\ state \in Terminal => state' = state
               /\ emitted' <= 1]_vars

Ended == /\ cpc = "exit"
         /\ \A w \in Workers : wpc[w] = "exit"
         /\ \A d \in Dirs : op[d] \in {"none", "done"}
         /\ state \in Terminal

\* A job that nobody pauses comes to its end, canceled or not, and leaves no
\* task behind: coordinator, operations and workers do not wait for each
\* other in a circle (C2).
UnpausedJobEnds == []~pause => <>[]Ended
=============================================================================
