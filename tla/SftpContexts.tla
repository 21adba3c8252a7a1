---------------------------- MODULE SftpContexts ----------------------------
(***************************************************************************)
(* The SFTP contexts of the sessions (SftpManagerState,                    *)
(* crates/app/src/sftp.rs): a connection with its queue, made by the first *)
(* command that needs it, kept while something uses it, and reclaimed by   *)
(* the sweep when idle too long or when there are too many.                *)
(*                                                                         *)
(* A task stands for a command that takes a context and the transfer or    *)
(* the edit it leaves running there.  How a slot makes its context once    *)
(* for all who wait is SubsystemSlot's.                                    *)
(***************************************************************************)
EXTENDS Naturals, FiniteSets, FiniteSetsExt

CONSTANTS
  Sessions,
  Tasks,
  MaxSlots,           \* MAX_CTX_SLOTS
  MaxCtxs,            \* bound: contexts made
  MaxPauses

None == 0             \* ctxs has no slot for the session
Building == MaxCtxs + 1
Failed == MaxCtxs + 2 \* a slot whose context could not be made stays in the map
Ctxs == 1..MaxCtxs
Idle == 0..1          \* not used for longer than CTX_IDLE_TTL_MS: 1

VARIABLES
  slot,               \* ctxs: of a session, its slot's context
  made,               \* contexts made so far
  dead,               \* contexts whose connection closed
  idle,               \* how long a context was not used
  task,               \* of a task: where it is, its session, its context
  sweep,              \* sweep_loop: where it is, and its lists
  pauses,             \* bound: pauses left
  dropped,            \* history: contexts taken out of the map by something else
  late                \* history: tasks that began on a context the sweep had looked at

vars == <<slot, made, dead, idle, task, sweep, pauses, dropped, late>>

NoTask == [st |-> "none", s |-> CHOOSE s \in Sessions : TRUE, c |-> 0, gone |-> FALSE]
Asleep == [at |-> "sleep", todo |-> {}, victims |-> {}, lru |-> {}, busy |-> {}]

Init ==
  /\ slot = [s \in Sessions |-> None] /\ made = 0 /\ dead = {}
  /\ idle = [c \in Ctxs |-> 0] /\ task = [t \in Tasks |-> NoTask]
  /\ sweep = Asleep /\ pauses = MaxPauses /\ dropped = {} /\ late = {}

Ready(s) == slot[s] \in Ctxs
\* lease_count and active_transfers: a transfer that is paused is not counted.
Uses(c) == {t \in Tasks : task[t].c = c /\ task[t].st \in {"running", "editing"}}
Mapped == {s \in Sessions : slot[s] # None}
LockFree == sweep.at # "look"    \* the sweep holds the lock of ctxs while it looks

(***************************************************************************)
(* ensure_ctx, and what it was wanted for.                                 *)
(***************************************************************************)
\* The slot is found or made, and asked: a context that is ready is touched; one
\* whose connection closed is invalidated first.  Paused transfers come back this
\* way.
Ensure(t, s) ==
  /\ LockFree /\ task[t].st \in {"none", "paused"}
  /\ IF Ready(s) /\ slot[s] \notin dead
     THEN /\ task' = [task EXCEPT ![t] = [st |-> "held", s |-> s, c |-> slot[s], gone |-> FALSE]]
          /\ idle' = [idle EXCEPT ![slot[s]] = 0]
          /\ UNCHANGED <<slot, dropped>>
     ELSE /\ task' = [task EXCEPT ![t] = [st |-> "waiting", s |-> s, c |-> 0, gone |-> FALSE]]
          /\ slot' = [slot EXCEPT ![s] = Building] /\ dropped' = dropped \cup ({slot[s]} \cap Ctxs)
          /\ UNCHANGED idle
  /\ UNCHANGED <<made, dead, sweep, pauses, late>>
\* build_ctx ends, for the slot in the map or for one that was taken out: all who
\* wait for it have their answer.
Waiters(s, gone) == {t \in Tasks : task[t].st = "waiting" /\ task[t].s = s /\ task[t].gone = gone}
Answered(ts, st, c) == [t \in Tasks |-> IF t \in ts THEN [task[t] EXCEPT !.st = st, !.c = c, !.gone = FALSE] ELSE task[t]]
Built(s) ==
  /\ made < MaxCtxs /\ slot[s] = Building
  /\ made' = made + 1 /\ slot' = [slot EXCEPT ![s] = made + 1]
  /\ task' = Answered(Waiters(s, FALSE), "held", made + 1)
  /\ UNCHANGED <<dead, idle, sweep, pauses, dropped, late>>
BuiltApart(s) ==
  /\ made < MaxCtxs /\ Waiters(s, TRUE) # {}
  /\ made' = made + 1 /\ dropped' = dropped \cup {made + 1}
  /\ task' = Answered(Waiters(s, TRUE), "held", made + 1)
  /\ UNCHANGED <<slot, dead, idle, sweep, pauses, late>>
BuildFails(s) ==
  /\ slot[s] = Building /\ slot' = [slot EXCEPT ![s] = Failed]
  /\ task' = Answered(Waiters(s, FALSE), "over", 0)
  /\ UNCHANGED <<made, dead, idle, sweep, pauses, dropped, late>>

\* The command has asked the server what it needed, and enqueues: the lifecycle
\* callback leases the context.
Enqueue(t) ==
  LET c == task[t].c
  IN  /\ task[t].st = "held"
      /\ task' = [task EXCEPT ![t].st = "running"] /\ idle' = [idle EXCEPT ![c] = 0]
      /\ late' = IF slot[task[t].s] # c THEN late \cup {t} ELSE late
      /\ UNCHANGED <<slot, made, dead, sweep, pauses, dropped>>
\* transfer_lifecycle: a transfer that pauses or ends releases its lease; an edit
\* keeps one of its own.
Pause(t) ==
  /\ pauses > 0 /\ pauses' = pauses - 1
  /\ task[t].st = "running" /\ task' = [task EXCEPT ![t] = [NoTask EXCEPT !.st = "paused"]]
  /\ late' = late \ {t}
  /\ UNCHANGED <<slot, made, dead, idle, sweep, dropped>>
End(t) ==
  /\ task[t].st \in {"running", "editing"} /\ task' = [task EXCEPT ![t] = [NoTask EXCEPT !.st = "over"]]
  /\ late' = late \ {t}
  /\ UNCHANGED <<slot, made, dead, idle, sweep, pauses, dropped>>
Edit(t) ==
  /\ task[t].st = "running" /\ task' = [task EXCEPT ![t].st = "editing"]
  /\ idle' = [idle EXCEPT ![task[t].c] = 0]
  /\ UNCHANGED <<slot, made, dead, sweep, pauses, dropped, late>>

(***************************************************************************)
(* What takes a context away besides the sweep, and time.                  *)
(***************************************************************************)
Dies(c) ==
  /\ \E s \in Sessions : slot[s] = c
  /\ c \notin dead /\ dead' = dead \cup {c}
  /\ UNCHANGED <<slot, made, idle, task, sweep, pauses, dropped, late>>
\* peek_ctx, every tick of a subscription.
peek_ctx(s) ==
  /\ LockFree /\ slot[s] \in dead
  /\ slot' = [slot EXCEPT ![s] = Failed] /\ dropped' = dropped \cup {slot[s]}
  /\ UNCHANGED <<made, dead, idle, task, sweep, pauses, late>>
\* drop_ctx: the session was changed or deleted; who waits for the slot still does.
drop_ctx(s) ==
  /\ LockFree /\ slot[s] # None
  /\ slot' = [slot EXCEPT ![s] = None] /\ dropped' = dropped \cup ({slot[s]} \cap Ctxs)
  /\ task' = [t \in Tasks |-> IF t \in Waiters(s, FALSE) THEN [task[t] EXCEPT !.gone = TRUE] ELSE task[t]]
  /\ UNCHANGED <<made, dead, idle, sweep, pauses, late>>
Age(c) ==
  /\ \E s \in Sessions : slot[s] = c
  /\ idle[c] = 0 /\ idle' = [idle EXCEPT ![c] = 1]
  /\ UNCHANGED <<slot, made, dead, task, sweep, pauses, dropped, late>>

(***************************************************************************)
(* sweep_loop.                                                             *)
(***************************************************************************)
\* Mutant: only leases of edits are asked for.
sweep_decisionLeases(c) ==
  IF {t \in Uses(c) : task[t].st = "editing"} # {} THEN "keep"
  ELSE IF idle[c] = 1 THEN "reclaim" ELSE "keep"
sweep_decision(c) ==
  IF Uses(c) # {} THEN "keep"
  ELSE IF idle[c] = 1 THEN "reclaim" ELSE "keep"

SweepBegin ==
  /\ sweep.at = "sleep" /\ sweep' = [Asleep EXCEPT !.at = "look", !.todo = Mapped]
  /\ UNCHANGED <<slot, made, dead, idle, task, pauses, dropped, late>>
SweepLook(s) ==
  LET c == slot[s]
  IN  /\ sweep.at = "look" /\ s \in sweep.todo
      /\ sweep' = IF ~Ready(s) THEN [sweep EXCEPT !.todo = @ \ {s}]
                  ELSE [sweep EXCEPT
                          !.todo = @ \ {s},
                          !.victims = IF sweep_decision(c) = "reclaim" THEN @ \cup {s} ELSE @,
                          !.lru = IF Uses(c) = {} THEN @ \cup {<<s, idle[c]>>} ELSE @,
                          !.busy = @ \cup Uses(c)]
      /\ UNCHANGED <<slot, made, dead, idle, task, pauses, dropped, late>>

\* Mutant: one slot more than allowed is left.
LruLess(over) ==
  {k \in SUBSET sweep.lru : /\ Cardinality(k) = Min({Cardinality(sweep.lru), over - 1})
                            /\ \A x \in k, y \in sweep.lru \ k : x[2] >= y[2]}
\* The most idle of the candidates, as many as the slots are too many.
Lru(over) ==
  {k \in SUBSET sweep.lru : /\ Cardinality(k) = Min({Cardinality(sweep.lru), over})
                            /\ \A x \in k, y \in sweep.lru \ k : x[2] >= y[2]}
SweepRemove ==
  LET remaining == Cardinality(Mapped) - Cardinality(sweep.victims)
      over == IF remaining > MaxSlots THEN remaining - MaxSlots ELSE 0
  IN  /\ sweep.at = "look" /\ sweep.todo = {}
      /\ \E k \in IF over > 0 THEN Lru(over) ELSE {{}} :
           LET gone == sweep.victims \cup {x[1] : x \in k}
           IN  /\ slot' = [s \in Sessions |-> IF s \in gone THEN None ELSE slot[s]]
               /\ late' = late \cup ((UNION {Uses(slot[s]) : s \in gone}) \ sweep.busy)
      /\ sweep' = Asleep
      /\ UNCHANGED <<made, dead, idle, task, pauses, dropped>>
Sweep == SweepBegin \/ SweepRemove \/ \E s \in Sessions : SweepLook(s)
Next ==
  \/ Sweep
  \/ \E s \in Sessions : Built(s) \/ BuiltApart(s) \/ BuildFails(s) \/ peek_ctx(s) \/ drop_ctx(s)
  \/ \E t \in Tasks : Enqueue(t) \/ Pause(t) \/ End(t) \/ Edit(t)
  \/ \E t \in Tasks, s \in Sessions : Ensure(t, s)
  \/ \E c \in Ctxs : Dies(c) \/ Age(c)

Spec == Init /\ [][Next]_vars
\* The timer of the sweep.
FairSpec == Spec /\ WF_vars(Sweep)

(***************************************************************************)
(* Properties.                                                             *)
(***************************************************************************)
ContextTypeOK ==
  /\ slot \in [Sessions -> {None, Building, Failed} \cup Ctxs] /\ idle \in [Ctxs -> Idle]
  /\ \A s1, s2 \in Sessions : Ready(s1) /\ slot[s1] = slot[s2] => s1 = s2
  /\ \A t \in Tasks : task[t].st \in {"held", "running", "editing"} => task[t].c \in 1..made

\* A transfer that runs and a file that is edited are in a context of the map,
\* where the panel shows them and commands reach them: no sweep reclaims what is
\* in use.  Except when the use began after the sweep had looked at the context
\* (the sweep holds the map's lock, and no context's), or when the context was
\* dropped because the session changed or its connection closed.
UsedIsKept ==
  \A t \in Tasks : task[t].st \in {"running", "editing"} =>
     slot[task[t].s] = task[t].c \/ t \in late \/ task[t].c \in dropped

WithinLimit ==
  Cardinality(Mapped) <= MaxSlots \/ \A s \in Mapped : ~Ready(s) \/ Uses(slot[s]) # {}
\* Again and again there are no more slots than allowed, or each that can be
\* reclaimed is in use.
SlotsBounded == []<>WithinLimit
=============================================================================
