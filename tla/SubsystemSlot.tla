---------------------------- MODULE SubsystemSlot ----------------------------
(***************************************************************************)
(* The single-flight slot that owns an SFTP subsystem or a whole SFTP/exec *)
(* context: SubsystemSlot in crates/core-sftp/src/slot.rs, with the way    *)
(* its users call it (ensure_ctx and peek_ctx in crates/app/src/sftp.rs,   *)
(* ensure_exec_ctx in exec.rs).                                            *)
(*                                                                         *)
(* A client is named by its generation.  Each recovery is a task of its    *)
(* own with its own watch channel: task r is "idle" until it is spawned,   *)
(* then "probe" or "connect", and "done"; outcome[r] is what its    *)
(* channel holds (0: nothing yet, -1: an error, g: client g).              *)
(*                                                                         *)
(* A user is "idle"; "peeked" between ready() and invalidate(); "get" and  *)
(* "ensure" inside the two critical sections of get; "wait" on a channel;  *)
(* "use" with a client in hand.                                            *)
(***************************************************************************)
EXTENDS Integers, FiniteSets

CONSTANTS Users,          \* concurrent callers
          MaxRecoveries   \* bound: recoveries in a behaviour

ASSUME SlotConstants == /\ IsFiniteSet(Users)
                        /\ MaxRecoveries \in Nat

VARIABLES
  role,       \* what the slot was made for, once and for all:
              \* "context": an SFTP or exec context, whose transport may close; it
              \*   backs off after a failure
              \* "subsystem": one SFTP subsystem of a context; its users report
              \*   errors and the idle sweep empties it
  slot,       \* SlotState: [st, gen, rx], rx the recovery whose channel it carries
  suspect,
  seq,        \* the last generation given out
  task,       \* phase of each recovery
  probing,    \* the generation recovery r probes (0: none, it connects at once)
  outcome,
  spawned,    \* recoveries spawned so far
  elapsed,    \* the backoff window of Failed has passed
  user,       \* [pc, client, rx] of each user
  dead        \* generations whose transport has closed

vars == <<role, slot, suspect, seq, task, probing, outcome, spawned, elapsed, user, dead>>
tasks == <<task, probing, outcome, spawned>>

Recoveries == 1..MaxRecoveries
Generations == 1..MaxRecoveries
Empty == [st |-> "Empty", gen |-> 0, rx |-> 0]
Failed == [st |-> "Failed", gen |-> 0, rx |-> 0]
Ready(g) == [st |-> "Ready", gen |-> g, rx |-> 0]
Recovering(r) == [st |-> "Recovering", gen |-> 0, rx |-> r]
Idle == [pc |-> "idle", client |-> 0, rx |-> 0]

\* Every variable has its type; a slot holds a client only when Ready and a
\* channel only when Recovering.
TypeOK ==
  /\ role \in {"context", "subsystem"}
  /\ slot \in {Empty, Failed} \cup {Ready(g) : g \in Generations}
                 \cup {Recovering(r) : r \in Recoveries}
  /\ suspect \in BOOLEAN
  /\ seq \in 0..MaxRecoveries
  /\ task \in [Recoveries -> {"idle", "probe", "kept", "connect", "done"}]
  /\ probing \in [Recoveries -> 0..MaxRecoveries]
  /\ outcome \in [Recoveries -> -1..MaxRecoveries]
  /\ spawned \in 0..MaxRecoveries
  /\ elapsed \in BOOLEAN
  /\ user \in [Users -> [pc : {"idle", "peeked", "get", "ensure", "wait", "use"},
                         client : 0..MaxRecoveries, rx : 0..MaxRecoveries]]
  /\ dead \subseteq Generations

Init ==
  /\ role \in {"context", "subsystem"}
  /\ slot = Empty
  /\ suspect = FALSE
  /\ seq = 0
  /\ task = [r \in Recoveries |-> "idle"]
  /\ probing = [r \in Recoveries |-> 0]
  /\ outcome = [r \in Recoveries |-> 0]
  /\ spawned = 0
  /\ elapsed = FALSE
  /\ user = [u \in Users |-> Idle]
  /\ dead = {}

At(u, l) == user[u].pc = l
Goto(u, l) == user' = [user EXCEPT ![u].pc = l]
Use(u, g) == user' = [user EXCEPT ![u] = [pc |-> "use", client |-> g, rx |-> 0]]

-----------------------------------------------------------------------------
(* Callers. *)

\* ensure_ctx: ready() and is_closed(); a closed transport is to be invalidated.
Peek(u) ==
  /\ role = "context"
  /\ At(u, "idle")
  /\ Goto(u, IF slot.st = "Ready" /\ slot.gen \in dead THEN "peeked" ELSE "get")
  /\ UNCHANGED <<role, slot, suspect, seq, tasks, elapsed, dead>>

\* A caller that keeps its context asks its subsystem slot directly.
CallGet(u) ==
  /\ role = "subsystem"
  /\ At(u, "idle")
  /\ Goto(u, "get")
  /\ UNCHANGED <<role, slot, suspect, seq, tasks, elapsed, dead>>

\* invalidate(): Ready becomes Empty, whatever client it holds by now.
Invalidate == slot' = IF slot.st = "Ready" THEN Empty ELSE slot

\* ensure_ctx goes on to get, peek_ctx returns None.
PeekInvalidate(u) ==
  /\ At(u, "peeked")
  /\ Invalidate
  /\ Goto(u, "get") \/ Goto(u, "idle")
  /\ UNCHANGED <<role, suspect, seq, tasks, elapsed, dead>>

\* get(): the fast path under the lock.
Get(u) ==
  /\ At(u, "get")
  /\ IF slot.st = "Ready" /\ ~suspect
       THEN Use(u, slot.gen)
       ELSE Goto(u, "ensure")
  /\ UNCHANGED <<role, slot, suspect, seq, tasks, elapsed, dead>>

\* Mutant: the recovery is spawned before the state is changed, which is left to it.
RecoverUnlocked(u, old) ==
  LET r == spawned + 1
  IN /\ r \in Recoveries
     /\ spawned' = r
     /\ task' = [task EXCEPT ![r] = IF old # 0 THEN "probe" ELSE "connect"]
     /\ probing' = [probing EXCEPT ![r] = old]
     /\ user' = [user EXCEPT ![u] = [pc |-> "wait", client |-> 0, rx |-> r]]
     /\ UNCHANGED <<slot, outcome, elapsed>>

\* ensure(), Act::Recover: the change to Recovering and the spawn happen under
\* the lock.  A suspect client is probed first.
Recover(u, old) ==
  LET r == spawned + 1
  IN /\ r \in Recoveries
     /\ spawned' = r
     /\ slot' = Recovering(r)
     /\ task' = [task EXCEPT ![r] = IF old # 0 THEN "probe" ELSE "connect"]
     /\ probing' = [probing EXCEPT ![r] = old]
     /\ user' = [user EXCEPT ![u] = [pc |-> "wait", client |-> 0, rx |-> r]]
     /\ UNCHANGED <<outcome, elapsed>>

Ensure(u) ==
  /\ At(u, "ensure")
  /\ \/ /\ slot.st = "Ready" /\ ~suspect
        /\ Use(u, slot.gen)
        /\ UNCHANGED <<slot, tasks, elapsed>>
     \/ /\ slot.st = "Ready" /\ suspect
        /\ Recover(u, slot.gen)
     \/ /\ slot.st = "Empty" \/ (slot.st = "Failed" /\ elapsed)
        /\ Recover(u, 0)
     \/ /\ slot.st = "Failed" /\ ~elapsed
        /\ user' = [user EXCEPT ![u] = Idle]
        /\ UNCHANGED <<slot, tasks, elapsed>>
     \/ /\ slot.st = "Recovering"
        /\ user' = [user EXCEPT ![u] = [pc |-> "wait", client |-> 0, rx |-> slot.rx]]
        /\ UNCHANGED <<slot, tasks, elapsed>>
  /\ UNCHANGED <<role, suspect, seq, dead>>

\* Mutant: a waiter returns only with a client; a failed recovery is waited out.
WakeOnSuccess(u) ==
  /\ At(u, "wait")
  /\ outcome[user[u].rx] > 0
  /\ Use(u, outcome[user[u].rx])
  /\ UNCHANGED <<role, slot, suspect, seq, tasks, elapsed, dead>>

\* The channel has a value: the waiter returns with it.
Wake(u) ==
  /\ At(u, "wait")
  /\ outcome[user[u].rx] # 0
  /\ IF outcome[user[u].rx] > 0
       THEN Use(u, outcome[user[u].rx])
       ELSE user' = [user EXCEPT ![u] = Idle]
  /\ UNCHANGED <<role, slot, suspect, seq, tasks, elapsed, dead>>

\* The caller's future is dropped while it waits; the recovery is not its own.
WaiterCancelled(u) ==
  /\ At(u, "wait")
  /\ user' = [user EXCEPT ![u] = Idle]
  /\ UNCHANGED <<role, slot, suspect, seq, tasks, elapsed, dead>>

\* The operation ends; a failed one is reported with record_error.
UseDone(u, ok) ==
  /\ At(u, "use")
  /\ user' = [user EXCEPT ![u] = Idle]
  /\ ok \/ role = "subsystem"
  /\ suspect' = (suspect \/ ~ok)
  /\ UNCHANGED <<role, slot, seq, tasks, elapsed, dead>>

-----------------------------------------------------------------------------
(* The recovery task. *)

\* Mutant: the result of a failed recovery is not sent.
SettleSendsSuccess(r, state, result) ==
  /\ slot' = state
  /\ outcome' = [outcome EXCEPT ![r] = IF result > 0 THEN result ELSE @]
  /\ task' = [task EXCEPT ![r] = "done"]
  /\ elapsed' = FALSE

\* The task writes the final state and sends the result, under the lock.
Settle(r, state, result) ==
  /\ slot' = state
  /\ outcome' = [outcome EXCEPT ![r] = result]
  /\ task' = [task EXCEPT ![r] = "done"]
  /\ elapsed' = FALSE

ProbeFailed(r) ==
  /\ task[r] = "probe"
  /\ task' = [task EXCEPT ![r] = "connect"]
  /\ UNCHANGED <<role, slot, suspect, seq, probing, outcome, spawned, elapsed, user, dead>>

\* An open transport answers the probe.
ProbeOk(r) ==
  /\ task[r] = "probe"
  /\ probing[r] \notin dead
  /\ task' = [task EXCEPT ![r] = "kept"]
  /\ UNCHANGED <<role, slot, suspect, seq, probing, outcome, spawned, elapsed, user, dead>>

\* Done::Kept
Kept(r) ==
  /\ task[r] = "kept"
  /\ suspect' = FALSE
  /\ Settle(r, Ready(probing[r]), probing[r])
  /\ UNCHANGED <<role, seq, probing, spawned, user, dead>>

\* Mutant: the old generation number is reused for the new client.
FreshReusesOld(r) ==
  /\ task[r] = "connect"
  /\ suspect' = FALSE
  /\ seq' = seq + 1
  /\ LET g == IF probing[r] # 0 THEN probing[r] ELSE seq + 1
     IN Settle(r, Ready(g), g)
  /\ UNCHANGED <<role, probing, spawned, user, dead>>

\* Done::Fresh
Fresh(r) ==
  /\ task[r] = "connect"
  /\ suspect' = FALSE
  /\ seq' = seq + 1
  /\ Settle(r, Ready(seq + 1), seq + 1)
  /\ UNCHANGED <<role, probing, spawned, user, dead>>

\* Done::Failed
ConnectFailed(r) ==
  /\ task[r] = "connect"
  /\ Settle(r, IF role = "context" THEN Failed ELSE Empty, -1)
  /\ UNCHANGED <<role, suspect, seq, probing, spawned, user, dead>>

-----------------------------------------------------------------------------
(* The world: transports close, time passes, the idle sweep reclaims. *)

TransportCloses(g) ==
  /\ g <= seq
  /\ g \notin dead
  /\ dead' = dead \cup {g}
  /\ UNCHANGED <<role, slot, suspect, seq, tasks, elapsed, user>>

BackoffElapses ==
  /\ slot.st = "Failed"
  /\ ~elapsed
  /\ elapsed' = TRUE
  /\ UNCHANGED <<role, slot, suspect, seq, tasks, user, dead>>

\* sweep_loop: an idle subsystem is invalidated.
Sweep ==
  /\ role = "subsystem"
  /\ slot.st = "Ready"
  /\ Invalidate
  /\ UNCHANGED <<role, suspect, seq, tasks, elapsed, user, dead>>

CallerStep(u) == PeekInvalidate(u) \/ Get(u) \/ Ensure(u) \/ Wake(u)
TaskStep(r) == ProbeFailed(r) \/ ProbeOk(r) \/ Kept(r) \/ Fresh(r) \/ ConnectFailed(r)

Next ==
  \/ \E u \in Users : \/ Peek(u) \/ CallGet(u) \/ CallerStep(u) \/ WaiterCancelled(u)
                      \/ \E ok \in BOOLEAN : UseDone(u, ok)
  \/ \E r \in Recoveries : TaskStep(r)
  \/ \E g \in Generations : TransportCloses(g)
  \/ BackoffElapses
  \/ Sweep

Spec == Init /\ [][Next]_vars

\* Ready tasks are polled; a probe and a connection attempt end, with success
\* or by the transport's own timeouts.
Fairness == /\ \A u \in Users : WF_vars(CallerStep(u))
            /\ \A r \in Recoveries : WF_vars(TaskStep(r))

FairSpec == Spec /\ Fairness

-----------------------------------------------------------------------------
Active == {r \in Recoveries : task[r] \in {"probe", "kept", "connect"}}

\* Single flight (constraint C8 and the debug_assert in spawn_recover): a task
\* is recovering exactly while the slot says so, it is the only one, and it is
\* the one whose channel the slot hands to waiters.
SingleFlight == Active = (IF slot.st = "Recovering" THEN {slot.rx} ELSE {})

\* Generations do not cross: the client in the slot is the newest ever opened,
\* and a finished recovery never hands out a client newer than that.
ReadyIsNewest == /\ slot.st = "Ready" => slot.gen = seq
                 /\ \A r \in Recoveries : outcome[r] <= seq

\* Both: one recovery at a time, and what it brings is the newest there is.
FlightsInOrder == SingleFlight /\ ReadyIsNewest

\* No waiter is orphaned: each one waits on a channel that has its value or on
\* the recovery under way, whoever asked first and was cancelled.
WaitersHaveARecovery ==
  \A u \in Users : At(u, "wait") => outcome[user[u].rx] # 0 \/ user[u].rx \in Active

Served == \A u \in Users : ~At(u, "wait")
\* A caller waiting for a recovery gets its outcome.  (There are finitely many
\* recoveries, so this is "again and again nobody waits".)
WaiterServed == []<>Served
=============================================================================
