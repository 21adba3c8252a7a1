---------------------------- MODULE SftpProofs ------------------------------
(***************************************************************************)
(* Single flight and the order of generations in a slot, the contexts the  *)
(* sweep leaves alone, and the pooled connections and tunnels that follow  *)
(* the session table: for any number of callers, recoveries, sessions,     *)
(* tasks and commands.                                                     *)
(***************************************************************************)
EXTENDS Sftp, Followers, Sequences, TLAPS

\* The channels and the tasks: a recovery that was spawned is active until it has
\* sent its value, and every number up to spawned was spawned.
TasksOK ==
  \A r \in Recoveries :
     /\ task[r] = "idle" <=> r > spawned
     /\ task[r] = "done" <=> outcome[r] # 0
     /\ task[r] \in {"probe", "kept"} => probing[r] = seq /\ seq > 0

\* Every generation came out of a recovery that is over.
SeqCounted == IF slot.st = "Recovering" THEN seq < spawned ELSE seq <= spawned

\* A caller waits on a channel that exists.
WaitersOK == \A u \in Users : At(u, "wait") => user[u].rx \in 1..spawned

\* The inductive invariant.
SlotInv == TypeOK /\ SingleFlight /\ ReadyIsNewest /\ TasksOK /\ SeqCounted /\ WaitersOK

-----------------------------------------------------------------------------
LEMMA SlotInit == Init => SlotInv
<1> SUFFICES ASSUME Init PROVE SlotInv
  BY Zenon
<1> USE SlotConstants DEF Init, Recoveries
<1>1. TypeOK
  <2>1. suspect \in BOOLEAN /\ elapsed \in BOOLEAN
    BY Zenon
  <2>2. /\ seq \in 0..MaxRecoveries /\ spawned \in 0..MaxRecoveries
        /\ task \in [Recoveries -> {"idle", "probe", "kept", "connect", "done"}]
        /\ probing \in [Recoveries -> 0..MaxRecoveries]
        /\ outcome \in [Recoveries -> -1..MaxRecoveries]
    OBVIOUS
  <2>3. user \in [Users -> [pc : {"idle", "peeked", "get", "ensure", "wait", "use"},
                           client : 0..MaxRecoveries, rx : 0..MaxRecoveries]]
    BY DEF Idle
  <2>. QED
    BY <2>1, <2>2, <2>3, Zenon DEF TypeOK
<1>2. SingleFlight
  BY Zenon DEF SingleFlight, Active, Empty
<1>3. ReadyIsNewest /\ SeqCounted
  BY DEF ReadyIsNewest, SeqCounted, Empty
<1>4. TasksOK /\ WaitersOK
  BY DEF TasksOK, WaitersOK, At, Idle
<1>. QED
  BY <1>1, <1>2, <1>3, <1>4, Zenon DEF SlotInv

\* What a caller does without touching the slot.
LEMMA UserStep ==
  ASSUME SlotInv, NEW u \in Users,
         UNCHANGED <<role, slot, seq, tasks, elapsed, dead>>, suspect' \in BOOLEAN,
         NEW rec \in [pc : {"idle", "peeked", "get", "ensure", "wait", "use"},
                      client : 0..MaxRecoveries, rx : 0..MaxRecoveries],
         user' = [user EXCEPT ![u] = rec],
         rec.pc = "wait" => rec.rx \in 1..spawned
  PROVE  SlotInv'
<1>1. TypeOK'
  BY Zenon DEF SlotInv, TypeOK, tasks
<1>2. SingleFlight' /\ ReadyIsNewest' /\ TasksOK' /\ SeqCounted'
  BY Zenon DEF SlotInv, SingleFlight, Active, ReadyIsNewest, TasksOK, SeqCounted, tasks
<1>3. WaitersOK'
  BY Zenon DEF SlotInv, TypeOK, WaitersOK, At, tasks
<1>. QED
  BY <1>1, <1>2, <1>3, Zenon DEF SlotInv

LEMMA CallersStep ==
  ASSUME SlotInv, NEW u \in Users,
         \/ Peek(u) \/ CallGet(u) \/ Get(u) \/ Wake(u) \/ WaiterCancelled(u)
         \/ \E ok \in BOOLEAN : UseDone(u, ok)
  PROVE  SlotInv'
<1> DEFINE Users1 == [pc : {"idle", "peeked", "get", "ensure", "wait", "use"},
                      client : 0..MaxRecoveries, rx : 0..MaxRecoveries]
<1> USE SlotConstants
<1>0. user[u] \in Users1 /\ Idle \in Users1 /\ suspect \in BOOLEAN
  BY DEF SlotInv, TypeOK, Idle
<1>1. \A l \in {"peeked", "get", "ensure"} :
         Goto(u, l) => \E rec \in Users1 : user' = [user EXCEPT ![u] = rec] /\ rec.pc # "wait"
  <2> SUFFICES ASSUME NEW l \in {"peeked", "get", "ensure"}, Goto(u, l)
               PROVE  \E rec \in Users1 : user' = [user EXCEPT ![u] = rec] /\ rec.pc # "wait"
    BY Zenon
  <2>1. [user[u] EXCEPT !.pc = l] \in Users1 /\ [user[u] EXCEPT !.pc = l].pc # "wait"
    BY <1>0, Zenon
  <2>2. user' = [user EXCEPT ![u] = [user[u] EXCEPT !.pc = l]]
    BY Zenon DEF Goto
  <2>. QED
    BY <2>1, <2>2, Zenon
<1>2. \A g \in 0..MaxRecoveries :
         Use(u, g) => \E rec \in Users1 : user' = [user EXCEPT ![u] = rec] /\ rec.pc # "wait"
  <2> SUFFICES ASSUME NEW g \in 0..MaxRecoveries, Use(u, g)
               PROVE  \E rec \in Users1 : user' = [user EXCEPT ![u] = rec] /\ rec.pc # "wait"
    BY Zenon
  <2>1. [pc |-> "use", client |-> g, rx |-> 0] \in Users1
    OBVIOUS
  <2>. QED
    BY <2>1, Zenon DEF Use
<1>3. user' = [user EXCEPT ![u] = Idle] =>
         \E rec \in Users1 : user' = [user EXCEPT ![u] = rec] /\ rec.pc # "wait"
  BY <1>0, Zenon DEF Idle
<1>4. slot.st = "Ready" => slot.gen \in 0..MaxRecoveries
  BY DEF SlotInv, TypeOK, Empty, Failed, Ready, Recovering, Generations
<1>5. CASE Peek(u) \/ CallGet(u)
  BY <1>5, <1>0, <1>1, UserStep, Zenon DEF Peek, CallGet
<1>6. CASE Get(u)
  BY <1>6, <1>0, <1>1, <1>2, <1>4, UserStep, Zenon DEF Get
<1>7. CASE Wake(u)
  <2>1. outcome[user[u].rx] > 0 => outcome[user[u].rx] \in 0..MaxRecoveries
    BY <1>7, SMTT(30) DEF SlotInv, TypeOK, WaitersOK, Wake, Recoveries
  <2>. QED
    BY <1>7, <2>1, <1>0, <1>2, <1>3, UserStep, Zenon DEF Wake
<1>8. CASE WaiterCancelled(u)
  BY <1>8, <1>0, <1>3, UserStep, Zenon DEF WaiterCancelled
<1>9. CASE \E ok \in BOOLEAN : UseDone(u, ok)
  <2>1. suspect' \in BOOLEAN
    BY <1>9, Zenon DEF UseDone
  <2>. QED
    BY <1>9, <2>1, <1>3, UserStep, Zenon DEF UseDone
<1>. QED
  BY <1>5, <1>6, <1>7, <1>8, <1>9, Zenon

\* invalidate() only ever takes a client out.
LEMMA InvalidateStep ==
  ASSUME SlotInv, Invalidate, UNCHANGED <<role, suspect, seq, tasks, elapsed, dead>>,
         \/ UNCHANGED user
         \/ \E u \in Users : Goto(u, "get") \/ Goto(u, "idle")
  PROVE  SlotInv'
<1> USE SlotConstants DEF SlotInv, Invalidate, tasks
<1>1. TypeOK'
  <2>1. user' \in [Users -> [pc : {"idle", "peeked", "get", "ensure", "wait", "use"},
                             client : 0..MaxRecoveries, rx : 0..MaxRecoveries]]
    BY DEF TypeOK, Goto
  <2>2. slot' = slot \/ slot' = Empty
    BY Zenon
  <2>. QED
    BY <2>1, <2>2, Zenon DEF TypeOK
<1>2. SingleFlight' /\ SeqCounted' /\ ReadyIsNewest'
  BY Zenon DEF SingleFlight, Active, SeqCounted, ReadyIsNewest, Empty
<1>3. TasksOK' /\ WaitersOK'
  BY DEF TypeOK, TasksOK, WaitersOK, At, Goto
<1>. QED
  BY <1>1, <1>2, <1>3, Zenon

\* The slot that is Ready, Empty or Failed has no recovery; it gets one.
LEMMA RecoverStep ==
  ASSUME SlotInv, NEW u \in Users, NEW old \in 0..MaxRecoveries,
         slot.st # "Recovering", old # 0 => slot.st = "Ready" /\ old = slot.gen,
         Recover(u, old), UNCHANGED <<role, suspect, seq, dead>>
  PROVE  SlotInv'
<1> DEFINE r == spawned + 1
<1> USE SlotConstants DEF SlotInv, Recover
<1>1. r \in Recoveries /\ task[r] = "idle" /\ outcome[r] = 0
  BY DEF TypeOK, TasksOK, Recoveries
<1>2. TypeOK'
  <2>1. task' \in [Recoveries -> {"idle", "probe", "kept", "connect", "done"}]
    BY Zenon DEF TypeOK
  <2>2. user' \in [Users -> [pc : {"idle", "peeked", "get", "ensure", "wait", "use"},
                             client : 0..MaxRecoveries, rx : 0..MaxRecoveries]]
    BY <1>1 DEF TypeOK, Recoveries
  <2>3. slot' \in {Recovering(q) : q \in Recoveries}
    BY <1>1, Zenon
  <2>4. probing' \in [Recoveries -> 0..MaxRecoveries] /\ spawned' \in 0..MaxRecoveries
    BY <1>1, SMTT(30) DEF TypeOK, Recoveries
  <2>. QED
    BY <2>1, <2>2, <2>3, <2>4, Zenon DEF TypeOK
<1>3. SingleFlight'
  <2>1. Active = {}
    BY Zenon DEF SingleFlight
  <2>2. Active' = {r}
    BY <1>1, <2>1, Zenon DEF Active, TypeOK
  <2>. QED
    BY <2>2, Zenon DEF SingleFlight, Recovering
<1>4. ReadyIsNewest' /\ SeqCounted'
  BY DEF ReadyIsNewest, SeqCounted, Recovering, TypeOK
<1>5. TasksOK'
  <2>1. old # 0 => old = seq /\ seq > 0
    BY DEF ReadyIsNewest, TypeOK
  <2>2. ASSUME NEW q \in Recoveries
        PROVE  /\ task'[q] = "idle" <=> q > spawned'
               /\ task'[q] = "done" <=> outcome'[q] # 0
               /\ task'[q] \in {"probe", "kept"} => probing'[q] = seq' /\ seq' > 0
    <3>1. CASE q = r
      BY <3>1, <2>1, <1>1 DEF TypeOK, Recoveries
    <3>2. CASE q # r
      BY <3>2, <1>1, SMTT(30) DEF TypeOK, TasksOK, Recoveries
    <3>. QED
      BY <3>1, <3>2, Zenon
  <2>. QED
    BY <2>2, Zenon DEF TasksOK
<1>6. WaitersOK'
  BY <1>1, SMTT(30) DEF WaitersOK, At, TypeOK, Recoveries
<1>. QED
  BY <1>2, <1>3, <1>4, <1>5, <1>6, Zenon

LEMMA EnsureStep ==
  ASSUME SlotInv, NEW u \in Users, Ensure(u)
  PROVE  SlotInv'
<1> DEFINE Users1 == [pc : {"idle", "peeked", "get", "ensure", "wait", "use"},
                      client : 0..MaxRecoveries, rx : 0..MaxRecoveries]
<1> USE SlotConstants
<1>1. slot.st = "Ready" => slot.gen \in 0..MaxRecoveries
  BY DEF SlotInv, TypeOK, Empty, Failed, Ready, Recovering, Generations
<1>2. slot.st = "Recovering" => slot.rx \in 1..spawned /\ slot.rx \in 0..MaxRecoveries
  <2> SUFFICES ASSUME slot.st = "Recovering"
               PROVE  slot.rx \in 1..spawned /\ slot.rx \in 0..MaxRecoveries
    BY Zenon
  <2>1. slot.rx \in Active
    BY Zenon DEF SlotInv, SingleFlight
  <2>2. slot.rx \in Recoveries /\ task[slot.rx] # "idle"
    BY <2>1, Zenon DEF Active
  <2>3. ~(slot.rx > spawned) /\ spawned \in Nat
    BY <2>2 DEF SlotInv, TasksOK, TypeOK
  <2>. QED
    BY <2>2, <2>3 DEF Recoveries
<1>3. suspect \in BOOLEAN
  BY Zenon DEF SlotInv, TypeOK
<1>4. CASE slot.st = "Ready" /\ suspect /\ Recover(u, slot.gen)
  BY <1>4, <1>1, RecoverStep, Zenon DEF Ensure
<1>5. CASE (slot.st = "Empty" \/ slot.st = "Failed") /\ Recover(u, 0)
  BY <1>5, RecoverStep DEF Ensure
<1>6. CASE slot.st = "Ready" /\ Use(u, slot.gen) /\ UNCHANGED <<slot, tasks, elapsed>>
  <2>1. [pc |-> "use", client |-> slot.gen, rx |-> 0] \in Users1
    BY <1>1, <1>6
  <2>2. UNCHANGED <<role, slot, seq, tasks, elapsed, dead>> /\ suspect' \in BOOLEAN
    BY <1>3, <1>6, Zenon DEF Ensure
  <2>3. user' = [user EXCEPT ![u] = [pc |-> "use", client |-> slot.gen, rx |-> 0]]
    BY <1>6, Zenon DEF Use
  <2>. QED
    BY <2>1, <2>2, <2>3, UserStep, Zenon
<1>7. CASE user' = [user EXCEPT ![u] = Idle] /\ UNCHANGED <<slot, tasks, elapsed>>
  <2>1. Idle \in Users1 /\ Idle.pc # "wait"
    BY DEF Idle
  <2>. QED
    BY <1>3, <1>7, <2>1, UserStep, Zenon DEF Ensure
<1>8. CASE /\ slot.st = "Recovering" /\ UNCHANGED <<slot, tasks, elapsed>>
           /\ user' = [user EXCEPT ![u] = [pc |-> "wait", client |-> 0, rx |-> slot.rx]]
  <2>1. [pc |-> "wait", client |-> 0, rx |-> slot.rx] \in Users1
    BY <1>2, <1>8
  <2>. QED
    BY <1>2, <1>3, <1>8, <2>1, UserStep, Zenon DEF Ensure
<1>. QED
  BY <1>4, <1>5, <1>6, <1>7, <1>8, Zenon DEF Ensure

\* The recovery under way settles: the slot takes what it found, its channel has a
\* value, and nothing is recovering.
LEMMA SettleStep ==
  ASSUME SlotInv, NEW r \in Recoveries, NEW state, NEW result \in -1..MaxRecoveries,
         Settle(r, state, result), task[r] \in {"probe", "kept", "connect"},
         UNCHANGED <<role, probing, spawned, user, dead>>, suspect' \in BOOLEAN,
         seq' \in Nat, seq <= seq', seq' <= seq + 1, result # 0, result <= seq',
         state \in {Empty, Failed} \/ (result > 0 /\ state = Ready(result) /\ result = seq')
  PROVE  SlotInv'
<1> USE SlotConstants DEF SlotInv, Settle
<1>0. slot.st = "Recovering" /\ slot.rx = r /\ Active = {r}
  BY Zenon DEF SingleFlight, Active
<1>1. seq' \in 0..MaxRecoveries /\ seq' <= spawned
  BY <1>0 DEF SeqCounted, TypeOK
<1>2. state.st # "Recovering" /\ (state.st = "Ready" => state.gen = seq')
  BY DEF Empty, Failed, Ready
<1>3. TypeOK'
  <2>1. slot' \in {Empty, Failed} \cup {Ready(g) : g \in Generations}
    BY DEF Generations
  <2>2. task' \in [Recoveries -> {"idle", "probe", "kept", "connect", "done"}]
    BY Zenon DEF TypeOK
  <2>3. outcome' \in [Recoveries -> -1..MaxRecoveries] /\ elapsed' \in BOOLEAN
    BY Zenon DEF TypeOK
  <2>. QED
    BY <1>1, <2>1, <2>2, <2>3, Zenon DEF TypeOK
<1>4. Active' = {}
  BY <1>0, Zenon DEF Active, TypeOK
<1>5. SingleFlight' /\ SeqCounted'
  BY <1>1, <1>2, <1>4, Zenon DEF SingleFlight, SeqCounted
<1>6. ReadyIsNewest'
  BY <1>1, <1>2 DEF ReadyIsNewest, TypeOK
<1>7. TasksOK'
  <2>1. ASSUME NEW q \in Recoveries
        PROVE  /\ task'[q] = "idle" <=> q > spawned'
               /\ task'[q] = "done" <=> outcome'[q] # 0
               /\ task'[q] \notin {"probe", "kept"}
    BY <1>0, <1>4, Zenon DEF TasksOK, TypeOK, Active
  <2>. QED
    BY <2>1, Zenon DEF TasksOK
<1>8. WaitersOK'
  BY Zenon DEF WaitersOK, At
<1>. QED
  BY <1>3, <1>5, <1>6, <1>7, <1>8, Zenon

LEMMA TasksStep ==
  ASSUME SlotInv, NEW r \in Recoveries, TaskStep(r)
  PROVE  SlotInv'
<1> USE SlotConstants
<1>1. CASE ProbeFailed(r) \/ ProbeOk(r)
  <2>1. TypeOK'
    BY <1>1, Zenon DEF SlotInv, TypeOK, ProbeFailed, ProbeOk
  <2>2. Active' = Active
    BY <1>1, Zenon DEF SlotInv, TypeOK, ProbeFailed, ProbeOk, Active
  <2>3. SingleFlight' /\ ReadyIsNewest' /\ SeqCounted' /\ WaitersOK'
    BY <1>1, <2>2, Zenon DEF SlotInv, SingleFlight, ReadyIsNewest, SeqCounted, WaitersOK, At, ProbeFailed, ProbeOk
  <2>4. TasksOK'
    BY <1>1 DEF SlotInv, TypeOK, TasksOK, ProbeFailed, ProbeOk
  <2>. QED
    BY <2>1, <2>3, <2>4, Zenon DEF SlotInv
<1>2. CASE Kept(r)
  <2>1. probing[r] = seq /\ seq > 0 /\ seq \in -1..MaxRecoveries
    BY <1>2 DEF SlotInv, TypeOK, TasksOK, Kept
  <2>2. suspect' \in BOOLEAN
    BY <1>2, Zenon DEF Kept
  <2>. QED
    BY <1>2, <2>1, <2>2, SettleStep, SMTT(30) DEF Kept
<1>3. CASE Fresh(r)
  <2>1. seq \in Nat /\ seq + 1 \in -1..MaxRecoveries
    <3>1. slot.st = "Recovering"
      BY <1>3, Zenon DEF SlotInv, SingleFlight, Active, Fresh
    <3>. QED
      BY <3>1 DEF SlotInv, TypeOK, SeqCounted
  <2>2. suspect' \in BOOLEAN
    BY <1>3, Zenon DEF Fresh
  <2>. QED
    BY <1>3, <2>1, <2>2, SettleStep DEF Fresh
<1>4. CASE ConnectFailed(r)
  <2>1. suspect' \in BOOLEAN
    BY <1>4, Zenon DEF SlotInv, TypeOK, ConnectFailed
  <2>2. seq' = seq /\ seq \in Nat
    BY <1>4 DEF SlotInv, TypeOK, ConnectFailed
  <2>. QED
    BY <1>4, <2>1, <2>2, SettleStep DEF ConnectFailed
<1>. QED
  BY <1>1, <1>2, <1>3, <1>4, Zenon DEF TaskStep

\* Transports that close and time that passes.
LEMMA WorldStep ==
  ASSUME SlotInv, BackoffElapses \/ \E g \in Generations : TransportCloses(g)
  PROVE  SlotInv'
<1>1. TypeOK'
  BY Zenon DEF SlotInv, TypeOK, TransportCloses, BackoffElapses, tasks
<1>2. SingleFlight' /\ ReadyIsNewest' /\ TasksOK' /\ SeqCounted' /\ WaitersOK'
  BY DEF SlotInv, SingleFlight, Active, ReadyIsNewest, TasksOK, SeqCounted, WaitersOK, At,
         TransportCloses, BackoffElapses, tasks
<1>. QED
  BY <1>1, <1>2, Zenon DEF SlotInv

LEMMA SlotInductive == SlotInv /\ [Next]_vars => SlotInv'
<1> SUFFICES ASSUME SlotInv, [Next]_vars PROVE SlotInv'
  BY Zenon
<1>1. ASSUME NEW u \in Users,
             \/ Peek(u) \/ CallGet(u) \/ CallerStep(u) \/ WaiterCancelled(u)
             \/ \E ok \in BOOLEAN : UseDone(u, ok)
      PROVE  SlotInv'
  <2>1. CASE PeekInvalidate(u)
    BY <2>1, InvalidateStep, Zenon DEF PeekInvalidate
  <2>. QED
    BY <1>1, <2>1, CallersStep, EnsureStep, Zenon DEF CallerStep
<1>2. CASE \E r \in Recoveries : TaskStep(r)
  BY <1>2, TasksStep, Zenon
<1>3. CASE BackoffElapses \/ \E g \in Generations : TransportCloses(g)
  BY <1>3, WorldStep, Zenon
<1>4. CASE Sweep
  BY <1>4, InvalidateStep DEF Sweep
<1>5. CASE UNCHANGED vars
  BY <1>5 DEF SlotInv, TypeOK, SingleFlight, Active, ReadyIsNewest, TasksOK, SeqCounted, WaitersOK,
              At, vars
<1>. QED
  BY <1>1, <1>2, <1>3, <1>4, <1>5, Zenon DEF Next

LEMMA SlotInvariant == Spec => []SlotInv
BY SlotInit, SlotInductive, PTL DEF Spec

\* spawn_recover is never entered twice: one task recovers exactly while the slot
\* says so, however many callers find it empty, failed or suspect at once.
THEOREM SlotSingleFlight == Spec => []SingleFlight
<1>1. SlotInv => SingleFlight
  BY Zenon DEF SlotInv
<1>. QED
  BY <1>1, SlotInvariant, PTL

\* A recovery that ends late or keeps an old client never puts an older generation
\* over a newer one.
THEOREM SlotReadyIsNewest == Spec => []ReadyIsNewest
<1>1. SlotInv => ReadyIsNewest
  BY Zenon DEF SlotInv
<1>. QED
  BY <1>1, SlotInvariant, PTL

\* A caller that waits in get() has a recovery to wait for, or its result already,
\* whichever callers were cancelled meanwhile.
THEOREM SlotWaitersHaveARecovery == Spec => []WaitersHaveARecovery
<1>1. SlotInv => WaitersHaveARecovery
  <2> SUFFICES ASSUME SlotInv, NEW u \in Users, At(u, "wait"), outcome[user[u].rx] = 0
               PROVE  user[u].rx \in Active
    BY Zenon DEF WaitersHaveARecovery
  <2>1. user[u].rx \in Recoveries /\ user[u].rx <= spawned
    BY DEF SlotInv, WaitersOK, TypeOK, Recoveries
  <2>. QED
    BY <2>1 DEF SlotInv, TasksOK, TypeOK, Active
<1>. QED
  BY <1>1, SlotInvariant, PTL

\* Both orders of slot.rs: one recovery is in flight at a time, and the client that is
\* handed out is the newest that was made.
THEOREM SlotFlights == Spec => []FlightsInOrder
BY SlotSingleFlight, SlotReadyIsNewest, PTL DEF FlightsInOrder

\* The state of the slot, the tasks and the callers keep their types: a slot holds a
\* client only when Ready, a channel only when Recovering.
THEOREM SlotTypes == Spec => []TypeOK
<1>1. SlotInv => TypeOK
  BY Zenon DEF SlotInv
<1>. QED
  BY <1>1, SlotInvariant, PTL

(***************************************************************************)
(* The contexts and the sweep of idle ones.                                *)
(***************************************************************************)

\* Where a task is, and whether it works with the context it holds.
TaskSts == {"none", "paused", "waiting", "held", "running", "editing", "over"}
Using(t) == ctxTask[t].st \in {"running", "editing"}
\* Types.
CtxTyped ==
  /\ ctxSlot \in [Sessions -> {Contexts!None, Contexts!Building, Contexts!Failed} \cup Contexts!Ctxs] /\ made \in 0..MaxCtxs
  /\ idle \in [Contexts!Ctxs -> Contexts!Idle]
  /\ ctxTask \in [Tasks -> [st : TaskSts, s : Sessions, c : 0..MaxCtxs, gone : BOOLEAN]]
  /\ sweep \in [at : {"sleep", "look"}, todo : SUBSET Sessions, victims : SUBSET Sessions,
                lru : SUBSET (Sessions \X Contexts!Idle), busy : SUBSET Tasks]
\* A context is in one slot only, and it is one that was made.
SlotsApart ==
  /\ \A s \in Sessions : Contexts!Ready(s) => ctxSlot[s] <= made
  /\ \A s1, s2 \in Sessions : Contexts!Ready(s1) /\ ctxSlot[s1] = ctxSlot[s2] => s1 = s2
\* A task that holds a context holds one that was made.
TasksMade == \A t \in Tasks : ctxTask[t].st \in {"held", "running", "editing"} => ctxTask[t].c \in 1..made
\* What the sweep may take.
Candidates == sweep.victims \cup {x[1] : x \in sweep.lru}
\* What the sweep has noted under the locks it gave up stays true until it removes:
\* its candidates are ready slots it has looked at, the tasks it found busy have not
\* come to wait or to hold a context anew, and none of them uses a context of a
\* candidate.
SweepInv ==
  sweep.at = "look" =>
    /\ \A s \in Candidates : Contexts!Ready(s) /\ s \notin sweep.todo
    /\ \A t \in sweep.busy : ctxTask[t].st \in {"running", "editing", "paused", "over"}
    /\ \A t \in sweep.busy, s \in Candidates : Using(t) => ctxTask[t].c # ctxSlot[s]
\* The inductive invariant. UsedIsKept alone is not: it needs what the sweep knows
\* of the tasks it saw busy, and that two slots do not share a context.
CtxInv == CtxTyped /\ SlotsApart /\ TasksMade /\ SweepInv /\ Contexts!UsedIsKept

\* The record of a task that has not begun.
LEMMA NoTaskTyped == ASSUME ContextsConstants PROVE Contexts!NoTask \in [st : TaskSts, s : Sessions, c : 0..MaxCtxs, gone : BOOLEAN]
  BY DEF ContextsConstants, Contexts!NoTask, TaskSts

\* At first no slot is filled and nothing is swept.
LEMMA CtxInitInv == ContextsConstants /\ Contexts!Init => CtxInv
<1> SUFFICES ASSUME ContextsConstants, Contexts!Init PROVE CtxInv
  BY Zenon
<1>1. CtxTyped
  BY NoTaskTyped DEF Contexts!Init, CtxTyped, ContextsConstants, Contexts!Idle, Contexts!Asleep
<1>2. SlotsApart /\ TasksMade /\ SweepInv /\ Contexts!UsedIsKept
  BY DEF Contexts!Init, SlotsApart, TasksMade, SweepInv, Contexts!UsedIsKept, Contexts!Asleep, Contexts!NoTask, Contexts!Ready, Contexts!Ctxs, Contexts!None
<1> QED BY <1>1, <1>2, Zenon DEF CtxInv

\* ensure_ctx: a task comes to wait, or takes the context that is ready.
LEMMA EnsureInv ==
  ASSUME ContextsConstants, CtxInv, NEW t \in Tasks, NEW s \in Sessions, Contexts!Ensure(t, s)
  PROVE  CtxInv'
<1> USE DEF ContextsConstants
<1>0. CtxTyped /\ sweep' = sweep /\ sweep.at # "look" /\ made' = made
  BY Zenon DEF CtxInv, Contexts!Ensure, Contexts!LockFree
<1>1. CASE Contexts!Ready(s) /\ ctxSlot[s] \notin ctxDead
  <2>1. /\ ctxTask' = [ctxTask EXCEPT ![t] = [st |-> "held", s |-> s, c |-> ctxSlot[s], gone |-> FALSE]]
        /\ idle' = [idle EXCEPT ![ctxSlot[s]] = 0] /\ UNCHANGED <<ctxSlot, dropped, late>> /\ ctxSlot[s] \in Contexts!Ctxs
    BY <1>1, Zenon DEF Contexts!Ensure, Contexts!Ready
  <2>2. CtxTyped'
    BY <1>0, <2>1 DEF CtxTyped, TaskSts, Contexts!Idle, Contexts!Ctxs
  <2>3. SlotsApart'
    BY <1>0, <2>1, Zenon DEF CtxInv, SlotsApart, Contexts!Ready
  <2>4. TasksMade' /\ Contexts!UsedIsKept'
    BY <1>0, <2>1 DEF CtxInv, SlotsApart, TasksMade, Contexts!UsedIsKept, Contexts!Ready, CtxTyped, Contexts!Ctxs
  <2> QED BY <1>0, <2>2, <2>3, <2>4, Zenon DEF CtxInv, SweepInv
<1>2. CASE ~(Contexts!Ready(s) /\ ctxSlot[s] \notin ctxDead)
  <2>1. /\ ctxTask' = [ctxTask EXCEPT ![t] = [st |-> "waiting", s |-> s, c |-> 0, gone |-> FALSE]]
        /\ ctxSlot' = [ctxSlot EXCEPT ![s] = Contexts!Building] /\ dropped' = dropped \cup ({ctxSlot[s]} \cap Contexts!Ctxs)
        /\ UNCHANGED <<idle, late>>
    BY <1>2, Zenon DEF Contexts!Ensure
  <2>2. CtxTyped'
    BY <1>0, <2>1 DEF CtxTyped, TaskSts
  <2>3. SlotsApart'
    BY <1>0, <2>1 DEF CtxInv, CtxTyped, SlotsApart, Contexts!Ready, Contexts!Ctxs, Contexts!Building
  <2>4. TasksMade' /\ Contexts!UsedIsKept'
    BY <1>0, <2>1 DEF CtxInv, SlotsApart, TasksMade, Contexts!UsedIsKept, Contexts!Ready, CtxTyped, Contexts!Ctxs
  <2> QED BY <1>0, <2>2, <2>3, <2>4, Zenon DEF CtxInv, SweepInv
<1> QED BY <1>1, <1>2, Zenon

\* Who waits is answered; nobody else notices.
LEMMA AnsweredTasks ==
  ASSUME ContextsConstants, CtxTyped, NEW s \in Sessions, NEW gone \in BOOLEAN, NEW st \in TaskSts, NEW c \in 0..MaxCtxs,
         ctxTask' = Contexts!Answered(Contexts!Waiters(s, gone), st, c)
  PROVE  /\ ctxTask' \in [Tasks -> [st : TaskSts, s : Sessions, c : 0..MaxCtxs, gone : BOOLEAN]]
         /\ \A t \in Tasks : \/ ctxTask[t].st = "waiting" /\ ctxTask'[t].st = st /\ ctxTask'[t].c = c
                             \/ ctxTask'[t] = ctxTask[t]
<1> DEFINE Rec == [st : TaskSts, s : Sessions, c : 0..MaxCtxs, gone : BOOLEAN]
<1>1. ASSUME NEW t \in Tasks
      PROVE  /\ ctxTask'[t] \in Rec
             /\ \/ ctxTask[t].st = "waiting" /\ ctxTask'[t].st = st /\ ctxTask'[t].c = c
                \/ ctxTask'[t] = ctxTask[t]
  <2>1. ctxTask[t] \in Rec
    BY Zenon DEF CtxTyped
  <2>2. CASE t \in Contexts!Waiters(s, gone)
    <3>1. ctxTask[t].st = "waiting"
      BY <2>2, Zenon DEF Contexts!Waiters
    <3>2. ctxTask'[t] = [ctxTask[t] EXCEPT !.st = st, !.c = c, !.gone = FALSE]
      BY <2>2, Zenon DEF Contexts!Answered
    <3> QED BY <2>1, <3>1, <3>2, Zenon
  <2>3. CASE t \notin Contexts!Waiters(s, gone)
    <3>1. ctxTask'[t] = ctxTask[t]
      BY <2>3, Zenon DEF Contexts!Answered
    <3> QED BY <2>1, <3>1, Zenon
  <2> QED BY <2>2, <2>3, Zenon
<1>2. ctxTask' = [t \in Tasks |-> ctxTask'[t]]
  BY Zenon DEF Contexts!Answered
<1> QED BY <1>1, <1>2, Zenon

\* A build ends, in its slot or apart from it, or fails; those who wait are
\* answered.
LEMMA BuildInv ==
  ASSUME ContextsConstants, CtxInv, NEW s \in Sessions, Contexts!Built(s) \/ Contexts!BuiltApart(s) \/ Contexts!BuildFails(s)
  PROVE  CtxInv'
<1> USE DEF ContextsConstants
<1>1. CtxTyped /\ sweep' = sweep /\ UNCHANGED <<ctxDead, idle, late>>
  BY Zenon DEF CtxInv, Contexts!Built, Contexts!BuiltApart, Contexts!BuildFails
<1>2. CASE Contexts!Built(s) \/ Contexts!BuiltApart(s)
  <2>1. PICK gone \in BOOLEAN : ctxTask' = Contexts!Answered(Contexts!Waiters(s, gone), "held", made + 1)
    BY <1>2, Zenon DEF Contexts!Built, Contexts!BuiltApart
  <2>2. made + 1 \in 1..MaxCtxs /\ made' = made + 1 /\ "held" \in TaskSts
    <3>1. made < MaxCtxs /\ made' = made + 1
      BY <1>2, Zenon DEF Contexts!Built, Contexts!BuiltApart
    <3>2. made \in 0..MaxCtxs
      BY <1>1, Zenon DEF CtxTyped
    <3> QED BY <3>1, <3>2 DEF TaskSts
  <2>3. /\ ctxTask' \in [Tasks -> [st : TaskSts, s : Sessions, c : 0..MaxCtxs, gone : BOOLEAN]]
        /\ \A t \in Tasks : \/ ctxTask[t].st = "waiting" /\ ctxTask'[t].st = "held" /\ ctxTask'[t].c = made + 1
                            \/ ctxTask'[t] = ctxTask[t]
    BY <1>1, <2>1, <2>2, AnsweredTasks
  <2>4. ctxSlot' = ctxSlot \/ (ctxSlot[s] = Contexts!Building /\ ctxSlot' = [ctxSlot EXCEPT ![s] = made + 1])
    BY <1>2, Zenon DEF Contexts!Built, Contexts!BuiltApart
  <2>5. \A u \in Sessions : ctxSlot[u] \in Contexts!Ctxs => ctxSlot'[u] = ctxSlot[u]
    BY <1>1, <2>4 DEF CtxTyped, Contexts!Ctxs, Contexts!Building
  <2>6. dropped \subseteq dropped'
    BY <1>2, Zenon DEF Contexts!Built, Contexts!BuiltApart
  <2>7. CtxTyped'
    <3>1. ctxSlot' \in [Sessions -> {Contexts!None, Contexts!Building, Contexts!Failed} \cup Contexts!Ctxs]
      BY <1>1, <2>2, <2>4 DEF CtxTyped, Contexts!Ctxs
    <3>2. made' \in 0..MaxCtxs
      BY <1>1, <2>2
    <3> QED BY <1>1, <2>3, <3>1, <3>2, Zenon DEF CtxTyped
  <2>8. SlotsApart'
    <3>1. made \in Nat /\ made' = made + 1 /\ ctxSlot \in [Sessions -> {Contexts!None, Contexts!Building, Contexts!Failed} \cup Contexts!Ctxs]
      BY <1>1, <2>2 DEF CtxTyped
    <3>2. \A u \in Sessions : ctxSlot[u] \in Contexts!Ctxs => ctxSlot[u] <= made
      BY Zenon DEF CtxInv, SlotsApart, Contexts!Ready
    <3>3. CASE ctxSlot' = ctxSlot
      BY <3>1, <3>2, <3>3 DEF CtxInv, SlotsApart, Contexts!Ready, Contexts!Ctxs
    <3>4. CASE ctxSlot' = [ctxSlot EXCEPT ![s] = made + 1]
      <4>1. \A u \in Sessions : ctxSlot[u] # made + 1 \/ ctxSlot[u] \notin Contexts!Ctxs
        BY <3>1, <3>2
      <4>2. \A u \in Sessions : ctxSlot'[u] = IF u = s THEN made + 1 ELSE ctxSlot[u]
        BY <3>1, <3>4, Zenon
      <4>3. made + 1 \in Contexts!Ctxs
        BY <2>2, Zenon DEF Contexts!Ctxs
      <4>4. \A u \in Sessions : ctxSlot'[u] \in Contexts!Ctxs => ctxSlot'[u] <= made'
        BY <3>1, <3>2, <4>2 DEF Contexts!Ctxs
      <4>5. \A s1, s2 \in Sessions : ctxSlot'[s1] \in Contexts!Ctxs /\ ctxSlot'[s1] = ctxSlot'[s2] => s1 = s2
        BY <4>1, <4>2, <4>3, Zenon DEF CtxInv, SlotsApart, Contexts!Ready
      <4> QED BY <4>4, <4>5, Zenon DEF SlotsApart, Contexts!Ready
    <3> QED BY <2>4, <3>3, <3>4, Zenon
  <2>9. TasksMade'
    BY <1>1, <2>2, <2>3, SMTT(30) DEF CtxInv, TasksMade, CtxTyped
  <2>10. Contexts!UsedIsKept'
    BY <1>1, <2>2, <2>3, <2>5, <2>6, SMTT(30) DEF CtxInv, Contexts!UsedIsKept, TasksMade, CtxTyped, Contexts!Ctxs
  <2>11. SweepInv'
    BY <1>1, <2>2, <2>3, <2>5 DEF CtxInv, SweepInv, Candidates, Contexts!Ready, Using, CtxTyped
  <2> QED BY <2>7, <2>8, <2>9, <2>10, <2>11 DEF CtxInv
<1>3. CASE Contexts!BuildFails(s)
  <2>1. ctxTask' = Contexts!Answered(Contexts!Waiters(s, FALSE), "over", 0) /\ "over" \in TaskSts /\ 0 \in 0..MaxCtxs
    BY <1>3 DEF Contexts!BuildFails, TaskSts
  <2>2. made' = made /\ dropped' = dropped /\ ctxSlot[s] = Contexts!Building /\ ctxSlot' = [ctxSlot EXCEPT ![s] = Contexts!Failed]
    BY <1>3, Zenon DEF Contexts!BuildFails
  <2>3. /\ ctxTask' \in [Tasks -> [st : TaskSts, s : Sessions, c : 0..MaxCtxs, gone : BOOLEAN]]
        /\ \A t \in Tasks : \/ ctxTask[t].st = "waiting" /\ ctxTask'[t].st = "over"
                            \/ ctxTask'[t] = ctxTask[t]
    BY <1>1, <2>1, AnsweredTasks, ZenonT(30)
  <2>5. \A u \in Sessions : ctxSlot[u] \in Contexts!Ctxs => ctxSlot'[u] = ctxSlot[u]
    BY <1>1, <2>2 DEF CtxTyped, Contexts!Ctxs, Contexts!Building
  <2>7. CtxTyped'
    BY <1>1, <2>2, <2>3, Zenon DEF CtxTyped
  <2>8. SlotsApart'
    BY <1>1, <2>2 DEF CtxInv, SlotsApart, Contexts!Ready, CtxTyped, Contexts!Ctxs, Contexts!Failed
  <2>9. TasksMade'
    BY <1>1, <2>2, <2>3, Zenon DEF CtxInv, TasksMade, CtxTyped
  <2>10. Contexts!UsedIsKept'
    <3>1. ASSUME NEW t \in Tasks, ctxTask'[t].st \in {"running", "editing"}
          PROVE  ctxSlot'[ctxTask'[t].s] = ctxTask'[t].c \/ t \in late' \/ ctxTask'[t].c \in dropped'
      <4>1. ctxTask'[t] = ctxTask[t] /\ ctxTask[t].s \in Sessions /\ ctxTask[t].c \in Contexts!Ctxs
        BY <1>1, <2>3, <3>1 DEF CtxInv, TasksMade, CtxTyped, Contexts!Ctxs
      <4> QED BY <1>1, <2>2, <2>5, <3>1, <4>1 DEF CtxInv, Contexts!UsedIsKept
    <3> QED BY <3>1, Zenon DEF Contexts!UsedIsKept
  <2>11. SweepInv'
    BY <1>1, <2>2, <2>3, <2>5 DEF CtxInv, SweepInv, Candidates, Contexts!Ready, Using, CtxTyped
  <2> QED BY <2>7, <2>8, <2>9, <2>10, <2>11, Zenon DEF CtxInv
<1> QED BY <1>2, <1>3, Zenon

\* The steps of a task with the context it holds.
LEMMA TaskInv ==
  ASSUME ContextsConstants, CtxInv, NEW t \in Tasks, Contexts!Enqueue(t) \/ Contexts!Pause(t) \/ Contexts!End(t) \/ Contexts!Edit(t)
  PROVE  CtxInv'
<1> USE DEF ContextsConstants
<1>1. CtxTyped /\ UNCHANGED <<ctxSlot, made, ctxDead, sweep, dropped>>
  BY Zenon DEF CtxInv, Contexts!Enqueue, Contexts!Pause, Contexts!End, Contexts!Edit
<1>2. ctxTask[t] \in [st : TaskSts, s : Sessions, c : 0..MaxCtxs, gone : BOOLEAN]
  BY <1>1, Zenon DEF CtxTyped
<1>3. /\ \A u \in Tasks \ {t} : ctxTask'[u] = ctxTask[u]
      /\ ctxTask' \in [Tasks -> [st : TaskSts, s : Sessions, c : 0..MaxCtxs, gone : BOOLEAN]]
      /\ \/ Contexts!Enqueue(t) /\ ctxTask[t].st = "held" /\ ctxTask'[t] = [ctxTask[t] EXCEPT !.st = "running"]
         \/ (Contexts!Pause(t) \/ Contexts!End(t)) /\ Using(t) /\ ctxTask'[t].st \in {"paused", "over"}
         \/ Contexts!Edit(t) /\ ctxTask[t].st = "running" /\ ctxTask'[t] = [ctxTask[t] EXCEPT !.st = "editing"]
  <2>1. CASE Contexts!Enqueue(t)
    BY <1>1, <1>2, <2>1, Zenon DEF Contexts!Enqueue, CtxTyped, TaskSts
  <2>2. CASE Contexts!Edit(t)
    BY <1>1, <1>2, <2>2, Zenon DEF Contexts!Edit, CtxTyped, TaskSts
  <2>3. CASE Contexts!Pause(t) \/ Contexts!End(t)
    <3>1. PICK x \in {"paused", "over"} : ctxTask' = [ctxTask EXCEPT ![t] = [Contexts!NoTask EXCEPT !.st = x]]
      BY <2>3, Zenon DEF Contexts!Pause, Contexts!End
    <3>2. [Contexts!NoTask EXCEPT !.st = x] \in [st : TaskSts, s : Sessions, c : 0..MaxCtxs, gone : BOOLEAN]
          /\ [Contexts!NoTask EXCEPT !.st = x].st = x
      BY NoTaskTyped, Zenon DEF TaskSts
    <3>3. Using(t)
      BY <2>3, Zenon DEF Contexts!Pause, Contexts!End, Using
    <3>4. ctxTask' \in [Tasks -> [st : TaskSts, s : Sessions, c : 0..MaxCtxs, gone : BOOLEAN]]
          /\ ctxTask'[t].st = x /\ \A u \in Tasks \ {t} : ctxTask'[u] = ctxTask[u]
      BY <1>1, <3>1, <3>2, Zenon DEF CtxTyped
    <3> QED BY <2>3, <3>3, <3>4, Zenon
  <2> QED BY <2>1, <2>2, <2>3, Zenon
<1>4. idle' \in [Contexts!Ctxs -> Contexts!Idle]
  BY <1>1 DEF CtxTyped, Contexts!Enqueue, Contexts!Pause, Contexts!End, Contexts!Edit, Contexts!Idle
<1>5. CtxTyped' /\ SlotsApart'
  BY <1>1, <1>3, <1>4, Zenon DEF CtxInv, CtxTyped, SlotsApart, Contexts!Ready
<1>6. TasksMade'
  BY <1>1, <1>2, <1>3 DEF CtxInv, TasksMade, Using
<1>7. SweepInv'
  <2>1. \A u \in Tasks : ctxTask[u].st \in {"running", "editing", "paused", "over"} =>
           /\ ctxTask'[u].st \in {"running", "editing", "paused", "over"}
           /\ ctxTask'[u].st \in {"running", "editing"} => Using(u) /\ ctxTask'[u].c = ctxTask[u].c
    BY <1>2, <1>3 DEF Using
  <2>2. sweep.busy \subseteq Tasks
    BY <1>1, Zenon DEF CtxTyped
  <2>3. Candidates' = Candidates
    BY <1>1, Zenon DEF Candidates
  <2> QED BY <1>1, <2>1, <2>2, <2>3 DEF CtxInv, SweepInv, Contexts!Ready, Using
<1>8. Contexts!UsedIsKept'
  <2>1. ASSUME NEW u \in Tasks, ctxTask'[u].st \in {"running", "editing"}
        PROVE  ctxSlot'[ctxTask'[u].s] = ctxTask'[u].c \/ u \in late' \/ ctxTask'[u].c \in dropped'
    <3>1. CASE u # t
      <4>1. u \in late => u \in late'
        BY <3>1, Zenon DEF Contexts!Enqueue, Contexts!Pause, Contexts!End, Contexts!Edit
      <4> QED BY <1>1, <1>3, <2>1, <3>1, <4>1 DEF CtxInv, Contexts!UsedIsKept
    <3>2. CASE u = t /\ Contexts!Enqueue(t)
      <4>1. ctxTask'[t] = [ctxTask[t] EXCEPT !.st = "running"]
        BY <1>3, <3>2, Zenon DEF Contexts!Enqueue, Using
      <4>2. ctxSlot[ctxTask[t].s] = ctxTask[t].c \/ t \in late'
        BY <3>2, Zenon DEF Contexts!Enqueue
      <4> QED BY <1>1, <1>2, <3>2, <4>1, <4>2, Zenon
    <3>3. CASE u = t /\ Contexts!Edit(t)
      <4>1. ctxTask'[t] = [ctxTask[t] EXCEPT !.st = "editing"] /\ ctxTask[t].st = "running" /\ late' = late
        BY <1>3, <3>3, Zenon DEF Contexts!Edit
      <4> QED BY <1>1, <1>2, <3>3, <4>1, Zenon DEF CtxInv, Contexts!UsedIsKept
    <3> QED BY <1>3, <2>1, <3>1, <3>2, <3>3
  <2> QED BY <2>1, Zenon DEF Contexts!UsedIsKept
<1> QED BY <1>5, <1>6, <1>7, <1>8 DEF CtxInv

\* drop_ctx and peek_ctx empty a slot, whoever uses its context.
LEMMA DropInv ==
  ASSUME ContextsConstants, CtxInv, NEW s \in Sessions, Contexts!peek_ctx(s) \/ Contexts!drop_ctx(s)
  PROVE  CtxInv'
<1> USE DEF ContextsConstants
<1>1. CtxTyped /\ sweep' = sweep /\ sweep.at # "look" /\ UNCHANGED <<made, ctxDead, idle, late>>
  BY Zenon DEF CtxInv, Contexts!peek_ctx, Contexts!drop_ctx, Contexts!LockFree
<1>2. PICK v \in {Contexts!None, Contexts!Failed} : ctxSlot' = [ctxSlot EXCEPT ![s] = v]
  BY Zenon DEF Contexts!peek_ctx, Contexts!drop_ctx
<1>3. dropped \subseteq dropped' /\ (ctxSlot[s] \in Contexts!Ctxs => ctxSlot[s] \in dropped')
  BY Zenon DEF Contexts!peek_ctx, Contexts!drop_ctx
<1>4. /\ ctxTask' \in [Tasks -> [st : TaskSts, s : Sessions, c : 0..MaxCtxs, gone : BOOLEAN]]
      /\ \A t \in Tasks : ctxTask'[t].st = ctxTask[t].st /\ ctxTask'[t].s = ctxTask[t].s /\ ctxTask'[t].c = ctxTask[t].c
  <2>1. CASE Contexts!peek_ctx(s)
    BY <1>1, <2>1, Zenon DEF Contexts!peek_ctx, CtxTyped
  <2>2. CASE Contexts!drop_ctx(s)
    <3>1. ASSUME NEW t \in Tasks
          PROVE  /\ ctxTask'[t] \in [st : TaskSts, s : Sessions, c : 0..MaxCtxs, gone : BOOLEAN]
                 /\ ctxTask'[t].st = ctxTask[t].st /\ ctxTask'[t].s = ctxTask[t].s /\ ctxTask'[t].c = ctxTask[t].c
      <4>1. ctxTask[t] \in [st : TaskSts, s : Sessions, c : 0..MaxCtxs, gone : BOOLEAN]
        BY <1>1, Zenon DEF CtxTyped
      <4>2. ctxTask'[t] = [ctxTask[t] EXCEPT !.gone = TRUE] \/ ctxTask'[t] = ctxTask[t]
        BY <2>2, Zenon DEF Contexts!drop_ctx
      <4> QED BY <4>1, <4>2, Zenon
    <3>2. ctxTask' = [t \in Tasks |-> ctxTask'[t]]
      BY <2>2, Zenon DEF Contexts!drop_ctx
    <3> QED BY <3>1, <3>2, Zenon
  <2> QED BY <2>1, <2>2, Zenon
<1>5. CtxTyped'
  BY <1>1, <1>2, <1>4, Zenon DEF CtxTyped
<1>6. SlotsApart'
  BY <1>1, <1>2 DEF CtxInv, SlotsApart, Contexts!Ready, CtxTyped, Contexts!Ctxs, Contexts!None, Contexts!Failed
<1>7. TasksMade'
  BY <1>1, <1>4, Zenon DEF CtxInv, TasksMade
<1>8. Contexts!UsedIsKept'
  <2>1. ASSUME NEW t \in Tasks, ctxTask'[t].st \in {"running", "editing"}
        PROVE  ctxSlot'[ctxTask'[t].s] = ctxTask'[t].c \/ t \in late' \/ ctxTask'[t].c \in dropped'
    <3>1. ctxTask[t].s \in Sessions /\ ctxTask[t].c \in Contexts!Ctxs
      BY <1>1, <1>4, <2>1 DEF CtxInv, TasksMade, CtxTyped, Contexts!Ctxs
    <3>2. ctxSlot[ctxTask[t].s] = ctxTask[t].c \/ t \in late \/ ctxTask[t].c \in dropped
      BY <1>4, <2>1, Zenon DEF CtxInv, Contexts!UsedIsKept
    <3> QED BY <1>1, <1>2, <1>3, <1>4, <3>1, <3>2, Zenon DEF CtxTyped
  <2> QED BY <2>1, Zenon DEF Contexts!UsedIsKept
<1> QED BY <1>1, <1>5, <1>6, <1>7, <1>8, Zenon DEF CtxInv, SweepInv

\* What dies and what grows idle.
LEMMA IdleInv ==
  ASSUME ContextsConstants, CtxInv, (\E c \in Contexts!Ctxs : Contexts!Dies(c) \/ Contexts!Age(c)) \/ UNCHANGED Contexts!vars
  PROVE  CtxInv'
<1>1. CtxTyped /\ UNCHANGED <<ctxSlot, made, ctxTask, sweep, dropped, late>>
  BY Zenon DEF CtxInv, Contexts!Dies, Contexts!Age, Contexts!vars
<1>2. idle' \in [Contexts!Ctxs -> Contexts!Idle]
  BY <1>1 DEF CtxTyped, Contexts!Dies, Contexts!Age, Contexts!Idle, Contexts!vars
<1>3. CtxTyped' /\ SlotsApart' /\ TasksMade' /\ Contexts!UsedIsKept'
  BY <1>1, <1>2, Zenon DEF CtxInv, CtxTyped, SlotsApart, TasksMade, Contexts!UsedIsKept, Contexts!Ready
<1>4. SweepInv'
  BY <1>1, Zenon DEF CtxInv, SweepInv, Candidates, Using, Contexts!Ready
<1> QED BY <1>3, <1>4, Zenon DEF CtxInv

\* A sweep begins with the slots there are.
LEMMA SweepBeginInv ==
  ASSUME CtxInv, Contexts!SweepBegin
  PROVE  CtxInv'
<1>1. CtxTyped /\ UNCHANGED <<ctxSlot, made, idle, ctxTask, dropped, late>> /\ sweep' = [Contexts!Asleep EXCEPT !.at = "look", !.todo = Contexts!Mapped]
  BY Zenon DEF CtxInv, Contexts!SweepBegin
<1>2. CtxTyped' /\ SlotsApart' /\ TasksMade' /\ Contexts!UsedIsKept'
  BY <1>1, Zenon DEF CtxInv, CtxTyped, SlotsApart, TasksMade, Contexts!UsedIsKept, Contexts!Ready, Contexts!Asleep, Contexts!Mapped
<1>3. sweep'.victims = {} /\ sweep'.lru = {} /\ sweep'.busy = {}
  BY <1>1, Zenon DEF Contexts!Asleep
<1>4. Candidates' = {}
  BY <1>3, Zenon DEF Candidates
<1> QED BY <1>2, <1>3, <1>4, Zenon DEF CtxInv, SweepInv

\* The sweep looks at a slot: what it notes of it holds of the tasks now.
LEMMA SweepLookInv ==
  ASSUME CtxInv, NEW s \in Sessions, Contexts!SweepLook(s)
  PROVE  CtxInv'
<1>1. CtxTyped /\ UNCHANGED <<ctxSlot, made, idle, ctxTask, dropped, late>> /\ sweep.at = "look" /\ s \in sweep.todo
  BY Zenon DEF CtxInv, Contexts!SweepLook
<1>2. SlotsApart' /\ TasksMade' /\ Contexts!UsedIsKept'
  BY <1>1, Zenon DEF CtxInv, SlotsApart, TasksMade, Contexts!UsedIsKept, Contexts!Ready
<1> DEFINE SweepRec == [at : {"sleep", "look"}, todo : SUBSET Sessions, victims : SUBSET Sessions,
                        lru : SUBSET (Sessions \X Contexts!Idle), busy : SUBSET Tasks]
<1>3. sweep \in SweepRec
  BY <1>1, Zenon DEF CtxTyped
<1>4. CASE ~Contexts!Ready(s)
  <2>1. sweep' = [sweep EXCEPT !.todo = @ \ {s}]
    BY <1>4, Zenon DEF Contexts!SweepLook
  <2>2. sweep' \in SweepRec /\ sweep'.busy = sweep.busy /\ sweep'.todo = sweep.todo \ {s}
        /\ sweep'.lru = sweep.lru /\ sweep'.victims = sweep.victims
    BY <1>3, <2>1, Zenon
  <2>3. Candidates' = Candidates
    BY <2>2, Zenon DEF Candidates
  <2>4. SweepInv'
    BY <1>1, <2>2, <2>3 DEF CtxInv, SweepInv, Using, Contexts!Ready
  <2>5. CtxTyped'
    BY <1>1, <2>2, Zenon DEF CtxTyped
  <2> QED BY <1>2, <2>4, <2>5, Zenon DEF CtxInv
<1>5. CASE Contexts!Ready(s)
  <2> DEFINE used == Contexts!Uses(ctxSlot[s])
  <2>1. sweep' = [sweep EXCEPT
                          !.todo = @ \ {s},
                          !.victims = IF Contexts!sweep_decision(ctxSlot[s]) = "reclaim" THEN @ \cup {s} ELSE @,
                          !.lru = IF used = {} THEN @ \cup {<<s, idle[ctxSlot[s]]>>} ELSE @,
                          !.busy = @ \cup used]
    BY <1>5, Zenon DEF Contexts!SweepLook
  <2>2. used \subseteq Tasks /\ \A t \in Tasks : t \in used <=> ctxTask[t].c = ctxSlot[s] /\ Using(t)
    BY Zenon DEF Contexts!Uses, Using
  <2>3. Contexts!sweep_decision(ctxSlot[s]) = "reclaim" => used = {}
    BY Zenon DEF Contexts!sweep_decision
  <2>4. <<s, idle[ctxSlot[s]]>> \in Sessions \X Contexts!Idle
    BY <1>1, <1>5, Zenon DEF CtxTyped, Contexts!Ready
  <2> HIDE DEF used
  <2>5. /\ sweep'.at = "look" /\ sweep'.todo = sweep.todo \ {s} /\ sweep'.busy = sweep.busy \cup used
        /\ sweep'.victims = sweep.victims \/ (used = {} /\ sweep'.victims = sweep.victims \cup {s})
        /\ sweep'.lru = sweep.lru \/ (used = {} /\ sweep'.lru = sweep.lru \cup {<<s, idle[ctxSlot[s]]>>})
    BY <1>1, <1>3, <2>1, <2>3, Zenon
  <2>6. sweep' \in SweepRec
    <3>1. sweep' = [at |-> sweep'.at, todo |-> sweep'.todo, victims |-> sweep'.victims, lru |-> sweep'.lru, busy |-> sweep'.busy]
      BY <1>3, <2>1, Zenon
    <3>2. sweep'.todo \subseteq Sessions /\ sweep'.victims \subseteq Sessions
          /\ sweep'.lru \subseteq Sessions \X Contexts!Idle /\ sweep'.busy \subseteq Tasks
      BY <1>3, <2>2, <2>4, <2>5, Zenon
    <3> QED BY <2>5, <3>1, <3>2, Zenon
  <2>7. Candidates' \subseteq Candidates \cup {s} /\ (used # {} => Candidates' = Candidates)
    BY <2>5 DEF Candidates
  <2>8. Candidates \subseteq Sessions
    BY <1>3, Zenon DEF Candidates
  <2>9. ASSUME NEW t \in sweep'.busy, NEW u \in Candidates', Using(t) PROVE ctxTask[t].c # ctxSlot[u]
    <3>1. CASE t \in sweep.busy /\ u \in Candidates
      BY <1>1, <2>9, <3>1, Zenon DEF CtxInv, SweepInv
    <3>2. CASE t \in sweep.busy /\ u = s /\ used = {}
      BY <1>3, <2>2, <2>9, <3>2, Zenon
    <3>3. CASE t \in used /\ u \in Candidates
      <4>1. u # s /\ u \in Sessions /\ ctxTask[t].c = ctxSlot[s]
        BY <1>1, <2>2, <2>8, <3>3, Zenon DEF CtxInv, SweepInv
      <4> QED BY <1>5, <4>1, Zenon DEF CtxInv, SlotsApart
    <3> QED BY <2>5, <2>7, <3>1, <3>2, <3>3, Zenon
  <2>10. \A t \in sweep'.busy : ctxTask[t].st \in {"running", "editing", "paused", "over"}
    BY <1>1, <2>2, <2>5, Zenon DEF CtxInv, SweepInv, Using
  <2>11. \A u \in Candidates' : Contexts!Ready(u) /\ u \notin sweep'.todo
    BY <1>1, <1>5, <2>5, <2>7, Zenon DEF CtxInv, SweepInv
  <2>12. SweepInv'
    BY <1>1, <2>9, <2>10, <2>11, Zenon DEF SweepInv, Using, Contexts!Ready
  <2>13. CtxTyped'
    BY <1>1, <2>6, Zenon DEF CtxTyped
  <2> QED BY <1>2, <2>12, <2>13, Zenon DEF CtxInv
<1> QED BY <1>4, <1>5, Zenon

\* The sweep removes its candidates, none of which is in use.
LEMMA SweepRemoveInv ==
  ASSUME CtxInv, Contexts!SweepRemove
  PROVE  CtxInv'
<1>1. CtxTyped /\ sweep.at = "look" /\ sweep' = Contexts!Asleep /\ UNCHANGED <<made, ctxDead, idle, ctxTask, dropped>>
  BY Zenon DEF CtxInv, Contexts!SweepRemove
<1>2. PICK k \in SUBSET sweep.lru :
        LET gone == sweep.victims \cup {x[1] : x \in k}
        IN  /\ ctxSlot' = [s \in Sessions |-> IF s \in gone THEN Contexts!None ELSE ctxSlot[s]]
            /\ late' = late \cup ((UNION {Contexts!Uses(ctxSlot[s]) : s \in gone}) \ sweep.busy)
  BY Zenon DEF Contexts!SweepRemove, Contexts!Lru
<1>3. sweep.victims \cup {x[1] : x \in k} \subseteq Candidates
  BY Zenon DEF Candidates
<1>4. PICK gone \in SUBSET Candidates :
        /\ ctxSlot' = [s \in Sessions |-> IF s \in gone THEN Contexts!None ELSE ctxSlot[s]]
        /\ late' = late \cup ((UNION {Contexts!Uses(ctxSlot[s]) : s \in gone}) \ sweep.busy)
  BY <1>2, <1>3, Zenon
<1>a. \A s \in gone : Contexts!Uses(ctxSlot[s]) \ sweep.busy \subseteq late'
  <2>1. late' = late \cup ((UNION {Contexts!Uses(ctxSlot[s]) : s \in gone}) \ sweep.busy)
    BY <1>4, Zenon
  <2> DEFINE swept == UNION {Contexts!Uses(ctxSlot[s]) : s \in gone}
  <2>2. ASSUME NEW u \in gone, NEW t \in Contexts!Uses(ctxSlot[u]), t \notin sweep.busy PROVE t \in late'
    <3>1. Contexts!Uses(ctxSlot[u]) \in {Contexts!Uses(ctxSlot[s]) : s \in gone}
      BY Zenon
    <3>2. t \in swept
      BY <3>1, Zenon
    <3>3. late' = late \cup (swept \ sweep.busy)
      BY <2>1, Zenon
    <3> HIDE DEF swept
    <3> QED BY <2>2, <3>2, <3>3, Zenon
  <2> QED BY <2>2, Zenon
<1>b. late \subseteq late'
  BY <1>4, Zenon
<1>5. CtxTyped'
  BY <1>1, <1>4, Zenon DEF CtxTyped, Contexts!Asleep
<1>6. SlotsApart' /\ TasksMade'
  BY <1>1, <1>4 DEF CtxInv, CtxTyped, SlotsApart, TasksMade, Contexts!Ready, Contexts!None, Contexts!Ctxs
<1>7. Contexts!UsedIsKept'
  <2>1. ASSUME NEW t \in Tasks, ctxTask[t].st \in {"running", "editing"}
        PROVE  ctxSlot'[ctxTask[t].s] = ctxTask[t].c \/ t \in late' \/ ctxTask[t].c \in dropped
    <3>1. ctxTask[t].s \in Sessions
      BY <1>1, Zenon DEF CtxTyped
    <3>2. ctxSlot[ctxTask[t].s] = ctxTask[t].c \/ t \in late \/ ctxTask[t].c \in dropped
      BY <2>1, Zenon DEF CtxInv, Contexts!UsedIsKept
    <3>3. CASE ctxSlot[ctxTask[t].s] = ctxTask[t].c /\ ctxTask[t].s \in gone
      <4>1. t \notin sweep.busy
        BY <1>1, <2>1, <3>3, Zenon DEF CtxInv, SweepInv, Using
      <4>2. t \in Contexts!Uses(ctxSlot[ctxTask[t].s])
        BY <2>1, <3>3, Zenon DEF Contexts!Uses
      <4> QED BY <1>a, <3>3, <4>1, <4>2, Zenon
    <3>4. ctxTask[t].s \notin gone => ctxSlot'[ctxTask[t].s] = ctxSlot[ctxTask[t].s]
      BY <1>4, <3>1, Zenon
    <3> QED BY <1>b, <3>2, <3>3, <3>4, Zenon
  <2> QED BY <1>1, <2>1, Zenon DEF Contexts!UsedIsKept
<1>8. SweepInv'
  BY <1>1, Zenon DEF SweepInv, Contexts!Asleep
<1> QED BY <1>5, <1>6, <1>7, <1>8, Zenon DEF CtxInv

\* For any number of sessions, tasks and contexts, whatever the order of builds,
\* drops and steps of tasks between two looks of the sweep: the sweep never takes a
\* context from a task that uses it (sweep_idle_contexts).
THEOREM UsedContextsKept == ASSUME ContextsConstants PROVE Contexts!Spec => []ContextsKept
<1>1. Contexts!Init => CtxInv
  BY CtxInitInv, Zenon
<1>2. CtxInv /\ [Contexts!Next]_(Contexts!vars) => CtxInv'
  BY EnsureInv, BuildInv, TaskInv, DropInv, IdleInv, SweepBeginInv, SweepLookInv, SweepRemoveInv, ZenonT(30) DEF Contexts!Next, Contexts!Sweep
<1>3. CtxInv => ContextsKept
  BY Zenon DEF CtxInv, ContextsKept, Contexts!ContextTypeOK, CtxTyped, SlotsApart, TasksMade
<1> QED
  BY <1>1, <1>2, <1>3, PTL DEF Contexts!Spec

(***************************************************************************)
(* Those who follow the session table.                                     *)
(***************************************************************************)

\* The records of events, commands and of the event that is worked on.
Versions == 0..MaxVersion
EventRec == [kind : {"Upserted", "Deleting", "Deleted"}, ids : SUBSET Stored]
CmdKinds == {"none", "upsert", "delete", "group", "import", "start", "drop"}
CmdPcs == {"none", "write", "publish", "deleting", "rows", "deleted", "row", "check", "start"}
CmdRec == [kind : CmdKinds, pc : CmdPcs, ids : SUBSET Stored, tun : Tunnels \cup {"none"}, ver : Versions]
WorkRec == [kind : {"none", "Upserted", "Deleting", "Deleted"}, todo : SUBSET Tunnels, tun : Tunnels \cup {"none"}, ver : Versions]

\* Types: the tables, where a tunnel that is defined belongs to a session there is,
StoreTyped ==
  /\ row \in [Stored -> Versions] /\ next \in Nat \ {0} /\ grouped \in SUBSET Stored
  /\ defs \in SUBSET (Tunnels \ AdHoc)
  /\ \A t \in defs : row[Owner[t]] # Lifecycle!None
\* the tunnels that run, the pooled connections and the work of the consumer,
FollowersTyped ==
  /\ followed \in [Tunnels -> Versions]
  /\ pool \in [Stored -> 0..Lifecycle!Building]
  /\ work \in WorkRec
\* the queues of the subscribers, which drop what is beyond their capacity,
QueueTyped == 
  /\ queue \in [Lifecycle!Consumers -> Seq(EventRec)]
  /\ \A k \in Lifecycle!Consumers : Len(queue[k]) <= Capacity
\* and the commands that are under way.
CmdTyped ==
  /\ cmd \in [Commands -> CmdRec]
  /\ \A c \in Commands : cmd[c].kind = "start" => cmd[c].tun \in Tunnels
  /\ \A c \in Commands : cmd[c].kind = "import" => cmd[c].tun \in (Tunnels \ AdHoc) \cup {"none"}
LifeTyped == StoreTyped /\ FollowersTyped /\ QueueTyped /\ CmdTyped

\* An event that tells of a session is in a queue, or a command has yet to publish
\* it; the same for the event that tells of its deletion, and for a tunnel the
\* consumer has on its list.
Queued(k, s) == \E i \in DOMAIN queue[k] : queue[k][i].kind # "Deleting" /\ s \in queue[k][i].ids
Announced(s) == \E c \in Commands : s \in cmd[c].ids /\ cmd[c].pc \in {"publish", "deleted"}
QueuedDeletion(s) == \E i \in DOMAIN queue["tunnels"] : queue["tunnels"][i].kind = "Deleted" /\ s \in queue["tunnels"][i].ids
AnnouncedDeletion(s) == \E c \in Commands : s \in cmd[c].ids /\ cmd[c].pc = "deleted"
Listed(t) == t \in work.todo /\ t # work.tun

\* What is known, or on its way, of a change of a session.
ToldPool(s) == Lifecycle!Silent(s) \/ Queued("pool", s) \/ Announced(s)
ToldTunnels(s) == Lifecycle!Silent(s) \/ Queued("tunnels", s) \/ Announced(s)
ToldDeletion(s) == Lifecycle!Silent(s) \/ QueuedDeletion(s) \/ AnnouncedDeletion(s)

\* What is out of date is told of. A tunnel of a session that was deleted needs the
\* event of the deletion: that of an update would not stop it.
ConnectionInv(s) == Lifecycle!StaleConnection(s) => ToldPool(s)
TunnelInv(t) ==
  /\ Lifecycle!StaleTunnel(t) => ToldTunnels(Owner[t]) \/ Listed(t)
  /\ followed[t] # Lifecycle!None /\ row[Owner[t]] = Lifecycle!None /\ t \notin lateStarts => ToldDeletion(Owner[t]) \/ Listed(t)
\* The inductive invariant.
FollowInv == (\A s \in Stored : ConnectionInv(s)) /\ (\A t \in Tunnels : TunnelInv(t))
LifecycleInv == LifeTyped /\ FollowInv

\* An event is published in every queue, and pushes out the oldest where one is
\* full.
LEMMA PublishedQueues ==
  ASSUME LifecycleConstants, QueueTyped,
         NEW kind \in {"Upserted", "Deleting", "Deleted"}, NEW ids \in SUBSET Stored, Lifecycle!Publish(kind, ids)
  PROVE  QueueTyped'
<1>1. Lifecycle!Event(kind, ids) \in EventRec
  BY Zenon DEF Lifecycle!Event, EventRec
<1>2. ASSUME NEW k \in Lifecycle!Consumers
      PROVE  Lifecycle!Pushed(queue[k], Lifecycle!Event(kind, ids)) \in Seq(EventRec) /\ Len(Lifecycle!Pushed(queue[k], Lifecycle!Event(kind, ids))) <= Capacity
  <2>1. queue[k] \in Seq(EventRec) /\ Len(queue[k]) <= Capacity
    BY Zenon DEF QueueTyped
  <2>2. CASE Len(queue[k]) = Capacity
    <3>1. queue[k] # <<>>
      BY <2>1, <2>2, Zenon DEF LifecycleConstants
    <3>2. Tail(queue[k]) \in Seq(EventRec) /\ Len(Tail(queue[k])) = Len(queue[k]) - 1
      BY <2>1, <3>1
    <3> HIDE DEF EventRec
    <3>3. QED BY <1>1, <2>1, <2>2, <3>2 DEF Lifecycle!Pushed, LifecycleConstants
  <2>3. CASE Len(queue[k]) # Capacity
    BY <1>1, <2>1, <2>3 DEF Lifecycle!Pushed, LifecycleConstants
  <2>4. QED BY <2>2, <2>3, Zenon
<1>3. QED BY <1>2, Zenon DEF QueueTyped, Lifecycle!Publish

\* Of what was in a queue, only the oldest can be gone.
LEMMA PublishedEvents ==
  ASSUME LifecycleConstants, QueueTyped,
         NEW kind \in {"Upserted", "Deleting", "Deleted"}, NEW ids \in SUBSET Stored, Lifecycle!Publish(kind, ids),
         NEW k \in Lifecycle!Consumers
  PROVE  /\ DOMAIN queue'[k] = 1..Len(queue'[k]) /\ Len(queue'[k]) \in Nat \ {0}
         /\ queue'[k][Len(queue'[k])] = Lifecycle!Event(kind, ids)
         /\ \A i \in DOMAIN queue[k] :
               \/ \E j \in DOMAIN queue'[k] : queue'[k][j] = queue[k][i]
               \/ i = 1 /\ Len(queue[k]) = Capacity
<1>1. queue[k] \in Seq(EventRec) /\ Len(queue[k]) <= Capacity
  BY Zenon DEF QueueTyped
<1>2. queue'[k] = Lifecycle!Pushed(queue[k], Lifecycle!Event(kind, ids))
  BY Zenon DEF Lifecycle!Publish
<1> DEFINE q == queue[k]
           e == Lifecycle!Event(kind, ids)
<1>3. e \in EventRec
  BY Zenon DEF Lifecycle!Event, EventRec
<1> HIDE DEF e
<1>4. CASE Len(q) = Capacity
  <2>1. q # <<>>
    BY <1>1, <1>4, Zenon DEF LifecycleConstants
  <2>2. /\ Tail(q) \in Seq(EventRec) /\ Len(Tail(q)) = Len(q) - 1
        /\ \A j \in 1..(Len(q) - 1) : Tail(q)[j] = q[j + 1]
    BY <1>1, <2>1
  <2>3. queue'[k] = Append(Tail(q), e)
    BY <1>2, <1>4, Zenon DEF Lifecycle!Pushed, e
  <2> HIDE DEF EventRec
  <2>4. /\ Len(queue'[k]) = Len(q) /\ DOMAIN queue'[k] = 1..Len(q) /\ queue'[k][Len(q)] = e
        /\ \A j \in 1..(Len(q) - 1) : queue'[k][j] = q[j + 1]
    BY <1>1, <1>3, <2>2, <2>3
  <2>5. ASSUME NEW i \in DOMAIN q, i # 1 PROVE \E j \in DOMAIN queue'[k] : queue'[k][j] = q[i]
    <3>1. i \in 1..Len(q) /\ Len(q) \in Nat
      BY <1>1, <2>5
    <3>2. i - 1 \in 1..(Len(q) - 1) /\ (i - 1) + 1 = i
      BY <3>1, <2>5
    <3>3. queue'[k][i - 1] = q[i]
      BY <2>4, <3>2, Zenon
    <3>4. i - 1 \in DOMAIN queue'[k]
      BY <2>4, <3>1, <3>2
    <3>5. QED BY <3>3, <3>4, Zenon
  <2>6. QED BY <2>4, <2>5, <1>4, <1>1, <2>1, Zenon DEF e, LifecycleConstants
<1>5. CASE Len(q) # Capacity
  <2>1. queue'[k] = Append(q, e)
    BY <1>2, <1>5, Zenon DEF Lifecycle!Pushed, e
  <2> HIDE DEF EventRec
  <2>2. /\ Len(queue'[k]) = Len(q) + 1 /\ DOMAIN queue'[k] = 1..(Len(q) + 1) /\ queue'[k][Len(q) + 1] = e
        /\ \A j \in 1..Len(q) : queue'[k][j] = q[j]
    BY <1>1, <1>3, <2>1
  <2>3. DOMAIN q = 1..Len(q) /\ Len(q) \in Nat
    BY <1>1
  <2>4. \A i \in DOMAIN q : i \in DOMAIN queue'[k] /\ queue'[k][i] = q[i]
    BY <2>2, <2>3
  <2>5. QED BY <2>2, <2>3, <2>4 DEF e
<1>6. QED BY <1>4, <1>5, Zenon

\* What a published event takes from the queues it tells in silent.
LEMMA PublishTells ==
  ASSUME LifecycleConstants, QueueTyped,
         NEW kind \in {"Upserted", "Deleting", "Deleted"}, NEW ids \in SUBSET Stored, Lifecycle!Publish(kind, ids),
         NEW s \in Stored
  PROVE  /\ \A k \in Lifecycle!Consumers : Queued(k, s) \/ Lifecycle!Silent(s) => Queued(k, s)' \/ Lifecycle!Silent(s)'
         /\ s \in ids /\ kind # "Deleting" => \A k \in Lifecycle!Consumers : Queued(k, s)'
         /\ row[s] = Lifecycle!None /\ (QueuedDeletion(s) \/ Lifecycle!Silent(s)) => QueuedDeletion(s)' \/ Lifecycle!Silent(s)'
         /\ s \in ids /\ kind = "Deleted" => QueuedDeletion(s)'
<1>1. ASSUME s \in ids, kind # "Deleting", NEW k \in Lifecycle!Consumers PROVE Queued(k, s)'
  <2>1. Len(queue'[k]) \in DOMAIN queue'[k] /\ queue'[k][Len(queue'[k])] = Lifecycle!Event(kind, ids)
    BY PublishedEvents
  <2>2. QED BY <1>1, <2>1 DEF Queued, Lifecycle!Event
<1>2. ASSUME s \in ids, kind = "Deleted" PROVE QueuedDeletion(s)'
  <2>1. Len(queue'["tunnels"]) \in DOMAIN queue'["tunnels"] /\ queue'["tunnels"][Len(queue'["tunnels"])] = Lifecycle!Event(kind, ids)
    BY PublishedEvents DEF Lifecycle!Consumers
  <2>2. QED BY <1>2, <2>1 DEF QueuedDeletion, Lifecycle!Event
<1>3. ASSUME Lifecycle!Silent(s), s \notin ids \/ ~Lifecycle!MakesUp(kind, s) PROVE Lifecycle!Silent(s)'
  BY <1>3, Zenon DEF Lifecycle!Silent, Lifecycle!Publish
<1>4. ASSUME NEW k \in Lifecycle!Consumers, Len(queue[k]) = Capacity, 1 \in DOMAIN queue[k], queue[k][1].kind # "Deleting", s \in queue[k][1].ids,
             s \notin ids \/ ~Lifecycle!MakesUp(kind, s)
      PROVE  Lifecycle!Silent(s)'
  <2>1. Head(queue[k]) = queue[k][1]
    BY <1>4 DEF QueueTyped
  <2>2. s \in Lifecycle!Lost
    BY <1>4, <2>1, Zenon DEF Lifecycle!Lost, Lifecycle!Lagged
  <2>3. <<s, "lag">> \in silent'
    BY <1>4, <2>2, Zenon DEF Lifecycle!Publish
  <2>4. QED BY <2>3, Zenon DEF Lifecycle!Silent
<1>5. Lifecycle!MakesUp(kind, s) => kind # "Deleting"
  BY Zenon DEF Lifecycle!MakesUp
<1>6. ASSUME NEW k \in Lifecycle!Consumers, Queued(k, s) \/ Lifecycle!Silent(s) PROVE Queued(k, s)' \/ Lifecycle!Silent(s)'
  <2>1. CASE s \in ids /\ Lifecycle!MakesUp(kind, s)
    BY <1>1, <1>5, <2>1, Zenon
  <2>2. CASE ~(s \in ids /\ Lifecycle!MakesUp(kind, s))
    <3>1. CASE Lifecycle!Silent(s)
      BY <1>3, <2>2, <3>1, Zenon
    <3>2. CASE Queued(k, s)
      <4>1. PICK i \in DOMAIN queue[k] : queue[k][i].kind # "Deleting" /\ s \in queue[k][i].ids
        BY <3>2, Zenon DEF Queued
      <4>2. \/ \E j \in DOMAIN queue'[k] : queue'[k][j] = queue[k][i]
            \/ i = 1 /\ Len(queue[k]) = Capacity
        BY PublishedEvents, Zenon
      <4>3. CASE \E j \in DOMAIN queue'[k] : queue'[k][j] = queue[k][i]
        BY <4>1, <4>3, Zenon DEF Queued
      <4>4. CASE i = 1 /\ Len(queue[k]) = Capacity
        BY <1>4, <2>2, <4>1, <4>4, Zenon
      <4>5. QED BY <4>2, <4>3, <4>4, Zenon
    <3>3. QED BY <1>6, <3>1, <3>2, Zenon
  <2>3. QED BY <2>1, <2>2, Zenon
<1>7. ASSUME row[s] = Lifecycle!None, QueuedDeletion(s) \/ Lifecycle!Silent(s) PROVE QueuedDeletion(s)' \/ Lifecycle!Silent(s)'
  <2>1. CASE s \in ids /\ Lifecycle!MakesUp(kind, s)
    BY <1>2, <1>7, <2>1, Zenon DEF Lifecycle!MakesUp
  <2>2. CASE ~(s \in ids /\ Lifecycle!MakesUp(kind, s))
    <3>1. CASE Lifecycle!Silent(s)
      BY <1>3, <2>2, <3>1, Zenon
    <3>2. CASE QueuedDeletion(s)
      <4>1. PICK i \in DOMAIN queue["tunnels"] : queue["tunnels"][i].kind = "Deleted" /\ s \in queue["tunnels"][i].ids
        BY <3>2, Zenon DEF QueuedDeletion
      <4>2. \/ \E j \in DOMAIN queue'["tunnels"] : queue'["tunnels"][j] = queue["tunnels"][i]
            \/ i = 1 /\ Len(queue["tunnels"]) = Capacity
        BY PublishedEvents, Zenon DEF Lifecycle!Consumers
      <4>3. CASE \E j \in DOMAIN queue'["tunnels"] : queue'["tunnels"][j] = queue["tunnels"][i]
        BY <4>1, <4>3, Zenon DEF QueuedDeletion
      <4>4. CASE i = 1 /\ Len(queue["tunnels"]) = Capacity
        <5>1. queue["tunnels"][1].kind # "Deleting"
          BY <4>1, <4>4, Zenon
        <5>2. QED BY <1>4, <2>2, <4>1, <4>4, <5>1, Zenon DEF Lifecycle!Consumers
      <4>5. QED BY <4>2, <4>3, <4>4, Zenon
    <3>3. QED BY <1>7, <3>1, <3>2, Zenon
  <2>3. QED BY <2>1, <2>2, Zenon
<1>8. QED BY <1>1, <1>2, <1>6, <1>7, Zenon

\* A consumer that takes an event has the others left.
LEMMA TakenEvents ==
  ASSUME LifecycleConstants, QueueTyped, NEW k \in Lifecycle!Consumers, queue[k] # <<>>, queue' = [queue EXCEPT ![k] = Tail(@)]
  PROVE  /\ QueueTyped'
         /\ Head(queue[k]) \in EventRec
         /\ \A i \in DOMAIN queue[k] : queue[k][i] = Head(queue[k]) \/ \E j \in DOMAIN queue'[k] : queue'[k][j] = queue[k][i]
         /\ \A l \in Lifecycle!Consumers \ {k} : queue'[l] = queue[l]
<1> DEFINE q == queue[k]
<1>1. q \in Seq(EventRec) /\ q # <<>> /\ queue'[k] = Tail(q)
  BY Zenon DEF QueueTyped
<1> HIDE DEF q, EventRec
<1>2. /\ Tail(q) \in Seq(EventRec) /\ Len(Tail(q)) = Len(q) - 1 /\ DOMAIN Tail(q) = 1..(Len(q) - 1)
      /\ \A j \in 1..(Len(q) - 1) : Tail(q)[j] = q[j + 1]
      /\ Head(q) = q[1] /\ Head(q) \in EventRec /\ Len(q) \in Nat \ {0} /\ DOMAIN q = 1..Len(q)
  BY <1>1
<1>3. ASSUME NEW i \in DOMAIN q PROVE q[i] = Head(q) \/ \E j \in DOMAIN Tail(q) : Tail(q)[j] = q[i]
  <2>1. CASE i = 1
    BY <1>2, <2>1, Zenon
  <2>2. CASE i # 1
    <3>1. i - 1 \in 1..(Len(q) - 1) /\ (i - 1) + 1 = i
      BY <1>2, <1>3, <2>2
    <3>2. Tail(q)[i - 1] = q[i]
      BY <1>2, <3>1, Zenon
    <3>3. QED BY <1>2, <3>1, <3>2, Zenon
  <2>3. QED BY <2>1, <2>2, Zenon
<1>4. Len(Tail(q)) <= Len(q)
  BY <1>2
<1>5. \A l \in Lifecycle!Consumers \ {k} : queue'[l] = queue[l]
  BY Zenon DEF QueueTyped
<1>6. Len(queue'[k]) <= Capacity
  <2>1. Len(q) <= Capacity
    BY Zenon DEF q, QueueTyped
  <2>2. Len(Tail(q)) = Len(q) - 1 /\ Len(q) \in Nat
    BY <1>2, Zenon
  <2>3. QED BY <1>1, <2>1, <2>2 DEF LifecycleConstants
<1>7. QueueTyped'
  BY <1>1, <1>2, <1>5, <1>6, Zenon DEF QueueTyped
<1>8. QED BY <1>1, <1>2, <1>3, <1>5, <1>7 DEF q
\* A step keeps the invariant when rows stay, followers only come up to date, and
\* what was told stays told.
LEMMA FollowKept ==
  ASSUME LifecycleConstants, FollowInv, row' = row,
         \A s \in Stored : pool'[s] \in {Lifecycle!None, Lifecycle!Building, row[s], pool[s]},
         \A t \in Tunnels :
            \/ followed'[t] \in {Lifecycle!None, row[Owner[t]]} \/ t \in lateStarts'
            \/ followed'[t] = followed[t] /\ (t \in lateStarts => t \in lateStarts') /\ (t \in passed => t \in passed') /\ (Listed(t) => Listed(t)'),
         \A s \in Stored :
            /\ ToldPool(s) => ToldPool(s)'
            /\ ToldTunnels(s) => ToldTunnels(s)'
            /\ row[s] = Lifecycle!None /\ ToldDeletion(s) => ToldDeletion(s)'
  PROVE  FollowInv'
<1>1. ASSUME NEW s \in Stored PROVE ConnectionInv(s)'
  BY Zenon DEF FollowInv, ConnectionInv, Lifecycle!StaleConnection, Lifecycle!None, Lifecycle!Building
<1>2. ASSUME NEW t \in Tunnels PROVE TunnelInv(t)'
  <2>1. Owner[t] \in Stored /\ TunnelInv(t)
    BY Zenon DEF LifecycleConstants, FollowInv
  <2>2. CASE followed'[t] \in {Lifecycle!None, row[Owner[t]]} \/ t \in lateStarts'
    BY <2>2, Zenon DEF TunnelInv, Lifecycle!StaleTunnel
  <2>3. CASE followed'[t] = followed[t] /\ (t \in lateStarts => t \in lateStarts') /\ (t \in passed => t \in passed') /\ (Listed(t) => Listed(t)')
    BY <2>1, <2>3, Zenon DEF TunnelInv, Lifecycle!StaleTunnel
  <2>4. QED BY <2>2, <2>3, Zenon
<1>3. QED BY <1>1, <1>2, Zenon DEF FollowInv

\* A command that had nothing to publish leaves what the others have.
LEMMA AnnouncedKept ==
  ASSUME NEW c \in Commands, \A d \in Commands \ {c} : cmd'[d] = cmd[d], cmd[c].pc \notin {"publish", "deleted"}
  PROVE  \A s \in Stored : (Announced(s) => Announced(s)') /\ (AnnouncedDeletion(s) => AnnouncedDeletion(s)')
<1>1. ASSUME NEW s \in Stored, Announced(s) PROVE Announced(s)'
  BY <1>1, Zenon DEF Announced
<1>2. ASSUME NEW s \in Stored, AnnouncedDeletion(s) PROVE AnnouncedDeletion(s)'
  BY <1>2, Zenon DEF AnnouncedDeletion
<1>3. QED BY <1>1, <1>2, Zenon

\* A step of such a command that leaves the queues and loses no silence.
LEMMA CommandTells ==
  ASSUME NEW c \in Commands, \A d \in Commands \ {c} : cmd'[d] = cmd[d], cmd[c].pc \notin {"publish", "deleted"},
         queue' = queue, silent \subseteq silent'
  PROVE  \A s \in Stored :
            /\ ToldPool(s) => ToldPool(s)'
            /\ ToldTunnels(s) => ToldTunnels(s)'
            /\ ToldDeletion(s) => ToldDeletion(s)'
<1>1. \A s \in Stored : (Announced(s) => Announced(s)') /\ (AnnouncedDeletion(s) => AnnouncedDeletion(s)')
  BY AnnouncedKept, Zenon
<1>2. \A s \in Stored : Lifecycle!Silent(s) => Lifecycle!Silent(s)'
  BY Zenon DEF Lifecycle!Silent
<1>3. \A s \in Stored : (Queued("pool", s) => Queued("pool", s)') /\ (Queued("tunnels", s) => Queued("tunnels", s)') /\ (QueuedDeletion(s) => QueuedDeletion(s)')
  BY Zenon DEF Queued, QueuedDeletion
<1>4. QED BY <1>1, <1>2, <1>3, Zenon DEF ToldPool, ToldTunnels, ToldDeletion

\* The commands that change no session.
LEMMA QuietCommandInv ==
  ASSUME LifecycleConstants, FollowInv, NEW c \in Commands, \A d \in Commands \ {c} : cmd'[d] = cmd[d],
         cmd[c].pc \notin {"publish", "deleted"}, UNCHANGED <<row, pool, Lifecycle!events, silent>>,
         \A t \in Tunnels :
            \/ followed'[t] \in {Lifecycle!None, row[Owner[t]]} \/ t \in lateStarts'
            \/ followed'[t] = followed[t] /\ (t \in lateStarts => t \in lateStarts') /\ (t \in passed => t \in passed')
  PROVE  FollowInv'
<1>1. \A t \in Tunnels : Listed(t) => Listed(t)'
  BY Zenon DEF Listed, Lifecycle!events
<1>2. \A s \in Stored : (ToldPool(s) => ToldPool(s)') /\ (ToldTunnels(s) => ToldTunnels(s)') /\ (ToldDeletion(s) => ToldDeletion(s)')
  BY CommandTells, Zenon DEF Lifecycle!events
<1>3. QED BY <1>1, <1>2, FollowKept, Zenon

\* A row that changes: a command has yet to publish it, or says nothing of it.
LEMMA WrittenInv ==
  ASSUME LifecycleConstants, FollowInv, NEW c \in Commands, \A d \in Commands \ {c} : cmd'[d] = cmd[d],
         cmd[c].pc \notin {"publish", "deleted"}, silent \subseteq silent',
         UNCHANGED <<followed, pool, Lifecycle!events, lateStarts, passed>>,
         \A s \in Stored :
            \/ row'[s] = row[s] 
            \/ Lifecycle!Silent(s)'
            \/ s \in cmd'[c].ids /\ cmd'[c].pc = "deleted"
            \/ s \in cmd'[c].ids /\ cmd'[c].pc = "publish" /\ row'[s] # Lifecycle!None
  PROVE  FollowInv'
<1>1. \A s \in Stored : (ToldPool(s) => ToldPool(s)') /\ (ToldTunnels(s) => ToldTunnels(s)') /\ (ToldDeletion(s) => ToldDeletion(s)')
  BY CommandTells, Zenon DEF Lifecycle!events
<1>2. \A s \in Stored : row'[s] = row[s] \/ (ToldPool(s)' /\ ToldTunnels(s)' /\ (row'[s] = Lifecycle!None => ToldDeletion(s)'))
  BY Zenon DEF ToldPool, ToldTunnels, ToldDeletion, Announced, AnnouncedDeletion
<1>3. ASSUME NEW s \in Stored PROVE ConnectionInv(s)'
  BY <1>1, <1>2, Zenon DEF FollowInv, ConnectionInv, Lifecycle!StaleConnection
<1>4. ASSUME NEW t \in Tunnels PROVE TunnelInv(t)'
  <2>1. Owner[t] \in Stored /\ TunnelInv(t)
    BY Zenon DEF LifecycleConstants, FollowInv
  <2>2. Listed(t) => Listed(t)'
    BY Zenon DEF Listed, Lifecycle!events
  <2>3. QED BY <1>1, <1>2, <2>1, <2>2, Zenon DEF TunnelInv, Lifecycle!StaleTunnel
<1>5. QED BY <1>3, <1>4, Zenon DEF FollowInv

\* A command publishes: what it had announced is queued.
LEMMA PublishInv ==
  ASSUME LifecycleConstants, LifeTyped, FollowInv, NEW c \in Commands, \A d \in Commands \ {c} : cmd'[d] = cmd[d],
         NEW kind \in {"Upserted", "Deleting", "Deleted"}, Lifecycle!Publish(kind, cmd[c].ids),
         cmd[c].pc = "publish" => kind # "Deleting", cmd[c].pc = "deleted" => kind = "Deleted",
         UNCHANGED <<row, followed, pool, work, lateStarts, passed>>
  PROVE  FollowInv'
<1>1. cmd[c].ids \in SUBSET Stored
  BY Zenon DEF LifeTyped, CmdTyped, CmdRec
<1>2. ASSUME NEW s \in Stored
      PROVE  /\ Announced(s) => Announced(s)' \/ (s \in cmd[c].ids /\ kind # "Deleting")
             /\ AnnouncedDeletion(s) => AnnouncedDeletion(s)' \/ (s \in cmd[c].ids /\ kind = "Deleted")
  <2>1. ASSUME Announced(s) PROVE Announced(s)' \/ (s \in cmd[c].ids /\ kind # "Deleting")
    BY <2>1, Zenon DEF Announced
  <2>2. ASSUME AnnouncedDeletion(s) PROVE AnnouncedDeletion(s)' \/ (s \in cmd[c].ids /\ kind = "Deleted")
    BY <2>2, Zenon DEF AnnouncedDeletion
  <2>3. QED BY <2>1, <2>2, Zenon
<1>3. ASSUME NEW s \in Stored
      PROVE  /\ ToldPool(s) => ToldPool(s)'
             /\ ToldTunnels(s) => ToldTunnels(s)'
             /\ row[s] = Lifecycle!None /\ ToldDeletion(s) => ToldDeletion(s)'
  <2>1. /\ \A k \in Lifecycle!Consumers : Queued(k, s) \/ Lifecycle!Silent(s) => Queued(k, s)' \/ Lifecycle!Silent(s)'
        /\ s \in cmd[c].ids /\ kind # "Deleting" => \A k \in Lifecycle!Consumers : Queued(k, s)'
        /\ row[s] = Lifecycle!None /\ (QueuedDeletion(s) \/ Lifecycle!Silent(s)) => QueuedDeletion(s)' \/ Lifecycle!Silent(s)'
        /\ s \in cmd[c].ids /\ kind = "Deleted" => QueuedDeletion(s)'
    BY <1>1, PublishTells, Zenon DEF LifeTyped
  <2>2. QED BY <1>2, <2>1, Zenon DEF ToldPool, ToldTunnels, ToldDeletion, Lifecycle!Consumers
<1>4. \A t \in Tunnels : Listed(t) => Listed(t)'
  BY Zenon DEF Listed
<1>5. QED BY <1>3, <1>4, FollowKept, Zenon

\* The steps of a command that has begun.
LEMMA CommandsInv ==
  ASSUME LifecycleConstants, LifecycleInv, NEW c \in Commands, Lifecycle!Continue(c)
  PROVE  FollowInv'
<1> USE DEF LifecycleInv
<1>0. cmd \in [Commands -> CmdRec] /\ LifeTyped /\ FollowInv
  BY Zenon DEF LifeTyped, CmdTyped
<1>1. CASE Lifecycle!UpsertWrite(c)
  <2>1. cmd[c].pc \notin {"publish", "deleted"} /\ UNCHANGED <<followed, pool, Lifecycle!events, lateStarts, passed>>
    BY <1>1, Zenon DEF Lifecycle!UpsertWrite, Lifecycle!At
  <2>2. \A d \in Commands \ {c} : cmd'[d] = cmd[d]
    BY <1>0, <1>1, Zenon DEF Lifecycle!UpsertWrite, Lifecycle!Step, Lifecycle!End
  <2>3. silent \subseteq silent'
    BY <1>1, Zenon DEF Lifecycle!UpsertWrite
  <2>4. ASSUME NEW s \in Stored
        PROVE  \/ row'[s] = row[s] \/ Lifecycle!Silent(s)'
               \/ s \in cmd'[c].ids /\ cmd'[c].pc = "publish" /\ row'[s] # Lifecycle!None
    <3>1. s \notin cmd[c].ids => row'[s] = row[s]
      BY <1>1, Zenon DEF Lifecycle!UpsertWrite
    <3>2. s \in cmd[c].ids => row'[s] # Lifecycle!None
      BY <1>1, <1>0, Zenon DEF Lifecycle!UpsertWrite, LifeTyped, StoreTyped, Lifecycle!None
    <3>3. CASE Lifecycle!Step(c, "publish")
      <4>1. cmd'[c].ids = cmd[c].ids /\ cmd'[c].pc = "publish"
        BY <1>0, <3>3, Zenon DEF Lifecycle!Step, CmdRec
      <4>2. QED BY <3>1, <3>2, <4>1, Zenon
    <3>4. CASE silent' = silent \cup (cmd[c].ids \X {"audit"})
      <4>1. s \in cmd[c].ids => <<s, "audit">> \in silent'
        BY <3>4, Zenon
      <4>2. QED BY <3>1, <4>1, Zenon DEF Lifecycle!Silent
    <3>5. QED BY <1>1, <3>3, <3>4, Zenon DEF Lifecycle!UpsertWrite
  <2>5. QED BY <1>0, <2>1, <2>2, <2>3, <2>4, WrittenInv, Zenon
<1>2. CASE Lifecycle!UpsertPublish(c)
  <2>1. cmd[c].pc = "publish" /\ Lifecycle!Publish("Upserted", cmd[c].ids) /\ UNCHANGED <<row, followed, pool, work, lateStarts, passed>>
    BY <1>2, Zenon DEF Lifecycle!UpsertPublish, Lifecycle!At, Lifecycle!store
  <2>2. \A d \in Commands \ {c} : cmd'[d] = cmd[d]
    BY <1>0, <1>2, Zenon DEF Lifecycle!UpsertPublish, Lifecycle!End
  <2>3. QED BY <1>0, <2>1, <2>2, PublishInv, Zenon
<1>3. CASE Lifecycle!Deleting(c)
  <2>1. cmd[c].pc = "deleting" /\ UNCHANGED <<row, followed, pool, work, lateStarts, passed>>
    BY <1>3, Zenon DEF Lifecycle!Deleting, Lifecycle!store
  <2>2. \A d \in Commands \ {c} : cmd'[d] = cmd[d]
    BY <1>0, <1>3, Zenon DEF Lifecycle!Deleting, Lifecycle!Step
  <2>3. CASE cmd[c].ids = {}
    <3>1. UNCHANGED <<queue, silent>>
      BY <1>3, <2>3, Zenon DEF Lifecycle!Deleting
    <3>2. QED BY <1>0, <2>1, <2>2, <3>1, QuietCommandInv, Zenon DEF Lifecycle!events
  <2>4. CASE cmd[c].ids # {}
    <3>1. Lifecycle!Publish("Deleting", cmd[c].ids)
      BY <1>3, <2>4, Zenon DEF Lifecycle!Deleting
    <3>2. QED BY <1>0, <2>1, <2>2, <3>1, PublishInv, Zenon
  <2>5. QED BY <2>3, <2>4, Zenon
<1>4. CASE Lifecycle!DeleteRows(c)
  <2>1. cmd[c].pc \notin {"publish", "deleted"} /\ UNCHANGED <<followed, pool, Lifecycle!events, lateStarts, passed>>
    BY <1>4, Zenon DEF Lifecycle!DeleteRows
  <2>2. \A d \in Commands \ {c} : cmd'[d] = cmd[d]
    BY <1>0, <1>4, Zenon DEF Lifecycle!DeleteRows, Lifecycle!Step, Lifecycle!End
  <2>3. silent \subseteq silent'
    BY <1>4, Zenon DEF Lifecycle!DeleteRows
  <2>4. ASSUME NEW s \in Stored
        PROVE  row'[s] = row[s] \/ Lifecycle!Silent(s)' \/ (s \in cmd'[c].ids /\ cmd'[c].pc = "deleted")
    <3> DEFINE gone == {x \in Stored : row[x] # Lifecycle!None /\ x \in IF cmd[c].kind = "group" THEN grouped ELSE cmd[c].ids}
    <3>1. /\ row' = [x \in Stored |-> IF x \in gone THEN Lifecycle!None ELSE row[x]]
          /\ silent' = silent \cup ((gone \ cmd[c].ids) \X {"group"})
          /\ IF cmd[c].kind = "delete" /\ gone = {} THEN Lifecycle!End(c) ELSE Lifecycle!Step(c, "deleted")
      BY <1>4, Zenon DEF Lifecycle!DeleteRows
    <3> HIDE DEF gone
    <3>2. s \notin gone => row'[s] = row[s]
      BY <3>1, Zenon
    <3>3. s \in gone /\ s \notin cmd[c].ids => Lifecycle!Silent(s)'
      <4>1. s \in gone /\ s \notin cmd[c].ids => <<s, "group">> \in silent'
        BY <3>1, Zenon
      <4>2. QED BY <4>1, Zenon DEF Lifecycle!Silent
    <3>4. s \in gone /\ s \in cmd[c].ids => s \in cmd'[c].ids /\ cmd'[c].pc = "deleted"
      <4>1. s \in gone => Lifecycle!Step(c, "deleted")
        BY <3>1, Zenon
      <4>2. QED BY <1>0, <4>1 DEF Lifecycle!Step, CmdRec
    <3>5. QED BY <3>2, <3>3, <3>4, Zenon
  <2>5. QED BY <1>0, <2>1, <2>2, <2>3, <2>4, WrittenInv, Zenon
<1>5. CASE Lifecycle!Deleted(c)
  <2>1. cmd[c].pc = "deleted" /\ UNCHANGED <<row, followed, pool, work, lateStarts, passed>>
    BY <1>5, Zenon DEF Lifecycle!Deleted, Lifecycle!store
  <2>2. \A d \in Commands \ {c} : cmd'[d] = cmd[d]
    BY <1>0, <1>5, Zenon DEF Lifecycle!Deleted, Lifecycle!End
  <2>3. CASE cmd[c].ids = {}
    <3>1. UNCHANGED <<queue, silent>>
      BY <1>5, <2>3, Zenon DEF Lifecycle!Deleted
    <3>2. \A s \in Stored : (Announced(s) => Announced(s)') /\ (AnnouncedDeletion(s) => AnnouncedDeletion(s)')
      <4>1. ASSUME NEW s \in Stored, Announced(s) PROVE Announced(s)'
        BY <2>2, <2>3, <4>1, Zenon DEF Announced
      <4>2. ASSUME NEW s \in Stored, AnnouncedDeletion(s) PROVE AnnouncedDeletion(s)'
        BY <2>2, <2>3, <4>2, Zenon DEF AnnouncedDeletion
      <4>3. QED BY <4>1, <4>2, Zenon
    <3>3. \A s \in Stored : (Lifecycle!Silent(s) => Lifecycle!Silent(s)') /\ (QueuedDeletion(s) => QueuedDeletion(s)') /\ \A k \in Lifecycle!Consumers : Queued(k, s) => Queued(k, s)'
      BY <3>1, Zenon DEF Lifecycle!Silent, Queued, QueuedDeletion
    <3>4. \A s \in Stored : (ToldPool(s) => ToldPool(s)') /\ (ToldTunnels(s) => ToldTunnels(s)') /\ (ToldDeletion(s) => ToldDeletion(s)')
      BY <3>2, <3>3, Zenon DEF ToldPool, ToldTunnels, ToldDeletion, Lifecycle!Consumers
    <3>5. \A t \in Tunnels : Listed(t) => Listed(t)'
      BY <2>1, Zenon DEF Listed
    <3>6. QED BY <1>0, <2>1, <3>4, <3>5, FollowKept, Zenon
  <2>4. CASE cmd[c].ids # {}
    <3>1. Lifecycle!Publish("Deleted", cmd[c].ids)
      BY <1>5, <2>4, Zenon DEF Lifecycle!Deleted
    <3>2. QED BY <1>0, <2>1, <2>2, <3>1, PublishInv, Zenon
  <2>5. QED BY <2>3, <2>4, Zenon
<1>6. CASE Lifecycle!ImportWrite(c)
  <2>1. cmd[c].pc \notin {"publish", "deleted"} /\ UNCHANGED <<followed, pool, Lifecycle!events, lateStarts, passed>>
    BY <1>6, Zenon DEF Lifecycle!ImportWrite, Lifecycle!At
  <2>2. \A d \in Commands \ {c} : cmd'[d] = cmd[d]
    BY <1>0, <1>6, Zenon DEF Lifecycle!ImportWrite, Lifecycle!End
  <2>3. silent \subseteq silent'
    BY <1>6, Zenon DEF Lifecycle!ImportWrite
  <2>4. ASSUME NEW s \in Stored PROVE row'[s] = row[s] \/ Lifecycle!Silent(s)'
    <3>1. s \in cmd[c].ids /\ cmd[c].tun = "none" => <<s, "import">> \in silent'
      BY <1>6, Zenon DEF Lifecycle!ImportWrite
    <3>2. row'[s] = row[s] \/ (s \in cmd[c].ids /\ cmd[c].tun = "none")
      BY <1>6, Zenon DEF Lifecycle!ImportWrite
    <3>3. QED BY <3>1, <3>2, Zenon DEF Lifecycle!Silent
  <2>5. QED BY <1>0, <2>1, <2>2, <2>3, <2>4, WrittenInv, Zenon
<1>7. CASE Lifecycle!TunnelDeleteRow(c)
  <2>1. cmd[c].pc \notin {"publish", "deleted"} /\ UNCHANGED <<row, followed, pool, Lifecycle!events, silent, lateStarts, passed>>
    BY <1>7, Zenon DEF Lifecycle!TunnelDeleteRow, Lifecycle!At
  <2>2. \A d \in Commands \ {c} : cmd'[d] = cmd[d]
    BY <1>0, <1>7, Zenon DEF Lifecycle!TunnelDeleteRow, Lifecycle!End
  <2>3. QED BY <1>0, <2>1, <2>2, QuietCommandInv, Zenon
<1>8. CASE Lifecycle!CheckStart(c)
  <2>1. cmd[c].pc \notin {"publish", "deleted"} /\ UNCHANGED <<row, followed, pool, Lifecycle!events, silent, lateStarts, passed>>
    BY <1>8, Zenon DEF Lifecycle!CheckStart, Lifecycle!At, Lifecycle!store
  <2>2. \A d \in Commands \ {c} : cmd'[d] = cmd[d]
    BY <1>0, <1>8, Zenon DEF Lifecycle!CheckStart, Lifecycle!End
  <2>3. QED BY <1>0, <2>1, <2>2, QuietCommandInv, Zenon
<1>9. CASE Lifecycle!ManagerStart(c)
  <2>1. cmd[c].pc \notin {"publish", "deleted"} /\ UNCHANGED <<row, pool, Lifecycle!events, silent, passed>>
    BY <1>9, Zenon DEF Lifecycle!ManagerStart, Lifecycle!At, Lifecycle!store
  <2>2. \A d \in Commands \ {c} : cmd'[d] = cmd[d]
    BY <1>0, <1>9, Zenon DEF Lifecycle!ManagerStart, Lifecycle!End
  <2>3. ASSUME NEW t \in Tunnels
        PROVE  \/ followed'[t] \in {Lifecycle!None, row[Owner[t]]} \/ t \in lateStarts'
               \/ followed'[t] = followed[t] /\ (t \in lateStarts => t \in lateStarts')
    BY <1>0, <1>9, Zenon DEF Lifecycle!ManagerStart, Lifecycle!Started, LifeTyped, FollowersTyped
  <2>4. QED BY <1>0, <2>1, <2>2, <2>3, QuietCommandInv, Zenon
<1>10. QED BY <1>1, <1>2, <1>3, <1>4, <1>5, <1>6, <1>7, <1>8, <1>9, Zenon DEF Lifecycle!Continue

\* What is told while no command and no queue moves.
LEMMA StillTold ==
  ASSUME cmd' = cmd, queue' = queue, silent' = silent
  PROVE  \A s \in Stored : (ToldPool(s) => ToldPool(s)') /\ (ToldTunnels(s) => ToldTunnels(s)') /\ (ToldDeletion(s) => ToldDeletion(s)')
BY Zenon DEF ToldPool, ToldTunnels, ToldDeletion, Lifecycle!Silent, Queued, QueuedDeletion, Announced, AnnouncedDeletion

LEMMA NoCmdSays == Lifecycle!NoCmd.pc \notin {"publish", "deleted"}
BY Zenon DEF Lifecycle!NoCmd

\* A command begins.
LEMMA BegunInv ==
  ASSUME LifecycleConstants, LifecycleInv, NEW c \in Commands,
         \/ Lifecycle!GroupDeleteBegin(c)
         \/ \E s \in Stored :
               \/ Lifecycle!UpsertBegin(c, s) \/ Lifecycle!DeleteBegin(c, s) \/ Lifecycle!Move(c, s)
               \/ \E t \in Tunnels \cup {"none"} : Lifecycle!ImportBegin(c, s, t)
         \/ \E t \in Tunnels : Lifecycle!TunnelStart(c, t) \/ Lifecycle!TunnelSave(c, t) \/ Lifecycle!TunnelDelete(c, t)
  PROVE  FollowInv'
<1>0. cmd \in [Commands -> CmdRec] /\ FollowInv /\ followed \in [Tunnels -> Versions]
  BY Zenon DEF LifecycleInv, LifeTyped, CmdTyped, FollowersTyped
<1>1. ASSUME NEW new, Lifecycle!Begin(c, new) PROVE FollowInv'
  <2>1. \A d \in Commands \ {c} : cmd'[d] = cmd[d]
    BY <1>0, <1>1, Zenon DEF Lifecycle!Begin
  <2>2. cmd[c].pc \notin {"publish", "deleted"} /\ UNCHANGED <<row, followed, pool, Lifecycle!events, silent, lateStarts, passed>>
    BY <1>1, NoCmdSays, Zenon DEF Lifecycle!Begin, Lifecycle!store
  <2>3. QED BY <1>0, <2>1, <2>2, QuietCommandInv, Zenon
<1>2. ASSUME NEW s \in Stored, Lifecycle!Move(c, s) PROVE FollowInv'
  <2>1. \A d \in Commands \ {c} : cmd'[d] = cmd[d]
    BY <1>2, Zenon DEF Lifecycle!Move
  <2>2. cmd[c].pc \notin {"publish", "deleted"} /\ UNCHANGED <<row, followed, pool, Lifecycle!events, silent, lateStarts, passed>>
    BY <1>2, NoCmdSays, Zenon DEF Lifecycle!Move
  <2>3. QED BY <1>0, <2>1, <2>2, QuietCommandInv, Zenon
<1>3. ASSUME NEW t \in Tunnels, Lifecycle!TunnelSave(c, t) PROVE FollowInv'
  <2>1. \A d \in Commands \ {c} : cmd'[d] = cmd[d]
    BY <1>0, <1>3, Zenon DEF Lifecycle!TunnelSave
  <2>2. cmd[c].pc \notin {"publish", "deleted"} /\ UNCHANGED <<row, followed, pool, Lifecycle!events, silent, lateStarts, passed>>
    <3>1. cmd[c] = Lifecycle!NoCmd /\ UNCHANGED <<row, followed, pool, Lifecycle!events, silent, lateStarts, passed>>
      BY <1>3, Zenon DEF Lifecycle!TunnelSave
    <3>2. QED BY <3>1, NoCmdSays, Zenon
  <2>3. QED BY <1>0, <2>1, <2>2, QuietCommandInv, Zenon
<1>4. ASSUME NEW t \in Tunnels, Lifecycle!TunnelDelete(c, t) PROVE FollowInv'
  <2>1. \A d \in Commands \ {c} : cmd'[d] = cmd[d]
    BY <1>0, <1>4, Zenon DEF Lifecycle!TunnelDelete
  <2>2. cmd[c].pc \notin {"publish", "deleted"} /\ UNCHANGED <<row, pool, Lifecycle!events, silent>> /\ Lifecycle!Stopped(t)
    <3>1. cmd[c] = Lifecycle!NoCmd /\ UNCHANGED <<Lifecycle!store, pool, Lifecycle!events, silent>> /\ Lifecycle!Stopped(t)
      BY <1>4, Zenon DEF Lifecycle!TunnelDelete
    <3>2. QED BY <3>1, NoCmdSays, Zenon DEF Lifecycle!store
  <2>3. ASSUME NEW u \in Tunnels
        PROVE  followed'[u] = Lifecycle!None \/ (followed'[u] = followed[u] /\ (u \in lateStarts => u \in lateStarts') /\ (u \in passed => u \in passed'))
    BY <1>0, <2>2, Zenon DEF Lifecycle!Stopped
  <2>4. QED BY <1>0, <2>1, <2>2, <2>3, QuietCommandInv, Zenon
<1>5. QED BY <1>1, <1>2, <1>3, <1>4, Zenon DEF Lifecycle!GroupDeleteBegin, Lifecycle!UpsertBegin, Lifecycle!DeleteBegin, Lifecycle!ImportBegin, Lifecycle!TunnelStart

\* Tunnels are stopped and pooled connections built.
LEMMA PoolsInv ==
  ASSUME LifecycleConstants, LifecycleInv,
         (\E t \in Tunnels : Lifecycle!TunnelStop(t)) \/ (\E s \in Stored : Lifecycle!EnsureCtx(s) \/ Lifecycle!BuildCtx(s))
  PROVE  FollowInv'
<1>0. FollowInv /\ followed \in [Tunnels -> Versions] /\ pool \in [Stored -> 0..Lifecycle!Building]
  BY Zenon DEF LifecycleInv, LifeTyped, FollowersTyped
<1>1. ASSUME NEW t \in Tunnels, Lifecycle!TunnelStop(t) PROVE FollowInv'
  <2>1. cmd' = cmd /\ queue' = queue /\ silent' = silent /\ row' = row /\ pool' = pool /\ work' = work /\ Lifecycle!Stopped(t)
    BY <1>1, Zenon DEF Lifecycle!TunnelStop, Lifecycle!store, Lifecycle!events
  <2>2. ASSUME NEW u \in Tunnels
        PROVE  followed'[u] = Lifecycle!None \/ (followed'[u] = followed[u] /\ (u \in lateStarts => u \in lateStarts') /\ (u \in passed => u \in passed'))
    BY <1>0, <2>1, Zenon DEF Lifecycle!Stopped
  <2>3. \A u \in Tunnels : Listed(u) => Listed(u)'
    BY <2>1, Zenon DEF Listed
  <2>4. QED BY <1>0, <2>1, <2>2, <2>3, StillTold, FollowKept, Zenon
<1>2. ASSUME NEW s \in Stored, Lifecycle!EnsureCtx(s) \/ Lifecycle!BuildCtx(s) PROVE FollowInv'
  <2>1. cmd' = cmd /\ queue' = queue /\ silent' = silent /\ row' = row /\ work' = work /\ followed' = followed /\ lateStarts' = lateStarts /\ passed' = passed
    BY <1>2, Zenon DEF Lifecycle!EnsureCtx, Lifecycle!BuildCtx, Lifecycle!store, Lifecycle!events
  <2>2. \A x \in Stored : pool'[x] \in {Lifecycle!None, Lifecycle!Building, row[x], pool[x]}
    BY <1>0, <1>2, Zenon DEF Lifecycle!EnsureCtx, Lifecycle!BuildCtx
  <2>3. \A u \in Tunnels : Listed(u) => Listed(u)'
    BY <2>1, Zenon DEF Listed
  <2>4. QED BY <1>0, <2>1, <2>2, <2>3, StillTold, FollowKept, Zenon
<1>3. QED BY <1>1, <1>2, Zenon

\* The consumers of events: the pool, and the tunnel manager with its list.
LEMMA ConsumeInv ==
  ASSUME LifecycleConstants, LifecycleInv, Lifecycle!Consume
  PROVE  FollowInv'
<1>0. /\ FollowInv /\ QueueTyped /\ followed \in [Tunnels -> Versions] /\ pool \in [Stored -> 0..Lifecycle!Building] /\ work \in WorkRec
      /\ defs \subseteq Tunnels /\ \A t \in defs : row[Owner[t]] # Lifecycle!None
  BY Zenon DEF LifecycleInv, LifeTyped, FollowersTyped, StoreTyped
<1>1. CASE Lifecycle!PoolConsume
  <2> DEFINE e == Head(queue["pool"])
  <2>1. cmd' = cmd /\ silent' = silent /\ row' = row /\ work' = work /\ followed' = followed /\ lateStarts' = lateStarts /\ passed' = passed
    BY <1>1, Zenon DEF Lifecycle!PoolConsume, Lifecycle!store
  <2>2. /\ queue["pool"] # <<>> /\ queue' = [queue EXCEPT !["pool"] = Tail(@)]
        /\ pool' = [s \in Stored |-> IF s \in e.ids /\ e.kind # "Deleting" THEN Lifecycle!None ELSE pool[s]]
    BY <1>1, Zenon DEF Lifecycle!PoolConsume
  <2>3. /\ \A i \in DOMAIN queue["pool"] : queue["pool"][i] = e \/ \E j \in DOMAIN queue'["pool"] : queue'["pool"][j] = queue["pool"][i]
        /\ queue'["tunnels"] = queue["tunnels"]
    BY <1>0, <2>2, TakenEvents, Zenon DEF Lifecycle!Consumers
  <2> HIDE DEF e
  <2>4. \A s \in Stored : (Lifecycle!Silent(s) => Lifecycle!Silent(s)') /\ (Announced(s) => Announced(s)') /\ (AnnouncedDeletion(s) => AnnouncedDeletion(s)')
    BY <2>1, Zenon DEF Lifecycle!Silent, Announced, AnnouncedDeletion
  <2>5. \A s \in Stored : (Queued("tunnels", s) => Queued("tunnels", s)') /\ (QueuedDeletion(s) => QueuedDeletion(s)')
    BY <2>3, Zenon DEF Queued, QueuedDeletion
  <2>6. ASSUME NEW s \in Stored, Queued("pool", s) PROVE Queued("pool", s)' \/ (e.kind # "Deleting" /\ s \in e.ids)
    <3>1. PICK i \in DOMAIN queue["pool"] : queue["pool"][i].kind # "Deleting" /\ s \in queue["pool"][i].ids
      BY <2>6, Zenon DEF Queued
    <3>2. QED BY <2>3, <3>1, Zenon DEF Queued
  <2>7. ASSUME NEW s \in Stored PROVE ConnectionInv(s)'
    <3>1. CASE e.kind # "Deleting" /\ s \in e.ids
      BY <2>2, <3>1, Zenon DEF ConnectionInv, Lifecycle!StaleConnection
    <3>2. CASE ~(e.kind # "Deleting" /\ s \in e.ids)
      <4>1. pool'[s] = pool[s] /\ ConnectionInv(s)
        BY <1>0, <2>2, <3>2, Zenon DEF FollowInv
      <4>2. ToldPool(s) => ToldPool(s)'
        BY <2>4, <2>6, <3>2, Zenon DEF ToldPool
      <4>3. QED BY <2>1, <4>1, <4>2, Zenon DEF ConnectionInv, Lifecycle!StaleConnection
    <3>3. QED BY <3>1, <3>2, Zenon
  <2>8. ASSUME NEW t \in Tunnels PROVE TunnelInv(t)'
    <3>1. Owner[t] \in Stored /\ TunnelInv(t)
      BY <1>0, Zenon DEF LifecycleConstants, FollowInv
    <3>2. (Listed(t) => Listed(t)') /\ (ToldTunnels(Owner[t]) => ToldTunnels(Owner[t])') /\ (ToldDeletion(Owner[t]) => ToldDeletion(Owner[t])')
      BY <2>1, <2>4, <2>5, <3>1, Zenon DEF Listed, ToldTunnels, ToldDeletion
    <3>3. QED BY <2>1, <3>1, <3>2, Zenon DEF TunnelInv, Lifecycle!StaleTunnel
  <2>9. QED BY <2>7, <2>8, Zenon DEF FollowInv
<1>2. CASE Lifecycle!TunnelsReceive
  <2> DEFINE e == Head(queue["tunnels"])
  <2>1. cmd' = cmd /\ silent' = silent /\ row' = row /\ followed' = followed /\ pool' = pool /\ lateStarts' = lateStarts /\ work = Lifecycle!NoWork
    BY <1>2, Zenon DEF Lifecycle!TunnelsReceive, Lifecycle!store
  <2>2. /\ queue["tunnels"] # <<>> /\ queue' = [queue EXCEPT !["tunnels"] = Tail(@)]
        /\ work' = [Lifecycle!NoWork EXCEPT !.kind = e.kind, !.todo = IF e.kind = "Upserted" THEN Lifecycle!Running(e.ids) \cap defs ELSE Lifecycle!Running(e.ids)]
        /\ passed' = IF e.kind = "Upserted" THEN passed \cup (Lifecycle!Running(e.ids) \ defs) ELSE passed
    BY <1>2, Zenon DEF Lifecycle!TunnelsReceive
  <2>3. /\ \A i \in DOMAIN queue["tunnels"] : queue["tunnels"][i] = e \/ \E j \in DOMAIN queue'["tunnels"] : queue'["tunnels"][j] = queue["tunnels"][i]
        /\ queue'["pool"] = queue["pool"] /\ e \in EventRec
    BY <1>0, <2>2, TakenEvents, Zenon DEF Lifecycle!Consumers
  <2> HIDE DEF e
  <2>4. \A s \in Stored : (Lifecycle!Silent(s) => Lifecycle!Silent(s)') /\ (Announced(s) => Announced(s)') /\ (AnnouncedDeletion(s) => AnnouncedDeletion(s)')
    BY <2>1, Zenon DEF Lifecycle!Silent, Announced, AnnouncedDeletion
  <2>5. \A s \in Stored : Queued("pool", s) => Queued("pool", s)'
    BY <2>3, Zenon DEF Queued
  <2>6. ASSUME NEW s \in Stored, Queued("tunnels", s) PROVE Queued("tunnels", s)' \/ (e.kind # "Deleting" /\ s \in e.ids)
    <3>1. PICK i \in DOMAIN queue["tunnels"] : queue["tunnels"][i].kind # "Deleting" /\ s \in queue["tunnels"][i].ids
      BY <2>6, Zenon DEF Queued
    <3>2. QED BY <2>3, <3>1, Zenon DEF Queued
  <2>7. ASSUME NEW s \in Stored, QueuedDeletion(s) PROVE QueuedDeletion(s)' \/ (e.kind = "Deleted" /\ s \in e.ids)
    <3>1. PICK i \in DOMAIN queue["tunnels"] : queue["tunnels"][i].kind = "Deleted" /\ s \in queue["tunnels"][i].ids
      BY <2>7, Zenon DEF QueuedDeletion
    <3>2. QED BY <2>3, <3>1, Zenon DEF QueuedDeletion
  <2>8. ASSUME NEW s \in Stored PROVE ConnectionInv(s)'
    BY <1>0, <2>1, <2>4, <2>5, Zenon DEF FollowInv, ConnectionInv, Lifecycle!StaleConnection, ToldPool
  <2>9. ASSUME NEW t \in Tunnels PROVE TunnelInv(t)'
    <3>1. Owner[t] \in Stored /\ TunnelInv(t) /\ ~Listed(t) /\ t # "none"
      BY <1>0, <2>1, Zenon DEF LifecycleConstants, FollowInv, Listed, Lifecycle!NoWork
    <3>2. work'.tun = "none" /\ work'.todo = IF e.kind = "Upserted" THEN Lifecycle!Running(e.ids) \cap defs ELSE Lifecycle!Running(e.ids)
      BY <2>2, Zenon DEF Lifecycle!NoWork
    <3>3. CASE followed[t] # Lifecycle!None /\ Owner[t] \in e.ids /\ (e.kind = "Upserted" => t \in defs)
      <4>1. Listed(t)'
        BY <3>1, <3>2, <3>3, Zenon DEF Listed, Lifecycle!Running
      <4>2. QED BY <4>1, Zenon DEF TunnelInv
    <3>4. CASE followed[t] = Lifecycle!None
      BY <2>1, <3>4, Zenon DEF TunnelInv, Lifecycle!StaleTunnel
    <3>5. CASE Owner[t] \notin e.ids
      <4>1. (ToldTunnels(Owner[t]) => ToldTunnels(Owner[t])') /\ (ToldDeletion(Owner[t]) => ToldDeletion(Owner[t])')
        BY <2>4, <2>6, <2>7, <3>1, <3>5, Zenon DEF ToldTunnels, ToldDeletion
      <4>2. t \in passed => t \in passed'
        BY <2>2, Zenon
      <4>3. QED BY <2>1, <3>1, <4>1, <4>2, Zenon DEF TunnelInv, Lifecycle!StaleTunnel
    <3>6. CASE followed[t] # Lifecycle!None /\ Owner[t] \in e.ids /\ e.kind = "Upserted" /\ t \notin defs
      <4>1. t \in passed'
        BY <2>2, <3>6, Zenon DEF Lifecycle!Running
      <4>2. ToldDeletion(Owner[t]) => ToldDeletion(Owner[t])' /\ ToldTunnels(Owner[t])'
        <5>1. ToldDeletion(Owner[t]) => ToldDeletion(Owner[t])'
          BY <2>4, <2>7, <3>1, <3>6, Zenon DEF ToldDeletion
        <5>2. ToldDeletion(Owner[t])' => ToldTunnels(Owner[t])'
          BY Zenon DEF ToldDeletion, ToldTunnels, QueuedDeletion, Queued, AnnouncedDeletion, Announced
        <5>3. QED BY <5>1, <5>2, Zenon
      <4>3. QED BY <2>1, <3>1, <4>1, <4>2, Zenon DEF TunnelInv, Lifecycle!StaleTunnel
    <3>7. QED BY <3>3, <3>4, <3>5, <3>6, Zenon
  <2>10. QED BY <2>8, <2>9, Zenon DEF FollowInv
<1>3. ASSUME NEW t \in Tunnels, Lifecycle!WorkStop(t) PROVE FollowInv'
  <2>1. cmd' = cmd /\ queue' = queue /\ silent' = silent /\ row' = row /\ pool' = pool /\ Lifecycle!Stopped(t)
    BY <1>3, Zenon DEF Lifecycle!WorkStop, Lifecycle!store
  <2>2. ASSUME NEW u \in Tunnels
        PROVE  followed'[u] = Lifecycle!None \/ (followed'[u] = followed[u] /\ (u \in lateStarts => u \in lateStarts') /\ (u \in passed => u \in passed') /\ (Listed(u) => Listed(u)'))
    <3>1. CASE u = t
      BY <1>0, <2>1, <3>1, Zenon DEF Lifecycle!Stopped
    <3>2. CASE u # t
      <4>1. Listed(u) => Listed(u)'
        BY <1>0, <1>3, <3>2, Zenon DEF Lifecycle!WorkStop, Listed, WorkRec
      <4>2. QED BY <1>0, <2>1, <3>2, <4>1, Zenon DEF Lifecycle!Stopped
    <3>3. QED BY <3>1, <3>2, Zenon
  <2>3. QED BY <1>0, <2>1, <2>2, StillTold, FollowKept, Zenon
<1>4. CASE Lifecycle!WorkCheck \/ Lifecycle!WorkDone
  <2>1. cmd' = cmd /\ queue' = queue /\ silent' = silent /\ row' = row /\ pool' = pool /\ followed' = followed /\ lateStarts' = lateStarts /\ passed' = passed
    BY <1>4, Zenon DEF Lifecycle!WorkCheck, Lifecycle!WorkDone, Lifecycle!store
  <2>2. ASSUME NEW u \in Tunnels PROVE Listed(u) => Listed(u)'
    <3>1. CASE Lifecycle!WorkDone
      BY <3>1, Zenon DEF Lifecycle!WorkDone, Listed
    <3>2. CASE Lifecycle!WorkCheck
      <4>1. CASE work' = [work EXCEPT !.tun = "none", !.todo = @ \ {work.tun}]
        <5>1. work'.todo = work.todo \ {work.tun} /\ work'.tun = "none"
          BY <1>0, <4>1, Zenon DEF WorkRec
        <5>2. QED BY <5>1, Zenon DEF Listed, LifecycleConstants
      <4>2. CASE work' = [work EXCEPT !.ver = row[Owner[work.tun]]]
        <5>1. work'.todo = work.todo /\ work'.tun = work.tun
          BY <1>0, <4>2, Zenon DEF WorkRec
        <5>2. QED BY <5>1, Zenon DEF Listed
      <4>3. QED BY <3>2, <4>1, <4>2, Zenon DEF Lifecycle!WorkCheck
    <3>3. QED BY <1>4, <3>1, <3>2, Zenon
  <2>3. QED BY <1>0, <2>1, <2>2, StillTold, FollowKept, Zenon
<1>5. CASE Lifecycle!WorkStart
  <2>1. cmd' = cmd /\ queue' = queue /\ silent' = silent /\ row' = row /\ pool' = pool /\ passed' = passed /\ Lifecycle!Started(work.tun, work.ver)
    BY <1>5, Zenon DEF Lifecycle!WorkStart, Lifecycle!store
  <2>2. ASSUME NEW u \in Tunnels PROVE Listed(u) => Listed(u)'
    BY <1>0, <1>5, Zenon DEF Lifecycle!WorkStart, Listed, WorkRec, LifecycleConstants
  <2>3. ASSUME NEW t \in Tunnels
        PROVE  \/ followed'[t] \in {Lifecycle!None, row[Owner[t]]} \/ t \in lateStarts'
               \/ followed'[t] = followed[t] /\ (t \in lateStarts => t \in lateStarts')
    BY <1>0, <2>1, Zenon DEF Lifecycle!Started
  <2>4. QED BY <1>0, <2>1, <2>2, <2>3, StillTold, FollowKept, Zenon
<1>6. QED BY <1>1, <1>2, <1>3, <1>4, <1>5, Zenon DEF Lifecycle!Consume

\* At first every follower is up to date.
LEMMA LifecycleInitInv ==
  ASSUME LifecycleConstants, Lifecycle!Init
  PROVE  LifecycleInv
<1>1. StoreTyped
  BY DEF Lifecycle!Init, StoreTyped, Versions, LifecycleConstants, Lifecycle!None
<1>2. FollowersTyped
  <2>1. Lifecycle!NoWork \in WorkRec
    <3>1. Lifecycle!None \in Versions
      BY DEF Versions, LifecycleConstants, Lifecycle!None
    <3>2. QED BY <3>1, Zenon DEF Lifecycle!NoWork, WorkRec
  <2>2. QED BY <2>1 DEF Lifecycle!Init, FollowersTyped, Versions, LifecycleConstants, Lifecycle!None, Lifecycle!Building
<1>3. QueueTyped
  BY DEF Lifecycle!Init, QueueTyped, LifecycleConstants
<1>4. CmdTyped
  <2>1. Lifecycle!NoCmd \in CmdRec /\ Lifecycle!NoCmd.kind = "none"
    <3>1. Lifecycle!None \in Versions
      BY DEF Versions, LifecycleConstants, Lifecycle!None
    <3>2. QED BY <3>1, Zenon DEF Lifecycle!NoCmd, CmdRec, CmdKinds, CmdPcs
  <2>2. QED BY <2>1, Zenon DEF Lifecycle!Init, CmdTyped
<1>5. FollowInv
  BY Zenon DEF Lifecycle!Init, FollowInv, ConnectionInv, Lifecycle!StaleConnection, TunnelInv, Lifecycle!StaleTunnel
<1>6. QED BY <1>1, <1>2, <1>3, <1>4, <1>5, Zenon DEF LifecycleInv, LifeTyped

\* A command's record: it stays one, and what starts or imports a tunnel names it.
CmdOk(x) ==
  /\ x \in CmdRec
  /\ x.kind = "start" => x.tun \in Tunnels
  /\ x.kind = "import" => x.tun \in (Tunnels \ AdHoc) \cup {"none"}

\* What ends or goes on keeps the record of its command.
LEMMA CmdSteps ==
  ASSUME LifecycleConstants, CmdTyped, NEW c \in Commands
  PROVE  /\ CmdOk(cmd[c])
         /\ \A x : CmdOk(x) /\ cmd' = [cmd EXCEPT ![c] = x] => CmdTyped'
         /\ Lifecycle!End(c) => CmdTyped'
         /\ Lifecycle!Step(c, "publish") \/ Lifecycle!Step(c, "rows") \/ Lifecycle!Step(c, "deleted") => CmdTyped'
<1>1. CmdOk(cmd[c])
  BY Zenon DEF CmdTyped, CmdOk
<1>2. ASSUME NEW x, CmdOk(x), cmd' = [cmd EXCEPT ![c] = x] PROVE CmdTyped'
  BY <1>2, Zenon DEF CmdTyped, CmdOk
<1>3. CmdOk(Lifecycle!NoCmd)
  <2>1. Lifecycle!None \in Versions
    BY DEF Versions, LifecycleConstants, Lifecycle!None
  <2>2. QED BY <2>1, Zenon DEF CmdOk, Lifecycle!NoCmd, CmdRec, CmdKinds, CmdPcs
<1>4. ASSUME NEW pc \in {"publish", "rows", "deleted"}, Lifecycle!Step(c, pc) PROVE CmdTyped'
  <2>1. CmdOk([cmd[c] EXCEPT !.pc = pc])
    BY <1>1, Zenon DEF CmdOk, CmdRec, CmdPcs
  <2>2. cmd' = [cmd EXCEPT ![c] = [cmd[c] EXCEPT !.pc = pc]]
    BY <1>4, Zenon DEF Lifecycle!Step, CmdTyped
  <2>3. QED BY <1>2, <2>1, <2>2, Zenon
<1>5. QED BY <1>1, <1>2, <1>3, <1>4, Zenon DEF Lifecycle!End

\* Types, in the steps of a command that has begun,
LEMMA ContinueTyped ==
  ASSUME LifecycleConstants, LifeTyped, NEW c \in Commands, Lifecycle!Continue(c)
  PROVE  LifeTyped'
<1>0. StoreTyped /\ FollowersTyped /\ QueueTyped /\ CmdTyped
  BY Zenon DEF LifeTyped
<1>a. CmdOk(cmd[c]) /\ (Lifecycle!End(c) => CmdTyped') /\ (Lifecycle!Step(c, "publish") \/ Lifecycle!Step(c, "rows") \/ Lifecycle!Step(c, "deleted") => CmdTyped')
  BY <1>0, CmdSteps, Zenon
<1>b. cmd[c].ids \in SUBSET Stored /\ cmd[c].ver \in Versions
  BY <1>a, Zenon DEF CmdOk, CmdRec
<1>c. ASSUME UNCHANGED <<row, next, grouped, defs>> PROVE StoreTyped'
  BY <1>0, <1>c, Zenon DEF StoreTyped
<1>d. ASSUME UNCHANGED <<followed, pool, work>> PROVE FollowersTyped'
  BY <1>0, <1>d, Zenon DEF FollowersTyped
<1>e. ASSUME UNCHANGED queue PROVE QueueTyped'
  BY <1>0, <1>e, Zenon DEF QueueTyped
<1>1. CASE Lifecycle!UpsertWrite(c)
  <2>1. StoreTyped'
    <3>1. next \in Versions /\ next # Lifecycle!None /\ next + 1 \in Nat \ {0}
      BY <1>0, <1>1 DEF Lifecycle!UpsertWrite, StoreTyped, Versions, Lifecycle!None, LifecycleConstants
    <3>2. row' \in [Stored -> Versions] /\ next' \in Nat \ {0} /\ defs' = defs /\ grouped' = grouped
      BY <1>0, <1>1, <3>1, Zenon DEF Lifecycle!UpsertWrite, StoreTyped
    <3>3. \A t \in defs : Owner[t] \in Stored /\ row'[Owner[t]] # Lifecycle!None
      BY <1>0, <1>1, <3>1, Zenon DEF Lifecycle!UpsertWrite, StoreTyped, LifecycleConstants
    <3>4. QED BY <1>0, <3>2, <3>3, Zenon DEF StoreTyped
  <2>2. FollowersTyped' /\ QueueTyped'
    BY <1>1, <1>d, <1>e, Zenon DEF Lifecycle!UpsertWrite, Lifecycle!events
  <2>3. CmdTyped'
    BY <1>1, <1>a, Zenon DEF Lifecycle!UpsertWrite
  <2>4. QED BY <2>1, <2>2, <2>3, Zenon DEF LifeTyped
<1>2. CASE Lifecycle!UpsertPublish(c)
  <2>1. StoreTyped' /\ FollowersTyped' /\ CmdTyped'
    BY <1>2, <1>a, <1>c, <1>d, Zenon DEF Lifecycle!UpsertPublish, Lifecycle!store
  <2>2. QueueTyped'
    BY <1>0, <1>2, <1>b, PublishedQueues, Zenon DEF Lifecycle!UpsertPublish
  <2>3. QED BY <2>1, <2>2, Zenon DEF LifeTyped
<1>3. CASE Lifecycle!Deleting(c)
  <2>1. StoreTyped' /\ FollowersTyped' /\ CmdTyped'
    BY <1>3, <1>a, <1>c, <1>d, Zenon DEF Lifecycle!Deleting, Lifecycle!store
  <2>2. QueueTyped'
    <3>1. CASE cmd[c].ids = {}
      BY <1>3, <3>1, <1>e, Zenon DEF Lifecycle!Deleting
    <3>2. CASE cmd[c].ids # {}
      BY <1>0, <1>3, <3>2, <1>b, PublishedQueues, Zenon DEF Lifecycle!Deleting
    <3>3. QED BY <3>1, <3>2, Zenon
  <2>3. QED BY <2>1, <2>2, Zenon DEF LifeTyped
<1>4. CASE Lifecycle!DeleteRows(c)
  <2>1. StoreTyped'
    <3> DEFINE gone == {x \in Stored : row[x] # Lifecycle!None /\ x \in IF cmd[c].kind = "group" THEN grouped ELSE cmd[c].ids}
    <3>1. /\ row' = [x \in Stored |-> IF x \in gone THEN Lifecycle!None ELSE row[x]]
          /\ defs' = {t \in defs : Owner[t] \notin gone} /\ next' = next /\ grouped' = grouped
      BY <1>4, Zenon DEF Lifecycle!DeleteRows
    <3> HIDE DEF gone
    <3>2. row' \in [Stored -> Versions]
      BY <1>0, <3>1 DEF StoreTyped, Versions, Lifecycle!None, LifecycleConstants
    <3>3. \A t \in defs' : Owner[t] \in Stored /\ row'[Owner[t]] # Lifecycle!None
      BY <1>0, <3>1, Zenon DEF StoreTyped, LifecycleConstants
    <3>4. QED BY <1>0, <3>1, <3>2, <3>3, Zenon DEF StoreTyped
  <2>2. FollowersTyped' /\ QueueTyped'
    BY <1>4, <1>d, <1>e, Zenon DEF Lifecycle!DeleteRows, Lifecycle!events
  <2>3. CmdTyped'
    <3>1. Lifecycle!End(c) \/ Lifecycle!Step(c, "deleted")
      BY <1>4, Zenon DEF Lifecycle!DeleteRows
    <3>2. QED BY <3>1, <1>a, Zenon
  <2>4. QED BY <2>1, <2>2, <2>3, Zenon DEF LifeTyped
<1>5. CASE Lifecycle!Deleted(c)
  <2>1. StoreTyped' /\ FollowersTyped' /\ CmdTyped'
    BY <1>5, <1>a, <1>c, <1>d, Zenon DEF Lifecycle!Deleted, Lifecycle!store
  <2>2. QueueTyped'
    <3>1. CASE cmd[c].ids = {}
      BY <1>5, <3>1, <1>e, Zenon DEF Lifecycle!Deleted
    <3>2. CASE cmd[c].ids # {}
      BY <1>0, <1>5, <3>2, <1>b, PublishedQueues, Zenon DEF Lifecycle!Deleted
    <3>3. QED BY <3>1, <3>2, Zenon
  <2>3. QED BY <2>1, <2>2, Zenon DEF LifeTyped
<1>6. CASE Lifecycle!ImportWrite(c)
  <2>1. StoreTyped'
    <3>1. CASE cmd[c].tun = "none"
      <4>1. next \in Versions /\ next # Lifecycle!None /\ next + 1 \in Nat \ {0}
        BY <1>0, <1>6, <3>1 DEF Lifecycle!ImportWrite, StoreTyped, Versions, Lifecycle!None, LifecycleConstants
      <4>2. row' \in [Stored -> Versions] /\ next' \in Nat \ {0} /\ defs' = defs /\ grouped' = grouped
        BY <1>0, <1>6, <3>1, <4>1, Zenon DEF Lifecycle!ImportWrite, StoreTyped
      <4>3. \A t \in defs : Owner[t] \in Stored /\ row'[Owner[t]] # Lifecycle!None
        BY <1>0, <1>6, <3>1, <4>1, Zenon DEF Lifecycle!ImportWrite, StoreTyped, LifecycleConstants
      <4>4. QED BY <1>0, <4>2, <4>3, Zenon DEF StoreTyped
    <3>2. CASE cmd[c].tun # "none"
      <4>1. cmd[c].tun \in Tunnels \ AdHoc
        BY <1>6, <1>a, <3>2, Zenon DEF Lifecycle!ImportWrite, Lifecycle!At, CmdOk
      <4>2. QED BY <1>0, <1>6, <3>2, <4>1, Zenon DEF Lifecycle!ImportWrite, StoreTyped
    <3>3. QED BY <3>1, <3>2, Zenon
  <2>2. FollowersTyped' /\ QueueTyped'
    BY <1>6, <1>d, <1>e, Zenon DEF Lifecycle!ImportWrite, Lifecycle!events
  <2>3. CmdTyped'
    BY <1>6, <1>a, Zenon DEF Lifecycle!ImportWrite
  <2>4. QED BY <2>1, <2>2, <2>3, Zenon DEF LifeTyped
<1>7. CASE Lifecycle!TunnelDeleteRow(c)
  <2>1. StoreTyped'
    BY <1>0, <1>7, Zenon DEF Lifecycle!TunnelDeleteRow, StoreTyped
  <2>2. FollowersTyped' /\ QueueTyped'
    BY <1>7, <1>d, <1>e, Zenon DEF Lifecycle!TunnelDeleteRow, Lifecycle!events
  <2>3. CmdTyped'
    BY <1>7, <1>a, Zenon DEF Lifecycle!TunnelDeleteRow
  <2>4. QED BY <2>1, <2>2, <2>3, Zenon DEF LifeTyped
<1>8. CASE Lifecycle!CheckStart(c)
  <2>1. StoreTyped' /\ FollowersTyped' /\ QueueTyped'
    BY <1>8, <1>c, <1>d, <1>e, Zenon DEF Lifecycle!CheckStart, Lifecycle!store, Lifecycle!events
  <2>2. CmdTyped'
    <3>1. CASE Lifecycle!End(c)
      BY <1>a, <3>1, Zenon
    <3>2. CASE cmd' = [cmd EXCEPT ![c].pc = "start", ![c].ver = row[Owner[cmd[c].tun]]]
      <4>1. cmd[c].tun \in Tunnels
        BY <1>8, <1>a, Zenon DEF Lifecycle!CheckStart, Lifecycle!At, CmdOk
      <4>2. row[Owner[cmd[c].tun]] \in Versions
        BY <1>0, <4>1, Zenon DEF StoreTyped, LifecycleConstants
      <4> DEFINE v == row[Owner[cmd[c].tun]]
                 x == [cmd[c] EXCEPT !.pc = "start", !.ver = v]
      <4> HIDE DEF v
      <4>3. CmdOk(x)
        BY <1>a, <4>2, Zenon DEF CmdOk, CmdRec, CmdPcs, v
      <4>4. cmd' = [cmd EXCEPT ![c] = x]
        BY <1>0, <3>2, Zenon DEF v, CmdTyped
      <4>5. QED BY <1>0, <4>3, <4>4, CmdSteps, Zenon
    <3>3. QED BY <1>8, <3>1, <3>2, Zenon DEF Lifecycle!CheckStart
  <2>3. QED BY <2>1, <2>2, Zenon DEF LifeTyped
<1>9. CASE Lifecycle!ManagerStart(c)
  <2>1. StoreTyped' /\ QueueTyped' /\ CmdTyped'
    BY <1>9, <1>a, <1>c, <1>e, Zenon DEF Lifecycle!ManagerStart, Lifecycle!store, Lifecycle!events
  <2>2. FollowersTyped'
    BY <1>0, <1>9, <1>b, Zenon DEF Lifecycle!ManagerStart, Lifecycle!Started, FollowersTyped, Lifecycle!events
  <2>3. QED BY <2>1, <2>2, Zenon DEF LifeTyped
<1>10. QED BY <1>1, <1>2, <1>3, <1>4, <1>5, <1>6, <1>7, <1>8, <1>9, Zenon DEF Lifecycle!Continue

\* in those that begin one,
LEMMA BegunTyped ==
  ASSUME LifecycleConstants, LifeTyped, NEW c \in Commands,
         \/ Lifecycle!GroupDeleteBegin(c)
         \/ \E s \in Stored :
               \/ Lifecycle!UpsertBegin(c, s) \/ Lifecycle!DeleteBegin(c, s) \/ Lifecycle!Move(c, s)
               \/ \E t \in Tunnels \cup {"none"} : Lifecycle!ImportBegin(c, s, t)
         \/ \E t \in Tunnels : Lifecycle!TunnelStart(c, t) \/ Lifecycle!TunnelSave(c, t) \/ Lifecycle!TunnelDelete(c, t)
  PROVE  LifeTyped'
<1>0. StoreTyped /\ FollowersTyped /\ QueueTyped /\ CmdTyped
  BY Zenon DEF LifeTyped
<1>1. ASSUME NEW x, CmdOk(x), Lifecycle!Begin(c, x) PROVE LifeTyped'
  <2>1. CmdTyped'
    BY <1>0, <1>1, CmdSteps, Zenon DEF Lifecycle!Begin
  <2>2. QED BY <1>0, <1>1, <2>1, Zenon DEF LifeTyped, Lifecycle!Begin, Lifecycle!store, Lifecycle!events, StoreTyped, FollowersTyped, QueueTyped
<1>2. ASSUME NEW kind \in {"upsert", "delete", "group", "import", "start", "drop"}, NEW pc \in {"write", "deleting", "check", "row"},
             NEW ids \in SUBSET Stored, NEW t \in Tunnels \cup {"none"},
             kind = "start" => t \in Tunnels, kind = "import" => t \in (Tunnels \ AdHoc) \cup {"none"}
      PROVE  CmdOk([kind |-> kind, pc |-> pc, ids |-> ids, tun |-> t, ver |-> Lifecycle!None])
  <2>1. Lifecycle!None \in Versions
    BY DEF Versions, LifecycleConstants, Lifecycle!None
  <2>2. QED BY <1>2, <2>1, Zenon DEF CmdOk, CmdRec, CmdKinds, CmdPcs
<1>3. CASE Lifecycle!GroupDeleteBegin(c)
  <2> DEFINE ids == {s \in grouped : row[s] # Lifecycle!None}
  <2>a. PICK x : x = [Lifecycle!NoCmd EXCEPT !.kind = "group", !.pc = "deleting", !.ids = {s \in grouped : row[s] # Lifecycle!None}]
    BY Zenon
  <2>b. x = [kind |-> "group", pc |-> "deleting", ids |-> ids, tun |-> "none", ver |-> Lifecycle!None]
    BY <2>a, Zenon DEF Lifecycle!NoCmd
  <2>1. Lifecycle!Begin(c, [kind |-> "group", pc |-> "deleting", ids |-> ids, tun |-> "none", ver |-> Lifecycle!None])
    BY <1>3, <2>a, <2>b, Zenon DEF Lifecycle!GroupDeleteBegin
  <2>2. ids \in SUBSET Stored
    BY <1>0, Zenon DEF StoreTyped
  <2> HIDE DEF ids
  <2>3. QED BY <1>1, <1>2, <2>1, <2>2, Zenon
<1>4. ASSUME NEW s \in Stored, Lifecycle!UpsertBegin(c, s) PROVE LifeTyped'
  <2>a. PICK x : x = [Lifecycle!NoCmd EXCEPT !.kind = "upsert", !.pc = "write", !.ids = {s}]
    BY Zenon
  <2>b. x = [kind |-> "upsert", pc |-> "write", ids |-> {s}, tun |-> "none", ver |-> Lifecycle!None]
    BY <2>a, Zenon DEF Lifecycle!NoCmd
  <2>1. Lifecycle!Begin(c, [kind |-> "upsert", pc |-> "write", ids |-> {s}, tun |-> "none", ver |-> Lifecycle!None])
    BY <1>4, <2>a, <2>b, Zenon DEF Lifecycle!UpsertBegin
  <2>2. QED BY <1>1, <1>2, <2>1, Zenon
<1>5. ASSUME NEW s \in Stored, Lifecycle!DeleteBegin(c, s) PROVE LifeTyped'
  <2>a. PICK x : x = [Lifecycle!NoCmd EXCEPT !.kind = "delete", !.pc = "deleting", !.ids = {s}]
    BY Zenon
  <2>b. x = [kind |-> "delete", pc |-> "deleting", ids |-> {s}, tun |-> "none", ver |-> Lifecycle!None]
    BY <2>a, Zenon DEF Lifecycle!NoCmd
  <2>1. Lifecycle!Begin(c, [kind |-> "delete", pc |-> "deleting", ids |-> {s}, tun |-> "none", ver |-> Lifecycle!None])
    BY <1>5, <2>a, <2>b, Zenon DEF Lifecycle!DeleteBegin
  <2>2. QED BY <1>1, <1>2, <2>1, Zenon
<1>6. ASSUME NEW s \in Stored, NEW t \in Tunnels \cup {"none"}, Lifecycle!ImportBegin(c, s, t) PROVE LifeTyped'
  <2>a. PICK x : x = [Lifecycle!NoCmd EXCEPT !.kind = "import", !.pc = "write", !.ids = {s}, !.tun = t]
    BY Zenon
  <2>b. x = [kind |-> "import", pc |-> "write", ids |-> {s}, tun |-> t, ver |-> Lifecycle!None]
    BY <2>a, Zenon DEF Lifecycle!NoCmd
  <2>1. Lifecycle!Begin(c, [kind |-> "import", pc |-> "write", ids |-> {s}, tun |-> t, ver |-> Lifecycle!None])
    BY <1>6, <2>a, <2>b, Zenon DEF Lifecycle!ImportBegin
  <2>2. t \in (Tunnels \ AdHoc) \cup {"none"}
    BY <1>6, Zenon DEF Lifecycle!ImportBegin
  <2>3. QED BY <1>1, <1>2, <2>1, <2>2, Zenon
<1>7. ASSUME NEW t \in Tunnels, Lifecycle!TunnelStart(c, t) PROVE LifeTyped'
  <2>a. PICK x : x = [Lifecycle!NoCmd EXCEPT !.kind = "start", !.pc = "check", !.tun = t]
    BY Zenon
  <2>b. x = [kind |-> "start", pc |-> "check", ids |-> {}, tun |-> t, ver |-> Lifecycle!None]
    BY <2>a, Zenon DEF Lifecycle!NoCmd
  <2>1. Lifecycle!Begin(c, [kind |-> "start", pc |-> "check", ids |-> {}, tun |-> t, ver |-> Lifecycle!None])
    BY <1>7, <2>a, <2>b, Zenon DEF Lifecycle!TunnelStart
  <2>2. QED BY <1>1, <1>2, <2>1, Zenon
<1>8. ASSUME NEW s \in Stored, Lifecycle!Move(c, s) PROVE LifeTyped'
  <2>1. FollowersTyped' /\ QueueTyped' /\ CmdTyped'
    BY <1>0, <1>8, Zenon DEF Lifecycle!Move, Lifecycle!events, FollowersTyped, QueueTyped, CmdTyped
  <2>2. row' = row /\ next' = next /\ defs' = defs /\ grouped' \in SUBSET Stored
    BY <1>0, <1>8, Zenon DEF Lifecycle!Move, StoreTyped
  <2>3. StoreTyped'
    BY <1>0, <2>2, Zenon DEF StoreTyped
  <2>4. QED BY <2>1, <2>3, Zenon DEF LifeTyped
<1>9. ASSUME NEW t \in Tunnels, Lifecycle!TunnelSave(c, t) PROVE LifeTyped'
  <2>a. PICK x : x = [Lifecycle!NoCmd EXCEPT !.kind = "start", !.pc = "check", !.tun = t]
    BY Zenon
  <2>1. /\ cmd' = [cmd EXCEPT ![c] = x]
        /\ t \notin AdHoc /\ row[Owner[t]] # Lifecycle!None /\ defs' = defs \cup {t}
        /\ UNCHANGED <<row, next, grouped, followed, pool, Lifecycle!events>>
    BY <1>9, <2>a, Zenon DEF Lifecycle!TunnelSave
  <2>2. x = [kind |-> "start", pc |-> "check", ids |-> {}, tun |-> t, ver |-> Lifecycle!None]
    BY <2>a, Zenon DEF Lifecycle!NoCmd
  <2>3. CmdTyped'
    BY <1>0, <1>2, <2>1, <2>2, CmdSteps, Zenon
  <2>4. StoreTyped'
    BY <1>0, <2>1, Zenon DEF StoreTyped
  <2>5. FollowersTyped' /\ QueueTyped'
    BY <1>0, <2>1, Zenon DEF Lifecycle!events, FollowersTyped, QueueTyped
  <2>6. QED BY <2>3, <2>4, <2>5, Zenon DEF LifeTyped
<1>10. ASSUME NEW t \in Tunnels, Lifecycle!TunnelDelete(c, t) PROVE LifeTyped'
  <2>a. PICK x : x = [Lifecycle!NoCmd EXCEPT !.kind = "drop", !.pc = "row", !.tun = t]
    BY Zenon
  <2>1. cmd' = [cmd EXCEPT ![c] = x] /\ Lifecycle!Stopped(t) /\ UNCHANGED <<Lifecycle!store, pool, Lifecycle!events>>
    BY <1>10, <2>a, Zenon DEF Lifecycle!TunnelDelete
  <2>2. x = [kind |-> "drop", pc |-> "row", ids |-> {}, tun |-> t, ver |-> Lifecycle!None]
    BY <2>a, Zenon DEF Lifecycle!NoCmd
  <2>3. CmdTyped'
    BY <1>0, <1>2, <2>1, <2>2, CmdSteps, Zenon
  <2>4. StoreTyped' /\ QueueTyped'
    BY <1>0, <2>1, Zenon DEF StoreTyped, QueueTyped, Lifecycle!store, Lifecycle!events
  <2>5. FollowersTyped'
    <3>1. Lifecycle!None \in Versions
      BY DEF Versions, LifecycleConstants, Lifecycle!None
    <3>2. QED BY <1>0, <2>1, <3>1, Zenon DEF Lifecycle!Stopped, Lifecycle!events, FollowersTyped
  <2>6. QED BY <2>3, <2>4, <2>5, Zenon DEF LifeTyped
<1>11. QED BY <1>3, <1>4, <1>5, <1>6, <1>7, <1>8, <1>9, <1>10, Zenon

\* and in those of the followers.
LEMMA FollowersStepTyped ==
  ASSUME LifecycleConstants, LifeTyped,
         \/ Lifecycle!Consume \/ (\E t \in Tunnels : Lifecycle!TunnelStop(t)) \/ (\E s \in Stored : Lifecycle!EnsureCtx(s) \/ Lifecycle!BuildCtx(s))
  PROVE  LifeTyped'
<1>0. StoreTyped /\ FollowersTyped /\ QueueTyped /\ CmdTyped
  BY Zenon DEF LifeTyped
<1>a. Lifecycle!None \in Versions /\ Lifecycle!None \in 0..Lifecycle!Building /\ Lifecycle!Building \in 0..Lifecycle!Building /\ Versions \subseteq 0..Lifecycle!Building
  BY DEF Versions, LifecycleConstants, Lifecycle!None, Lifecycle!Building
<1>b. UNCHANGED Lifecycle!store => StoreTyped'
  BY <1>0, Zenon DEF StoreTyped, Lifecycle!store
<1>c. UNCHANGED cmd => CmdTyped'
  BY <1>0, Zenon DEF CmdTyped
<1>d. UNCHANGED queue => QueueTyped'
  BY <1>0, Zenon DEF QueueTyped
<1>1. CASE Lifecycle!PoolConsume
  <2>1. QueueTyped'
    BY <1>0, <1>1, TakenEvents, Zenon DEF Lifecycle!PoolConsume, Lifecycle!Consumers
  <2>2. FollowersTyped'
    <3>1. pool' \in [Stored -> 0..Lifecycle!Building] /\ followed' = followed /\ work' = work
      BY <1>0, <1>1, <1>a, Zenon DEF Lifecycle!PoolConsume, FollowersTyped
    <3>2. QED BY <1>0, <3>1, Zenon DEF FollowersTyped
  <2>3. QED BY <1>1, <1>b, <1>c, <2>1, <2>2, Zenon DEF LifeTyped, Lifecycle!PoolConsume
<1>2. CASE Lifecycle!TunnelsReceive
  <2> DEFINE e == Head(queue["tunnels"])
             todo == IF e.kind = "Upserted" THEN Lifecycle!Running(e.ids) \cap defs ELSE Lifecycle!Running(e.ids)
  <2>1. QueueTyped' /\ e \in EventRec
    BY <1>0, <1>2, TakenEvents, Zenon DEF Lifecycle!TunnelsReceive, Lifecycle!Consumers
  <2>2. work' = [Lifecycle!NoWork EXCEPT !.kind = e.kind, !.todo = todo] /\ followed' = followed /\ pool' = pool
    BY <1>2, Zenon DEF Lifecycle!TunnelsReceive
  <2>3. e.kind \in {"Upserted", "Deleting", "Deleted"}
    BY <2>1, Zenon DEF EventRec
  <2>4. todo \in SUBSET Tunnels
    BY Zenon DEF Lifecycle!Running
  <2> HIDE DEF e, todo
  <2>5. work' = [kind |-> e.kind, todo |-> todo, tun |-> "none", ver |-> Lifecycle!None]
    BY <2>2, Zenon DEF Lifecycle!NoWork
  <2>6. work' \in WorkRec
    BY <1>a, <2>3, <2>4, <2>5, Zenon DEF WorkRec
  <2>7. FollowersTyped'
    BY <1>0, <2>2, <2>6, Zenon DEF FollowersTyped
  <2>8. QED BY <1>2, <1>b, <1>c, <2>1, <2>7, Zenon DEF LifeTyped, Lifecycle!TunnelsReceive
<1>3. ASSUME NEW t \in Tunnels, Lifecycle!Stopped(t) PROVE followed' \in [Tunnels -> Versions]
  BY <1>0, <1>3, <1>a, Zenon DEF Lifecycle!Stopped, FollowersTyped
<1>4. ASSUME NEW t \in Tunnels, Lifecycle!WorkStop(t) PROVE LifeTyped'
  <2>1. work' \in WorkRec
    BY <1>0, <1>4, Zenon DEF Lifecycle!WorkStop, FollowersTyped, WorkRec
  <2>2. FollowersTyped'
    BY <1>0, <1>3, <1>4, <2>1, Zenon DEF Lifecycle!WorkStop, FollowersTyped
  <2>3. QED BY <1>4, <1>b, <1>c, <1>d, <2>2, Zenon DEF LifeTyped, Lifecycle!WorkStop
<1>5. CASE Lifecycle!WorkCheck
  <2>1. work' \in WorkRec
    <3>1. CASE work' = [work EXCEPT !.tun = "none", !.todo = @ \ {work.tun}]
      BY <1>0, <3>1, Zenon DEF FollowersTyped, WorkRec
    <3>2. CASE work' = [work EXCEPT !.ver = row[Owner[work.tun]]]
      <4>1. work.tun \in Tunnels
        BY <1>0, <1>5, Zenon DEF Lifecycle!WorkCheck, FollowersTyped, WorkRec
      <4>2. row[Owner[work.tun]] \in Versions
        BY <1>0, <4>1, Zenon DEF StoreTyped, LifecycleConstants
      <4>3. QED BY <1>0, <3>2, <4>2, Zenon DEF FollowersTyped, WorkRec
    <3>3. QED BY <1>5, <3>1, <3>2, Zenon DEF Lifecycle!WorkCheck
  <2>2. FollowersTyped'
    BY <1>0, <1>5, <2>1, Zenon DEF Lifecycle!WorkCheck, FollowersTyped
  <2>3. QED BY <1>5, <1>b, <1>c, <1>d, <2>2, Zenon DEF LifeTyped, Lifecycle!WorkCheck
<1>6. CASE Lifecycle!WorkStart
  <2>1. work' = [work EXCEPT !.tun = "none", !.ver = Lifecycle!None, !.todo = @ \ {work.tun}] /\ Lifecycle!Started(work.tun, work.ver) /\ pool' = pool
    BY <1>6, Zenon DEF Lifecycle!WorkStart
  <2>2. work' = [kind |-> work.kind, todo |-> work.todo \ {work.tun}, tun |-> "none", ver |-> Lifecycle!None]
    BY <1>0, <2>1, Zenon DEF FollowersTyped, WorkRec
  <2>3. work' \in WorkRec
    BY <1>0, <1>a, <2>2, Zenon DEF FollowersTyped, WorkRec
  <2>4. work.ver \in Versions
    BY <1>0, Zenon DEF FollowersTyped, WorkRec
  <2>5. followed' \in [Tunnels -> Versions]
    BY <1>0, <2>1, <2>4, Zenon DEF Lifecycle!Started, FollowersTyped
  <2>6. FollowersTyped'
    BY <1>0, <2>1, <2>3, <2>5, Zenon DEF FollowersTyped
  <2>7. QED BY <1>6, <1>b, <1>c, <1>d, <2>6, Zenon DEF LifeTyped, Lifecycle!WorkStart
<1>7. CASE Lifecycle!WorkDone
  <2>1. Lifecycle!NoWork \in WorkRec
    BY <1>a, Zenon DEF Lifecycle!NoWork, WorkRec
  <2>2. FollowersTyped'
    BY <1>0, <1>7, <2>1, Zenon DEF Lifecycle!WorkDone, FollowersTyped
  <2>3. QED BY <1>7, <1>b, <1>c, <1>d, <2>2, Zenon DEF LifeTyped, Lifecycle!WorkDone
<1>8. ASSUME NEW t \in Tunnels, Lifecycle!TunnelStop(t) PROVE LifeTyped'
  <2>1. FollowersTyped'
    BY <1>0, <1>3, <1>8, Zenon DEF Lifecycle!TunnelStop, FollowersTyped, Lifecycle!events
  <2>2. QED BY <1>8, <1>b, <1>c, <1>d, <2>1, Zenon DEF LifeTyped, Lifecycle!TunnelStop, Lifecycle!events
<1>9. ASSUME NEW s \in Stored, Lifecycle!EnsureCtx(s) \/ Lifecycle!BuildCtx(s) PROVE LifeTyped'
  <2>1. followed' = followed /\ work' = work /\ UNCHANGED <<Lifecycle!store, cmd, queue>>
    BY <1>9, Zenon DEF Lifecycle!EnsureCtx, Lifecycle!BuildCtx, Lifecycle!events
  <2>2. row[s] \in 0..Lifecycle!Building
    BY <1>0, <1>a, Zenon DEF StoreTyped
  <2>3. pool' \in [Stored -> 0..Lifecycle!Building]
    BY <1>0, <1>9, <1>a, <2>2, Zenon DEF Lifecycle!EnsureCtx, Lifecycle!BuildCtx, FollowersTyped
  <2>4. FollowersTyped'
    BY <1>0, <2>1, <2>3, Zenon DEF FollowersTyped
  <2>5. QED BY <1>b, <1>c, <1>d, <2>1, <2>4, Zenon DEF LifeTyped
<1>10. QED BY <1>1, <1>2, <1>4, <1>5, <1>6, <1>7, <1>8, <1>9, Zenon DEF Lifecycle!Consume

\* Every step keeps the inductive invariant.
LEMMA LifecycleStepInv ==
  ASSUME LifecycleConstants, LifecycleInv, [Lifecycle!Next]_(Lifecycle!vars)
  PROVE  LifecycleInv'
<1>0. LifeTyped /\ FollowInv
  BY Zenon DEF LifecycleInv
<1>1. CASE Lifecycle!Consume \/ (\E t \in Tunnels : Lifecycle!TunnelStop(t)) \/ (\E s \in Stored : Lifecycle!EnsureCtx(s) \/ Lifecycle!BuildCtx(s))
  <2>1. LifeTyped'
    BY <1>0, <1>1, FollowersStepTyped, Zenon
  <2>2. FollowInv'
    BY <1>1, ConsumeInv, PoolsInv, Zenon
  <2>3. QED BY <2>1, <2>2, Zenon DEF LifecycleInv
<1>2. ASSUME NEW c \in Commands, Lifecycle!Continue(c) PROVE LifecycleInv'
  BY <1>0, <1>2, ContinueTyped, CommandsInv, Zenon DEF LifecycleInv
<1>3. ASSUME NEW c \in Commands,
             \/ Lifecycle!GroupDeleteBegin(c)
             \/ \E s \in Stored :
                   \/ Lifecycle!UpsertBegin(c, s) \/ Lifecycle!DeleteBegin(c, s) \/ Lifecycle!Move(c, s)
                   \/ \E t \in Tunnels \cup {"none"} : Lifecycle!ImportBegin(c, s, t)
             \/ \E t \in Tunnels : Lifecycle!TunnelStart(c, t) \/ Lifecycle!TunnelSave(c, t) \/ Lifecycle!TunnelDelete(c, t)
      PROVE  LifecycleInv'
  <2>1. LifeTyped'
    BY <1>0, <1>3, BegunTyped, Zenon
  <2>2. FollowInv'
    BY <1>3, BegunInv, Zenon
  <2>3. QED BY <2>1, <2>2, Zenon DEF LifecycleInv
<1>4. CASE UNCHANGED Lifecycle!vars
  <2>1. LifeTyped'
    BY <1>0, <1>4, Zenon DEF Lifecycle!vars, Lifecycle!store, Lifecycle!events, LifeTyped, StoreTyped, FollowersTyped, QueueTyped, CmdTyped
  <2>2. cmd' = cmd /\ queue' = queue /\ silent' = silent /\ row' = row /\ pool' = pool /\ followed' = followed /\ lateStarts' = lateStarts /\ passed' = passed /\ work' = work
    BY <1>4, Zenon DEF Lifecycle!vars, Lifecycle!store, Lifecycle!events
  <2>3. \A u \in Tunnels : Listed(u) => Listed(u)'
    BY <2>2, Zenon DEF Listed
  <2>4. FollowInv'
    BY <1>0, <2>2, <2>3, StillTold, FollowKept, Zenon
  <2>5. QED BY <2>1, <2>4, Zenon DEF LifecycleInv
<1>5. QED BY <1>1, <1>2, <1>3, <1>4, Zenon DEF Lifecycle!Next

\* For any number of sessions, tunnels, concurrent commands and events, and every
\* capacity of the queues: a pooled connection or a tunnel that is out of date with
\* its session has the event that tells of it on its way, except where an event was
\* pushed out of a full queue or the code publishes none (lifecycle.rs, and those
\* who subscribe to it).
THEOREM ChangesReachFollowers ==
  ASSUME LifecycleConstants PROVE Lifecycle!Spec => []FollowersTold
<1>1. Lifecycle!Init => LifecycleInv
  BY LifecycleInitInv, Zenon
<1>2. LifecycleInv /\ [Lifecycle!Next]_(Lifecycle!vars) => LifecycleInv'
  BY LifecycleStepInv, Zenon
<1>3. LifecycleInv => FollowersTold
  <2>1. SUFFICES ASSUME LifecycleInv PROVE FollowersTold
    BY Zenon
  <2>2. Lifecycle!LifecycleTypeOK
    BY <2>1, Zenon DEF LifecycleInv, LifeTyped, StoreTyped, FollowersTyped, QueueTyped, Lifecycle!LifecycleTypeOK, Versions
  <2>3. Lifecycle!ConnectionsFollow
    BY <2>1, Zenon DEF LifecycleInv, FollowInv, ConnectionInv, Lifecycle!ConnectionsFollow, ToldPool, Lifecycle!Pending, Queued, Announced
  <2>4. Lifecycle!TunnelsFollow
    BY <2>1, Zenon DEF LifecycleInv, FollowInv, TunnelInv, Lifecycle!TunnelsFollow, ToldTunnels, Lifecycle!Pending, Queued, Announced, Listed
  <2>5. QED BY <2>2, <2>3, <2>4, Zenon DEF FollowersTold
<1>4. QED BY <1>1, <1>2, <1>3, PTL DEF Lifecycle!Spec
=============================================================================
