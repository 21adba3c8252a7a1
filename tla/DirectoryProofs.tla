------------------------- MODULE DirectoryProofs ----------------------------
(***************************************************************************)
(* A directory job ends once, counts its work and keeps to its caps, and one *)
(* that reports itself complete has dealt with the whole tree: for every   *)
(* tree, all caps and any number of workers and commands.                  *)
(***************************************************************************)
EXTENDS DirectoryJob, FiniteSetTheorems, SequenceTheorems, TLAPS

LEMMA Caps ==
  /\ FrontierCap \in Nat /\ FrontierCap > 0 /\ ReadyCap \in Nat /\ ReadyCap > 0
  /\ InFlightCap \in Nat /\ InFlightCap > 0 /\ MaxRetries \in Nat
BY JobConstants

(***************************************************************************)
(* The end of a job.                                                       *)
(***************************************************************************)
\* It is reported when it has come to a terminal state, by the task that brought it
\* there; cancel() reports it last.
Canceling == command \in {"flags", "notify_emit"}
EndInv ==
  /\ state \in Terminal \cup {"Scanning", "Transferring"}
  /\ emitted = IF state = "Completed" \/ (state = "Canceled" /\ ~Canceling) THEN 1 ELSE 0
  /\ Canceling => state = "Canceled"
  /\ state # "Failed"

LEMMA EndInit == Init => EndInv
BY Zenon DEF Init, EndInv, Terminal, Canceling

\* A task that settles ends the job, or changes its phase, or does nothing.
LEMMA SettleEnds ==
  ASSUME EndInv, Settle \/ CheckTerminal, UNCHANGED command
  PROVE  EndInv' /\ (state \in Terminal => state' = state)
<1>1. \/ UNCHANGED <<state, emitted>>
      \/ state \notin Terminal /\ state' = "Completed" /\ emitted' = emitted + 1
      \/ state \notin Terminal /\ state' \in {"Scanning", "Transferring"} /\ emitted' = emitted
  BY Zenon DEF Settle, CheckTerminal, jobVars, Phase
<1>. QED
  BY <1>1 DEF EndInv, Terminal, Canceling

LEMMA EndStep == EndInv /\ [Next]_vars => EndInv' /\ (state \in Terminal => state' = state)
<1> SUFFICES ASSUME EndInv, [Next]_vars PROVE EndInv' /\ (state \in Terminal => state' = state)
  BY Zenon
<1>1. ASSUME UNCHANGED <<jobVars, command>> PROVE EndInv' /\ state' = state
  BY <1>1, Zenon DEF jobVars, EndInv, Canceling
<1>2. ASSUME \/ Place \/ CountTask \/ Spawn \/ Receive \/ Poll \/ CloseReady \/ MarkScanDone
             \/ UNCHANGED vars
      PROVE  UNCHANGED <<jobVars, command>>
  BY <1>2, Zenon DEF Place, PlaceDir, PlaceFile, PlaceNext, CountTask, Spawn, Receive, Poll, CloseReady,
              MarkScanDone, CLeaves, api, vars
<1>3. ASSUME NEW d \in Dirs, Operation(d) PROVE UNCHANGED <<jobVars, command>>
  BY <1>3, Zenon DEF Operation, OpScans, OpSends, OpReturnsSlot, OpLeaves, api
<1>4. ASSUME NEW w \in Workers, Worker(w) \/ Watch(w), ~WorkerSettle(w)
      PROVE  UNCHANGED <<jobVars, command>>
  BY <1>4, Zenon DEF Worker, Watch, PauseWait, EnterSelect, TakeTask, Resolve, ExecTop, AcquirePermit,
              Transferred, TaskDone, WorkerLeaves, api
<1>5. ASSUME NEW w \in Workers, WorkerSettle(w)
      PROVE  (Settle \/ CheckTerminal) /\ UNCHANGED command
  BY <1>5, Zenon DEF WorkerSettle, WorkerLeaves, api
<1>6. CASE CoordinatorSettle
  <2>1. Settle /\ UNCHANGED command
    BY <1>6, Zenon DEF CoordinatorSettle, CLeaves, api
  <2>. QED
    BY <2>1, SettleEnds, Zenon
<1>7. CASE Command
  <2>1. CASE Pause \/ Resume
    BY <2>1, Zenon DEF Pause, Resume, Issue, jobVars, EndInv, Canceling, Terminal
  <2>2. CASE Cancel
    BY <2>2, Zenon DEF Cancel, Issue, EndInv, Canceling, Terminal
  <2>3. CASE CancelFlags
    BY <2>3, Zenon DEF CancelFlags, jobVars, EndInv, Canceling, Terminal
  <2>4. CASE NotifyWaiters
    BY <2>4 DEF NotifyWaiters, EndInv, Canceling, Terminal
  <2>. QED
    BY <1>7, <2>1, <2>2, <2>3, <2>4, Zenon DEF Command
<1>8. ASSUME NEW w \in Workers, Worker(w) \/ Watch(w)
      PROVE  EndInv' /\ (state \in Terminal => state' = state)
  BY <1>1, <1>4, <1>5, <1>8, SettleEnds, Zenon
<1>. QED
  BY <1>1, <1>2, <1>3, <1>6, <1>7, <1>8, Zenon DEF Next, Coordinator

\* The terminal state of a job never changes and on_job_terminal is called at most once,
\* though the coordinator, the workers and cancel() race to end it.
THEOREM JobEndsOnce == Spec => EndsOnce
<1> DEFINE Once == /\ state \in Terminal => state' = state
                   /\ emitted' <= 1
<1>1. EndInv /\ [Next]_vars => [Once]_vars
  <2> SUFFICES ASSUME EndInv, [Next]_vars PROVE Once
    BY Zenon
  <2>1. EndInv' /\ (state \in Terminal => state' = state)
    BY EndStep, Zenon
  <2>. QED
    BY <2>1 DEF EndInv
<1>2. EndInv /\ [Next]_vars => EndInv'
  BY EndStep, Zenon
<1>. QED
  BY <1>1, <1>2, EndInit, PTL DEF Spec, EndsOnce

(***************************************************************************)
(* The work of a job.                                                      *)
(***************************************************************************)
WorkTypes ==
  /\ holders \in SUBSET Workers /\ wpc \in [Workers -> WorkerPCs]
  /\ pending \in Int /\ active \in Int /\ ready \in 0..ReadyCap
  /\ dropped \in Nat /\ gone \in Nat

WorkInv == WorkTypes /\ WorkCounted

Those(S) == {w \in Workers : wpc[w] \in S}
Ones(w, S) == IF w \in S THEN 1 ELSE 0

\* One member changes: a count of members changes by it alone.
LEMMA CountMoves ==
  ASSUME NEW S, IsFiniteSet(S), NEW F \in SUBSET S, NEW G \in SUBSET S, NEW w \in S,
         \A u \in S : u # w => (u \in G <=> u \in F)
  PROVE  /\ Cardinality(F) \in Nat /\ Cardinality(G) \in Nat
         /\ Cardinality(G) = Cardinality(F) + Ones(w, G) - Ones(w, F)
<1>1. IsFiniteSet(F) /\ IsFiniteSet(G)
  BY FS_Subset, Zenon
<1>2. Cardinality(F) \in Nat /\ Cardinality(G) \in Nat
  BY <1>1, FS_CardinalityType, Zenon
<1>3. CASE w \in G /\ w \notin F
  <2>1. G = F \cup {w}
    BY <1>3, Zenon
  <2>2. Cardinality(G) = Cardinality(F) + 1
    BY <1>1, <1>3, <2>1, FS_AddElement, Zenon
  <2>. QED
    BY <1>2, <1>3, <2>2 DEF Ones
<1>4. CASE w \notin G /\ w \in F
  <2>1. G = F \ {w}
    BY <1>4, Zenon
  <2>2. Cardinality(G) = Cardinality(F) - 1
    BY <1>1, <1>4, <2>1, FS_RemoveElement, Zenon
  <2>. QED
    BY <1>2, <1>4, <2>2 DEF Ones
<1>5. CASE w \in G <=> w \in F
  <2>1. G = F
    BY <1>5
  <2>. QED
    BY <1>2, <1>5, <2>1 DEF Ones
<1>. QED
  BY <1>3, <1>4, <1>5, Zenon

\* The same facts with the counts named: Those(InHand) are the tasks in hand.
LEMMA WorkNamed ==
  /\ WorkCounted <=>
       /\ pending = ready + Cardinality(Those(InHand)) + Cardinality(Those({"done"}))
                      - (IF cpc = "count" THEN 1 ELSE 0) + dropped
       /\ active = Cardinality(holders) /\ holders = Those({"io"})
  /\ Those(InHand) \in SUBSET Workers /\ Those({"done"}) \in SUBSET Workers
  /\ Those({"io"}) \in SUBSET Workers
<1>1. {w \in Workers : Is(w, "done")} = Those({"done"}) /\ {w \in Workers : Is(w, "io")} = Those({"io"})
  BY Zenon DEF Is, Those
<1>2. TasksInHand = Cardinality(Those(InHand))
  BY Zenon DEF TasksInHand, Those
<1>. QED
  BY <1>1, <1>2, Zenon DEF WorkCounted, Those

\* A worker is at l now, and the counters have followed it.
Owed(l) == IF l \in InHand \/ l = "done" THEN 1 ELSE 0
LEMMA WorkerMoves ==
  ASSUME WorkInv, NEW w \in Workers, NEW l \in WorkerPCs, Goto(w, l), UNCHANGED cpc,
         pending' \in Int, ready' \in 0..ReadyCap, dropped' \in Nat, gone' \in Nat,
         pending' - ready' - dropped' = pending - ready - dropped + Owed(l) - Owed(wpc[w]),
         holders' = IF l = "io" THEN holders \cup {w} ELSE holders \ {w},
         active' = active + Ones(l, {"io"}) - Ones(wpc[w], {"io"})
  PROVE  WorkInv'
<1> DEFINE H == Those(InHand)   D == Those({"done"})   I == Those({"io"})
           H2 == Those(InHand)' D2 == Those({"done"})' I2 == Those({"io"})'
<1>0. IsFiniteSet(Workers)
  BY SemaphoreConstants, Zenon DEF Workers
<1>1. wpc \in [Workers -> WorkerPCs] /\ wpc' = [wpc EXCEPT ![w] = l]
  BY Zenon DEF WorkInv, WorkTypes, Goto
<1>2. wpc' \in [Workers -> WorkerPCs] /\ wpc'[w] = l /\ \A u \in Workers : u # w => wpc'[u] = wpc[u]
  BY <1>1, Zenon
<1>3. /\ H \in SUBSET Workers /\ D \in SUBSET Workers /\ I \in SUBSET Workers
      /\ H2 \in SUBSET Workers /\ D2 \in SUBSET Workers /\ I2 \in SUBSET Workers
  BY Zenon DEF Those
<1>4. /\ \A u \in Workers : u # w => (u \in H2 <=> u \in H)
      /\ \A u \in Workers : u # w => (u \in D2 <=> u \in D)
      /\ \A u \in Workers : u # w => (u \in I2 <=> u \in I)
  BY <1>2, Zenon DEF Those
<1>5. /\ Ones(w, H) + Ones(w, D) = Owed(wpc[w]) /\ Ones(w, H2) + Ones(w, D2) = Owed(l)
      /\ Ones(w, I) = Ones(wpc[w], {"io"}) /\ Ones(w, I2) = Ones(l, {"io"})
      /\ Ones(w, H) \in Int /\ Ones(w, D) \in Int /\ Ones(w, I) \in Int
      /\ Ones(w, H2) \in Int /\ Ones(w, D2) \in Int /\ Ones(w, I2) \in Int
  BY <1>2 DEF Those, Ones, Owed, InHand
<1>6. /\ pending = ready + Cardinality(H) + Cardinality(D) - (IF cpc = "count" THEN 1 ELSE 0) + dropped
      /\ active = Cardinality(holders) /\ holders = I
  BY WorkNamed, Zenon DEF WorkInv
<1>7. holders' = I2
  BY <1>2, <1>6, Zenon DEF Those
<1> HIDE DEF H, D, I, H2, D2, I2
<1>8. /\ Cardinality(H) \in Nat /\ Cardinality(H2) \in Nat
      /\ Cardinality(H2) = Cardinality(H) + Ones(w, H2) - Ones(w, H)
  BY <1>0, <1>3, <1>4, CountMoves
<1>9. /\ Cardinality(D) \in Nat /\ Cardinality(D2) \in Nat
      /\ Cardinality(D2) = Cardinality(D) + Ones(w, D2) - Ones(w, D)
  BY <1>0, <1>3, <1>4, CountMoves
<1>10. /\ Cardinality(I) \in Nat /\ Cardinality(I2) \in Nat
       /\ Cardinality(I2) = Cardinality(I) + Ones(w, I2) - Ones(w, I)
  BY <1>0, <1>3, <1>4, CountMoves
<1>11. active' = Cardinality(holders')
  BY <1>5, <1>6, <1>7, <1>10, Zenon
<1>12. Owed(l) \in Int /\ Owed(wpc[w]) \in Int
  BY DEF Owed
<1>13. pending \in Int /\ ready \in Int /\ dropped \in Int
  BY DEF WorkInv, WorkTypes
<1>14. pending' = ready' + Cardinality(H2) + Cardinality(D2) - (IF cpc' = "count" THEN 1 ELSE 0) + dropped'
  BY <1>5, <1>6, <1>8, <1>9, <1>12, <1>13
<1>15. WorkCounted'
  <2>1. {u \in Workers : Is(u, "done")}' = D2 /\ {u \in Workers : Is(u, "io")}' = I2
    BY Zenon DEF Is, Those, D2, I2
  <2>2. TasksInHand' = Cardinality(H2)
    BY Zenon DEF TasksInHand, Those, H2
  <2>. QED
    BY <1>7, <1>11, <1>14, <2>1, <2>2, Zenon DEF WorkCounted
<1>16. WorkTypes'
  BY <1>2, <1>3, <1>7, <1>10, <1>11 DEF WorkTypes
<1>. QED
  BY <1>15, <1>16, Zenon DEF WorkInv

\* A worker that neither takes nor settles a task, nor begins or ends an attempt.
LEMMA WorkerWalks ==
  ASSUME WorkInv, NEW w \in Workers, NEW l \in WorkerPCs, Goto(w, l),
         UNCHANGED <<cpc, pending, ready, dropped, holders, active>>, gone' \in Nat,
         wpc[w] # "io", l # "io", Owed(l) = Owed(wpc[w])
  PROVE  WorkInv'
<1>1. w \notin holders
  BY Zenon DEF WorkInv, WorkCounted, Is
<1>2. /\ holders' = IF l = "io" THEN holders \cup {w} ELSE holders \ {w}
      /\ active' = active + Ones(l, {"io"}) - Ones(wpc[w], {"io"})
      /\ Owed(l) \in Int
  BY <1>1 DEF Ones, WorkInv, WorkTypes, Owed
<1>3. /\ pending' \in Int /\ ready' \in 0..ReadyCap /\ dropped' \in Nat
      /\ pending' - ready' - dropped' = pending - ready - dropped + Owed(l) - Owed(wpc[w])
  BY <1>2 DEF WorkInv, WorkTypes
<1>. QED
  BY <1>2, <1>3, WorkerMoves, Zenon

LEMMA WorkerWork == ASSUME WorkInv, NEW w \in Workers, Worker(w) PROVE WorkInv'
<1>0. /\ wpc \in [Workers -> WorkerPCs] /\ wpc[w] \in WorkerPCs /\ UNCHANGED cpc
      /\ pending \in Int /\ active \in Int /\ ready \in 0..ReadyCap /\ dropped \in Nat /\ gone \in Nat
      /\ w \in holders <=> wpc[w] = "io"
  <2>1. UNCHANGED cpc
    BY Zenon DEF Worker, PauseWait, EnterSelect, TakeTask, Resolve, ExecTop, AcquirePermit, Transferred,
           TaskDone, WorkerSettle, WorkerLeaves, coord
  <2>. QED
    BY <2>1, Zenon DEF WorkInv, WorkTypes, WorkCounted, Is
<1>1. CASE PauseWait(w)
  <2>1. PICK l \in {"asleep", "easleep", "register", "torecv"} :
           /\ Goto(w, l) /\ Owed(l) = Owed(wpc[w]) /\ wpc[w] # "io"
    BY <1>1, Zenon DEF PauseWait, Is, Owed, InHand
  <2>. QED
    BY <1>0, <1>1, <2>1, WorkerWalks, Zenon DEF PauseWait, ends, WorkerPCs, InHand
<1>2. CASE EnterSelect(w)
  <2>1. Goto(w, "recv") /\ wpc[w] = "torecv"
    BY <1>2, Zenon DEF EnterSelect, Is
  <2>2. Owed("recv") = Owed(wpc[w])
    BY <2>1, Zenon DEF Owed, InHand
  <2>. QED
    BY <1>0, <1>2, <2>1, <2>2, WorkerWalks, Zenon DEF EnterSelect, ends, WorkerPCs
<1>3. CASE TakeTask(w)
  <2>0. /\ UNCHANGED <<holders, pending, active, gone>> /\ wpc[w] # "io" /\ Owed(wpc[w]) = 0
        /\ w \notin holders
    BY <1>0, <1>3, Zenon DEF TakeTask, Owed, InHand
  <2>1. CASE ready > 0 /\ ready' = ready - 1 /\ ~cancel
    <3>1. Goto(w, "resolve") /\ dropped' = dropped
      BY <1>3, <2>1 DEF TakeTask
    <3>2. Owed("resolve") = 1 /\ Ones("resolve", {"io"}) = 0 /\ Ones(wpc[w], {"io"}) = 0 /\ "resolve" \in WorkerPCs
      BY <2>0, Zenon DEF Owed, InHand, Ones, WorkerPCs
    <3>3. holders' = holders \ {w}
      BY <2>0, Zenon
    <3>. QED
      BY <1>0, <2>0, <2>1, <3>1, <3>2, <3>3, Caps, WorkerMoves
  <2>2. CASE ready > 0 /\ ready' = ready - 1 /\ cancel
    <3>1. Goto(w, "leave") /\ dropped' = dropped + 1
      BY <1>3, <2>2 DEF TakeTask
    <3>2. Owed("leave") = 0 /\ Ones("leave", {"io"}) = 0 /\ Ones(wpc[w], {"io"}) = 0 /\ "leave" \in WorkerPCs
      BY <2>0, Zenon DEF Owed, InHand, Ones, WorkerPCs
    <3>3. holders' = holders \ {w}
      BY <2>0, Zenon
    <3>. QED
      BY <1>0, <2>0, <2>2, <3>1, <3>2, <3>3, Caps, WorkerMoves
  <2>3. CASE UNCHANGED <<ready, dropped>>
    <3>1. PICK l \in {"leave", "register", "torecv"} : Goto(w, l)
      BY <1>0, <1>3, <2>3 DEF TakeTask, WorkerTop
    <3>2. Owed(l) = 0
      BY Zenon DEF Owed, InHand
    <3>. QED
      BY <1>0, <2>0, <2>3, <3>1, <3>2, WorkerWalks, Zenon DEF WorkerPCs
  <2>. QED
    BY <1>3, <2>1, <2>2, <2>3, Zenon DEF TakeTask
<1>4. CASE Resolve(w)
  <2>1. PICK l \in {"etop", "done"} : Goto(w, l)
    BY <1>4, Zenon DEF Resolve
  <2>2. Owed(l) = Owed(wpc[w]) /\ wpc[w] # "io"
    BY <1>4, Zenon DEF Resolve, Is, Owed, InHand
  <2>. QED
    BY <1>0, <1>4, <2>1, <2>2, WorkerWalks, Zenon DEF Resolve, ends, WorkerPCs, InHand
<1>5. CASE ExecTop(w)
  <2>1. PICK l \in {"done", "eregister", "acquire"} : Goto(w, l)
    BY <1>5, Zenon DEF ExecTop
  <2>2. Owed(l) = Owed(wpc[w]) /\ wpc[w] # "io" /\ gone' \in Nat
    BY <1>0, <1>5 DEF ExecTop, Is, Owed, InHand
  <2>. QED
    BY <1>0, <1>5, <2>1, <2>2, WorkerWalks, Zenon DEF ExecTop, WorkerPCs, InHand
<1>6. CASE AcquirePermit(w)
  <2>0. wpc[w] = "acquire" /\ Owed("acquire") = 1 /\ Owed("io") = 1 /\ Owed("etop") = 1
    BY <1>6, Zenon DEF AcquirePermit, Is, Owed, InHand
  <2>1. CASE cancel \/ pause
    <3>1. Goto(w, "etop") /\ UNCHANGED <<holders, active>>
      BY <1>6, <2>1, Zenon DEF AcquirePermit
    <3>. QED
      BY <1>0, <1>6, <2>0, <3>1, WorkerWalks, Zenon DEF AcquirePermit, ends, WorkerPCs, InHand
  <2>2. CASE ~(cancel \/ pause)
    <3>1. /\ Goto(w, "io") /\ holders' = holders \cup {w} /\ active' = active + 1
          /\ UNCHANGED <<pending, ready, dropped, gone>>
      BY <1>6, <2>2, Zenon DEF AcquirePermit, Take, ends
    <3>2. Ones("io", {"io"}) = 1 /\ Ones(wpc[w], {"io"}) = 0 /\ "io" \in WorkerPCs
      BY <2>0, Zenon DEF Ones, WorkerPCs, InHand
    <3>. QED
      BY <1>0, <2>0, <3>1, <3>2, WorkerMoves
  <2>. QED
    BY <2>1, <2>2, Zenon
<1>7. CASE Transferred(w)
  <2>1. /\ wpc[w] = "io" /\ holders' = holders \ {w} /\ active' = active - 1
        /\ UNCHANGED <<pending, ready, dropped>>
    BY <1>7, Zenon DEF Transferred, Is, Give
  <2>2. PICK l \in {"done", "etop"} : Goto(w, l)
    BY <1>7, Zenon DEF Transferred
  <2>3. gone' \in Nat
    BY <1>0, <1>7 DEF Transferred
  <2>4. Owed(l) = 1 /\ Owed("io") = 1 /\ Ones(l, {"io"}) = 0 /\ Ones("io", {"io"}) = 1 /\ l # "io" /\ l \in WorkerPCs
    BY Zenon DEF Owed, InHand, Ones, WorkerPCs
  <2>. QED
    BY <1>0, <2>1, <2>2, <2>3, <2>4, WorkerMoves
<1>8. CASE TaskDone(w)
  <2>1. /\ wpc[w] = "done" /\ pending' = pending - 1 /\ Goto(w, "settle")
        /\ UNCHANGED <<holders, active, ready, dropped, gone>>
    BY <1>8, Zenon DEF TaskDone, Is, ends
  <2>2. /\ Owed("done") = 1 /\ Owed("settle") = 0 /\ Ones("settle", {"io"}) = 0 /\ Ones("done", {"io"}) = 0
        /\ "settle" \in WorkerPCs
    BY Zenon DEF Owed, InHand, Ones, WorkerPCs
  <2>3. holders' = holders \ {w}
    BY <1>0, <2>1, Zenon
  <2>. QED
    BY <1>0, <2>1, <2>2, <2>3, WorkerMoves
<1>9. CASE WorkerSettle(w)
  <2>1. PICK l \in {"leave", "register", "torecv", "exit"} : Goto(w, l)
    BY <1>9, Zenon DEF WorkerSettle, WorkerTop
  <2>2. Owed(l) = Owed(wpc[w]) /\ wpc[w] # "io"
    BY <1>9, Zenon DEF WorkerSettle, Is, Owed, InHand
  <2>. QED
    BY <1>0, <1>9, <2>1, <2>2, WorkerWalks, Zenon DEF WorkerSettle, ends, WorkerPCs
<1>. QED
  BY <1>1, <1>2, <1>3, <1>4, <1>5, <1>6, <1>7, <1>8, <1>9, Zenon DEF Worker

\* try_send has handed a task over that pending does not count yet.
Late(l) == IF l = "count" THEN 1 ELSE 0

\* The tasks the workers have, settled or not.
Work == Cardinality(Those(InHand)) + Cardinality(Those({"done"}))
LEMMA WorkIs == ASSUME WorkInv PROVE Work \in Int /\ pending = ready + Work - Late(cpc) + dropped
<1> DEFINE h == Cardinality(Those(InHand)) d == Cardinality(Those({"done"}))
<1>1. h \in Int /\ d \in Int
  <2>1. IsFiniteSet(Those(InHand)) /\ IsFiniteSet(Those({"done"}))
    BY WorkNamed, SemaphoreConstants, FS_Subset, Zenon DEF Workers
  <2>. QED
    BY <2>1, FS_CardinalityType
<1>2. pending = ready + h + d - Late(cpc) + dropped /\ Work = h + d
  BY WorkNamed, Zenon DEF WorkInv, Late, Work
<1> HIDE DEF h, d
<1>3. ready \in Int /\ dropped \in Int /\ Late(cpc) \in Int
  BY Caps DEF WorkInv, WorkTypes, Late
<1>. QED
  BY <1>1, <1>2, <1>3

\* The workers stay where they are, for all the counts can tell.
LEMMA WorkersStay ==
  ASSUME WorkInv, wpc' \in [Workers -> WorkerPCs], Those(InHand)' = Those(InHand),
         Those({"done"})' = Those({"done"}), Those({"io"})' = Those({"io"}),
         UNCHANGED <<holders, active, dropped, gone>>, pending' \in Int, ready' \in 0..ReadyCap,
         pending' = ready' + Work - Late(cpc') + dropped
  PROVE  WorkInv'
<1> DEFINE h == Cardinality(Those(InHand)) d == Cardinality(Those({"done"}))
<1>1. h \in Int /\ d \in Int
  <2>1. IsFiniteSet(Those(InHand)) /\ IsFiniteSet(Those({"done"}))
    BY WorkNamed, SemaphoreConstants, FS_Subset, Zenon DEF Workers
  <2>. QED
    BY <2>1, FS_CardinalityType
<1>2. active = Cardinality(holders) /\ holders = Those({"io"}) /\ Work = h + d
  BY WorkNamed, Zenon DEF WorkInv, Work
<1> HIDE DEF h, d
<1>3. Late(cpc') \in Int /\ ready' \in Int /\ dropped \in Int /\ dropped' = dropped
  BY Caps DEF Late, WorkInv, WorkTypes
<1>4. pending' = ready' + h + d - Late(cpc') + dropped'
  BY <1>1, <1>2, <1>3
<1>5. WorkTypes'
  BY Zenon DEF WorkInv, WorkTypes
<1>6. {u \in Workers : Is(u, "done")}' = Those({"done"}) /\ {u \in Workers : Is(u, "io")}' = Those({"io"})
  <2>1. {u \in Workers : Is(u, "done")}' = Those({"done"})' /\ {u \in Workers : Is(u, "io")}' = Those({"io"})'
    BY Zenon DEF Is, Those
  <2>. QED
    BY <2>1, Zenon
<1>7. TasksInHand' = h
  <2>1. TasksInHand' = Cardinality(Those(InHand)')
    BY Zenon DEF TasksInHand, Those
  <2>. QED
    BY <2>1, Zenon DEF h
<1>8. WorkCounted'
  BY <1>2, <1>4, <1>6, <1>7, Zenon DEF WorkCounted, Late, d
<1>. QED
  BY <1>5, <1>8, Zenon DEF WorkInv

LEMMA WorkInit == Init => WorkInv
<1> SUFFICES ASSUME Init PROVE WorkInv
  BY Zenon
<1>1. /\ holders = {} /\ pending = 0 /\ active = 0 /\ ready = 0 /\ dropped = 0 /\ gone = 0
      /\ wpc = [w \in Workers |-> "torecv"] /\ cpc = "spawn"
  BY Zenon DEF Init, SemInit
<1>2. WorkTypes
  BY <1>1, Caps DEF WorkTypes, WorkerPCs
<1>3. Those(InHand) = {} /\ Those({"done"}) = {} /\ Those({"io"}) = {}
  BY <1>1, Zenon DEF Those, InHand
<1>4. Cardinality({}) = 0
  BY FS_EmptySet, Zenon
<1>. QED
  BY <1>1, <1>2, <1>3, <1>4, WorkNamed DEF WorkInv

LEMMA WorkStep == WorkInv /\ [Next]_vars => WorkInv'
<1> SUFFICES ASSUME WorkInv, [Next]_vars PROVE WorkInv'
  BY Zenon
<1>0. /\ pending \in Int /\ ready \in 0..ReadyCap /\ wpc \in [Workers -> WorkerPCs] /\ dropped \in Nat
      /\ Work \in Int /\ pending = ready + Work - Late(cpc) + dropped
  BY WorkIs, Zenon DEF WorkInv, WorkTypes
<1>1. ASSUME UNCHANGED <<wpc, holders, active, dropped, gone>>, pending' \in Int, ready' \in 0..ReadyCap,
             pending' = ready' + Work - Late(cpc') + dropped
      PROVE  WorkInv'
  <2>1. /\ Those(InHand)' = Those(InHand) /\ Those({"done"})' = Those({"done"})
        /\ Those({"io"})' = Those({"io"})
    BY <1>1, Zenon DEF Those
  <2>. QED
    BY <1>0, <1>1, <2>1, WorkersStay, Zenon
<1>2. ASSUME UNCHANGED <<wpc, holders, active, dropped, gone, pending, ready>>,
             cpc' = cpc \/ (cpc # "count" /\ cpc' # "count")
      PROVE  WorkInv'
  <2>1. Late(cpc') = Late(cpc)
    BY <1>2, Zenon DEF Late
  <2>. QED
    BY <1>0, <1>1, <1>2, <2>1, Zenon
<1>3. CASE PlaceFile
  <2>1. /\ cpc = "place" /\ cpc' = "count" /\ ready' = ready + 1 /\ ready < ReadyCap
        /\ UNCHANGED <<wpc, holders, active, dropped, gone, pending>>
    BY <1>3, Zenon DEF PlaceFile, At, CanPlaceFile, CLeaves, worker, history, ends
  <2>2. Late(cpc') = 1 /\ Late(cpc) = 0
    BY <2>1, Zenon DEF Late
  <2>. QED
    BY <1>0, <1>1, <2>1, <2>2, Caps
<1>4. CASE CountTask
  <2>1. /\ cpc = "count" /\ cpc' = "place" /\ pending' = pending + 1
        /\ UNCHANGED <<wpc, holders, active, dropped, gone, ready>>
    BY <1>4, Zenon DEF CountTask, At, CLeaves, worker, queue, history, ends
  <2>2. Late(cpc') = 0 /\ Late(cpc) = 1
    BY <2>1, Zenon DEF Late
  <2>. QED
    BY <1>0, <1>1, <2>1, <2>2
<1>5. ASSUME PlaceDir \/ PlaceNext \/ Spawn \/ Receive \/ Poll \/ CloseReady \/ MarkScanDone \/ CoordinatorSettle
      PROVE  /\ UNCHANGED <<wpc, holders, active, dropped, gone, pending, ready>>
             /\ cpc # "count" /\ cpc' # "count"
  <2>1. UNCHANGED <<wpc, holders, active, dropped, gone, pending, ready>>
    BY <1>5, Zenon DEF PlaceDir, PlaceNext, Spawn, Receive, Poll, CloseReady, MarkScanDone, CoordinatorSettle,
                CLeaves, worker, queue, history, ends
  <2>2. cpc # "count" /\ cpc' # "count"
    BY <1>5 DEF PlaceDir, PlaceNext, Spawn, Receive, Poll, CloseReady, MarkScanDone, CoordinatorSettle,
                At, LoopHead
  <2>. QED
    BY <2>1, <2>2, Zenon
<1>6. ASSUME NEW d \in Dirs, Operation(d)
      PROVE  UNCHANGED <<wpc, holders, active, dropped, gone, pending, ready, cpc>>
  BY <1>6, Zenon DEF Operation, OpScans, OpSends, OpReturnsSlot, OpLeaves, coord, worker, queue, history, ends
<1>7. ASSUME NEW w \in Workers, Watch(w)
      PROVE  UNCHANGED <<wpc, holders, active, dropped, gone, pending, ready, cpc>>
  BY <1>7, Zenon DEF Watch, coord, queue, history, ends
<1>8. ASSUME Pause \/ Resume \/ Cancel \/ CancelFlags \/ UNCHANGED vars
      PROVE  UNCHANGED <<wpc, holders, active, dropped, gone, pending, ready, cpc>>
  BY <1>8, Zenon DEF Pause, Resume, Cancel, CancelFlags, ApiLeaves, coord, queue, worker, history, ends, vars
<1>9. CASE NotifyWaiters
  <2>1. UNCHANGED <<holders, active, dropped, gone, pending, ready, cpc>>
    BY <1>9, Zenon DEF NotifyWaiters, ApiLeaves, coord, queue, history, ends
  <2>2. \A w \in Workers : /\ wpc'[w] \in WorkerPCs
                           /\ wpc'[w] \in InHand <=> wpc[w] \in InHand
                           /\ wpc'[w] \in {"done"} <=> wpc[w] \in {"done"}
                           /\ wpc'[w] \in {"io"} <=> wpc[w] \in {"io"}
    BY <1>0, <1>9, Zenon DEF NotifyWaiters, WorkerPCs, InHand
  <2>3. wpc' \in [Workers -> WorkerPCs]
    <3>1. DOMAIN wpc' = Workers /\ wpc' = [w \in DOMAIN wpc' |-> wpc'[w]]
      BY <1>9, Zenon DEF NotifyWaiters
    <3>. QED
      BY <2>2, <3>1, Zenon
  <2>4. /\ Those(InHand)' = Those(InHand) /\ Those({"done"})' = Those({"done"})
        /\ Those({"io"})' = Those({"io"})
    BY <2>2, Zenon DEF Those
  <2>5. Late(cpc') = Late(cpc)
    BY <2>1, Zenon DEF Late
  <2>. QED
    BY <1>0, <2>1, <2>3, <2>4, <2>5, WorkersStay, Zenon
<1>10. ASSUME Coordinator PROVE WorkInv'
  BY <1>2, <1>3, <1>4, <1>5, <1>10, Zenon DEF Coordinator, Place
<1>11. ASSUME Command PROVE WorkInv'
  BY <1>2, <1>8, <1>9, <1>11, Zenon DEF Command
<1>. QED
  BY <1>2, <1>6, <1>7, <1>8, <1>10, <1>11, WorkerWork, Zenon DEF Next

\* The two counters behind check_terminal are right: pending is the number of tasks that
\* are queued, in hand or not yet settled (but for the one try_send has just handed over,
\* and for those a canceled job dropped), and active the number of attempts, each with a
\* permit.
THEOREM JobWorkCounted == Spec => []WorkCounted
<1>1. WorkInv => WorkCounted
  BY Zenon DEF WorkInv
<1>. QED
  BY <1>1, WorkInit, WorkStep, PTL DEF Spec

(***************************************************************************)
(* The coordinator and its list operations.                                *)
(***************************************************************************)
Result == [files : Nat, dirs : Seq(Dirs \ {Root})]
Message == [dir : Dirs, ok : BOOLEAN]
OpStates == {"none", "running", "listed", "failed", "sent", "done"}
Fates == {"unseen", "listed", "failed", "skipped"}

\* The index of place_held is in range while it is used.
TurnOK(l, t, n) == IF l \in {"place", "count"} THEN t \in 1..n ELSE t = 1
CoordTypes ==
  /\ frontier \in Seq(Dirs) /\ held \in Seq(Result) /\ page \in Seq(Message)
  /\ op \in [Dirs -> OpStates] /\ fate \in [Dirs -> Fates]
  /\ in_flight \in Int
  /\ TurnOK(cpc, turn, Len(held))
  /\ Len(frontier) <= FrontierCap /\ Len(held) <= InFlightCap /\ Len(page) <= InFlightCap

LEMMA Listings ==
  ASSUME NEW d \in Dirs
  PROVE  Tree[d].files \in Nat /\ Tree[d].dirs \in Seq(Dirs \ {Root}) /\ Tree[d].special \in Nat
BY JobConstants, Zenon

LEMMA Removed ==
  ASSUME NEW S, NEW s \in Seq(S), NEW i \in 1..Len(s)
  PROVE  /\ Without(s, i) \in Seq(S) /\ Len(Without(s, i)) = Len(s) - 1
         /\ \A j \in 1..Len(s) : j < i => Without(s, i)[j] = s[j]
         /\ \A j \in 1..Len(s) : j > i => Without(s, i)[j - 1] = s[j]
<1> DEFINE a == SubSeq(s, 1, i - 1)
           b == SubSeq(s, i + 1, Len(s))
<1>0. Len(s) \in Nat /\ i - 1 \in Int /\ i + 1 \in Int /\ \A j \in 1..Len(s) : s[j] \in S
  BY ElementOfSeq, LenProperties
<1>1. a \in Seq(S) /\ Len(a) = i - 1 /\ \A j \in 1..(i - 1) : a[j] = s[j]
  <2>1. \A j \in 1..(i - 1) : s[j] \in S
    BY <1>0
  <2>2. /\ a \in Seq(S) /\ Len(a) = IF 1 <= i - 1 THEN i - 1 - 1 + 1 ELSE 0
        /\ \A j \in 1..(i - 1 - 1 + 1) : a[j] = s[1 + j - 1]
    BY <1>0, <2>1, SubSeqProperties
  <2>. QED
    BY <1>0, <2>2
<1>2. b \in Seq(S) /\ Len(b) = Len(s) - i /\ \A j \in 1..(Len(s) - i) : b[j] = s[i + j]
  <2>1. \A j \in (i + 1)..Len(s) : s[j] \in S
    BY <1>0
  <2>2. /\ b \in Seq(S) /\ Len(b) = IF i + 1 <= Len(s) THEN Len(s) - (i + 1) + 1 ELSE 0
        /\ \A j \in 1..(Len(s) - (i + 1) + 1) : b[j] = s[i + 1 + j - 1]
    BY <1>0, <2>1, SubSeqProperties
  <2>. QED
    BY <1>0, <2>2
<1> HIDE DEF a, b
<1>3. /\ a \o b \in Seq(S) /\ Len(a \o b) = Len(s) - 1
      /\ \A j \in 1..(Len(s) - 1) : (a \o b)[j] = IF j <= i - 1 THEN a[j] ELSE b[j - (i - 1)]
  <2>1. /\ a \o b \in Seq(S) /\ Len(a \o b) = Len(a) + Len(b)
        /\ \A j \in 1..(Len(a) + Len(b)) : (a \o b)[j] = IF j <= Len(a) THEN a[j] ELSE b[j - Len(a)]
    BY <1>1, <1>2, ConcatProperties, Zenon
  <2>2. Len(a) + Len(b) = Len(s) - 1
    BY <1>0, <1>1, <1>2
  <2>. QED
    BY <1>1, <2>1, <2>2, Zenon
<1>4. Without(s, i) = a \o b
  BY Zenon DEF Without, a, b
<1>5. ASSUME NEW j \in 1..Len(s), j < i PROVE (a \o b)[j] = s[j]
  BY <1>0, <1>1, <1>3, <1>5
<1>6. ASSUME NEW j \in 1..Len(s), j > i PROVE (a \o b)[j - 1] = s[j]
  <2>1. /\ j - 1 \in 1..(Len(s) - 1) /\ ~(j - 1 <= i - 1) /\ (j - 1) - (i - 1) = j - i
        /\ j - i \in 1..(Len(s) - i) /\ i + (j - i) = j
    BY <1>0, <1>6
  <2>2. (a \o b)[j - 1] = b[(j - 1) - (i - 1)]
    BY <1>3, <2>1, Zenon
  <2>3. b[j - i] = s[i + (j - i)]
    BY <1>2, <2>1, Zenon
  <2>. QED
    BY <2>1, <2>2, <2>3, Zenon
<1>. QED
  BY <1>3, <1>4, <1>5, <1>6, Zenon

\* Only the coordinator and the list operations change what the scan works on.
ScanVars == <<cpc, turn, frontier, held, in_flight, page, op, scan_done, fate>>
LEMMA Scanners ==
  ASSUME [Next]_vars
  PROVE  Coordinator \/ (\E d \in Dirs : Operation(d)) \/ UNCHANGED ScanVars
<1>1. ASSUME NEW w \in Workers, Worker(w) \/ Watch(w) PROVE UNCHANGED ScanVars
  <2>1. Worker(w) => WorkerLeaves
    BY Zenon DEF Worker, PauseWait, EnterSelect, TakeTask, Resolve, ExecTop, AcquirePermit, Transferred,
           TaskDone, WorkerSettle
  <2>2. Watch(w) => UNCHANGED <<coord, scans, scan_done, history>>
    BY Zenon DEF Watch
  <2>. QED
    BY <1>1, <2>1, <2>2, Zenon DEF WorkerLeaves, coord, scans, history, ScanVars
<1>2. ASSUME Command \/ UNCHANGED vars PROVE UNCHANGED ScanVars
  BY <1>2 DEF Command, Pause, Resume, Cancel, CancelFlags, NotifyWaiters, ApiLeaves, coord, scans,
              history, ScanVars, vars
<1>. QED
  BY <1>1, <1>2, Zenon DEF Next

\* What place_held works on.
LEMMA AtTurn ==
  ASSUME CoordTypes, cpc = "place"
  PROVE  /\ turn \in 1..Len(held) /\ Len(held) \in Nat /\ turn \in Nat
         /\ held[turn] \in Result /\ held[turn].files \in Nat /\ held[turn].dirs \in Seq(Dirs \ {Root})
<1>1. turn \in 1..Len(held) /\ held \in Seq(Result)
  BY Zenon DEF CoordTypes, TurnOK
<1>2. Len(held) \in Nat /\ held[turn] \in Result
  BY <1>1, ElementOfSeq, LenProperties, Zenon
<1>. QED
  BY <1>1, <1>2 DEF Result

\* place_held takes a directory, or a file, out of the result at turn.
LEMMA HeldShrinks ==
  ASSUME CoordTypes, cpc = "place", NEW r \in Result, held' = [held EXCEPT ![turn] = r]
  PROVE  /\ held' \in Seq(Result) /\ Len(held') = Len(held)
         /\ \A i \in 1..Len(held) : held'[i] = IF i = turn THEN r ELSE held[i]
BY AtTurn, ExceptSeq DEF CoordTypes

LEMMA DirTaken ==
  ASSUME CoordTypes, PlaceDir
  PROVE  /\ Head(held[turn].dirs) \in Dirs \ {Root}
         /\ [files |-> held[turn].files, dirs |-> Tail(held[turn].dirs)] \in Result
         /\ held' = [held EXCEPT ![turn] = [files |-> held[turn].files, dirs |-> Tail(held[turn].dirs)]]
<1>1. /\ cpc = "place" /\ held[turn].dirs # <<>>
      /\ held' = [held EXCEPT ![turn].dirs = Tail(held[turn].dirs)]
  BY Zenon DEF PlaceDir, At, CanPlaceDir
<1>2. Head(held[turn].dirs) \in Dirs \ {Root} /\ Tail(held[turn].dirs) \in Seq(Dirs \ {Root})
  BY <1>1, AtTurn, HeadTailProperties, Zenon
<1>3. [held[turn] EXCEPT !.dirs = Tail(held[turn].dirs)] = [files |-> held[turn].files, dirs |-> Tail(held[turn].dirs)]
  <2>1. ASSUME NEW h \in Result, NEW t PROVE [h EXCEPT !.dirs = t] = [files |-> h.files, dirs |-> t]
    BY DEF Result
  <2>. QED
    BY <1>1, <2>1, AtTurn, Zenon
<1>4. held' = [held EXCEPT ![turn] = [files |-> held[turn].files, dirs |-> Tail(held[turn].dirs)]]
  BY <1>1, <1>3, Zenon
<1>. QED
  BY <1>1, <1>2, <1>4, AtTurn, Zenon DEF Result

LEMMA FileTaken ==
  ASSUME CoordTypes, PlaceFile
  PROVE  /\ [files |-> held[turn].files - 1, dirs |-> held[turn].dirs] \in Result
         /\ held' = [held EXCEPT ![turn] = [files |-> held[turn].files - 1, dirs |-> held[turn].dirs]]
<1>1. /\ cpc = "place" /\ held[turn].files > 0
      /\ held' = [held EXCEPT ![turn].files = held[turn].files - 1]
  BY Zenon DEF PlaceFile, At, CanPlaceFile
<1>2. held[turn].files - 1 \in Nat
  BY <1>1, AtTurn
<1>3. [held[turn] EXCEPT !.files = held[turn].files - 1] = [files |-> held[turn].files - 1, dirs |-> held[turn].dirs]
  BY <1>1, AtTurn DEF Result
<1>. QED
  BY <1>1, <1>2, <1>3, AtTurn, Zenon DEF Result

LEMMA CoordTypesInit == Init => CoordTypes
<1> SUFFICES ASSUME Init PROVE CoordTypes
  BY Zenon
<1>1. /\ frontier = <<Root>> /\ held = <<>> /\ page = <<>> /\ in_flight = 0 /\ cpc = "spawn" /\ turn = 1
      /\ op = [d \in Dirs |-> "none"] /\ fate = [d \in Dirs |-> "unseen"]
  BY Zenon DEF Init
<1>2. frontier \in Seq(Dirs) /\ Len(frontier) = 1
  BY <1>1, JobConstants
<1>3. held \in Seq(Result) /\ page \in Seq(Message) /\ Len(held) = 0 /\ Len(page) = 0
  BY <1>1, EmptySeq, Zenon
<1>. QED
  BY <1>1, <1>2, <1>3, Caps DEF CoordTypes, OpStates, Fates, TurnOK

LEMMA CoordTypesStep == CoordTypes /\ [Next]_vars => CoordTypes'
<1> SUFFICES ASSUME CoordTypes, [Next]_vars PROVE CoordTypes'
  BY Zenon
<1>0. /\ frontier \in Seq(Dirs) /\ held \in Seq(Result) /\ page \in Seq(Message)
      /\ op \in [Dirs -> OpStates] /\ fate \in [Dirs -> Fates] /\ in_flight \in Int
      /\ TurnOK(cpc, turn, Len(held))
      /\ Len(frontier) <= FrontierCap /\ Len(held) <= InFlightCap /\ Len(page) <= InFlightCap
      /\ Len(frontier) \in Nat /\ Len(held) \in Nat /\ Len(page) \in Nat
  BY LenProperties, Zenon DEF CoordTypes
<1>1. CASE UNCHANGED ScanVars
  BY <1>0, <1>1, Zenon DEF CoordTypes, ScanVars
<1>2. CASE PlaceDir
  <2>1. /\ cpc = "place" /\ Len(frontier) < FrontierCap
        /\ UNCHANGED <<cpc, turn, in_flight, page, op>>
        /\ \/ UNCHANGED frontier /\ fate' = [fate EXCEPT ![Head(held[turn].dirs)] = "skipped"]
           \/ UNCHANGED fate /\ frontier' = Append(frontier, Head(held[turn].dirs))
    BY <1>2, Zenon DEF PlaceDir, At, CanPlaceDir, scans
  <2>2. held' \in Seq(Result) /\ Len(held') = Len(held)
    BY <1>2, <2>1, DirTaken, HeldShrinks, Zenon
  <2>3. frontier' \in Seq(Dirs) /\ Len(frontier') <= FrontierCap
    <3>1. Head(held[turn].dirs) \in Dirs
      BY <1>2, DirTaken, Zenon
    <3>2. \/ frontier' = frontier
          \/ frontier' \in Seq(Dirs) /\ Len(frontier') = Len(frontier) + 1
      <4>1. /\ Append(frontier, Head(held[turn].dirs)) \in Seq(Dirs)
            /\ Len(Append(frontier, Head(held[turn].dirs))) = Len(frontier) + 1
        BY <1>0, <3>1, AppendProperties, Zenon
      <4>. QED
        BY <2>1, <4>1, Zenon
    <3>3. Len(frontier) + 1 <= FrontierCap
      BY <1>0, <2>1, Caps
    <3>. QED
      BY <1>0, <3>2, <3>3, Zenon
  <2>4. fate' \in [Dirs -> Fates]
    BY <1>0, <2>1, Zenon DEF Fates
  <2>. QED
    BY <1>0, <2>1, <2>2, <2>3, <2>4, Zenon DEF CoordTypes
<1>3. CASE PlaceFile
  <2>1. /\ cpc = "place" /\ cpc' = "count" /\ UNCHANGED <<turn, frontier, in_flight, page, op, fate>>
    BY <1>3, Zenon DEF PlaceFile, At, scans, history
  <2>2. held' \in Seq(Result) /\ Len(held') = Len(held)
    BY <1>3, <2>1, FileTaken, HeldShrinks, Zenon
  <2>3. TurnOK(cpc', turn', Len(held'))
    BY <1>0, <2>1, <2>2, Zenon DEF TurnOK
  <2>. QED
    BY <1>0, <2>1, <2>2, <2>3, Zenon DEF CoordTypes
<1>4. CASE PlaceNext
  <2>1. /\ cpc = "place" /\ UNCHANGED <<frontier, in_flight, page, op, fate>>
        /\ held' = IF Placed THEN Without(held, turn) ELSE held
    BY <1>4, Zenon DEF PlaceNext, At, scans, history
  <2>2. /\ held' \in Seq(Result) /\ Len(held') \in Nat
        /\ Len(held') = IF Placed THEN Len(held) - 1 ELSE Len(held)
    <3>1. turn \in 1..Len(held)
      BY <2>1, AtTurn, Zenon
    <3>2. Without(held, turn) \in Seq(Result) /\ Len(Without(held, turn)) = Len(held) - 1
      BY <1>0, <3>1, Removed, Zenon
    <3>. QED
      BY <1>0, <2>1, <3>1, <3>2
  <2>3. TurnOK(cpc', turn', Len(held'))
    <3>1. turn \in 1..Len(held)
      BY <2>1, AtTurn, Zenon
    <3>2. \/ cpc' = "spawn" /\ turn' = 1
          \/ /\ cpc' = "place" /\ turn' \in {turn, turn + 1} /\ ~(turn' > Len(held'))
      BY <1>4, <2>1, Zenon DEF PlaceNext
    <3>. QED
      BY <1>0, <2>2, <3>1, <3>2 DEF TurnOK
  <2>4. Len(held') <= InFlightCap
    BY <1>0, <2>2, Caps
  <2>. QED
    BY <1>0, <2>1, <2>2, <2>3, <2>4, Zenon DEF CoordTypes
<1>5. CASE CountTask
  <2>1. cpc = "count" /\ cpc' = "place" /\ UNCHANGED <<turn, frontier, held, in_flight, page, op, fate>>
    BY <1>5, Zenon DEF CountTask, At, scans, history
  <2>. QED
    BY <1>0, <2>1, Zenon DEF CoordTypes, TurnOK
<1>6. CASE Spawn
  <2>1. /\ cpc = "spawn" /\ cpc' \in {"spawn", "close", "select"} /\ UNCHANGED <<turn, held, page, fate>>
        /\ \/ UNCHANGED <<frontier, in_flight, op>>
           \/ /\ frontier # <<>> /\ frontier' = Tail(frontier) /\ in_flight' = in_flight + 1
              /\ op' = [op EXCEPT ![Head(frontier)] = "running"]
    BY <1>6, Zenon DEF Spawn, At, history
  <2>2. frontier' \in Seq(Dirs) /\ Len(frontier') <= FrontierCap
    <3>1. CASE UNCHANGED frontier
      BY <1>0, <3>1, Zenon
    <3>2. CASE frontier # <<>> /\ frontier' = Tail(frontier)
      <4>1. Tail(frontier) \in Seq(Dirs) /\ Len(Tail(frontier)) = Len(frontier) - 1
        BY <1>0, <3>2, HeadTailProperties, Zenon
      <4>. QED
        BY <1>0, <3>2, <4>1, Caps
    <3>. QED
      BY <2>1, <3>1, <3>2, Zenon
  <2>3. op' \in [Dirs -> OpStates] /\ in_flight' \in Int
    BY <1>0, <2>1 DEF OpStates
  <2>4. TurnOK(cpc', turn', Len(held'))
    BY <1>0, <2>1, Zenon DEF TurnOK
  <2>. QED
    BY <1>0, <2>1, <2>2, <2>3, <2>4, Zenon DEF CoordTypes
<1>7. CASE Receive
  <2> DEFINE d == Head(page).dir
  <2>1. /\ cpc = "select" /\ page # <<>> /\ page' = Tail(page) /\ ~(Len(held) >= InFlightCap)
        /\ UNCHANGED <<turn, frontier, in_flight, op>>
        /\ cpc' = LoopHead(held')
        /\ \/ held' = Append(held, [files |-> Tree[d].files, dirs |-> Tree[d].dirs])
           \/ held' = held
        /\ \E f \in Fates : fate' = [fate EXCEPT ![d] = f]
    BY <1>7, Zenon DEF Receive, At, CanReceive, HeldFull, Fates
  <2>2. d \in Dirs /\ page' \in Seq(Message) /\ Len(page') <= InFlightCap
    <3>1. /\ Head(page) \in Message /\ Tail(page) \in Seq(Message) /\ Len(Tail(page)) = Len(page) - 1
      BY <1>0, <2>1, HeadTailProperties, Zenon
    <3>. QED
      BY <1>0, <2>1, <3>1, Caps DEF Message
  <2> HIDE DEF d
  <2>3. [files |-> Tree[d].files, dirs |-> Tree[d].dirs] \in Result
    BY <2>2, Listings, Zenon DEF Result
  <2>4. held' \in Seq(Result) /\ Len(held') <= InFlightCap /\ Len(held') \in Nat
    <3>1. \/ held' = held
          \/ held' \in Seq(Result) /\ Len(held') = Len(held) + 1
      <4>1. /\ Append(held, [files |-> Tree[d].files, dirs |-> Tree[d].dirs]) \in Seq(Result)
            /\ Len(Append(held, [files |-> Tree[d].files, dirs |-> Tree[d].dirs])) = Len(held) + 1
        BY <1>0, <2>3, AppendProperties
      <4>. QED
        BY <2>1, <4>1, Zenon
    <3>2. Len(held) + 1 <= InFlightCap /\ Len(held) + 1 \in Nat
      BY <1>0, <2>1, Caps
    <3>. QED
      BY <1>0, <3>1, <3>2, Zenon
  <2>5. fate' \in [Dirs -> Fates]
    BY <1>0, <2>1, Zenon
  <2>6. TurnOK(cpc', turn', Len(held'))
    <3>1. turn' = 1 /\ (held' # <<>> => Len(held') # 0)
      BY <1>0, <2>1, <2>4, EmptySeq, Zenon DEF TurnOK
    <3>. QED
      BY <2>1, <2>4, <3>1 DEF TurnOK, LoopHead
  <2>. QED
    BY <1>0, <2>1, <2>2, <2>4, <2>5, <2>6, Zenon DEF CoordTypes
<1>8. CASE Poll
  <2>1. /\ cpc = "select" /\ cpc' = LoopHead(held) /\ UNCHANGED <<turn, frontier, held, in_flight, page, op, fate>>
    BY <1>8, Zenon DEF Poll, At, scans, history
  <2>2. turn = 1 /\ (held # <<>> => Len(held) # 0)
    BY <1>0, <2>1, EmptySeq, Zenon DEF TurnOK
  <2>3. TurnOK(cpc', turn', Len(held'))
    BY <1>0, <2>1, <2>2 DEF TurnOK, LoopHead
  <2>. QED
    BY <1>0, <2>1, <2>3, Zenon DEF CoordTypes
<1>9. CASE CloseReady \/ MarkScanDone \/ CoordinatorSettle
  <2>1. /\ cpc \in {"close", "mark", "settle"} /\ cpc' \in {"mark", "settle", "exit"}
        /\ UNCHANGED <<turn, frontier, held, in_flight, page, op, fate>>
    BY <1>9, Zenon DEF CloseReady, MarkScanDone, CoordinatorSettle, At, scans, history
  <2>. QED
    BY <1>0, <2>1, Zenon DEF CoordTypes, TurnOK
<1>10. ASSUME NEW d \in Dirs, Operation(d) PROVE CoordTypes'
  <2>1. UNCHANGED <<cpc, turn, frontier, held, fate>>
    BY <1>10, Zenon DEF Operation, OpScans, OpSends, OpReturnsSlot, OpLeaves, coord, history
  <2>2. op' \in [Dirs -> OpStates] /\ in_flight' \in Int
    BY <1>0, <1>10, SMTT(30) DEF Operation, OpScans, OpSends, OpReturnsSlot, OpStates
  <2>3. page' \in Seq(Message) /\ Len(page') <= InFlightCap
    <3>1. CASE UNCHANGED page
      BY <1>0, <3>1, Zenon
    <3>2. CASE ~UNCHANGED page
      <4>1. /\ Len(page) < InFlightCap /\ page' = Append(page, [dir |-> d, ok |-> op[d] = "listed"])
        BY <1>10, <3>2, Zenon DEF Operation, OpScans, OpSends, OpReturnsSlot
      <4>2. [dir |-> d, ok |-> op[d] = "listed"] \in Message
        BY Zenon DEF Message
      <4>. QED
        BY <1>0, <4>1, <4>2, AppendProperties, Caps
    <3>. QED
      BY <3>1, <3>2, Zenon
  <2>. QED
    BY <1>0, <2>1, <2>2, <2>3, Zenon DEF CoordTypes
<1>. QED
  BY <1>1, <1>2, <1>3, <1>4, <1>5, <1>6, <1>7, <1>8, <1>9, <1>10, Scanners, Zenon DEF Coordinator, Place

\* The list operations that have a slot.
HasSlot == {"running", "listed", "failed", "sent"}
Outstanding == {d \in Dirs : op[d] \in HasSlot}
OpsInv == Cardinality(Outstanding) <= in_flight /\ in_flight <= InFlightCap

LEMMA OpsCounts ==
  ASSUME CoordTypes, OpsInv
  PROVE  /\ Cardinality(Outstanding) \in Nat /\ in_flight \in 0..InFlightCap
         /\ in_flight = 0 => \A d \in Dirs : op[d] \notin HasSlot
<1>1. IsFiniteSet(Outstanding)
  BY JobConstants, FS_Subset, Zenon DEF Outstanding
<1>2. Cardinality(Outstanding) \in Nat /\ (Cardinality(Outstanding) = 0 => Outstanding = {})
  BY <1>1, FS_CardinalityType, FS_EmptySet, Zenon
<1>3. in_flight \in Int /\ in_flight <= InFlightCap /\ Cardinality(Outstanding) <= in_flight
  BY Zenon DEF CoordTypes, OpsInv
<1>4. in_flight \in 0..InFlightCap /\ (in_flight = 0 => Cardinality(Outstanding) = 0)
  BY <1>2, <1>3, Caps
<1>. QED
  BY <1>2, <1>4, Zenon DEF Outstanding

LEMMA OpsInit == Init => OpsInv
<1> SUFFICES ASSUME Init PROVE OpsInv
  BY Zenon
<1>1. in_flight = 0 /\ op = [d \in Dirs |-> "none"]
  BY Zenon DEF Init
<1>2. Outstanding = {}
  BY <1>1, Zenon DEF Outstanding, HasSlot
<1>. QED
  BY <1>1, <1>2, FS_EmptySet, Caps DEF OpsInv

LEMMA OpsStep == CoordTypes /\ OpsInv /\ [Next]_vars => OpsInv'
<1> SUFFICES ASSUME CoordTypes, OpsInv, [Next]_vars PROVE OpsInv'
  BY Zenon
<1>0. /\ op \in [Dirs -> OpStates] /\ in_flight \in Int /\ in_flight <= InFlightCap
      /\ Cardinality(Outstanding) <= in_flight /\ Cardinality(Outstanding) \in Int
  BY OpsCounts DEF CoordTypes, OpsInv
<1>1. ASSUME NEW d \in Dirs, NEW v \in OpStates, op' = [op EXCEPT ![d] = v]
      PROVE  /\ v \in HasSlot /\ op[d] \in HasSlot => Cardinality(Outstanding') = Cardinality(Outstanding)
             /\ v \in HasSlot /\ op[d] \notin HasSlot => Cardinality(Outstanding') = Cardinality(Outstanding) + 1
             /\ v \notin HasSlot /\ op[d] \in HasSlot => Cardinality(Outstanding') = Cardinality(Outstanding) - 1
  <2>1. op'[d] = v /\ \A c \in Dirs : c # d => op'[c] = op[c]
    BY <1>0, <1>1, Zenon
  <2>2. /\ Outstanding \in SUBSET Dirs /\ Outstanding' \in SUBSET Dirs
        /\ \A c \in Dirs : c # d => (c \in Outstanding' <=> c \in Outstanding)
    BY <2>1, Zenon DEF Outstanding
  <2>3. Cardinality(Outstanding') = Cardinality(Outstanding) + Ones(d, Outstanding') - Ones(d, Outstanding)
    <3>1. IsFiniteSet(Dirs)
      BY JobConstants, Zenon
    <3>. QED
      BY <2>2, <3>1, CountMoves, Zenon
  <2>4. (d \in Outstanding' <=> v \in HasSlot) /\ (d \in Outstanding <=> op[d] \in HasSlot)
    BY <2>1, Zenon DEF Outstanding
  <2>. QED
    BY <1>0, <2>3, <2>4 DEF Ones
<1>2. ASSUME UNCHANGED <<op, in_flight>> PROVE OpsInv'
  BY <1>2, SMTT(30) DEF OpsInv, Outstanding
<1>3. ASSUME PlaceDir \/ PlaceFile \/ PlaceNext \/ CountTask \/ Receive \/ Poll \/ CloseReady \/ MarkScanDone
               \/ CoordinatorSettle \/ UNCHANGED ScanVars
      PROVE  UNCHANGED <<op, in_flight>>
  BY <1>3 DEF PlaceDir, PlaceFile, PlaceNext, CountTask, Receive, Poll, CloseReady, MarkScanDone, CoordinatorSettle,
              scans, ScanVars
<1>4. CASE Spawn
  <2>1. CASE in_flight < InFlightCap /\ frontier # <<>>
    <3>1. in_flight' = in_flight + 1 /\ op' = [op EXCEPT ![Head(frontier)] = "running"]
      BY <1>4, <2>1, Zenon DEF Spawn
    <3>2. Head(frontier) \in Dirs
      BY <2>1, HeadTailProperties, Zenon DEF CoordTypes
    <3>3. Cardinality(Outstanding') = Cardinality(Outstanding) + 1 \/ Cardinality(Outstanding') = Cardinality(Outstanding)
      <4>1. "running" \in OpStates /\ "running" \in HasSlot
        BY Zenon DEF OpStates, HasSlot
      <4>. QED
        BY <1>1, <3>1, <3>2, <4>1, Zenon
    <3>. QED
      BY <1>0, <2>1, <3>1, <3>3, Caps DEF OpsInv
  <2>2. CASE ~(in_flight < InFlightCap /\ frontier # <<>>)
    BY <1>2, <1>4, <2>2, Zenon DEF Spawn
  <2>. QED
    BY <2>1, <2>2, Zenon
<1>5. ASSUME NEW d \in Dirs, Operation(d) PROVE OpsInv'
  <2>1. CASE OpScans(d) \/ OpSends(d)
    <3>1. PICK v \in {"listed", "failed", "sent"} : op' = [op EXCEPT ![d] = v]
      BY <2>1, Zenon DEF OpScans, OpSends
    <3>2. in_flight' = in_flight /\ op[d] \in {"running", "listed", "failed"}
      BY <2>1, Zenon DEF OpScans, OpSends
    <3>3. Cardinality(Outstanding') = Cardinality(Outstanding)
      <4>1. v \in OpStates /\ v \in HasSlot /\ op[d] \in HasSlot
        BY <3>1, <3>2, Zenon DEF OpStates, HasSlot
      <4>. QED
        BY <1>1, <3>1, <4>1, Zenon
    <3>. QED
      BY <1>0, <3>2, <3>3, Zenon DEF OpsInv
  <2>2. CASE OpReturnsSlot(d)
    <3>1. op[d] = "sent" /\ op' = [op EXCEPT ![d] = "done"] /\ in_flight' = in_flight - 1
      BY <2>2, Zenon DEF OpReturnsSlot
    <3>2. Cardinality(Outstanding') = Cardinality(Outstanding) - 1
      <4>1. "done" \in OpStates /\ "done" \notin HasSlot /\ op[d] \in HasSlot
        BY <3>1, Zenon DEF OpStates, HasSlot
      <4>. QED
        BY <1>1, <3>1, <4>1, Zenon
    <3>. QED
      BY <1>0, <3>1, <3>2, Caps DEF OpsInv
  <2>. QED
    BY <1>5, <2>1, <2>2, Zenon DEF Operation
<1>. QED
  BY <1>2, <1>3, <1>4, <1>5, Scanners, Zenon DEF Coordinator, Place

\* The memory of a job is bounded by the caps of SchedulerCaps, whatever the tree: the
\* frontier, the held results, the result channel, the operations under way and the ready
\* queue.
THEOREM JobQueuesBounded == Spec => []QueuesBounded
<1> DEFINE Inv == CoordTypes /\ OpsInv /\ WorkInv
<1>1. Init => Inv
  BY CoordTypesInit, OpsInit, WorkInit, Zenon
<1>2. Inv /\ [Next]_vars => Inv'
  BY CoordTypesStep, OpsStep, WorkStep, Zenon
<1>3. Inv => QueuesBounded
  BY OpsCounts, Zenon DEF CoordTypes, WorkInv, WorkTypes, QueuesBounded
<1> HIDE DEF Inv
<1>. QED
  BY <1>1, <1>2, <1>3, PTL DEF Spec

(***************************************************************************)
(* The scan: no directory is lost on its way through the frontier, the list *)
(* operations, the result channel and the held results.                    *)
(***************************************************************************)

(***************************************************************************)
(* The end of the scan.                                                    *)
(***************************************************************************)
\* A cancel is never taken back, it has made the state Canceled before, and only a
\* canceled job gives tasks up.
CancelInv ==
  /\ cancel => state = "Canceled"
  /\ gone \in Nat /\ dropped \in Nat
  /\ gone + dropped > 0 => cancel

LEMMA CancelInit == Init => CancelInv
BY DEF Init, CancelInv

LEMMA CancelStays == [Next]_vars => CancelFlags \/ cancel' = cancel
<1>1. ASSUME NEW w \in Workers, Worker(w) \/ Watch(w) PROVE cancel' = cancel
  <2>1. Worker(w) => WorkerLeaves
    BY DEF Worker, PauseWait, EnterSelect, TakeTask, Resolve, ExecTop, AcquirePermit, Transferred,
           TaskDone, WorkerSettle
  <2>2. Watch(w) => UNCHANGED flags
    BY Zenon DEF Watch
  <2>. QED
    BY <1>1, <2>1, <2>2, Zenon DEF WorkerLeaves, flags
<1>2. ASSUME NEW d \in Dirs, Operation(d) PROVE cancel' = cancel
  BY <1>2, SMTT(30) DEF Operation, OpScans, OpSends, OpReturnsSlot, OpLeaves, flags
<1>3. Coordinator => cancel' = cancel
  BY DEF Coordinator, Place, PlaceDir, PlaceFile, PlaceNext, CountTask, Spawn, Receive, Poll, CloseReady,
         MarkScanDone, CoordinatorSettle, CLeaves, flags
<1>4. Command => CancelFlags \/ cancel' = cancel
  BY Zenon DEF Command, Pause, Resume, Cancel, NotifyWaiters, flags
<1>5. UNCHANGED vars => cancel' = cancel
  BY Zenon DEF vars, flags
<1>. QED
  BY <1>1, <1>2, <1>3, <1>4, <1>5, Zenon DEF Next

\* A task is given up by a worker of a canceled job.
GivesUp == cancel /\ gone' \in {gone, gone + 1} /\ dropped' \in {dropped, dropped + 1}
LEMMA GivingUp == [Next]_vars => GivesUp \/ UNCHANGED <<gone, dropped>>
<1>1. ASSUME NEW w \in Workers, Worker(w) PROVE GivesUp \/ UNCHANGED <<gone, dropped>>
  <2>1. CASE TakeTask(w)
    BY <2>1, Zenon DEF TakeTask, GivesUp
  <2>2. CASE ExecTop(w)
    BY <2>2, Zenon DEF ExecTop, GivesUp
  <2>3. CASE Transferred(w)
    BY <2>3, Zenon DEF Transferred, GivesUp
  <2>4. CASE PauseWait(w) \/ EnterSelect(w) \/ Resolve(w) \/ AcquirePermit(w) \/ TaskDone(w) \/ WorkerSettle(w)
    BY <2>4, Zenon DEF PauseWait, EnterSelect, Resolve, AcquirePermit, TaskDone, WorkerSettle, ends
  <2>. QED
    BY <1>1, <2>1, <2>2, <2>3, <2>4, Zenon DEF Worker
<1>2. ASSUME NEW w \in Workers, Watch(w) PROVE UNCHANGED <<gone, dropped>>
  BY <1>2, Zenon DEF Watch, history, ends
<1>3. ASSUME NEW d \in Dirs, Operation(d) PROVE UNCHANGED <<gone, dropped>>
  BY <1>3, SMTT(30) DEF Operation, OpScans, OpSends, OpReturnsSlot, OpLeaves, history, ends
<1>4. Coordinator => UNCHANGED <<gone, dropped>>
  BY DEF Coordinator, Place, PlaceDir, PlaceFile, PlaceNext, CountTask, Spawn, Receive, Poll, CloseReady,
         MarkScanDone, CoordinatorSettle, history, ends
<1>5. Command \/ UNCHANGED vars => UNCHANGED <<gone, dropped>>
  BY Zenon DEF Command, Pause, Resume, Cancel, CancelFlags, NotifyWaiters, ApiLeaves, history, ends, vars
<1>. QED
  BY <1>1, <1>2, <1>3, <1>4, <1>5, Zenon DEF Next

LEMMA CancelStep == EndInv /\ CancelInv /\ [Next]_vars => CancelInv'
<1> SUFFICES ASSUME EndInv, CancelInv, [Next]_vars PROVE CancelInv'
  BY Zenon
<1>1. CASE CancelFlags
  <2>1. cancel' /\ state' = state /\ state = "Canceled" /\ UNCHANGED <<gone, dropped>>
    BY <1>1, Zenon DEF CancelFlags, jobVars, EndInv, Canceling, ApiLeaves, history, ends
  <2>. QED
    BY <2>1, Zenon DEF CancelInv
<1>2. CASE cancel' = cancel
  <2>1. cancel' => state' = "Canceled"
    BY <1>2, EndStep, Zenon DEF CancelInv, Terminal
  <2>2. gone \in Nat /\ dropped \in Nat /\ (gone + dropped > 0 => cancel)
    BY Zenon DEF CancelInv
  <2>3. CASE GivesUp
    <3>1. cancel' /\ gone' \in Nat /\ dropped' \in Nat
      BY <1>2, <2>2, <2>3 DEF GivesUp
    <3>. QED
      BY <2>1, <3>1, Zenon DEF CancelInv
  <2>4. CASE UNCHANGED <<gone, dropped>>
    BY <1>2, <2>1, <2>2, <2>4, Zenon DEF CancelInv
  <2>. QED
    BY <2>3, <2>4, GivingUp, Zenon
<1>. QED
  BY <1>1, <1>2, CancelStays, Zenon

\* The coordinator has left its loop.
Left == {"close", "mark", "settle", "exit"}
AllScanned == frontier = <<>> /\ held = <<>> /\ page = <<>> /\ in_flight = 0
StageInv ==
  /\ scan_done <=> cpc \in {"settle", "exit"}
  /\ cpc \in Left /\ ~cancel => AllScanned

LEMMA StageInit == Init => StageInv
BY Zenon DEF Init, StageInv, Left

LEMMA StageStep == CoordTypes /\ OpsInv /\ StageInv /\ [Next]_vars => StageInv'
<1> SUFFICES ASSUME CoordTypes, OpsInv, StageInv, [Next]_vars PROVE StageInv'
  BY Zenon
<1>1. CASE UNCHANGED ScanVars
  <2>1. ~cancel' => ~cancel
    BY CancelStays, Zenon DEF CancelFlags
  <2>. QED
    BY <1>1, <2>1, Zenon DEF ScanVars, StageInv, AllScanned
<1>2. CASE PlaceDir \/ PlaceFile \/ PlaceNext \/ CountTask
  <2>1. cpc \notin Left /\ cpc' \notin Left /\ scan_done' = scan_done
    BY <1>2, Zenon DEF PlaceDir, PlaceFile, PlaceNext, CountTask, At, Left
  <2>. QED
    BY <2>1, Zenon DEF StageInv, Left
<1>3. CASE Spawn
  <2>1. cpc = "spawn" /\ cpc' \in {"spawn", "close", "select"} /\ scan_done' = scan_done
    BY <1>3, Zenon DEF Spawn, At
  <2>2. cpc' = "close" => ScanOver /\ UNCHANGED <<frontier, held, page, in_flight>>
    BY <1>3, <2>1, Zenon DEF Spawn
  <2>. QED
    BY <2>1, <2>2, Zenon DEF StageInv, Left, ScanOver, AllScanned
<1>4. CASE Receive \/ Poll
  <2>1. /\ cpc = "select" /\ cpc' \in {"close", "spawn", "place"} /\ scan_done' = scan_done
        /\ cpc' = "close" => cancel'
    <3>1. /\ cpc = "select" /\ scan_done' = scan_done /\ cancel' = cancel
          /\ cpc' = LoopHead(held') \/ cpc' = LoopHead(held)
      BY <1>4, Zenon DEF Receive, Poll, At, CLeaves, flags
    <3>. QED
      BY <3>1, Zenon DEF LoopHead
  <2>. QED
    BY <2>1, Zenon DEF StageInv, Left
<1>5. CASE CloseReady \/ MarkScanDone \/ CoordinatorSettle
  <2>1. /\ UNCHANGED <<frontier, held, page, in_flight, cancel>> /\ cpc \in Left
        /\ (scan_done' <=> cpc' \in {"settle", "exit"})
    BY <1>5 DEF CloseReady, MarkScanDone, CoordinatorSettle, At, CLeaves, flags, scans, Left, StageInv
  <2>. QED
    BY <2>1, Zenon DEF StageInv, AllScanned
<1>6. ASSUME NEW d \in Dirs, Operation(d) PROVE StageInv'
  <2>1. UNCHANGED <<cpc, scan_done, cancel>> /\ op[d] \in HasSlot
    BY <1>6, Zenon DEF Operation, OpScans, OpSends, OpReturnsSlot, OpLeaves, coord, flags, HasSlot
  <2>2. ~(cpc \in Left /\ ~cancel)
    BY <2>1, OpsCounts, Zenon DEF StageInv, AllScanned
  <2>. QED
    BY <2>1, <2>2, Zenon DEF StageInv
<1>. QED
  BY <1>1, <1>2, <1>3, <1>4, <1>5, <1>6, Scanners, Zenon DEF Coordinator, Place

\* A job is completed when the scan is over and no task is left, and it stays so.
DoneInv == state = "Completed" => scan_done /\ pending = 0

LEMMA NothingLeft ==
  ASSUME WorkInv, StageInv, scan_done, pending = 0
  PROVE  ready = 0 /\ TasksInHand = 0 /\ dropped = 0 /\ \A w \in Workers : wpc[w] # "done"
<1> DEFINE h == Cardinality(Those(InHand)) d == Cardinality(Those({"done"}))
<1>1. IsFiniteSet(Those(InHand)) /\ IsFiniteSet(Those({"done"}))
  BY WorkNamed, SemaphoreConstants, FS_Subset, Zenon DEF Workers
<1>2. h \in Nat /\ d \in Nat /\ (d = 0 => Those({"done"}) = {})
  BY <1>1, FS_CardinalityType, FS_EmptySet, Zenon
<1>3. cpc # "count"
  BY Zenon DEF StageInv
<1>4. pending = ready + h + d - 0 + dropped /\ TasksInHand = h
  BY <1>3, WorkNamed, Zenon DEF WorkInv, TasksInHand, Those
<1>5. ready \in Nat /\ dropped \in Nat
  BY Caps DEF WorkInv, WorkTypes
<1> HIDE DEF h, d
<1>6. ready = 0 /\ h = 0 /\ d = 0 /\ dropped = 0
  BY <1>2, <1>4, <1>5
<1>. QED
  BY <1>2, <1>4, <1>6, Zenon DEF Those

LEMMA DoneInit == Init => DoneInv
BY Zenon DEF Init, DoneInv

LEMMA DoneStep == WorkInv /\ StageInv /\ DoneInv /\ [Next]_vars => DoneInv'
<1> SUFFICES ASSUME WorkInv, StageInv, DoneInv, [Next]_vars, state' = "Completed"
             PROVE  scan_done' /\ pending' = 0
  BY Zenon DEF DoneInv
<1>1. CASE CoordinatorSettle
  <2>1. scan_done /\ pending = 0
    BY <1>1, Zenon DEF CoordinatorSettle, Settle, NoTasks, jobVars, Phase, DoneInv
  <2>. QED
    BY <1>1, <2>1, Zenon DEF CoordinatorSettle
<1>2. ASSUME NEW w \in Workers, WorkerSettle(w) PROVE scan_done' /\ pending' = 0
  <2>1. scan_done /\ pending = 0
    BY <1>2, Zenon DEF WorkerSettle, Settle, CheckTerminal, NoTasks, jobVars, Phase, DoneInv
  <2>. QED
    BY <1>2, <2>1, Zenon DEF WorkerSettle, WorkerLeaves
<1>3. ASSUME ~CoordinatorSettle, \A w \in Workers : ~WorkerSettle(w) PROVE state = "Completed"
  <2>1. ASSUME NEW w \in Workers, Worker(w) \/ Watch(w) PROVE state' = state
    BY <1>3, <2>1, Zenon DEF Worker, Watch, PauseWait, EnterSelect, TakeTask, Resolve, ExecTop, AcquirePermit,
                Transferred, TaskDone, jobVars
  <2>2. ASSUME NEW d \in Dirs, Operation(d) PROVE state' = state
    BY <2>2, Zenon DEF Operation, OpScans, OpSends, OpReturnsSlot, OpLeaves, jobVars
  <2>3. Coordinator => state' = state
    BY <1>3, Zenon DEF Coordinator, Place, PlaceDir, PlaceFile, PlaceNext, CountTask, Spawn, Receive, Poll, CloseReady,
                MarkScanDone, jobVars
  <2>4. Command \/ UNCHANGED vars => state' = state
    BY Zenon DEF Command, Pause, Resume, Cancel, CancelFlags, NotifyWaiters, jobVars, vars
  <2>. QED
    BY <2>1, <2>2, <2>3, <2>4, Zenon DEF Next
<1>4. ASSUME state = "Completed" PROVE scan_done' /\ pending' = 0
  <2>1. scan_done /\ pending = 0 /\ cpc \in {"settle", "exit"}
    BY <1>4, Zenon DEF DoneInv, StageInv
  <2>2. \A w \in Workers : ~TaskDone(w)
    BY <2>1, NothingLeft, Zenon DEF TaskDone, Is
  <2>3. ASSUME NEW w \in Workers, Worker(w) \/ Watch(w) PROVE UNCHANGED <<scan_done, pending>>
    BY <2>2, <2>3, Zenon DEF Worker, Watch, PauseWait, EnterSelect, TakeTask, Resolve, ExecTop, AcquirePermit,
                Transferred, WorkerSettle, WorkerLeaves
  <2>4. ASSUME NEW d \in Dirs, Operation(d) PROVE UNCHANGED <<scan_done, pending>>
    BY <2>4, Zenon DEF Operation, OpScans, OpSends, OpReturnsSlot, OpLeaves
  <2>5. Coordinator => UNCHANGED <<scan_done, pending>>
    BY <2>1, Zenon DEF Coordinator, Place, PlaceDir, PlaceFile, PlaceNext, CountTask, Spawn, Receive, Poll, CloseReady,
                MarkScanDone, CoordinatorSettle, At
  <2>6. Command \/ UNCHANGED vars => UNCHANGED <<scan_done, pending>>
    BY Zenon DEF Command, Pause, Resume, Cancel, CancelFlags, NotifyWaiters, ApiLeaves, vars
  <2>7. UNCHANGED <<scan_done, pending>>
    BY <2>3, <2>4, <2>5, <2>6, Zenon DEF Next
  <2>. QED
    BY <2>1, <2>7, Zenon
<1>. QED
  BY <1>1, <1>2, <1>3, <1>4, Zenon

\* Where a directory is on its way from a listing to its fate: in the frontier, in a held
\* result, in a list operation, in the result channel, or through.
Queued(c) == \E i \in 1..Len(frontier) : frontier[i] = c
Waiting(c) == \E i \in 1..Len(held) : \E j \in 1..Len(held[i].dirs) : held[i].dirs[j] = c
Scanned(c) == op[c] \in {"running", "listed", "failed"}
Answered(c) == \E i \in 1..Len(page) : page[i].dir = c
Through(c) == fate[c] # "unseen"
Tracked(c) == Queued(c) \/ Waiting(c) \/ Scanned(c) \/ Answered(c) \/ Through(c)

LEMMA QueuedLonger ==
  ASSUME CoordTypes, NEW d \in Dirs, frontier' = Append(frontier, d), NEW c
  PROVE  (Queued(c) => Queued(c)') /\ Queued(d)'
<1>1. /\ Len(frontier) \in Nat /\ Len(frontier') = Len(frontier) + 1
      /\ \A i \in 1..Len(frontier) : frontier'[i] = frontier[i]
      /\ frontier'[Len(frontier) + 1] = d
  BY AppendProperties, LenProperties DEF CoordTypes
<1>2. Len(frontier) + 1 \in 1..Len(frontier') /\ \A i \in 1..Len(frontier) : i \in 1..Len(frontier')
  BY <1>1
<1>. QED
  BY <1>1, <1>2, Zenon DEF Queued

LEMMA TrackPlaceDir == ASSUME CoordTypes, PlaceDir, NEW c \in Dirs, Tracked(c) PROVE Tracked(c)'
<1> DEFINE ds == held[turn].dirs
           r == [files |-> held[turn].files, dirs |-> Tail(ds)]
<1>0. PICK d \in Dirs : d = Head(ds)
  BY DirTaken, Zenon
<1>1. /\ cpc = "place" /\ ds # <<>> /\ UNCHANGED <<page, op>>
      /\ \/ UNCHANGED frontier /\ fate' = [fate EXCEPT ![d] = "skipped"]
         \/ UNCHANGED fate /\ frontier' = Append(frontier, d)
  BY <1>0, Zenon DEF PlaceDir, At, CanPlaceDir, scans
<1>2. fate \in [Dirs -> Fates] /\ turn \in 1..Len(held) /\ ds \in Seq(Dirs \ {Root})
  BY <1>1, DirTaken, AtTurn, Zenon DEF CoordTypes
<1>3. Len(held') = Len(held) /\ \A i \in 1..Len(held) : held'[i] = IF i = turn THEN r ELSE held[i]
  BY <1>1, DirTaken, HeldShrinks, Zenon
<1>4. Queued(d)' \/ Through(d)'
  BY <1>1, <1>2, QueuedLonger, Zenon DEF Through
<1>5. ASSUME Waiting(c) PROVE Waiting(c)' \/ c = d
  <2>0. PICK i \in 1..Len(held) : \E j \in 1..Len(held[i].dirs) : held[i].dirs[j] = c
    BY <1>5, Zenon DEF Waiting
  <2>1. PICK j \in 1..Len(held[i].dirs) : held[i].dirs[j] = c
    BY <2>0, Zenon
  <2>2. CASE i # turn
    BY <1>3, <2>1, <2>2, Zenon DEF Waiting
  <2>3. CASE i = turn /\ j = 1
    BY <1>0, <1>1, <1>2, <2>1, <2>3
  <2>4. CASE i = turn /\ j # 1
    <3>1. /\ Len(ds) \in Nat /\ Len(Tail(ds)) = Len(ds) - 1
          /\ \A k \in 1..Len(Tail(ds)) : Tail(ds)[k] = ds[k + 1]
      BY <1>1, <1>2, HeadTailProperties, LenProperties
    <3>2. j - 1 \in 1..Len(Tail(ds)) /\ (j - 1) + 1 = j
      BY <2>4, <3>1
    <3>3. Tail(ds)[j - 1] = c
      BY <2>1, <2>4, <3>1, <3>2, Zenon
    <3>4. held'[turn].dirs = Tail(ds) /\ turn \in 1..Len(held')
      <4>1. held'[turn] = r /\ turn \in 1..Len(held')
        BY <1>2, <1>3, Zenon
      <4>2. r.dirs = Tail(ds)
        BY Zenon
      <4>. QED
        BY <4>1, <4>2, Zenon
    <3>. QED
      BY <3>2, <3>3, <3>4, Zenon DEF Waiting
  <2>. QED
    BY <2>2, <2>3, <2>4, Zenon
<1>6. (Queued(c) => Queued(c)') /\ (Through(c) => Through(c)')
  BY <1>1, <1>2, QueuedLonger, Zenon DEF Queued, Through
<1>7. (Scanned(c) => Scanned(c)') /\ (Answered(c) => Answered(c)')
  BY <1>1, Zenon DEF Scanned, Answered
<1>. QED
  BY <1>4, <1>5, <1>6, <1>7, Zenon DEF Tracked

LEMMA TrackPlaceOn ==
  ASSUME CoordTypes, PlaceFile \/ PlaceNext, NEW c \in Dirs, Tracked(c) PROVE Tracked(c)'
<1>1. UNCHANGED <<frontier, page, op, fate>> /\ cpc = "place"
  BY Zenon DEF PlaceFile, PlaceNext, At, scans, history
<1>2. ASSUME Waiting(c) PROVE Waiting(c)'
  <2>0. PICK i \in 1..Len(held) : \E j \in 1..Len(held[i].dirs) : held[i].dirs[j] = c
    BY <1>2, Zenon DEF Waiting
  <2>1. PICK j \in 1..Len(held[i].dirs) : held[i].dirs[j] = c
    BY <2>0, Zenon
  <2>2. CASE PlaceFile
    <3>1. /\ Len(held') = Len(held)
          /\ held'[i].dirs = held[i].dirs
      BY <1>1, <2>1, <2>2, FileTaken, HeldShrinks
    <3>. QED
      BY <2>1, <3>1, Zenon DEF Waiting
  <2>3. CASE PlaceNext /\ Placed
    <3>1. held' = Without(held, turn) /\ held \in Seq(Result) /\ turn \in 1..Len(held) /\ Len(held) \in Nat
      BY <1>1, <2>3, AtTurn, Zenon DEF PlaceNext, CoordTypes
    <3>2. /\ Len(held') = Len(held) - 1
          /\ i < turn => held'[i] = held[i]
          /\ i > turn => held'[i - 1] = held[i]
      BY <2>1, <3>1, Removed, Zenon
    <3>3. i # turn
      <4> SUFFICES ASSUME i = turn PROVE FALSE
        BY Zenon
      <4>1. j \in 1..Len(<<>>) /\ Len(<<>>) = 0
        BY <2>1, <2>3, EmptySeq, Zenon DEF Placed
      <4>. QED
        BY <4>1
    <3>4. (i < turn /\ i \in 1..Len(held')) \/ (i > turn /\ i - 1 \in 1..Len(held'))
      BY <3>1, <3>2, <3>3
    <3>. QED
      BY <2>1, <3>2, <3>4, Zenon DEF Waiting
  <2>4. CASE PlaceNext /\ ~Placed
    BY <1>2, <2>4, Zenon DEF PlaceNext, Waiting
  <2>. QED
    BY <2>2, <2>3, <2>4, Zenon
<1>3. /\ (Queued(c) => Queued(c)') /\ (Through(c) => Through(c)')
      /\ (Scanned(c) => Scanned(c)') /\ (Answered(c) => Answered(c)')
  BY <1>1, Zenon DEF Queued, Through, Scanned, Answered
<1>. QED
  BY <1>2, <1>3, Zenon DEF Tracked

LEMMA TrackSpawn == ASSUME CoordTypes, Spawn, NEW c \in Dirs, Tracked(c) PROVE Tracked(c)'
<1>0. UNCHANGED <<held, page, fate>>
  BY Zenon DEF Spawn, history
<1>1. (Waiting(c) => Waiting(c)') /\ (Answered(c) => Answered(c)') /\ (Through(c) => Through(c)')
  BY <1>0, Zenon DEF Waiting, Answered, Through
<1>2. CASE UNCHANGED <<frontier, op>>
  BY <1>1, <1>2, Zenon DEF Tracked, Queued, Scanned
<1>3. CASE ~UNCHANGED <<frontier, op>>
  <2>1. /\ frontier # <<>> /\ frontier' = Tail(frontier) /\ op' = [op EXCEPT ![Head(frontier)] = "running"]
    BY <1>3, Zenon DEF Spawn
  <2>2. /\ op \in [Dirs -> OpStates] /\ Head(frontier) \in Dirs /\ Len(frontier) \in Nat
        /\ Len(Tail(frontier)) = Len(frontier) - 1 /\ Head(frontier) = frontier[1]
        /\ \A i \in 1..Len(Tail(frontier)) : Tail(frontier)[i] = frontier[i + 1]
    BY <2>1, HeadTailProperties, LenProperties DEF CoordTypes
  <2>3. (Scanned(c) => Scanned(c)') /\ (c = Head(frontier) => Scanned(c)')
    BY <2>1, <2>2, Zenon DEF Scanned
  <2>4. ASSUME Queued(c) PROVE Queued(c)' \/ c = Head(frontier)
    <3>1. PICK i \in 1..Len(frontier) : frontier[i] = c
      BY <2>4, Zenon DEF Queued
    <3>2. CASE i = 1
      BY <2>2, <3>1, <3>2, Zenon
    <3>3. CASE i # 1
      <4>1. i - 1 \in 1..Len(Tail(frontier)) /\ (i - 1) + 1 = i
        BY <2>2, <3>3
      <4>2. Tail(frontier)[i - 1] = c
        BY <2>2, <3>1, <4>1, Zenon
      <4>. QED
        BY <2>1, <4>1, <4>2, Zenon DEF Queued
    <3>. QED
      BY <3>2, <3>3, Zenon
  <2>. QED
    BY <1>1, <2>3, <2>4, Zenon DEF Tracked
<1>. QED
  BY <1>2, <1>3, Zenon

\* Of the result that arrives: its directory is through, and what it lists waits.
LEMMA TrackReceive ==
  ASSUME CoordTypes, Receive
  PROVE  /\ \A c \in Dirs : Tracked(c) => Tracked(c)'
         /\ \A d \in Dirs : fate'[d] = "listed" =>
              fate[d] = "listed" \/ \A j \in 1..Len(Tree[d].dirs) : Tracked(Tree[d].dirs[j])'
         /\ fate[Root] # "skipped" => fate'[Root] # "skipped"
<1>0. /\ page # <<>> /\ page' = Tail(page) /\ UNCHANGED <<frontier, op>>
  BY Zenon DEF Receive, CanReceive
<1>1. /\ page \in Seq(Message) /\ held \in Seq(Result) /\ fate \in [Dirs -> Fates]
      /\ Len(page) \in Nat /\ Len(held) \in Nat
  BY LenProperties, Zenon DEF CoordTypes
<1>2. /\ Head(page) \in Message /\ Len(Tail(page)) = Len(page) - 1 /\ Head(page) = page[1]
      /\ \A i \in 1..Len(Tail(page)) : Tail(page)[i] = page[i + 1]
  BY <1>0, <1>1, HeadTailProperties
<1>3. PICK d \in Dirs : d = Head(page).dir
  BY <1>2, Zenon DEF Message
<1> DEFINE r == [files |-> Tree[d].files, dirs |-> Tree[d].dirs]
<1>4. /\ \/ held' = held
         \/ held' = Append(held, r)
      /\ \/ fate' = [fate EXCEPT ![d] = "failed"]
         \/ /\ fate' = [fate EXCEPT ![d] = "listed"]
            /\ held' = Append(held, r) \/ Tree[d].dirs = <<>>
  BY <1>3, Zenon DEF Receive
<1>5. /\ Append(held, r) \in Seq(Result) /\ Len(Append(held, r)) = Len(held) + 1
      /\ \A i \in 1..Len(held) : Append(held, r)[i] = held[i]
      /\ Append(held, r)[Len(held) + 1] = r
  <2>1. r \in Result
    BY Listings, Zenon DEF Result
  <2>. QED
    BY <1>1, <2>1, AppendProperties
<1>6. \A i \in 1..Len(held) : i \in 1..Len(held') /\ held'[i] = held[i]
  <2>1. CASE held' = held
    BY <2>1, Zenon
  <2>2. CASE held' = Append(held, r)
    <3>1. Len(held') = Len(held) + 1 /\ \A i \in 1..Len(held) : held'[i] = held[i]
      BY <1>5, <2>2, Zenon
    <3>. QED
      BY <1>1, <3>1
  <2>. QED
    BY <1>4, <2>1, <2>2, Zenon
<1>7. ASSUME NEW c \in Dirs, Tracked(c) PROVE Tracked(c)'
  <2>1. (Queued(c) => Queued(c)') /\ (Scanned(c) => Scanned(c)')
    BY <1>0, Zenon DEF Queued, Scanned
  <2>2. (Through(c) => Through(c)') /\ (c = d => Through(c)')
    BY <1>1, <1>4, Zenon DEF Through
  <2>3. Waiting(c) => Waiting(c)'
    BY <1>6, Zenon DEF Waiting
  <2>4. ASSUME Answered(c) PROVE Answered(c)' \/ c = d
    <3>1. PICK i \in 1..Len(page) : page[i].dir = c
      BY <2>4, Zenon DEF Answered
    <3>2. CASE i = 1
      BY <1>2, <1>3, <3>1, <3>2, Zenon
    <3>3. CASE i # 1
      <4>1. i - 1 \in 1..Len(Tail(page)) /\ (i - 1) + 1 = i
        BY <1>1, <1>2, <3>3
      <4>2. Tail(page)[i - 1].dir = c
        BY <1>2, <3>1, <4>1, Zenon
      <4>. QED
        BY <1>0, <4>1, <4>2, Zenon DEF Answered
    <3>. QED
      BY <3>2, <3>3, Zenon
  <2>. QED
    BY <1>7, <2>1, <2>2, <2>3, <2>4, Zenon DEF Tracked
<1>8. ASSUME NEW e \in Dirs, fate'[e] = "listed", fate[e] # "listed", NEW j \in 1..Len(Tree[e].dirs)
      PROVE  Tracked(Tree[e].dirs[j])'
  <2>1. e = d /\ (held' = Append(held, r) \/ Tree[d].dirs = <<>>)
    BY <1>1, <1>4, <1>8, Zenon
  <2>2. Tree[d].dirs # <<>>
    BY <1>8, <2>1, EmptySeq
  <2>3. Len(held) + 1 \in 1..Len(held') /\ held'[Len(held) + 1] = r
    <3>1. Len(held') = Len(held) + 1 /\ held'[Len(held) + 1] = r
      BY <1>5, <2>1, <2>2, Zenon
    <3>2. \A n \in Nat : n + 1 \in 1..(n + 1)
      OBVIOUS
    <3>. QED
      BY <1>1, <3>1, <3>2, Zenon
  <2>4. held'[Len(held) + 1].dirs = Tree[e].dirs
    <3>1. r.dirs = Tree[d].dirs
      BY Zenon
    <3>. QED
      BY <2>1, <2>3, <3>1, Zenon
  <2>5. Waiting(Tree[e].dirs[j])'
    BY <2>3, <2>4, Zenon DEF Waiting
  <2>. QED
    BY <2>5, Zenon DEF Tracked
<1>9. fate[Root] # "skipped" => fate'[Root] # "skipped"
  BY <1>1, <1>4, JobConstants, Zenon
<1>. QED
  BY <1>7, <1>8, <1>9, Zenon

LEMMA TrackOperation ==
  ASSUME CoordTypes, OpsInv, StageInv, ~cancel, NEW d \in Dirs, Operation(d), NEW c \in Dirs, Tracked(c)
  PROVE  Tracked(c)'
<1>1. UNCHANGED <<frontier, held, fate>>
  BY Zenon DEF Operation, OpScans, OpSends, OpReturnsSlot, OpLeaves, coord, history
<1>2. (Queued(c) => Queued(c)') /\ (Waiting(c) => Waiting(c)') /\ (Through(c) => Through(c)')
  BY <1>1, Zenon DEF Queued, Waiting, Through
<1>3. op \in [Dirs -> OpStates] /\ page \in Seq(Message) /\ Len(page) \in Nat
  BY LenProperties, Zenon DEF CoordTypes
<1>4. CASE OpScans(d)
  <2>1. UNCHANGED page /\ \E v \in {"listed", "failed"} : op' = [op EXCEPT ![d] = v]
    BY <1>4, Zenon DEF OpScans
  <2>. QED
    BY <1>2, <1>3, <2>1, Zenon DEF Tracked, Scanned, Answered
<1>5. CASE OpSends(d)
  <2>1. op[d] \in {"listed", "failed"} /\ op' = [op EXCEPT ![d] = "sent"]
    BY <1>5, Zenon DEF OpSends
  <2>2. cpc # "exit"
    BY <2>1, OpsCounts, Zenon DEF StageInv, Left, AllScanned, HasSlot
  <2>3. page' = Append(page, [dir |-> d, ok |-> op[d] = "listed"])
    BY <1>5, <2>2, Zenon DEF OpSends
  <2>4. [dir |-> d, ok |-> op[d] = "listed"] \in Message
    BY Zenon DEF Message
  <2>5. /\ Len(page') = Len(page) + 1 /\ \A i \in 1..Len(page) : page'[i] = page[i]
        /\ page'[Len(page) + 1] = [dir |-> d, ok |-> op[d] = "listed"]
    BY <1>3, <2>3, <2>4, AppendProperties
  <2>6. /\ Len(page) + 1 \in 1..Len(page') /\ page'[Len(page) + 1].dir = d
        /\ \A i \in 1..Len(page) : i \in 1..Len(page')
    BY <1>3, <2>5
  <2>7. (Answered(c) => Answered(c)') /\ (c = d => Answered(c)')
    BY <2>5, <2>6, Zenon DEF Answered
  <2>8. c # d => (Scanned(c) => Scanned(c)')
    BY <1>3, <2>1, Zenon DEF Scanned
  <2>. QED
    BY <1>2, <2>7, <2>8, Zenon DEF Tracked
<1>6. CASE OpReturnsSlot(d)
  <2>1. op[d] = "sent" /\ op' = [op EXCEPT ![d] = "done"] /\ UNCHANGED page
    BY <1>6, Zenon DEF OpReturnsSlot
  <2>. QED
    BY <1>2, <1>3, <2>1, Zenon DEF Tracked, Scanned, Answered
<1>. QED
  BY <1>4, <1>5, <1>6, Zenon DEF Operation

\* Unless the job is canceled, the root and whatever a listed directory lists is tracked.
TrackInv ==
  /\ fate[Root] # "skipped"
  /\ ~cancel => /\ Tracked(Root)
                /\ \A d \in Dirs : fate[d] = "listed" =>
                     \A j \in 1..Len(Tree[d].dirs) : Tracked(Tree[d].dirs[j])

LEMMA Children == ASSUME NEW d \in Dirs, NEW j \in 1..Len(Tree[d].dirs) PROVE Tree[d].dirs[j] \in Dirs
BY Listings, ElementOfSeq

LEMMA TrackInit == Init => TrackInv
<1> SUFFICES ASSUME Init PROVE TrackInv
  BY Zenon
<1>1. frontier = <<Root>> /\ fate = [d \in Dirs |-> "unseen"]
  BY Zenon DEF Init
<1>2. Queued(Root)
  BY <1>1 DEF Queued
<1>. QED
  BY <1>1, <1>2, JobConstants, Zenon DEF TrackInv, Tracked

LEMMA TrackStep == CoordTypes /\ OpsInv /\ StageInv /\ TrackInv /\ [Next]_vars => TrackInv'
<1> SUFFICES ASSUME CoordTypes, OpsInv, StageInv, TrackInv, [Next]_vars PROVE TrackInv'
  BY Zenon
<1>0. ~cancel' => ~cancel
  BY CancelStays, Zenon DEF CancelFlags
<1>1. ASSUME \A d \in Dirs : fate'[d] = "listed" => fate[d] = "listed", fate'[Root] # "skipped",
             ~cancel => \A c \in Dirs : Tracked(c) => Tracked(c)'
      PROVE  TrackInv'
  <2> SUFFICES ASSUME ~cancel
               PROVE  /\ Tracked(Root)'
                      /\ \A d \in Dirs : fate'[d] = "listed" =>
                           \A j \in 1..Len(Tree[d].dirs) : Tracked(Tree[d].dirs[j])'
    BY <1>0, <1>1, Zenon DEF TrackInv
  <2>1. Tracked(Root)'
    BY <1>1, JobConstants, Zenon DEF TrackInv
  <2>2. ASSUME NEW d \in Dirs, fate'[d] = "listed", NEW j \in 1..Len(Tree[d].dirs)
        PROVE  Tracked(Tree[d].dirs[j])'
    BY <1>1, <2>2, Children, Zenon DEF TrackInv
  <2>. QED
    BY <2>1, <2>2, Zenon
<1>2. fate \in [Dirs -> Fates] /\ Root \in Dirs /\ fate[Root] # "skipped"
  BY JobConstants, Zenon DEF CoordTypes, TrackInv
<1>3. CASE PlaceDir
  <2>1. PICK d \in Dirs \ {Root} : d = Head(held[turn].dirs)
    BY <1>3, DirTaken, Zenon
  <2>2. UNCHANGED fate \/ fate' = [fate EXCEPT ![d] = "skipped"]
    BY <1>3, <2>1, Zenon DEF PlaceDir
  <2>3. (\A e \in Dirs : fate'[e] = "listed" => fate[e] = "listed") /\ fate'[Root] # "skipped"
    BY <1>2, <2>1, <2>2, Zenon
  <2>. QED
    BY <1>1, <1>3, <2>3, TrackPlaceDir, Zenon
<1>4. CASE PlaceFile \/ PlaceNext \/ Spawn
  <2>1. UNCHANGED fate
    BY <1>4, Zenon DEF PlaceFile, PlaceNext, Spawn, history
  <2>. QED
    BY <1>1, <1>2, <1>4, <2>1, TrackPlaceOn, TrackSpawn, Zenon
<1>5. CASE Receive
  <2> SUFFICES ASSUME ~cancel
               PROVE  /\ Tracked(Root)'
                      /\ \A d \in Dirs : fate'[d] = "listed" =>
                           \A j \in 1..Len(Tree[d].dirs) : Tracked(Tree[d].dirs[j])'
    BY <1>0, <1>2, <1>5, TrackReceive, Zenon DEF TrackInv
  <2>1. Tracked(Root)'
    BY <1>2, <1>5, TrackReceive, Zenon DEF TrackInv
  <2>2. ASSUME NEW d \in Dirs, fate'[d] = "listed", NEW j \in 1..Len(Tree[d].dirs)
        PROVE  Tracked(Tree[d].dirs[j])'
    <3>1. CASE fate[d] = "listed"
      <4>1. Tracked(Tree[d].dirs[j]) /\ Tree[d].dirs[j] \in Dirs
        BY <2>2, <3>1, Children, Zenon DEF TrackInv
      <4>. QED
        BY <1>5, <4>1, TrackReceive, Zenon
    <3>2. CASE fate[d] # "listed"
      BY <1>5, <2>2, <3>2, TrackReceive, Zenon
    <3>. QED
      BY <3>1, <3>2, Zenon
  <2>. QED
    BY <2>1, <2>2, Zenon
<1>6. ASSUME UNCHANGED <<frontier, held, page, op, fate>> PROVE TrackInv'
  <2>1. \A c \in Dirs : Tracked(c) => Tracked(c)'
    BY <1>6, Zenon DEF Tracked, Queued, Waiting, Scanned, Answered, Through
  <2>. QED
    BY <1>1, <1>2, <1>6, <2>1, Zenon
<1>7. ASSUME CountTask \/ Poll \/ CloseReady \/ MarkScanDone \/ CoordinatorSettle \/ UNCHANGED ScanVars
      PROVE  UNCHANGED <<frontier, held, page, op, fate>>
  BY <1>7, Zenon DEF CountTask, Poll, CloseReady, MarkScanDone, CoordinatorSettle, scans, history, ScanVars
<1>8. ASSUME NEW d \in Dirs, Operation(d) PROVE TrackInv'
  <2>1. UNCHANGED fate
    BY <1>8, Zenon DEF Operation, OpScans, OpSends, OpReturnsSlot, OpLeaves, history
  <2>. QED
    BY <1>1, <1>2, <1>8, <2>1, TrackOperation, Zenon
<1>. QED
  BY <1>3, <1>4, <1>5, <1>6, <1>7, <1>8, Scanners, Zenon DEF Coordinator, Place

\* A job that says Completed is: the root was listed or failed, every directory below a
\* listed one was listed, failed or skipped, nothing is held or queued or in a worker's
\* hands, and no task was given up.
THEOREM JobCompleted == Spec => []CompletedIsComplete
<1> DEFINE Inv == /\ EndInv /\ CancelInv /\ WorkInv /\ CoordTypes /\ OpsInv
                  /\ StageInv /\ DoneInv /\ TrackInv
<1>1. Init => Inv
  BY EndInit, CancelInit, WorkInit, CoordTypesInit, OpsInit, StageInit, DoneInit, TrackInit, Zenon
<1>2. Inv /\ [Next]_vars => Inv'
  BY EndStep, CancelStep, WorkStep, CoordTypesStep, OpsStep, StageStep, DoneStep, TrackStep
<1>3. Inv => CompletedIsComplete
  <2> SUFFICES ASSUME Inv, state = "Completed"
               PROVE  /\ fate[Root] \in {"listed", "failed"}
                      /\ \A d \in Dirs : fate[d] = "listed" =>
                           \A c \in Range(Tree[d].dirs) : fate[c] # "unseen"
                      /\ held = <<>> /\ ready = 0 /\ TasksInHand = 0 /\ gone + dropped = 0
    BY Zenon DEF CompletedIsComplete
  <2>1. scan_done /\ pending = 0 /\ ~cancel
    BY Zenon DEF DoneInv, CancelInv
  <2>2. AllScanned /\ cpc \in {"settle", "exit"}
    BY <2>1, Zenon DEF StageInv, Left
  <2>3. ready = 0 /\ TasksInHand = 0
    BY <2>1, NothingLeft, Zenon
  <2>4. gone + dropped = 0
    BY <2>1 DEF CancelInv
  <2>5. ASSUME NEW c \in Dirs, Tracked(c) PROVE fate[c] # "unseen"
    <3>1. ~Queued(c) /\ ~Waiting(c) /\ ~Answered(c)
      BY <2>2, EmptySeq DEF AllScanned, Queued, Waiting, Answered
    <3>2. ~Scanned(c)
      BY <2>2, OpsCounts, Zenon DEF AllScanned, Scanned, HasSlot
    <3>. QED
      BY <2>5, <3>1, <3>2, Zenon DEF Tracked, Through
  <2>6. fate[Root] \in {"listed", "failed"}
    BY <2>1, <2>5, JobConstants, Zenon DEF TrackInv, CoordTypes, Fates
  <2>7. ASSUME NEW d \in Dirs, fate[d] = "listed", NEW c \in Range(Tree[d].dirs) PROVE fate[c] # "unseen"
    <3>1. PICK j \in 1..Len(Tree[d].dirs) : Tree[d].dirs[j] = c
      BY Listings, LenProperties, Zenon DEF Range
    <3>. QED
      BY <2>1, <2>5, <2>7, <3>1, Children, Zenon DEF TrackInv
  <2>. QED
    BY <2>2, <2>3, <2>4, <2>6, <2>7, Zenon DEF AllScanned
<1> HIDE DEF Inv
<1>. QED
  BY <1>1, <1>2, <1>3, PTL DEF Spec
=============================================================================
