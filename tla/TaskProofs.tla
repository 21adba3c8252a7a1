---------------------------- MODULE TaskProofs ------------------------------
(***************************************************************************)
(* The tasks behind the lists the user sees: the queue of transfers, for   *)
(* any number of transfers, permits, retries and commands, and the tabs    *)
(* with their supervisors, for any number of tabs.                         *)
(***************************************************************************)
EXTENDS TransferQueue, OpenTabs, FiniteSetTheorems, TLAPS

Holding == {"confirm", "open", "chunk", "io", "returned"}
Moving == {"open", "chunk", "io", "returned"}

QueueTypes ==
  /\ holders \in SUBSET Clients /\ listed \in SUBSET Clients
  /\ state \in [Clients -> Terminal \cup Live \cup {"none"}]
  /\ pc \in [Clients -> PCs]
  /\ command \in [Clients -> {"none", "resume", "add1", "add2", "retry"}]
  /\ tail \in [Clients -> {"none", "repay", "sub1", "sub2"}]
  /\ priority \in [Clients -> 0..2]
  /\ priority_waiting \in Int /\ priority_running \in Int

\* What holds of one transfer: it holds a permit just while it is in an attempt; a
\* transfer that is over, or about to be retried, has no runner; what is not in
\* the registry has neither a runner nor a command.
Life(t) ==
  /\ t \in holders <=> pc[t] \in Holding
  /\ pc[t] \in Moving => state[t] = "Running"
  /\ state[t] \in Terminal => pc[t] = "exit"
  /\ command[t] = "retry" => pc[t] = "exit" /\ state[t] \notin Terminal
  /\ state[t] = "none" => t \notin listed
  /\ pc[t] # "exit" => t \in listed
  /\ command[t] # "none" => t \in listed

\* The inductive invariant.
QueueInv == QueueTypes /\ (\A t \in Clients : Life(t)) /\ LedgersBalance

\* A step of one transfer leaves the others alone, ...
Alone(t) ==
  \A u \in Clients : u # t =>
     /\ u \in holders' <=> u \in holders
     /\ u \in listed' <=> u \in listed
     /\ state'[u] = state[u] /\ pc'[u] = pc[u] /\ command'[u] = command[u]
     /\ tail'[u] = tail[u] /\ priority'[u] = priority[u]

\* ... and what it adds to a ledger is what its own entry has changed by.
Same(x, y) == IF x = y THEN 1 ELSE 0
Entered1(p, c, l, r) == Same(p, 1) - Same(c, "add1") - Same(l, "edge_move") + Same(l, "gate_move") + Same(r, "sub1")
Entered2(p, c, l, r) == Same(p, 2) - Same(c, "add2") + Same(l, "edge_move") - Same(l, "gate_move") + Same(r, "sub2")
Paid(t) ==
  /\ priority_waiting' - priority_waiting =
       Entered1(priority'[t], command'[t], pc'[t], tail'[t]) - Entered1(priority[t], command[t], pc[t], tail[t])
  /\ priority_running' - priority_running =
       Entered2(priority'[t], command'[t], pc'[t], tail'[t]) - Entered2(priority[t], command[t], pc[t], tail[t])

-----------------------------------------------------------------------------
\* One transfer changes: a count of transfers changes by it alone.
Ones(t, S) == IF t \in S THEN 1 ELSE 0
LEMMA CountMoves ==
  ASSUME NEW F \in SUBSET Clients, NEW G \in SUBSET Clients, NEW t \in Clients,
         \A u \in Clients : u # t => (u \in G <=> u \in F)
  PROVE  /\ Count(F) \in Nat /\ Count(G) \in Nat
         /\ Count(G) = Count(F) + Ones(t, G) - Ones(t, F)
<1>1. IsFiniteSet(F) /\ IsFiniteSet(G)
  BY SemaphoreConstants, FS_Subset, Zenon
<1>2. Cardinality(F) \in Nat /\ Cardinality(G) \in Nat
  BY <1>1, FS_CardinalityType, Zenon
<1>3. CASE t \in G /\ t \notin F
  <2>1. G = F \cup {t}
    BY <1>3, Zenon
  <2>2. Cardinality(G) = Cardinality(F) + 1
    BY <1>1, <1>3, <2>1, FS_AddElement, Zenon
  <2>. QED
    BY <1>2, <1>3, <2>2 DEF Count, Ones
<1>4. CASE t \notin G /\ t \in F
  <2>1. G = F \ {t}
    BY <1>4, Zenon
  <2>2. Cardinality(G) = Cardinality(F) - 1
    BY <1>1, <1>4, <2>1, FS_RemoveElement, Zenon
  <2>. QED
    BY <1>2, <1>4, <2>2 DEF Count, Ones
<1>5. CASE t \in G <=> t \in F
  <2>1. G = F
    BY <1>5
  <2>. QED
    BY <1>2, <1>5, <2>1 DEF Count, Ones
<1>. QED
  BY <1>3, <1>4, <1>5, Zenon

Those(f, v) == {u \in Clients : f[u] = v}
LEMMA BalanceStep ==
  ASSUME QueueTypes, QueueTypes', LedgersBalance, NEW t \in Clients, Alone(t), Paid(t)
  PROVE  LedgersBalance'
<1> DEFINE n(f, v) == Count(Those(f, v))
<1>1. \A v : /\ n(priority, v) \in Nat /\ n(priority', v) \in Nat
             /\ n(priority', v) = n(priority, v) + Same(priority'[t], v) - Same(priority[t], v)
  <2> TAKE v
  <2> DEFINE F == Those(priority, v)
             G == Those(priority', v)
  <2>1. /\ F \in SUBSET Clients /\ G \in SUBSET Clients
        /\ \A u \in Clients : u # t => (u \in G <=> u \in F)
    BY Zenon DEF Those, Alone
  <2>2. Ones(t, F) = Same(priority[t], v) /\ Ones(t, G) = Same(priority'[t], v)
    BY Zenon DEF Those, Ones, Same
  <2> HIDE DEF F, G
  <2>3. Count(F) \in Nat /\ Count(G) \in Nat /\ Count(G) = Count(F) + Ones(t, G) - Ones(t, F)
    BY <2>1, CountMoves
  <2>. QED
    BY <2>2, <2>3, Zenon DEF F, G
<1>2. \A v : /\ n(command, v) \in Nat /\ n(command', v) \in Nat
             /\ n(command', v) = n(command, v) + Same(command'[t], v) - Same(command[t], v)
  <2> TAKE v
  <2> DEFINE F == Those(command, v)
             G == Those(command', v)
  <2>1. /\ F \in SUBSET Clients /\ G \in SUBSET Clients
        /\ \A u \in Clients : u # t => (u \in G <=> u \in F)
    BY DEF Those, Alone
  <2>2. Ones(t, F) = Same(command[t], v) /\ Ones(t, G) = Same(command'[t], v)
    BY Zenon DEF Those, Ones, Same
  <2> HIDE DEF F, G
  <2>3. Count(F) \in Nat /\ Count(G) \in Nat /\ Count(G) = Count(F) + Ones(t, G) - Ones(t, F)
    BY <2>1, CountMoves, Zenon
  <2>. QED
    BY <2>2, <2>3, Zenon DEF F, G
<1>3. \A v : /\ n(pc, v) \in Nat /\ n(pc', v) \in Nat
             /\ n(pc', v) = n(pc, v) + Same(pc'[t], v) - Same(pc[t], v)
  <2> TAKE v
  <2> DEFINE F == Those(pc, v)
             G == Those(pc', v)
  <2>1. /\ F \in SUBSET Clients /\ G \in SUBSET Clients
        /\ \A u \in Clients : u # t => (u \in G <=> u \in F)
    BY DEF Those, Alone
  <2>2. Ones(t, F) = Same(pc[t], v) /\ Ones(t, G) = Same(pc'[t], v)
    BY Zenon DEF Those, Ones, Same
  <2> HIDE DEF F, G
  <2>3. Count(F) \in Nat /\ Count(G) \in Nat /\ Count(G) = Count(F) + Ones(t, G) - Ones(t, F)
    BY <2>1, CountMoves, Zenon
  <2>. QED
    BY <2>2, <2>3, Zenon DEF F, G
<1>4. \A v : /\ n(tail, v) \in Nat /\ n(tail', v) \in Nat
             /\ n(tail', v) = n(tail, v) + Same(tail'[t], v) - Same(tail[t], v)
  <2> TAKE v
  <2> DEFINE F == Those(tail, v)
             G == Those(tail', v)
  <2>1. /\ F \in SUBSET Clients /\ G \in SUBSET Clients
        /\ \A u \in Clients : u # t => (u \in G <=> u \in F)
    BY Zenon DEF Those, Alone
  <2>2. Ones(t, F) = Same(tail[t], v) /\ Ones(t, G) = Same(tail'[t], v)
    BY Zenon DEF Those, Ones, Same
  <2> HIDE DEF F, G
  <2>3. Count(F) \in Nat /\ Count(G) \in Nat /\ Count(G) = Count(F) + Ones(t, G) - Ones(t, F)
    BY <2>1, CountMoves, Zenon
  <2>. QED
    BY <2>2, <2>3, Zenon DEF F, G
<1>5. /\ priority_waiting = n(priority, 1) - n(command, "add1") - n(pc, "edge_move") + n(pc, "gate_move") + n(tail, "sub1")
      /\ priority_running = n(priority, 2) - n(command, "add2") + n(pc, "edge_move") - n(pc, "gate_move") + n(tail, "sub2")
  BY Zenon DEF LedgersBalance, Those
<1>6. \A x, y : Same(x, y) \in Int
  BY DEF Same
<1>7. priority_waiting \in Int /\ priority_waiting' \in Int /\ priority_running \in Int /\ priority_running' \in Int
  BY Zenon DEF QueueTypes
<1> HIDE DEF n
<1>8. priority_waiting' = n(priority', 1) - n(command', "add1") - n(pc', "edge_move") + n(pc', "gate_move") + n(tail', "sub1")
  BY <1>1, <1>2, <1>3, <1>4, <1>5, <1>6, <1>7 DEF Paid, Entered1
<1>9. priority_running' = n(priority', 2) - n(command', "add2") + n(pc', "edge_move") - n(pc', "gate_move") + n(tail', "sub2")
  BY <1>1, <1>2, <1>3, <1>4, <1>5, <1>6, <1>7, SMTT(30) DEF Paid, Entered2
<1>. QED
  BY <1>8, <1>9, Zenon DEF n, LedgersBalance, Those

\* Every step is one of one transfer.
Steps(t) == RunnerStep(t) \/ TailStep(t) \/ CommandStep(t) \/ UserStep(t)

\* The types, step by step.
LEMMA TypesStep ==
  ASSUME QueueInv, NEW t \in Clients, Steps(t)
  PROVE  QueueTypes'
<1> USE DEF QueueInv, QueueTypes, Terminal, Live, PCs
<1>1. CASE Top(t)
  BY <1>1 DEF Top, Finish, InfoFree, Goto, SetState, SetPriority, flags, ledger, runner, api
<1>2. CASE PauseEdge(t)
  BY <1>2 DEF PauseEdge, Goto, SetState, SetPriority, flags, ledger, runner, api
<1>3. CASE PauseEdgeMove(t)
  BY <1>3 DEF PauseEdgeMove, Goto, SetState, SetPriority, flags, ledger, runner, api
<1>4. CASE Unpause(t)
  BY <1>4, Zenon DEF Unpause, Goto, SetState, SetPriority, flags, ledger, runner, api
<1>5. CASE Gate(t)
  BY <1>5 DEF Gate, Goto, SetState, SetPriority, flags, ledger, runner, api
<1>6. CASE GateMove(t)
  BY <1>6 DEF GateMove, Goto, SetState, SetPriority, flags, ledger, runner, api
<1>7. CASE Acquire(t)
  BY <1>7, Zenon DEF Acquire, Take, Goto, SetState, SetPriority, flags, ledger, runner, api
<1>8. CASE Confirm(t)
  BY <1>8 DEF Confirm, Give, Goto, SetState, SetPriority, flags, ledger, runner, api
<1>9. CASE Open(t)
  BY <1>9, Zenon DEF Open, Return, Goto, SetState, SetPriority, flags, ledger, runner, api
<1>10. CASE ChunkBoundary(t)
  BY <1>10, Zenon DEF ChunkBoundary, Return, Goto, SetState, SetPriority, flags, ledger, runner, api
<1>11. CASE Io(t)
  BY <1>11, Zenon DEF Io, Return, Goto, SetState, SetPriority, flags, ledger, runner, api
<1>12. CASE DropPermit(t)
  BY <1>12, Zenon DEF DropPermit, Give, Goto, SetState, SetPriority, flags, ledger, runner, api
<1>13. CASE Classify(t)
  BY <1>13 DEF Classify, Finish, Goto, SetState, SetPriority, flags, ledger, runner, api
<1>14. CASE Backoff(t)
  BY <1>14, Zenon DEF Backoff, Goto, SetState, SetPriority, flags, ledger, runner, api
<1>15. CASE Repay(t)
  BY <1>15 DEF Repay, Goto, SetState, SetPriority, flags, ledger, runner, api
<1>16. CASE RepaySub(t)
  BY <1>16 DEF RepaySub, Goto, SetState, SetPriority, flags, ledger, runner, api
<1>17. CASE ResumeState(t)
  BY <1>17, Zenon DEF ResumeState, Goto, SetState, SetPriority, flags, ledger, runner, api
<1>18. CASE PrioritizeAdd(t)
  BY <1>18 DEF PrioritizeAdd, Goto, SetState, SetPriority, flags, ledger, runner, api
<1>19. CASE RetrySpawn(t)
  BY <1>19, Zenon DEF RetrySpawn, Spawn, Goto, SetState, SetPriority, flags, ledger, runner, api
<1>20. CASE Enqueue(t)
  BY <1>20, Zenon DEF Enqueue, Spawn, Goto, SetState, SetPriority, flags, ledger, runner, api
<1>21. CASE Pause(t)
  BY <1>21, Zenon DEF Pause, Issue, Goto, SetState, SetPriority, flags, ledger, runner, api
<1>22. CASE Resume(t)
  BY <1>22, Zenon DEF Resume, Issue, Goto, SetState, SetPriority, flags, ledger, runner, api
<1>23. CASE Cancel(t)
  BY <1>23, Zenon DEF Cancel, Issue, Goto, SetState, SetPriority, flags, ledger, runner, api
<1>24. CASE Prioritize(t)
  BY <1>24 DEF Prioritize, Issue, Goto, SetState, SetPriority, flags, ledger, runner, api
<1>25. CASE Retry(t)
  BY <1>25, Zenon DEF Retry, Issue, Goto, SetState, SetPriority, flags, ledger, runner, api
<1>26. CASE Remove(t)
  BY <1>26, SMTT(30) DEF Remove, Issue, Goto, SetState, SetPriority, flags, ledger, runner, api
<1>. QED
  BY <1>1, <1>2, <1>3, <1>4, <1>5, <1>6, <1>7, <1>8, <1>9, <1>10, <1>11, <1>12, <1>13,
     <1>14, <1>15, <1>16, <1>17, <1>18, <1>19, <1>20, <1>21, <1>22, <1>23, <1>24, <1>25, <1>26, ZenonT(30)
     DEF Steps, RunnerStep, TailStep, CommandStep, UserStep

\* A step leaves the other transfers alone.
LEMMA AloneStep ==
  ASSUME QueueInv, NEW t \in Clients, Steps(t)
  PROVE  Alone(t)
<1> USE DEF QueueInv, QueueTypes, Alone
<1>1. CASE Top(t)
  BY <1>1 DEF Top, Finish, InfoFree, Goto, SetState, SetPriority, flags, ledger, runner, api
<1>2. CASE PauseEdge(t)
  BY <1>2 DEF PauseEdge, Goto, SetState, SetPriority, flags, ledger, runner, api
<1>3. CASE PauseEdgeMove(t)
  BY <1>3, Zenon DEF PauseEdgeMove, Goto, SetState, SetPriority, flags, ledger, runner, api
<1>4. CASE Unpause(t)
  BY <1>4, Zenon DEF Unpause, Goto, SetState, SetPriority, flags, ledger, runner, api
<1>5. CASE Gate(t)
  BY <1>5 DEF Gate, Goto, SetState, SetPriority, flags, ledger, runner, api
<1>6. CASE GateMove(t)
  BY <1>6, Zenon DEF GateMove, Goto, SetState, SetPriority, flags, ledger, runner, api
<1>7. CASE Acquire(t)
  BY <1>7, Zenon DEF Acquire, Take, Goto, SetState, SetPriority, flags, ledger, runner, api
<1>8. CASE Confirm(t)
  BY <1>8 DEF Confirm, Give, Goto, SetState, SetPriority, flags, ledger, runner, api
<1>9. CASE Open(t)
  BY <1>9, Zenon DEF Open, Return, Goto, SetState, SetPriority, flags, ledger, runner, api
<1>10. CASE ChunkBoundary(t)
  BY <1>10, Zenon DEF ChunkBoundary, Return, Goto, SetState, SetPriority, flags, ledger, runner, api
<1>11. CASE Io(t)
  BY <1>11, Zenon DEF Io, Return, Goto, SetState, SetPriority, flags, ledger, runner, api
<1>12. CASE DropPermit(t)
  BY <1>12, Zenon DEF DropPermit, Give, Goto, SetState, SetPriority, flags, ledger, runner, api
<1>13. CASE Classify(t)
  BY <1>13 DEF Classify, Finish, Goto, SetState, SetPriority, flags, ledger, runner, api
<1>14. CASE Backoff(t)
  BY <1>14, Zenon DEF Backoff, Goto, SetState, SetPriority, flags, ledger, runner, api
<1>15. CASE Repay(t)
  BY <1>15, Zenon DEF Repay, Goto, SetState, SetPriority, flags, ledger, runner, api
<1>16. CASE RepaySub(t)
  BY <1>16, Zenon DEF RepaySub, Goto, SetState, SetPriority, flags, ledger, runner, api
<1>17. CASE ResumeState(t)
  BY <1>17, Zenon DEF ResumeState, Goto, SetState, SetPriority, flags, ledger, runner, api
<1>18. CASE PrioritizeAdd(t)
  BY <1>18, Zenon DEF PrioritizeAdd, Goto, SetState, SetPriority, flags, ledger, runner, api
<1>19. CASE RetrySpawn(t)
  BY <1>19, Zenon DEF RetrySpawn, Spawn, Goto, SetState, SetPriority, flags, ledger, runner, api
<1>20. CASE Enqueue(t)
  BY <1>20, Zenon DEF Enqueue, Spawn, Goto, SetState, SetPriority, flags, ledger, runner, api
<1>21. CASE Pause(t)
  BY <1>21, Zenon DEF Pause, Issue, Goto, SetState, SetPriority, flags, ledger, runner, api
<1>22. CASE Resume(t)
  BY <1>22, Zenon DEF Resume, Issue, Goto, SetState, SetPriority, flags, ledger, runner, api
<1>23. CASE Cancel(t)
  BY <1>23, Zenon DEF Cancel, Issue, Goto, SetState, SetPriority, flags, ledger, runner, api
<1>24. CASE Prioritize(t)
  BY <1>24, Zenon DEF Prioritize, Issue, Goto, SetState, SetPriority, flags, ledger, runner, api
<1>25. CASE Retry(t)
  BY <1>25, Zenon DEF Retry, Issue, Goto, SetState, SetPriority, flags, ledger, runner, api
<1>26. CASE Remove(t)
  BY <1>26, SMTT(30) DEF Remove, Issue, Goto, SetState, SetPriority, flags, ledger, runner, api
<1>. QED
  BY <1>1, <1>2, <1>3, <1>4, <1>5, <1>6, <1>7, <1>8, <1>9, <1>10, <1>11, <1>12, <1>13,
     <1>14, <1>15, <1>16, <1>17, <1>18, <1>19, <1>20, <1>21, <1>22, <1>23, <1>24, <1>25, <1>26, ZenonT(30)
     DEF Steps, RunnerStep, TailStep, CommandStep, UserStep

\* A step keeps the life of its transfer.
LEMMA LifeStep ==
  ASSUME QueueInv, NEW t \in Clients, Steps(t)
  PROVE  Life(t)'
<1> USE DEF QueueInv, QueueTypes, Life, Holding, Moving, Terminal, Live
<1>1. CASE Top(t)
  BY <1>1 DEF Top, Finish, InfoFree, Goto, SetState, SetPriority, flags, ledger, runner, api
<1>2. CASE PauseEdge(t)
  BY <1>2 DEF PauseEdge, Goto, SetState, SetPriority, flags, ledger, runner, api
<1>3. CASE PauseEdgeMove(t)
  BY <1>3, Zenon DEF PauseEdgeMove, Goto, SetState, SetPriority, flags, ledger, runner, api
<1>4. CASE Unpause(t)
  BY <1>4, Zenon DEF Unpause, Goto, SetState, SetPriority, flags, ledger, runner, api
<1>5. CASE Gate(t)
  BY <1>5 DEF Gate, Goto, SetState, SetPriority, flags, ledger, runner, api
<1>6. CASE GateMove(t)
  BY <1>6, Zenon DEF GateMove, Goto, SetState, SetPriority, flags, ledger, runner, api
<1>7. CASE Acquire(t)
  BY <1>7 DEF Acquire, Take, Goto, SetState, SetPriority, flags, ledger, runner, api
<1>8. CASE Confirm(t)
  BY <1>8 DEF Confirm, Give, Goto, SetState, SetPriority, flags, ledger, runner, api
<1>9. CASE Open(t)
  BY <1>9 DEF Open, Return, Goto, SetState, SetPriority, flags, ledger, runner, api
<1>10. CASE ChunkBoundary(t)
  BY <1>10 DEF ChunkBoundary, Return, Goto, SetState, SetPriority, flags, ledger, runner, api
<1>11. CASE Io(t)
  BY <1>11 DEF Io, Return, Goto, SetState, SetPriority, flags, ledger, runner, api
<1>12. CASE DropPermit(t)
  BY <1>12, Zenon DEF DropPermit, Give, Goto, SetState, SetPriority, flags, ledger, runner, api
<1>13. CASE Classify(t)
  BY <1>13 DEF Classify, Finish, Goto, SetState, SetPriority, flags, ledger, runner, api
<1>14. CASE Backoff(t)
  BY <1>14, Zenon DEF Backoff, Goto, SetState, SetPriority, flags, ledger, runner, api
<1>15. CASE Repay(t)
  BY <1>15, Zenon DEF Repay, Goto, SetState, SetPriority, flags, ledger, runner, api
<1>16. CASE RepaySub(t)
  BY <1>16, Zenon DEF RepaySub, Goto, SetState, SetPriority, flags, ledger, runner, api
<1>17. CASE ResumeState(t)
  BY <1>17 DEF ResumeState, Goto, SetState, SetPriority, flags, ledger, runner, api
<1>18. CASE PrioritizeAdd(t)
  BY <1>18 DEF PrioritizeAdd, Goto, SetState, SetPriority, flags, ledger, runner, api
<1>19. CASE RetrySpawn(t)
  BY <1>19 DEF RetrySpawn, Spawn, Goto, SetState, SetPriority, flags, ledger, runner, api
<1>20. CASE Enqueue(t)
  BY <1>20 DEF Enqueue, Spawn, Goto, SetState, SetPriority, flags, ledger, runner, api
<1>21. CASE Pause(t)
  BY <1>21, Zenon DEF Pause, Issue, Goto, SetState, SetPriority, flags, ledger, runner, api
<1>22. CASE Resume(t)
  BY <1>22 DEF Resume, Issue, Goto, SetState, SetPriority, flags, ledger, runner, api
<1>23. CASE Cancel(t)
  BY <1>23, Zenon DEF Cancel, Issue, Goto, SetState, SetPriority, flags, ledger, runner, api
<1>24. CASE Prioritize(t)
  BY <1>24 DEF Prioritize, Issue, Goto, SetState, SetPriority, flags, ledger, runner, api
<1>25. CASE Retry(t)
  BY <1>25 DEF Retry, Issue, Goto, SetState, SetPriority, flags, ledger, runner, api
<1>26. CASE Remove(t)
  BY <1>26, SMTT(30) DEF Remove, Issue, Goto, SetState, SetPriority, flags, ledger, runner, api
<1>. QED
  BY <1>1, <1>2, <1>3, <1>4, <1>5, <1>6, <1>7, <1>8, <1>9, <1>10, <1>11, <1>12, <1>13,
     <1>14, <1>15, <1>16, <1>17, <1>18, <1>19, <1>20, <1>21, <1>22, <1>23, <1>24, <1>25, <1>26, ZenonT(30)
     DEF Steps, RunnerStep, TailStep, CommandStep, UserStep

\* A step pays for its entry.
LEMMA PaidStep ==
  ASSUME QueueInv, NEW t \in Clients, Steps(t)
  PROVE  Paid(t)
<1> USE DEF QueueInv, QueueTypes, Life, Paid, Entered1, Entered2, Same, PCs
<1>1. CASE Top(t)
  BY <1>1 DEF Top, Finish, InfoFree, Goto, SetState, SetPriority, flags, ledger, runner, api
<1>2. CASE PauseEdge(t)
  BY <1>2 DEF PauseEdge, Goto, SetState, SetPriority, flags, ledger, runner, api
<1>3. CASE PauseEdgeMove(t)
  BY <1>3 DEF PauseEdgeMove, Goto, SetState, SetPriority, flags, ledger, runner, api
<1>4. CASE Unpause(t)
  BY <1>4 DEF Unpause, Goto, SetState, SetPriority, flags, ledger, runner, api
<1>5. CASE Gate(t)
  BY <1>5 DEF Gate, Goto, SetState, SetPriority, flags, ledger, runner, api
<1>6. CASE GateMove(t)
  BY <1>6 DEF GateMove, Goto, SetState, SetPriority, flags, ledger, runner, api
<1>7. CASE Acquire(t)
  BY <1>7 DEF Acquire, Take, Goto, SetState, SetPriority, flags, ledger, runner, api
<1>8. CASE Confirm(t)
  BY <1>8 DEF Confirm, Give, Goto, SetState, SetPriority, flags, ledger, runner, api
<1>9. CASE Open(t)
  BY <1>9 DEF Open, Return, Goto, SetState, SetPriority, flags, ledger, runner, api
<1>10. CASE ChunkBoundary(t)
  BY <1>10 DEF ChunkBoundary, Return, Goto, SetState, SetPriority, flags, ledger, runner, api
<1>11. CASE Io(t)
  BY <1>11 DEF Io, Return, Goto, SetState, SetPriority, flags, ledger, runner, api
<1>12. CASE DropPermit(t)
  BY <1>12, SMTT(30) DEF DropPermit, Give, Goto, SetState, SetPriority, flags, ledger, runner, api
<1>13. CASE Classify(t)
  BY <1>13 DEF Classify, Finish, Goto, SetState, SetPriority, flags, ledger, runner, api
<1>14. CASE Backoff(t)
  BY <1>14 DEF Backoff, Goto, SetState, SetPriority, flags, ledger, runner, api
<1>15. CASE Repay(t)
  BY <1>15, SMTT(30) DEF Repay, Goto, SetState, SetPriority, flags, ledger, runner, api
<1>16. CASE RepaySub(t)
  BY <1>16 DEF RepaySub, Goto, SetState, SetPriority, flags, ledger, runner, api
<1>17. CASE ResumeState(t)
  BY <1>17 DEF ResumeState, Goto, SetState, SetPriority, flags, ledger, runner, api
<1>18. CASE PrioritizeAdd(t)
  BY <1>18 DEF PrioritizeAdd, Goto, SetState, SetPriority, flags, ledger, runner, api
<1>19. CASE RetrySpawn(t)
  BY <1>19 DEF RetrySpawn, Spawn, Goto, SetState, SetPriority, flags, ledger, runner, api
<1>20. CASE Enqueue(t)
  BY <1>20 DEF Enqueue, Spawn, Goto, SetState, SetPriority, flags, ledger, runner, api
<1>21. CASE Pause(t)
  BY <1>21 DEF Pause, Issue, Goto, SetState, SetPriority, flags, ledger, runner, api
<1>22. CASE Resume(t)
  BY <1>22 DEF Resume, Issue, Goto, SetState, SetPriority, flags, ledger, runner, api
<1>23. CASE Cancel(t)
  BY <1>23 DEF Cancel, Issue, Goto, SetState, SetPriority, flags, ledger, runner, api
<1>24. CASE Prioritize(t)
  BY <1>24 DEF Prioritize, Issue, Goto, SetState, SetPriority, flags, ledger, runner, api
<1>25. CASE Retry(t)
  BY <1>25 DEF Retry, Issue, Goto, SetState, SetPriority, flags, ledger, runner, api
<1>26. CASE Remove(t)
  BY <1>26 DEF Remove, Issue, Goto, SetState, SetPriority, flags, ledger, runner, api
<1>. QED
  BY <1>1, <1>2, <1>3, <1>4, <1>5, <1>6, <1>7, <1>8, <1>9, <1>10, <1>11, <1>12, <1>13,
     <1>14, <1>15, <1>16, <1>17, <1>18, <1>19, <1>20, <1>21, <1>22, <1>23, <1>24, <1>25, <1>26, ZenonT(30)
     DEF Steps, RunnerStep, TailStep, CommandStep, UserStep

-----------------------------------------------------------------------------
LEMMA QueueInit == Init => QueueInv
<1> SUFFICES ASSUME Init PROVE QueueInv
  BY Zenon
<1>1. QueueTypes
  BY DEF Init, SemInit, QueueTypes, PCs, Live
<1>2. \A t \in Clients : Life(t)
  BY Zenon DEF Init, SemInit, Life, Holding, Moving, Terminal
<1>3. LedgersBalance
  <2>1. /\ {t \in Clients : priority[t] = 1} = {} /\ {t \in Clients : priority[t] = 2} = {}
        /\ {t \in Clients : command[t] = "add1"} = {} /\ {t \in Clients : command[t] = "add2"} = {}
        /\ {t \in Clients : pc[t] = "edge_move"} = {} /\ {t \in Clients : pc[t] = "gate_move"} = {}
        /\ {t \in Clients : tail[t] = "sub1"} = {} /\ {t \in Clients : tail[t] = "sub2"} = {}
    BY DEF Init
  <2>2. Count({}) = 0
    BY FS_EmptySet, Zenon DEF Count
  <2>3. priority_waiting = 0 /\ priority_running = 0
    BY Zenon DEF Init
  <2>4. /\ Count({t \in Clients : priority[t] = 1}) = 0 /\ Count({t \in Clients : priority[t] = 2}) = 0
        /\ Count({t \in Clients : command[t] = "add1"}) = 0 /\ Count({t \in Clients : command[t] = "add2"}) = 0
        /\ Count({t \in Clients : pc[t] = "edge_move"}) = 0 /\ Count({t \in Clients : pc[t] = "gate_move"}) = 0
        /\ Count({t \in Clients : tail[t] = "sub1"}) = 0 /\ Count({t \in Clients : tail[t] = "sub2"}) = 0
    BY <2>1, <2>2, Zenon
  <2>. QED
    BY <2>3, <2>4 DEF LedgersBalance
<1>. QED
  BY <1>1, <1>2, <1>3, Zenon DEF QueueInv

LEMMA QueueNext == QueueInv /\ [Next]_vars => QueueInv'
<1> SUFFICES ASSUME QueueInv, [Next]_vars PROVE QueueInv'
  BY Zenon
<1>1. ASSUME NEW t \in Clients, Steps(t) PROVE QueueInv'
  <2>1. QueueTypes' /\ Alone(t) /\ Life(t)' /\ Paid(t)
    BY <1>1, TypesStep, AloneStep, LifeStep, PaidStep, Zenon
  <2>2. LedgersBalance'
    BY <2>1, BalanceStep, Zenon DEF QueueInv
  <2>3. ASSUME NEW u \in Clients, u # t PROVE Life(u)'
    BY <2>1, <2>3, SMTT(30) DEF QueueInv, Alone, Life
  <2>. QED
    BY <2>1, <2>2, <2>3, Zenon DEF QueueInv
<1>2. CASE UNCHANGED vars
  BY <1>2 DEF vars, flags, ledger, runner, api, QueueInv, QueueTypes, Life, LedgersBalance
<1>. QED
  BY <1>1, <1>2, Zenon DEF Next, Steps

LEMMA QueueAlways == Spec => []QueueInv
BY QueueInit, QueueNext, PTL DEF Spec

\* A permit is out just while an attempt is under way (executor.rs: run), whatever
\* pauses, cancels and retries come in between.
THEOREM QueuePermits == Spec => []PermitsOnlyInAttempts
<1>1. QueueInv => PermitsOnlyInAttempts
  BY Zenon DEF QueueInv, QueueTypes, Life, Holding, PermitsOnlyInAttempts
<1>. QED
  BY <1>1, QueueAlways, PTL

\* A transfer that moves data is in the registry and shown as Running
\* (transfer.rs: prepare, remove, clear_where, retry).
THEOREM QueueMovingIsRunning == Spec => []MovingIsRunning
<1>1. QueueInv => MovingIsRunning
  BY Zenon DEF QueueInv, Life, Moving, MovingIsRunning
<1>. QED
  BY <1>1, QueueAlways, PTL

\* Both of them: what holds a permit is an attempt, and what moves data is a transfer the
\* list shows as running.
THEOREM QueueAttempts == Spec => []AttemptsOwned
BY QueuePermits, QueueMovingIsRunning, PTL DEF AttemptsOwned

\* The two priority ledgers balance (transfer.rs: prioritize, pause_edge,
\* pre_permit_gate, repay_priority): no interleaving loses an entry or counts it
\* twice.
THEOREM QueueLedgersBalance == Spec => []LedgersBalance
<1>1. QueueInv => LedgersBalance
  BY Zenon DEF QueueInv
<1>. QED
  BY <1>1, QueueAlways, PTL

\* The rest of the types: the flags of a transfer, and the locals of its runner.
FlagTypes == pause \in [Clients -> BOOLEAN] /\ cancel \in [Clients -> BOOLEAN]
LocalTypes == /\ attempt \in [Clients -> 0..MaxRetries]
              /\ result \in [Clients -> {"ok", "interrupted", "error"}]
              /\ commands \in 0..MaxCommands

LEMMA FlagStep == ASSUME FlagTypes, NEW t \in Clients, Steps(t) PROVE FlagTypes'
<1>1. ASSUME \/ RunnerStep(t) \/ TailStep(t) \/ ResumeState(t) \/ PrioritizeAdd(t)
             \/ Enqueue(t) \/ Prioritize(t) \/ Retry(t) \/ Remove(t)
      PROVE  UNCHANGED <<pause, cancel>>
  BY <1>1, Zenon DEF RunnerStep, TailStep, Top, PauseEdge, PauseEdgeMove, Unpause, Gate, GateMove, Acquire,
              Confirm, Open, ChunkBoundary, Io, DropPermit, Classify, Backoff, Repay, RepaySub,
              ResumeState, PrioritizeAdd, Enqueue, Prioritize, Retry, Remove, flags
<1>2. CASE UNCHANGED <<pause, cancel>>
  BY <1>2, Zenon DEF FlagTypes
<1>3. CASE Pause(t)
  <2>1. pause' = [pause EXCEPT ![t] = TRUE] /\ cancel' = cancel
    BY <1>3, Zenon DEF Pause
  <2>. QED
    BY <2>1, Zenon DEF FlagTypes
<1>4. CASE Resume(t)
  <2>1. pause' = [pause EXCEPT ![t] = FALSE] /\ cancel' = cancel
    BY <1>4, Zenon DEF Resume
  <2>. QED
    BY <2>1, Zenon DEF FlagTypes
<1>5. CASE Cancel(t)
  <2>1. pause' = [pause EXCEPT ![t] = FALSE] /\ cancel' = [cancel EXCEPT ![t] = TRUE]
    BY <1>5, Zenon DEF Cancel
  <2>. QED
    BY <2>1, Zenon DEF FlagTypes
<1>6. CASE RetrySpawn(t)
  <2>1. pause' = [pause EXCEPT ![t] = FALSE] /\ cancel' = [cancel EXCEPT ![t] = FALSE]
    BY <1>6, Zenon DEF RetrySpawn
  <2>. QED
    BY <2>1, Zenon DEF FlagTypes
<1>. QED
  BY <1>1, <1>2, <1>3, <1>4, <1>5, <1>6, ZenonT(30) DEF Steps, CommandStep, UserStep

LEMMA LocalStep == ASSUME LocalTypes, NEW t \in Clients, Steps(t) PROVE LocalTypes'
<1> USE QueueConstants DEF LocalTypes
<1>1. CASE Top(t)
  BY <1>1, SMTT(30) DEF Top, Finish, api
<1>2. CASE Classify(t)
  BY <1>2 DEF Classify, Finish, api
<1>3. CASE Open(t) \/ ChunkBoundary(t) \/ Io(t)
  BY <1>3, Zenon DEF Open, ChunkBoundary, Io, Return, api
<1>4. CASE RetrySpawn(t) \/ Enqueue(t)
  BY <1>4 DEF RetrySpawn, Enqueue, Spawn, api
<1>5. CASE Pause(t) \/ Resume(t) \/ Cancel(t) \/ Prioritize(t) \/ Retry(t) \/ Remove(t)
  <2>1. Issue(t) /\ UNCHANGED <<attempt, result>>
    BY <1>5, SMTT(30) DEF Pause, Resume, Cancel, Prioritize, Retry, Remove, runner
  <2>. QED
    BY <2>1, SMTT(30) DEF Issue
<1>6. ASSUME \/ PauseEdge(t) \/ PauseEdgeMove(t) \/ Unpause(t) \/ Gate(t) \/ GateMove(t)
             \/ Acquire(t) \/ Confirm(t) \/ DropPermit(t) \/ Backoff(t)
             \/ Repay(t) \/ RepaySub(t) \/ ResumeState(t) \/ PrioritizeAdd(t)
      PROVE  UNCHANGED <<attempt, result, commands>>
  BY <1>6 DEF PauseEdge, PauseEdgeMove, Unpause, Gate, GateMove, Acquire, Confirm, DropPermit,
              Backoff, Repay, RepaySub, ResumeState, PrioritizeAdd, runner, api
<1>7. CASE UNCHANGED <<attempt, result, commands>>
  BY <1>7, Zenon
<1>. QED
  BY <1>1, <1>2, <1>3, <1>4, <1>5, <1>6, <1>7, ZenonT(30) DEF Steps, RunnerStep, TailStep, CommandStep, UserStep

\* Every variable keeps its type; in particular no runner tries more than max_retries
\* times again (executor.rs: run).
THEOREM QueueTypeCorrect == Spec => []TypeOK
<1>1. ASSUME Init PROVE FlagTypes
  <2>1. [t \in Clients |-> FALSE] \in [Clients -> BOOLEAN]
    BY Zenon
  <2>2. pause = [t \in Clients |-> FALSE] /\ cancel = [t \in Clients |-> FALSE]
    BY <1>1, Zenon DEF Init
  <2>. QED
    BY <2>1, <2>2, Zenon DEF FlagTypes
<1>2. Init => LocalTypes
  BY QueueConstants DEF Init, LocalTypes
<1>3. FlagTypes /\ LocalTypes /\ [Next]_vars => FlagTypes' /\ LocalTypes'
  <2> SUFFICES ASSUME FlagTypes, LocalTypes, [Next]_vars PROVE FlagTypes' /\ LocalTypes'
    BY Zenon
  <2>1. ASSUME NEW t \in Clients, Steps(t) PROVE FlagTypes' /\ LocalTypes'
    BY <2>1, FlagStep, LocalStep, Zenon
  <2>2. ASSUME UNCHANGED vars PROVE UNCHANGED <<pause, cancel, attempt, result, commands>>
    BY <2>2, Zenon DEF vars, flags, runner, api
  <2>3. ASSUME UNCHANGED vars PROVE FlagTypes' /\ LocalTypes'
    BY <2>2, <2>3, Zenon DEF FlagTypes, LocalTypes
  <2>. QED
    BY <2>1, <2>3, Zenon DEF Next, Steps
<1>4. ASSUME QueueInv, FlagTypes, LocalTypes PROVE TypeOK
  BY <1>4, Zenon DEF QueueInv, QueueTypes, FlagTypes, LocalTypes, TypeOK
<1>. QED
  BY <1>1, <1>2, <1>3, <1>4, QueueAlways, PTL DEF Spec

(***************************************************************************)
(* The tabs.                                                               *)
(***************************************************************************)

\* Where the opening of a tab, its supervisor and its closing are.
OpeningPcs == {"idle", "pty", "insert", "announce", "open", "failed"}
TaskPcs == {"none", "exit", "aborted", "read", "sleep", "connect", "ended", "attempt", "swap", "giveup", "last"}
ClosingPcs == {"none", "abort", "last", "done"}
\* Types.
Typed ==
  /\ opening \in [Tabs -> OpeningPcs] /\ starter \in [Tabs -> {"none", "list", "start"}]
  /\ task \in [Tabs -> TaskPcs] /\ closing \in [Tabs -> ClosingPcs]
  /\ tries \in [Tabs -> Nat] /\ limit \in [Tabs -> Nat]
  /\ shell \in [Tabs -> Nat] /\ writer \in [Tabs -> Nat]
  /\ sessions \subseteq Tabs /\ aborted \subseteq Tabs /\ early \subseteq Tabs
  /\ drops \in Nat /\ stops \in Nat
Flags == tunnel \in BOOLEAN /\ late \in BOOLEAN

\* Of one tab: its entry is there from the insert to the close, with the writer of
\* the shell whose output is shown; who has the entry is neither closed nor given
\* up; attempts stay within the limit, and there are no more shells than were lost.
TabInv(t) ==
  /\ opening[t] \in {"idle", "pty", "failed"} => task[t] = "none"
  /\ opening[t] = "insert" => task[t] \in {"read", "ended", "exit"} /\ shell[t] = 1
  /\ opening[t] \notin {"announce", "open"} => t \notin sessions
  /\ opening[t] # "open" => closing[t] = "none"
  /\ task[t] \in {"attempt", "sleep", "connect", "swap", "giveup", "last"} => opening[t] \in {"announce", "open"}
  /\ t \in sessions => closing[t] = "none" /\ writer[t] = shell[t] /\ task[t] # "last"
  /\ t \in aborted => closing[t] \in {"last", "done"}
  /\ t \in sessions \ early => task[t] \notin Terminals!Over
  /\ tries[t] <= limit[t] + 1
  /\ task[t] \in {"attempt", "sleep", "connect", "swap"} => tries[t] <= limit[t]
  /\ shell[t] <= drops + 1
  /\ task[t] \in {"none", "ended", "attempt", "sleep", "connect", "swap"} => shell[t] <= drops

\* A stop of the tunnels that is under way was ordered by a supervisor that has left
\* or by a tab that was closed,
Exited == {t \in Tabs : task[t] = "exit"}
Shut == {t \in Tabs : closing[t] = "done"}
StopsCounted == stops <= Cardinality(Exited) + Cardinality(Shut)

\* and a tunnel that runs is watched: its stop is ordered, a tab is there, or
\* someone is about to find that none is.
Leaving(t) == task[t] = "last" \/ closing[t] \in {"abort", "last"}
TunnelWatched == tunnel /\ ~late => stops > 0 \/ Terminals!Present # {} \/ \E t \in Tabs : Leaving(t)

\* The inductive invariant.
SessionsInv == Typed /\ Flags /\ (\A t \in Tabs : TabInv(t)) /\ StopsCounted /\ TunnelWatched

\* Nothing of another tab changes.
Apart(u) ==
  /\ opening'[u] = opening[u] /\ task'[u] = task[u] /\ closing'[u] = closing[u]
  /\ tries'[u] = tries[u] /\ limit'[u] = limit[u] /\ shell'[u] = shell[u] /\ writer'[u] = writer[u]
  /\ (u \in sessions' <=> u \in sessions) /\ (u \in aborted' <=> u \in aborted) /\ (u \in early' <=> u \in early)

\* What holds of a tab holds when the step is that of another.
LEMMA TabApart ==
  ASSUME Typed, NEW u \in Tabs, TabInv(u), Apart(u), drops' \in Nat, drops' >= drops
  PROVE  TabInv(u)'
  BY DEF Typed, TabInv, Apart, Terminals!Over

\* The stops stay counted while nobody comes back.
LEMMA StopsKept ==
  ASSUME SessionsConstants, Typed, StopsCounted, stops' \in Nat, stops' <= stops,
         \A u \in Tabs : task[u] = "exit" => task'[u] = "exit",
         \A u \in Tabs : closing[u] = "done" => closing'[u] = "done"
  PROVE  StopsCounted'
<1>1. IsFiniteSet(Exited) /\ IsFiniteSet(Shut) /\ IsFiniteSet(Exited') /\ IsFiniteSet(Shut')
  BY FS_Subset, Zenon DEF SessionsConstants, Exited, Shut
<1>2. Exited \subseteq Exited' /\ Shut \subseteq Shut'
  BY Zenon DEF Exited, Shut
<1>3. Cardinality(Exited) <= Cardinality(Exited') /\ Cardinality(Shut) <= Cardinality(Shut')
  BY <1>1, <1>2, FS_Subset, Zenon
<1>4. Cardinality(Exited) \in Nat /\ Cardinality(Shut) \in Nat /\ Cardinality(Exited') \in Nat /\ Cardinality(Shut') \in Nat
  BY <1>1, FS_CardinalityType, Zenon
<1> QED BY <1>3, <1>4 DEF StopsCounted, Typed

LEMMA StopsSame ==
  ASSUME SessionsConstants, SessionsInv, stops' = stops,
         \A u \in Tabs : task[u] = "exit" => task'[u] = "exit",
         \A u \in Tabs : closing[u] = "done" => closing'[u] = "done"
  PROVE  StopsCounted'
<1>1. Typed /\ StopsCounted
  BY Zenon DEF SessionsInv
<1>2. stops' \in Nat /\ stops' <= stops
  BY <1>1 DEF Typed
<1> QED BY <1>1, <1>2, StopsKept, Zenon

LEMMA TabsCount == \A S : Terminals!Cardinality(S) = Cardinality(S)
BY Zenon DEF Terminals!Cardinality, Cardinality

\* At first there are no tabs.
LEMMA InitInv == SessionsConstants /\ Terminals!Init => SessionsInv
<1> SUFFICES ASSUME SessionsConstants, Terminals!Init PROVE SessionsInv
  BY Zenon
<1>1. Typed /\ Flags
  BY Zenon DEF Terminals!Init, Typed, Flags, OpeningPcs, TaskPcs, ClosingPcs
<1>2. \A t \in Tabs : TabInv(t)
  BY DEF Terminals!Init, TabInv, Terminals!Over
<1>3. Exited = {} /\ Shut = {}
  BY Zenon DEF Terminals!Init, Exited, Shut
<1>4. StopsCounted
  BY <1>3, FS_EmptySet DEF StopsCounted, Terminals!Init
<1>5. TunnelWatched
  BY Zenon DEF Terminals!Init, TunnelWatched
<1> QED BY <1>1, <1>2, <1>4, <1>5, Zenon DEF SessionsInv

\* A tab is opened.
LEMMA OpeningInv ==
  ASSUME SessionsConstants, SessionsInv, NEW t \in Tabs, Terminals!Opening(t)
  PROVE  SessionsInv'
<1> USE DEF Terminals!open, Terminals!table, Terminals!super, Terminals!close, Terminals!tunnels
<1>1. Typed /\ TabInv(t)
  BY Zenon DEF SessionsInv
<1>2. Typed'
  BY <1>1 DEF Typed, OpeningPcs, TaskPcs, Terminals!Opening, Terminals!OpenConnect, Terminals!OpenPty, Terminals!OpenLocal, Terminals!OpenInsert, Terminals!OpenAnnounce
<1>3. TabInv(t)'
  <2>1. CASE Terminals!OpenConnect(t) BY <1>1, <2>1, Zenon DEF Typed, TabInv, Terminals!OpenConnect, Terminals!Over
  <2>2. CASE Terminals!OpenPty(t) BY <1>1, <2>2 DEF Typed, TabInv, Terminals!OpenPty, Terminals!Over
  <2>3. CASE Terminals!OpenLocal(t) BY <1>1, <2>3 DEF Typed, TabInv, Terminals!OpenLocal, Terminals!Over
  <2>4. CASE Terminals!OpenInsert(t) BY <1>1, <2>4, Zenon DEF Typed, TabInv, Terminals!OpenInsert, Terminals!Over
  <2>5. CASE Terminals!OpenAnnounce(t) BY <1>1, <2>5, Zenon DEF Typed, TabInv, Terminals!OpenAnnounce, Terminals!Over
  <2> QED BY <2>1, <2>2, <2>3, <2>4, <2>5, Zenon DEF Terminals!Opening
<1>4. ASSUME NEW u \in Tabs \ {t} PROVE TabInv(u)'
  <2>1. Apart(u) /\ drops' = drops
    BY <1>1, SMTT(30) DEF Typed, Apart, Terminals!Opening, Terminals!OpenConnect, Terminals!OpenPty, Terminals!OpenLocal, Terminals!OpenInsert, Terminals!OpenAnnounce
  <2> QED BY <1>1, <2>1, TabApart, SMTT(30) DEF SessionsInv, Typed
<1>5. StopsCounted'
  <2>1. \A u \in Tabs : task[u] = "exit" => task'[u] = "exit"
    BY <1>1, Zenon DEF Typed, TabInv, Terminals!Opening, Terminals!OpenConnect, Terminals!OpenPty, Terminals!OpenLocal, Terminals!OpenInsert, Terminals!OpenAnnounce
  <2>2. UNCHANGED <<stops, closing>>
    BY Zenon DEF Terminals!Opening, Terminals!OpenConnect, Terminals!OpenPty, Terminals!OpenLocal, Terminals!OpenInsert, Terminals!OpenAnnounce
  <2> QED BY <2>1, <2>2, StopsSame, Zenon
<1>6. TunnelWatched' /\ Flags'
  <2>1. CASE Terminals!OpenPty(t) /\ opening' = [opening EXCEPT ![t] = "failed"] /\ late' = TRUE /\ UNCHANGED tunnel
    BY <2>1, Zenon DEF TunnelWatched, SessionsInv, Flags
  <2>2. CASE UNCHANGED <<tunnel, late, stops, closing>>
             /\ (\A u \in Tabs : task[u] = "last" => task'[u] = "last")
             /\ (Terminals!Present # {} => Terminals!Present' # {})
    BY <2>2, Zenon DEF TunnelWatched, SessionsInv, Leaving, Flags
  <2>3. ASSUME Terminals!OpenConnect(t) \/ Terminals!OpenLocal(t) \/ Terminals!OpenAnnounce(t) \/ Terminals!OpenInsert(t)
                \/ (Terminals!OpenPty(t) /\ opening' = [opening EXCEPT ![t] = "insert"]) 
        PROVE  Terminals!Present \subseteq Terminals!Present'
    BY <1>1, <2>3, SMTT(30) DEF Terminals!Present, Typed, Terminals!OpenConnect, Terminals!OpenPty, Terminals!OpenLocal, Terminals!OpenInsert, Terminals!OpenAnnounce
  <2>4. \A u \in Tabs : task[u] = "last" => task'[u] = "last"
    BY <1>1 DEF Typed, TabInv, Terminals!Opening, Terminals!OpenConnect, Terminals!OpenPty, Terminals!OpenLocal, Terminals!OpenInsert, Terminals!OpenAnnounce
  <2> QED BY <2>1, <2>2, <2>3, <2>4, ZenonT(30) DEF Terminals!Opening, Terminals!OpenConnect, Terminals!OpenPty, Terminals!OpenLocal, Terminals!OpenInsert, Terminals!OpenAnnounce
<1> QED BY <1>2, <1>3, <1>4, <1>5, <1>6, Zenon DEF SessionsInv

\* A supervisor goes on, unless it was aborted.
LEMMA AtPc ==
  ASSUME Typed, NEW t \in Tabs, NEW step \in TaskPcs, task' = Terminals!At(t, step)
  PROVE  /\ task' \in [Tabs -> TaskPcs]
         /\ task'[t] = step \/ (task'[t] = "aborted" /\ t \in aborted)
         /\ \A u \in Tabs \ {t} : task'[u] = task[u]
  BY Zenon DEF Typed, Terminals!At, TaskPcs

\* The steps of a supervisor: of its own tab,
LEMMA SuperviseTab ==
  ASSUME SessionsConstants, Typed, NEW t \in Tabs, TabInv(t), Terminals!Supervise(t)
  PROVE  /\ Typed' /\ TabInv(t)'
         /\ \A u \in Tabs \ {t} : Apart(u)
<1> USE DEF Terminals!open, Terminals!table, Terminals!super, Terminals!close, Terminals!tunnels
<1>1. CASE Terminals!AfterReadLoop(t)
  <2>1. Typed'
    BY <1>1, SMTT(30) DEF Terminals!AfterReadLoop, Typed, TaskPcs, SessionsConstants
  <2>2. TabInv(t)'
    BY <1>1, <2>1 DEF Terminals!AfterReadLoop, Typed, TabInv, Terminals!Over
  <2>3. \A u \in Tabs \ {t} : Apart(u)
    BY <1>1 DEF Terminals!AfterReadLoop, Typed, Apart
  <2> QED BY <2>1, <2>2, <2>3, Zenon
<1>2. CASE Terminals!Attempt(t)
  <2>1. PICK step \in {"giveup", "sleep"} : task' = Terminals!At(t, step) /\ (step = "sleep" => tries'[t] <= limit[t])
    BY <1>2, Zenon DEF Terminals!Attempt
  <2>2. step \in TaskPcs
    BY Zenon DEF TaskPcs
  <2>3. tries' = [tries EXCEPT ![t] = @ + 1] /\ task[t] = "attempt"
        /\ UNCHANGED <<Terminals!open, Terminals!table, shell, limit, Terminals!close, Terminals!tunnels, drops, early>>
    BY <1>2, Zenon DEF Terminals!Attempt
  <2>4. Typed'
    BY <2>1, <2>2, <2>3, AtPc, SMTT(30) DEF Typed
  <2>5. TabInv(t)'
    BY <2>1, <2>2, <2>3, <2>4, AtPc DEF Typed, TabInv, Terminals!Over
  <2>6. \A u \in Tabs \ {t} : Apart(u)
    BY <2>1, <2>2, <2>3, AtPc DEF Typed, Apart
  <2> QED BY <2>4, <2>5, <2>6
<1>3. CASE Terminals!Wake(t) \/ Terminals!Connect(t)
  <2>1. PICK step \in {"giveup", "connect", "attempt", "swap"} : task' = Terminals!At(t, step)
    BY <1>3, Zenon DEF Terminals!Wake, Terminals!Connect
  <2>2. step \in TaskPcs
    BY Zenon DEF TaskPcs
  <2>3. task[t] \in {"sleep", "connect"}
        /\ UNCHANGED <<Terminals!open, Terminals!table, shell, tries, limit, Terminals!close, Terminals!tunnels, drops, early>>
    BY <1>3, Zenon DEF Terminals!Wake, Terminals!Connect
  <2>4. Typed'
    BY <2>1, <2>2, <2>3, AtPc, Zenon DEF Typed
  <2>5. TabInv(t)'
    BY <2>1, <2>2, <2>3, <2>4, AtPc, Zenon DEF Typed, TabInv, Terminals!Over
  <2>6. \A u \in Tabs \ {t} : Apart(u)
    BY <2>1, <2>2, <2>3, AtPc DEF Typed, Apart
  <2> QED BY <2>4, <2>5, <2>6, Zenon
<1>4. CASE Terminals!Swap(t) /\ t \in sessions
  <2>1. task' = Terminals!At(t, "read") /\ "read" \in TaskPcs
    BY <1>4, Zenon DEF Terminals!Swap, TaskPcs
  <2>2. /\ writer' = [writer EXCEPT ![t] = shell[t] + 1] /\ shell' = [shell EXCEPT ![t] = @ + 1]
        /\ task[t] = "swap" /\ UNCHANGED <<Terminals!open, sessions, tries, limit, Terminals!close, Terminals!tunnels, drops, early>>
    BY <1>4, Zenon DEF Terminals!Swap
  <2>3. Typed'
    BY <2>1, <2>2, AtPc, SMTT(30) DEF Typed
  <2>4. TabInv(t)'
    BY <2>1, <2>2, <2>3, AtPc DEF Typed, TabInv, Terminals!Over
  <2>5. \A u \in Tabs \ {t} : Apart(u)
    BY <2>1, <2>2, AtPc DEF Typed, Apart
  <2> QED BY <2>3, <2>4, <2>5, Zenon
<1>5. CASE Terminals!Swap(t) /\ t \notin sessions
  BY <1>5, Zenon DEF Terminals!Swap, Typed, TabInv, Terminals!Over, Apart, TaskPcs
<1>6. CASE Terminals!GiveUp(t)
  BY <1>6, Zenon DEF Terminals!GiveUp, Typed, TabInv, Terminals!Over, Apart, TaskPcs
<1>7. CASE Terminals!StopTunnelsIfLast(t)
  BY <1>7 DEF Terminals!StopTunnelsIfLast, Terminals!StopIfLast, Typed, TabInv, Terminals!Over, Apart, TaskPcs
<1> QED BY <1>1, <1>2, <1>3, <1>4, <1>5, <1>6, <1>7 DEF Terminals!Supervise

\* and of the tunnels it may leave behind.
LEMMA SuperviseInv ==
  ASSUME SessionsConstants, SessionsInv, NEW t \in Tabs, Terminals!Supervise(t)
  PROVE  SessionsInv'
<1> USE DEF Terminals!open, Terminals!table, Terminals!super, Terminals!close, Terminals!tunnels
<1>1. Typed /\ TabInv(t) /\ Flags
  BY Zenon DEF SessionsInv
<1>2. Typed' /\ TabInv(t)' /\ \A u \in Tabs \ {t} : Apart(u)
  BY <1>1, SuperviseTab, Zenon
<1>3. UNCHANGED <<drops, closing, opening, tunnel, late>>
  BY Zenon DEF Terminals!Supervise, Terminals!AfterReadLoop, Terminals!Attempt, Terminals!Wake, Terminals!Connect, Terminals!Swap, Terminals!GiveUp, Terminals!StopTunnelsIfLast
<1>4. ASSUME NEW u \in Tabs \ {t} PROVE TabInv(u)'
  BY <1>1, <1>2, <1>3, TabApart DEF SessionsInv, Typed
<1>5. task[t] \notin {"exit", "none"}
  BY Zenon DEF Terminals!Supervise, Terminals!AfterReadLoop, Terminals!Attempt, Terminals!Wake, Terminals!Connect, Terminals!Swap, Terminals!GiveUp, Terminals!StopTunnelsIfLast
<1>6. \A u \in Tabs : task[u] = "exit" => task'[u] = "exit"
  BY <1>2, <1>5, Zenon DEF Apart
<1>7. CASE Terminals!StopTunnelsIfLast(t) /\ sessions = {}
  <2>1. stops' = stops + 1 /\ task' = [task EXCEPT ![t] = "exit"] /\ task[t] = "last"
    BY <1>7, Zenon DEF Terminals!StopTunnelsIfLast, Terminals!StopIfLast
  <2>2. Exited' = Exited \cup {t} /\ t \notin Exited /\ Shut' = Shut
    BY <1>1, <1>3, <2>1, Zenon DEF Exited, Shut, Typed
  <2>3. IsFiniteSet(Exited) /\ IsFiniteSet(Shut)
    BY FS_Subset, Zenon DEF SessionsConstants, Exited, Shut
  <2>4. Cardinality(Exited') = Cardinality(Exited) + 1 /\ Cardinality(Exited) \in Nat /\ Cardinality(Shut) \in Nat
    BY <2>2, <2>3, FS_AddElement, FS_CardinalityType
  <2>5. StopsCounted'
    BY <1>1, <2>1, <2>2, <2>4 DEF StopsCounted, SessionsInv, Typed
  <2>6. TunnelWatched'
    BY <1>1, <2>1 DEF TunnelWatched, Typed
  <2> QED BY <1>1, <1>2, <1>3, <1>4, <2>5, <2>6, Zenon DEF SessionsInv, Flags
<1>8. CASE ~(Terminals!StopTunnelsIfLast(t) /\ sessions = {})
  <2>1. stops' = stops
    BY <1>8, Zenon DEF Terminals!Supervise, Terminals!AfterReadLoop, Terminals!Attempt, Terminals!Wake, Terminals!Connect, Terminals!Swap, Terminals!GiveUp, Terminals!StopTunnelsIfLast, Terminals!StopIfLast
  <2>2. StopsCounted'
    BY <1>1, <1>3, <1>6, <2>1, StopsSame, Zenon
  <2>3. Terminals!Present # {} \/ (\E u \in Tabs : Leaving(u)) => Terminals!Present' # {} \/ \E u \in Tabs : Leaving(u)'
    <3>1. CASE Terminals!GiveUp(t)
      <4>1. task'[t] = "last"
        BY <1>1, <3>1, Zenon DEF Terminals!GiveUp, Typed
      <4> QED BY <4>1, Zenon DEF Leaving
    <3>2. CASE Terminals!StopTunnelsIfLast(t)
      <4>1. sessions # {} /\ sessions' = sessions
        BY <1>8, <3>2, Zenon DEF Terminals!StopTunnelsIfLast
      <4> QED BY <4>1, Zenon DEF Terminals!Present
    <3>3. CASE ~Terminals!GiveUp(t) /\ ~Terminals!StopTunnelsIfLast(t)
      <4>1. sessions' = sessions /\ task[t] # "last"
        BY <3>3, Zenon DEF Terminals!Supervise, Terminals!AfterReadLoop, Terminals!Attempt, Terminals!Wake, Terminals!Connect, Terminals!Swap
      <4>2. \A u \in Tabs : Leaving(u) => Leaving(u)'
        BY <1>2, <1>3, <4>1, Zenon DEF Leaving, Apart
      <4>3. Terminals!Present' = Terminals!Present
        BY <1>3, <4>1, Zenon DEF Terminals!Present
      <4> QED BY <4>2, <4>3, Zenon
    <3> QED BY <3>1, <3>2, <3>3, Zenon
  <2>4. TunnelWatched'
    BY <1>3, <2>1, <2>3, Zenon DEF TunnelWatched, SessionsInv
  <2> QED BY <1>1, <1>2, <1>3, <1>4, <2>2, <2>4, Zenon DEF SessionsInv, Flags
<1> QED BY <1>7, <1>8, Zenon

\* A tab is closed.
LEMMA ClosingInv ==
  ASSUME SessionsConstants, SessionsInv, NEW t \in Tabs, Terminals!CloseRemove(t) \/ Terminals!Closing(t)
  PROVE  SessionsInv'
<1> USE DEF Terminals!open, Terminals!table, Terminals!super, Terminals!close, Terminals!tunnels
<1>1. Typed /\ TabInv(t) /\ Flags
  BY Zenon DEF SessionsInv
<1>2. Typed'
  BY <1>1 DEF Typed, TaskPcs, ClosingPcs, Terminals!Closing, Terminals!CloseRemove, Terminals!CloseAbort, Terminals!CloseLast, Terminals!StopIfLast
<1>3. TabInv(t)'
  <2>1. CASE Terminals!CloseRemove(t) BY <1>1, <2>1, Zenon DEF Typed, TabInv, Terminals!CloseRemove, Terminals!Over
  <2>2. CASE Terminals!CloseAbort(t) BY <1>1, <2>2, Zenon DEF Typed, TabInv, Terminals!CloseAbort, Terminals!Over, Terminals!Awaits
  <2>3. CASE Terminals!CloseLast(t) BY <1>1, <2>3, Zenon DEF Typed, TabInv, Terminals!CloseLast, Terminals!Over
  <2> QED BY <2>1, <2>2, <2>3, Zenon DEF Terminals!Closing
<1>4. UNCHANGED <<drops, opening, tunnel, late>>
  BY Zenon DEF Terminals!Closing, Terminals!CloseRemove, Terminals!CloseAbort, Terminals!CloseLast
<1>5. \A u \in Tabs \ {t} : Apart(u)
  BY <1>1, Zenon DEF Typed, Apart, Terminals!Closing, Terminals!CloseRemove, Terminals!CloseAbort, Terminals!CloseLast
<1>6. ASSUME NEW u \in Tabs \ {t} PROVE TabInv(u)'
  BY <1>1, <1>4, <1>5, TabApart DEF SessionsInv, Typed
<1>7. task[t] = "exit" => task'[t] = "exit"
  BY <1>1, Zenon DEF Typed, Terminals!Closing, Terminals!CloseRemove, Terminals!CloseAbort, Terminals!CloseLast, Terminals!Awaits
<1>8. CASE Terminals!CloseLast(t) /\ sessions = {}
  <2>1. stops' = stops + 1 /\ closing' = [closing EXCEPT ![t] = "done"] /\ closing[t] = "last" /\ task' = task
    BY <1>8, Zenon DEF Terminals!CloseLast, Terminals!StopIfLast
  <2>2. Shut' = Shut \cup {t} /\ t \notin Shut /\ Exited' = Exited
    BY <1>1, <2>1, Zenon DEF Exited, Shut, Typed
  <2>3. IsFiniteSet(Exited) /\ IsFiniteSet(Shut)
    BY FS_Subset, Zenon DEF SessionsConstants, Exited, Shut
  <2>4. Cardinality(Shut') = Cardinality(Shut) + 1 /\ Cardinality(Exited) \in Nat /\ Cardinality(Shut) \in Nat
    BY <2>2, <2>3, FS_AddElement, FS_CardinalityType, Zenon
  <2>5. StopsCounted'
    BY <1>1, <2>1, <2>2, <2>4 DEF StopsCounted, SessionsInv, Typed
  <2>6. TunnelWatched'
    BY <1>1, <2>1, SMTT(30) DEF TunnelWatched, Typed
  <2> QED BY <1>1, <1>2, <1>3, <1>4, <1>6, <2>5, <2>6, Zenon DEF SessionsInv, Flags
<1>9. CASE ~(Terminals!CloseLast(t) /\ sessions = {})
  <2>1. stops' = stops /\ closing[t] # "done"
    BY <1>9, Zenon DEF Terminals!Closing, Terminals!CloseRemove, Terminals!CloseAbort, Terminals!CloseLast, Terminals!StopIfLast
  <2>2. \A u \in Tabs : /\ task[u] = "exit" => task'[u] = "exit"
                        /\ closing[u] = "done" => closing'[u] = "done"
    BY <1>5, <1>7, <2>1, Zenon DEF Apart
  <2>3. StopsCounted'
    BY <2>1, <2>2, StopsSame, Zenon
  <2>4. Terminals!Present' # {} \/ \E u \in Tabs : Leaving(u)'
    <3>1. CASE Terminals!CloseRemove(t) \/ Terminals!CloseAbort(t)
      <4>1. closing'[t] \in {"abort", "last"}
        BY <1>1, <3>1, Zenon DEF Terminals!CloseRemove, Terminals!CloseAbort, Typed
      <4> QED BY <4>1, Zenon DEF Leaving
    <3>2. CASE Terminals!CloseLast(t)
      <4>1. sessions # {} /\ sessions' = sessions
        BY <1>9, <3>2, Zenon DEF Terminals!CloseLast
      <4> QED BY <4>1, Zenon DEF Terminals!Present
    <3> QED BY <3>1, <3>2, Zenon DEF Terminals!Closing
  <2>5. TunnelWatched'
    BY <2>4, Zenon DEF TunnelWatched
  <2> QED BY <1>1, <1>2, <1>3, <1>4, <1>6, <2>3, <2>5, Zenon DEF SessionsInv, Flags
<1> QED BY <1>8, <1>9, Zenon

\* A shell is lost.
LEMMA ReadEndsInv ==
  ASSUME SessionsConstants, SessionsInv, NEW t \in Tabs, Terminals!ReadLoopEnds(t)
  PROVE  SessionsInv'
<1> USE DEF Terminals!open, Terminals!table, Terminals!super, Terminals!close, Terminals!tunnels
<1>1. Typed /\ TabInv(t) /\ Flags
  BY Zenon DEF SessionsInv
<1>2. Typed' /\ drops' = drops + 1
  BY <1>1, SMTT(30) DEF Typed, TaskPcs, Terminals!ReadLoopEnds
<1>3. TabInv(t)'
  BY <1>1 DEF Typed, TabInv, Terminals!ReadLoopEnds, Terminals!Over
<1>4. ASSUME NEW u \in Tabs \ {t} PROVE TabInv(u)'
  <2>1. Apart(u)
    BY <1>1, Zenon DEF Typed, Apart, Terminals!ReadLoopEnds
  <2> QED BY <1>1, <1>2, <2>1, TabApart DEF SessionsInv, Typed
<1>5. StopsCounted'
  <2>1. \A u \in Tabs : task[u] = "exit" => task'[u] = "exit"
    BY <1>1, Zenon DEF Typed, Terminals!ReadLoopEnds
  <2>2. UNCHANGED <<stops, closing>>
    BY Zenon DEF Terminals!ReadLoopEnds
  <2> QED BY <2>1, <2>2, StopsSame, Zenon
<1>6. TunnelWatched'
  <2>1. UNCHANGED <<tunnel, late, stops, closing, sessions, opening>> /\ \A u \in Tabs : task[u] = "last" => task'[u] = "last"
    BY <1>1, Zenon DEF Typed, Terminals!ReadLoopEnds
  <2>2. Terminals!Present' = Terminals!Present /\ \A u \in Tabs : Leaving(u) => Leaving(u)'
    BY <2>1, Zenon DEF Terminals!Present, Leaving
  <2> QED BY <2>1, <2>2, Zenon DEF TunnelWatched, SessionsInv
<1>7. Flags'
  BY <1>1, Zenon DEF Flags, Terminals!ReadLoopEnds
<1> QED BY <1>2, <1>3, <1>4, <1>5, <1>6, <1>7, Zenon DEF SessionsInv

\* The tunnels start and stop.
LEMMA TunnelTasksInv ==
  ASSUME SessionsConstants, SessionsInv, (\E t \in Tabs : Terminals!Starting(t)) \/ Terminals!StopTunnel \/ UNCHANGED Terminals!vars
  PROVE  SessionsInv'
<1> USE DEF Terminals!open, Terminals!table, Terminals!super, Terminals!close, Terminals!tunnels
<1>1. Typed /\ Flags
  BY Zenon DEF SessionsInv
<1>2. Typed'
  BY <1>1 DEF Typed, Terminals!Starting, Terminals!StartCheck, Terminals!StartTunnel, Terminals!StopTunnel, Terminals!vars
<1>3. UNCHANGED <<opening, task, closing, tries, limit, shell, writer, sessions, aborted, early, drops>>
  BY Zenon DEF Terminals!Starting, Terminals!StartCheck, Terminals!StartTunnel, Terminals!StopTunnel, Terminals!vars
<1>4. ASSUME NEW u \in Tabs PROVE TabInv(u)'
  <2>1. Apart(u)
    BY <1>3, Zenon DEF Apart
  <2> QED BY <1>1, <1>3, <2>1, TabApart DEF SessionsInv, Typed
<1>5. StopsCounted'
  <2>1. stops' <= stops
    BY <1>1, <1>2 DEF Terminals!Starting, Terminals!StartCheck, Terminals!StartTunnel, Terminals!StopTunnel, Terminals!vars, Typed
  <2>2. Typed /\ StopsCounted /\ stops' \in Nat
    BY <1>1, <1>2, Zenon DEF SessionsInv, Typed
  <2> QED BY <1>3, <2>1, <2>2, StopsKept, Zenon
<1>6. Terminals!Present' = Terminals!Present /\ \A u \in Tabs : Leaving(u)' = Leaving(u)
  BY <1>3, Zenon DEF Terminals!Present, Leaving
<1>7. Flags' /\ TunnelWatched'
  <2>1. CASE UNCHANGED <<tunnel, late, stops>>
    BY <1>1, <1>6, <2>1, Zenon DEF TunnelWatched, SessionsInv, Flags
  <2>2. CASE tunnel' = TRUE /\ late' = (late \/ Terminals!Present = {})
    BY <1>1, <1>6, <2>2, Zenon DEF TunnelWatched, Flags
  <2>3. CASE Terminals!StopTunnel
    BY <1>1, <2>3, Zenon DEF TunnelWatched, Flags, Terminals!StopTunnel
  <2>4. CASE \E t \in Tabs : Terminals!StartCheck(t)
    <3>1. UNCHANGED <<tunnel, late, stops>>
      BY <2>4, Zenon DEF Terminals!StartCheck
    <3> QED BY <2>1, <3>1, Zenon
  <2>5. CASE \E t \in Tabs : Terminals!StartTunnel(t)
    <3>1. (tunnel' = TRUE /\ late' = (late \/ Terminals!Present = {})) \/ UNCHANGED <<tunnel, late, stops>>
      BY <2>5, Zenon DEF Terminals!StartTunnel
    <3> QED BY <2>1, <2>2, <3>1, Zenon
  <2>6. CASE UNCHANGED Terminals!vars
    <3>1. UNCHANGED <<tunnel, late, stops>>
      BY <2>6, Zenon DEF Terminals!vars
    <3> QED BY <2>1, <3>1, Zenon
  <2> QED BY <2>3, <2>4, <2>5, <2>6, Zenon DEF Terminals!Starting
<1> QED BY <1>2, <1>4, <1>5, <1>7, Zenon DEF SessionsInv

\* What the invariant says of the tabs.
LEMMA SessionsInvConsistent == ASSUME SessionsConstants, SessionsInv PROVE TabsConsistent
<1>1. Terminals!SessionsTypeOK
  <2>1. IsFiniteSet(Exited) /\ IsFiniteSet(Shut) /\ Exited \subseteq Tabs /\ Shut \subseteq Tabs
    BY FS_Subset, Zenon DEF SessionsConstants, Exited, Shut
  <2>2. Cardinality(Exited) <= Cardinality(Tabs) /\ Cardinality(Shut) <= Cardinality(Tabs)
    BY <2>1, FS_Subset, Zenon DEF SessionsConstants
  <2>3. Cardinality(Exited) \in Nat /\ Cardinality(Shut) \in Nat /\ Cardinality(Tabs) \in Nat
    BY <2>1, FS_CardinalityType, Zenon DEF SessionsConstants
  <2>4. stops \in 0..2 * Cardinality(Tabs)
    BY <2>2, <2>3 DEF SessionsInv, StopsCounted, Typed
  <2>5. \A t \in Tabs : tries[t] <= limit[t] + 1 /\ shell[t] <= 1 + drops
    BY DEF SessionsInv, TabInv, Typed
  <2>6. Typed /\ Flags
    BY Zenon DEF SessionsInv
  <2>7. \A t \in Tabs : task[t] \in Terminals!Over \cup Terminals!Awaits \cup {"ended", "attempt", "swap", "giveup", "last"}
    BY <2>6, Zenon DEF Typed, TaskPcs, Terminals!Over, Terminals!Awaits
  <2>8. \A t \in Tabs : /\ opening[t] \in {"idle", "pty", "insert", "announce", "open", "failed"}
                        /\ starter[t] \in {"none", "list", "start"}
                        /\ closing[t] \in {"none", "abort", "last", "done"}
    BY <2>6, Zenon DEF Typed, OpeningPcs, ClosingPcs
  <2> QED BY <2>4, <2>5, <2>6, <2>7, <2>8, TabsCount, Zenon DEF Terminals!SessionsTypeOK, Typed, Flags
<1>2. Terminals!InputFollowsOutput /\ Terminals!EntryHasSupervisor
  BY Zenon DEF Terminals!InputFollowsOutput, Terminals!EntryHasSupervisor, SessionsInv, TabInv, Typed
<1>3. Terminals!TunnelLeftOnlyByLateStart
  <2>1. ASSUME Terminals!Quiet, sessions = {} PROVE ~(stops > 0) /\ Terminals!Present = {} /\ \A t \in Tabs : ~Leaving(t)
    BY <2>1 DEF Terminals!Quiet, Terminals!Present, Leaving, Terminals!Over
  <2> QED BY <2>1, Zenon DEF Terminals!TunnelLeftOnlyByLateStart, SessionsInv, TunnelWatched
<1> QED BY <1>1, <1>2, <1>3, Zenon DEF TabsConsistent

\* For any number of tabs, every limit on attempts and however often shells are
\* lost: input goes to the shell whose output is shown, every entry of the table has
\* a supervisor, and a tunnel is left behind by the last tab only when its start was
\* late (terminal sessions: open, the supervisor, close).
THEOREM TabsStayConsistent == ASSUME SessionsConstants PROVE Terminals!Spec => []TabsConsistent
<1>1. Terminals!Init => SessionsInv
  BY InitInv, Zenon
<1>2. SessionsInv /\ [Terminals!Next]_(Terminals!vars) => SessionsInv'
  BY OpeningInv, SuperviseInv, ClosingInv, ReadEndsInv, TunnelTasksInv, Zenon DEF Terminals!Next
<1>3. SessionsInv => TabsConsistent
  BY SessionsInvConsistent, Zenon
<1> QED
  BY <1>1, <1>2, <1>3, PTL DEF Terminals!Spec
=============================================================================
