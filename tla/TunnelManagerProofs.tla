------------------------ MODULE TunnelManagerProofs ------------------------
(***************************************************************************)
(* Groups and their leases, for any number of tunnels, starts and stops: a *)
(* group is in the registry just while tasks lease it, and its supervisor  *)
(* outlives them.                                                          *)
(***************************************************************************)
EXTENDS TunnelManager, FiniteSetTheorems, TLAPS

Leasing == {"begin", "loop", "drain", "joined", "signalled"}
RunSteps == {"none", "checked", "released"} \cup Leasing
SupSteps == {"none", "head", "connecting", "live", "backoff", "exit"}

GroupTypes ==
  /\ registered \in 0..MaxRuns
  /\ leases \in [Groups -> Nat]
  /\ groupStatus \in [Groups -> Statuses]
  /\ sup \in [Groups -> SupSteps]
  /\ runPc \in [Runs -> RunSteps]
  /\ groupOf \in [Runs -> 0..MaxRuns]
ShutdownType == groupShutdown \in [Groups -> BOOLEAN]

\* A run has its group from the moment it leases it, and a group its supervisor.
RunsHaveGroups ==
  \A k \in Runs : /\ runPc[k] \in Leasing => groupOf[k] # 0
                  /\ runPc[k] \in {"none", "checked"} => groupOf[k] = 0
                  /\ groupOf[k] # 0 => sup[groupOf[k]] # "none"

\* A supervisor ends because it was told to, or for good.
ExitIsTold ==
  \A g \in Groups : /\ sup[g] = "none" => ~groupShutdown[g]
                    /\ sup[g] = "exit" => groupShutdown[g] \/ groupStatus[g] = "Failed"

\* The inductive invariant.
GroupInv == GroupTypes /\ ShutdownType /\ RunsHaveGroups /\ ExitIsTold /\ LeasesAreTasks

-----------------------------------------------------------------------------
LEMMA LesseesFinite == \A g : IsFiniteSet(Lessees(g)) /\ Cardinality(Lessees(g)) \in Nat
<1> TAKE g
<1>1. Lessees(g) \in SUBSET Runs
  BY Zenon DEF Lessees
<1>2. IsFiniteSet(Runs)
  BY ManagerConstants, FS_Interval DEF Runs
<1>. QED
  BY <1>1, <1>2, FS_Subset, FS_CardinalityType, Zenon

LEMMA GroupInit == Init => GroupInv
<1> SUFFICES ASSUME Init PROVE GroupInv
  BY Zenon
<1> USE ManagerConstants
<1>1. GroupTypes
  BY DEF Init, GroupTypes, Statuses, SupSteps, RunSteps
<1>2. ShutdownType
  BY Zenon DEF Init, ShutdownType
<1>3. RunsHaveGroups /\ ExitIsTold
  BY Zenon DEF Init, RunsHaveGroups, ExitIsTold, Leasing
<1>4. LeasesAreTasks
  <2> SUFFICES ASSUME NEW g \in Groups
               PROVE  /\ leases[g] = Cardinality(Lessees(g))
                      /\ leases[g] > 0 <=> registered = g
                      /\ sup[g] # "none" => (groupShutdown[g] <=> leases[g] = 0)
    BY Zenon DEF LeasesAreTasks
  <2>1. Lessees(g) = {}
    BY Zenon DEF Init, Lessees
  <2>2. Cardinality(Lessees(g)) = 0
    BY <2>1, FS_EmptySet, Zenon
  <2>3. leases[g] = 0 /\ registered = 0 /\ g # 0 /\ sup[g] = "none"
    BY DEF Init, Groups
  <2>. QED
    BY <2>2, <2>3
<1>. QED
  BY <1>1, <1>2, <1>3, <1>4, Zenon DEF GroupInv

\* A step that neither takes nor gives back a lease: runs go on between the two,
\* supervisors on their way.
LEMMA OtherStep ==
  ASSUME GroupInv, GroupTypes', UNCHANGED <<registered, leases, groupShutdown, groupOf>>,
         \A k \in Runs : /\ runPc'[k] \in Leasing <=> runPc[k] \in Leasing
                         /\ runPc'[k] \in {"none", "checked"} => runPc[k] \in {"none", "checked"},
         \A g \in Groups : /\ sup'[g] = "none" <=> sup[g] = "none"
                           /\ sup'[g] = "exit" => \/ sup[g] = "exit" /\ groupStatus'[g] = groupStatus[g]
                                                  \/ groupShutdown[g] \/ groupStatus'[g] = "Failed"
  PROVE  GroupInv'
<1>1. ShutdownType'
  BY Zenon DEF GroupInv, ShutdownType
<1>2. RunsHaveGroups'
  BY DEF GroupInv, GroupTypes, RunsHaveGroups, Groups
<1>3. ExitIsTold'
  BY Zenon DEF GroupInv, ExitIsTold
<1>4. \A g : Lessees(g)' = Lessees(g)
  BY Zenon DEF Lessees, Leasing
<1>5. LeasesAreTasks'
  BY <1>4, Zenon DEF GroupInv, LeasesAreTasks
<1>. QED
  BY <1>1, <1>2, <1>3, <1>5, Zenon DEF GroupInv

\* Only one group is leased: the one in the registry.
LEMMA LeasedIsRegistered ==
  ASSUME GroupInv, NEW k \in Runs, runPc[k] \in Leasing
  PROVE  groupOf[k] \in Groups /\ groupOf[k] = registered /\ leases[registered] > 0
<1>1. groupOf[k] \in Groups
  BY ManagerConstants DEF GroupInv, GroupTypes, RunsHaveGroups, Groups
<1>2. k \in Lessees(groupOf[k])
  BY Zenon DEF Lessees, Leasing
<1>3. Cardinality(Lessees(groupOf[k])) > 0
  <2>1. Lessees(groupOf[k]) # {}
    BY <1>2, Zenon
  <2>. QED
    BY <2>1, LesseesFinite, FS_EmptySet
<1>. QED
  BY <1>1, <1>3, Zenon DEF GroupInv, LeasesAreTasks

\* A start leases the group that is there.
LEMMA JoinStep ==
  ASSUME GroupInv, NEW k \in Runs, StartSpawn(k), registered # 0
  PROVE  GroupInv'
<1> USE ManagerConstants
<1> DEFINE g == registered
<1>0. g \in Groups /\ leases[g] \in Nat /\ leases[g] > 0 /\ sup[g] # "none" /\ ~groupShutdown[g]
  <2>1. g \in Groups
    BY DEF GroupInv, GroupTypes, Groups
  <2>2. leases[g] \in Nat /\ leases[g] > 0
    BY <2>1, Zenon DEF GroupInv, GroupTypes, LeasesAreTasks
  <2>3. PICK j \in Runs : j \in Lessees(g)
    <3>1. Lessees(g) # {}
      <4>1. Cardinality(Lessees(g)) # 0
        BY <2>1, <2>2 DEF GroupInv, LeasesAreTasks
      <4>2. Cardinality({}) = 0
        BY FS_EmptySet, Zenon
      <4>. QED
        BY <4>1, <4>2, Zenon
    <3>. QED
      BY <3>1, Zenon DEF Lessees
  <2>4. sup[g] # "none"
    BY <2>1, <2>3, Zenon DEF Lessees, GroupInv, RunsHaveGroups, Groups
  <2>. QED
    BY <2>1, <2>2, <2>4 DEF GroupInv, LeasesAreTasks
<1>1. /\ runPc[k] = "checked" /\ runPc' = [runPc EXCEPT ![k] = "begin"]
      /\ leases' = [leases EXCEPT ![g] = leases[g] + 1] /\ groupOf' = [groupOf EXCEPT ![k] = g]
      /\ UNCHANGED <<registered, sup, groupShutdown, groupStatus>>
  BY Zenon DEF StartSpawn, AcquireGroup, Goto
<1>2. GroupTypes'
  BY <1>0, <1>1 DEF GroupInv, GroupTypes, RunSteps, Leasing
<1>3. ShutdownType' /\ ExitIsTold'
  BY <1>1, Zenon DEF GroupInv, ShutdownType, ExitIsTold
<1>4. RunsHaveGroups'
  BY <1>0, <1>1, Zenon DEF GroupInv, GroupTypes, RunsHaveGroups, Groups
<1>5. k \notin Lessees(g) /\ Lessees(g)' = Lessees(g) \cup {k}
  BY <1>0, <1>1, Zenon DEF Lessees, GroupInv, GroupTypes
<1>6. \A h \in Groups : h # g => Lessees(h)' = Lessees(h)
  BY <1>0, <1>1, Zenon DEF Lessees, GroupInv, GroupTypes
<1>7. Cardinality(Lessees(g)') = Cardinality(Lessees(g)) + 1
  BY <1>5, LesseesFinite, FS_AddElement, Zenon
<1>8. LeasesAreTasks'
  <2> SUFFICES ASSUME NEW h \in Groups
               PROVE  /\ leases'[h] = Cardinality(Lessees(h)')
                      /\ leases'[h] > 0 <=> registered' = h
                      /\ sup'[h] # "none" => (groupShutdown'[h] <=> leases'[h] = 0)
    BY Zenon DEF LeasesAreTasks
  <2>1. CASE h = g
    BY <1>0, <1>1, <1>7, <2>1 DEF GroupInv, GroupTypes, LeasesAreTasks
  <2>2. CASE h # g
    BY <1>0, <1>1, <1>6, <2>2, Zenon DEF GroupInv, GroupTypes, LeasesAreTasks
  <2>. QED
    BY <2>1, <2>2, Zenon
<1>. QED
  BY <1>2, <1>3, <1>4, <1>8, Zenon DEF GroupInv

\* A start makes a group.
LEMMA MakeStep ==
  ASSUME GroupInv, NEW k \in Runs, StartSpawn(k), registered = 0
  PROVE  GroupInv'
<1> USE ManagerConstants
<1>1. PICK g \in Groups :
        /\ runPc[k] = "checked" /\ runPc' = [runPc EXCEPT ![k] = "begin"]
        /\ sup[g] = "none" /\ sup' = [sup EXCEPT ![g] = "head"]
        /\ leases' = [leases EXCEPT ![g] = 1] /\ groupOf' = [groupOf EXCEPT ![k] = g]
        /\ registered' = g /\ UNCHANGED <<groupShutdown, groupStatus>>
  BY Zenon DEF StartSpawn, AcquireGroup, Goto
<1>2. \A h \in Groups : h # 0 /\ leases[h] = 0
  BY DEF GroupInv, GroupTypes, LeasesAreTasks, Groups
<1>3. \A j \in Runs : groupOf[j] # g
  BY <1>1, <1>2, Zenon DEF GroupInv, RunsHaveGroups
<1>4. GroupTypes'
  BY <1>1 DEF GroupInv, GroupTypes, RunSteps, Leasing, SupSteps, Groups
<1>5. ShutdownType'
  BY <1>1, Zenon DEF GroupInv, ShutdownType
<1>6. ExitIsTold'
  BY <1>1, Zenon DEF GroupInv, GroupTypes, ExitIsTold
<1>7. RunsHaveGroups'
  BY <1>1, <1>2 DEF GroupInv, GroupTypes, RunsHaveGroups, Groups
<1>8. Lessees(g)' = {k} /\ \A h \in Groups : h # g => Lessees(h)' = Lessees(h)
  <2>1. Lessees(g)' = {k}
    BY <1>1, <1>3, Zenon DEF Lessees, GroupInv, GroupTypes
  <2>2. \A h \in Groups : h # g => Lessees(h)' = Lessees(h)
    BY <1>1, Zenon DEF Lessees, GroupInv, GroupTypes
  <2>. QED
    BY <2>1, <2>2, Zenon
<1>9. Cardinality(Lessees(g)') = 1
  BY <1>8, FS_Singleton, Zenon
<1>10. LeasesAreTasks'
  <2> SUFFICES ASSUME NEW h \in Groups
               PROVE  /\ leases'[h] = Cardinality(Lessees(h)')
                      /\ leases'[h] > 0 <=> registered' = h
                      /\ sup'[h] # "none" => (groupShutdown'[h] <=> leases'[h] = 0)
    BY Zenon DEF LeasesAreTasks
  <2>1. CASE h = g
    <3>1. leases'[h] = 1 /\ ~groupShutdown'[h]
      BY <1>1, <2>1, Zenon DEF GroupInv, GroupTypes, ExitIsTold
    <3>. QED
      BY <1>1, <1>9, <2>1, <3>1
  <2>2. CASE h # g
    BY <1>1, <1>2, <1>8, <2>2, Zenon DEF GroupInv, GroupTypes, LeasesAreTasks
  <2>. QED
    BY <2>1, <2>2, Zenon
<1>. QED
  BY <1>4, <1>5, <1>6, <1>7, <1>10, Zenon DEF GroupInv

\* A task gives its lease back, the last one with the group.
LEMMA ReleaseStep ==
  ASSUME GroupInv, NEW k \in Runs, Release(k)
  PROVE  GroupInv'
<1> USE ManagerConstants
<1> DEFINE g == groupOf[k]
<1>0. runPc[k] \in Leasing /\ runPc' = [runPc EXCEPT ![k] = "released"]
  BY Zenon DEF Release, Goto, Leasing
<1>1. g \in Groups /\ registered = g /\ leases[g] > 0
  BY <1>0, LeasedIsRegistered, Zenon
<1>2. /\ leases' = [leases EXCEPT ![g] = leases[g] - 1]
      /\ registered' = IF leases[g] = 1 THEN 0 ELSE registered
      /\ UNCHANGED <<sup, groupOf, groupStatus>>
  BY Zenon DEF Release
<1>3. /\ groupShutdown'[g] <=> groupShutdown[g] \/ leases[g] = 1
      /\ \A h \in Groups : h # g => groupShutdown'[h] = groupShutdown[h]
      /\ groupShutdown' \in [Groups -> BOOLEAN]
  <2>1. groupShutdown' = [groupShutdown EXCEPT ![g] = groupShutdown[g] \/ leases[g] = 1]
    BY Zenon DEF Release
  <2>2. groupShutdown \in [Groups -> BOOLEAN]
    BY Zenon DEF GroupInv, ShutdownType
  <2>. QED
    BY <1>1, <2>1, <2>2, Zenon
<1>4. leases[g] \in Nat /\ GroupTypes'
  BY <1>0, <1>1, <1>2 DEF GroupInv, GroupTypes, RunSteps, Groups
<1>5. RunsHaveGroups'
  BY <1>0, <1>2, Zenon DEF GroupInv, GroupTypes, RunsHaveGroups, Leasing
<1>6. sup[g] # "none"
  BY <1>0, <1>1, Zenon DEF GroupInv, RunsHaveGroups
<1>7. ExitIsTold'
  BY <1>1, <1>2, <1>3, <1>6, Zenon DEF GroupInv, ExitIsTold
<1>8. k \in Lessees(g) /\ Lessees(g)' = Lessees(g) \ {k}
  BY <1>0, <1>2, Zenon DEF Lessees, GroupInv, GroupTypes, Leasing
<1>9. \A h \in Groups : h # g => Lessees(h)' = Lessees(h)
  BY <1>0, <1>2, Zenon DEF Lessees, GroupInv, GroupTypes
<1>10. Cardinality(Lessees(g)') = Cardinality(Lessees(g)) - 1
  BY <1>8, LesseesFinite, FS_RemoveElement, ZenonT(30), Zenon
<1>11. LeasesAreTasks'
  <2> SUFFICES ASSUME NEW h \in Groups
               PROVE  /\ leases'[h] = Cardinality(Lessees(h)')
                      /\ leases'[h] > 0 <=> registered' = h
                      /\ sup'[h] # "none" => (groupShutdown'[h] <=> leases'[h] = 0)
    BY Zenon DEF LeasesAreTasks
  <2>0. h # 0
    BY DEF Groups
  <2>1. CASE h = g
    <3>1. leases'[h] = leases[g] - 1 /\ leases[g] = Cardinality(Lessees(g))
      BY <1>1, <1>2, <2>1, Zenon DEF GroupInv, GroupTypes, LeasesAreTasks
    <3>2. ~groupShutdown[g]
      BY <1>1, <1>6 DEF GroupInv, LeasesAreTasks
    <3>. QED
      BY <1>1, <1>2, <1>3, <1>4, <1>10, <2>0, <2>1, <3>1, <3>2
  <2>2. CASE h # g
    BY <1>1, <1>2, <1>3, <1>9, <2>0, <2>2, SMTT(30) DEF GroupInv, GroupTypes, LeasesAreTasks
  <2>. QED
    BY <2>1, <2>2, Zenon
<1>. QED
  BY <1>3, <1>4, <1>5, <1>7, <1>11, SMTT(30) DEF GroupInv, ShutdownType

\* The other steps of runs.
LEMMA RunsStep ==
  ASSUME GroupInv, NEW k \in Runs,
         \/ StartCheck(k) \/ StartBindFails(k) \/ StartInsert(k) \/ RunBegin(k) \/ AcceptStops(k)
         \/ AcceptFails(k) \/ Joined(k) \/ Signal(k) \/ MirrorStep(k)
  PROVE  GroupInv'
<1>1. UNCHANGED <<registered, leases, groupShutdown, groupOf, groupStatus, sup>>
  BY DEF StartCheck, StartBindFails, StartInsert, RunBegin, AcceptStops, AcceptFails, Joined, Signal,
         MirrorStep, Mirror, MirrorEnds, registry, group, run
<1>2. PICK l \in RunSteps :
        /\ runPc' = [runPc EXCEPT ![k] = l]
        /\ l \in Leasing <=> runPc[k] \in Leasing
        /\ l \in {"none", "checked"} => runPc[k] \in {"none", "checked"}
  <2> USE DEF RunSteps, Leasing, Goto
  <2>1. CASE StartCheck(k)
    BY <2>1, Zenon DEF StartCheck
  <2>2. CASE StartBindFails(k)
    BY <2>2, Zenon DEF StartBindFails
  <2>3. CASE RunBegin(k)
    BY <2>3 DEF RunBegin
  <2>4. CASE AcceptStops(k) \/ AcceptFails(k)
    BY <2>4, Zenon DEF AcceptStops, AcceptFails
  <2>5. CASE Joined(k) \/ Signal(k)
    BY <2>5, Zenon DEF Joined, Signal
  <2>6. CASE StartInsert(k) \/ MirrorStep(k)
    <3>1. runPc' = runPc /\ runPc \in [Runs -> RunSteps]
      BY <2>6, Zenon DEF StartInsert, MirrorStep, Mirror, MirrorEnds, run, GroupInv, GroupTypes
    <3>. QED
      BY <3>1, Zenon
  <2>. QED
    BY <2>1, <2>2, <2>3, <2>4, <2>5, <2>6, SMTT(30)
<1>3. GroupTypes'
  BY <1>1, <1>2, SMTT(30) DEF GroupInv, GroupTypes
<1>. QED
  BY <1>1, <1>2, <1>3, OtherStep DEF GroupInv, GroupTypes, ExitIsTold

\* The steps of supervisors.
LEMMA SupsStep ==
  ASSUME GroupInv, NEW g \in Groups, SupStep(g) \/ SupLost(g)
  PROVE  GroupInv'
<1> USE DEF SupGoto, SupSteps, Statuses
<1>1. UNCHANGED <<registered, leases, groupShutdown, groupOf, runPc>>
  BY Zenon DEF SupStep, SupHead, SupConnected, SupConnectFails, SupBackoff, SupShutdown, SupLost, registry, run
<1>2. GroupTypes'
  <2>1. sup' \in [Groups -> SupSteps]
    BY DEF GroupInv, GroupTypes, SupStep, SupHead, SupConnected, SupConnectFails, SupBackoff, SupShutdown, SupLost
  <2>2. groupStatus' \in [Groups -> Statuses]
    BY Zenon DEF GroupInv, GroupTypes, SupStep, SupHead, SupConnected, SupConnectFails, SupBackoff, SupShutdown, SupLost
  <2>. QED
    BY <1>1, <2>1, <2>2, Zenon DEF GroupInv, GroupTypes
<1>3. \A h \in Groups : h # g => sup'[h] = sup[h] /\ groupStatus'[h] = groupStatus[h]
  BY Zenon DEF GroupInv, GroupTypes, SupStep, SupHead, SupConnected, SupConnectFails, SupBackoff, SupShutdown, SupLost
<1>4. /\ sup[g] # "none" /\ sup'[g] # "none"
      /\ sup'[g] = "exit" => groupShutdown[g] \/ groupStatus'[g] = "Failed"
  BY Zenon DEF GroupInv, GroupTypes, SupStep, SupHead, SupConnected, SupConnectFails, SupBackoff, SupShutdown, SupLost
<1>. QED
  BY <1>1, <1>2, <1>3, <1>4, OtherStep, Zenon

LEMMA GroupNext == GroupInv /\ [Next]_vars => GroupInv'
<1> SUFFICES ASSUME GroupInv, [Next]_vars PROVE GroupInv'
  BY Zenon
<1>1. ASSUME NEW k \in Runs, StartStep(k) \/ RunStep(k) \/ AcceptFails(k) \/ MirrorStep(k) PROVE GroupInv'
  <2>1. CASE StartSpawn(k)
    BY <2>1, JoinStep, MakeStep, Zenon
  <2>2. CASE Release(k)
    BY <2>2, ReleaseStep, Zenon
  <2>. QED
    BY <1>1, <2>1, <2>2, RunsStep, Zenon DEF StartStep, RunStep
<1>2. ASSUME NEW g \in Groups, SupStep(g) \/ SupLost(g) PROVE GroupInv'
  BY <1>2, SupsStep, Zenon
<1>3. ASSUME UNCHANGED <<registered, group, runPc, groupOf>> PROVE GroupInv'
  <2>1. GroupTypes'
    BY <1>3, Zenon DEF group, GroupInv, GroupTypes
  <2>2. UNCHANGED <<registered, leases, groupShutdown, groupOf, groupStatus, sup, runPc>>
    BY <1>3, Zenon DEF group
  <2>. QED
    BY <2>1, <2>2, OtherStep, Zenon DEF GroupInv, ExitIsTold
<1>4. ASSUME NEW p \in Stoppers, StopReturns(p) \/ \E i \in Ids : Stop(p, i) PROVE GroupInv'
  <2>1. UNCHANGED <<registered, group, runPc, groupOf>>
    BY <1>4, Zenon DEF StopReturns, Stop, registry
  <2>. QED
    BY <1>3, <2>1, Zenon
<1>5. CASE UNCHANGED vars
  <2>1. UNCHANGED <<registered, group, runPc, groupOf>>
    BY <1>5, Zenon DEF vars, registry, run
  <2>. QED
    BY <1>3, <2>1, Zenon
<1>. QED
  BY <1>1, <1>2, <1>4, <1>5, Zenon DEF Next

LEMMA GroupAlways == Spec => []GroupInv
BY GroupInit, GroupNext, PTL DEF Spec

\* The leases of a group are the tasks that need it (manager.rs: acquire_group,
\* release_group), for any number of tunnels that start, fail and stop at once.
THEOREM ManagerLeases == Spec => []LeasesAreTasks
<1>1. GroupInv => LeasesAreTasks
  BY Zenon DEF GroupInv
<1>. QED
  BY <1>1, GroupAlways, PTL

\* A tunnel that is up runs on the group in the registry, whose supervisor is
\* there unless it gave up for good (manager.rs: supervise_conn, release_group).
THEOREM ManagerSupervisors == Spec => []SupervisorOutlivesTunnels
<1>1. GroupInv => SupervisorOutlivesTunnels
  <2> SUFFICES ASSUME GroupInv, NEW k \in Runs, runPc[k] = "loop"
               PROVE  /\ groupOf[k] = registered
                      /\ sup[groupOf[k]] = "exit" => groupStatus[groupOf[k]] = "Failed"
    BY Zenon DEF SupervisorOutlivesTunnels
  <2>1. runPc[k] \in Leasing
    BY Zenon DEF Leasing
  <2>2. groupOf[k] \in Groups /\ groupOf[k] = registered /\ leases[registered] > 0
    BY <2>1, LeasedIsRegistered, Zenon
  <2>3. sup[groupOf[k]] = "exit" => ~groupShutdown[groupOf[k]]
    BY <2>2 DEF GroupInv, GroupTypes, LeasesAreTasks
  <2>. QED
    BY <2>2, <2>3, Zenon DEF GroupInv, ExitIsTold
<1>. QED
  BY <1>1, GroupAlways, PTL

-----------------------------------------------------------------------------
(***************************************************************************)
(* The status a tunnel shows.                                              *)
(***************************************************************************)
ShownTypes == status \in [Runs -> Statuses]
MirrorType == mirror \in [Runs -> BOOLEAN]
UnseenType == unseen \in [Runs -> BOOLEAN]

\* What a group says of its connection agrees with where its supervisor is.
GroupsSay ==
  \A g \in Groups : /\ groupStatus[g] # "Stopped"
                    /\ groupStatus[g] = "Listening" => sup[g] \in {"live", "exit"}
\* The mirror of a run is there while the run is up, and only it says "Listening", of a
\* group that has been connected.
Mirrored(k) ==
  /\ mirror[k] => runPc[k] \in {"loop", "drain"}
  /\ status[k] = "Listening" => /\ runPc[k] \notin {"none", "checked", "begin"}
                                /\ groupOf[k] # 0 /\ groupStatus[groupOf[k]] # "Starting"
  /\ status[k] = "Listening" /\ mirror[k] /\ ~unseen[k] => groupStatus[groupOf[k]] = "Listening"
\* The inductive invariant of the status.
ShownInv == ShownTypes /\ MirrorType /\ UnseenType /\ GroupsSay /\ \A k \in Runs : Mirrored(k)

LEMMA ShownInit == Init => ShownInv
<1> SUFFICES ASSUME Init PROVE ShownInv
  BY Zenon
<1>1. ShownTypes /\ GroupsSay
  BY Zenon DEF Init, ShownTypes, GroupsSay, Statuses
<1>2. MirrorType
  BY Zenon DEF Init, MirrorType
<1>3. UnseenType
  BY Zenon DEF Init, UnseenType
<1>4. \A k \in Runs : status[k] = "Starting" /\ mirror[k] = FALSE
  BY Zenon DEF Init
<1>5. \A k \in Runs : Mirrored(k)
  BY <1>4, Zenon DEF Mirrored
<1>. QED
  BY <1>1, <1>2, <1>3, <1>5, Zenon DEF ShownInv

\* A step of a run, a start or a stop: the groups keep what they say.
LEMMA RunShown ==
  ASSUME GroupInv, ShownInv, ShownTypes', MirrorType', UnseenType', UNCHANGED groupStatus,
         \A g \in Groups : sup'[g] = sup[g] \/ sup[g] = "none",
         NEW k \in Runs, Mirrored(k)',
         \A j \in Runs : j # k => /\ mirror'[j] = mirror[j] /\ status'[j] = status[j] /\ unseen'[j] = unseen[j]
                                  /\ runPc'[j] = runPc[j] /\ groupOf'[j] = groupOf[j]
  PROVE  ShownInv'
<1>1. GroupsSay'
  BY Zenon DEF ShownInv, GroupsSay
<1>2. ASSUME NEW j \in Runs PROVE Mirrored(j)'
  <2>1. CASE j = k
    BY <2>1, Zenon
  <2>2. CASE j # k
    BY <2>2, SMTT(30) DEF ShownInv, Mirrored
  <2>. QED
    BY <2>1, <2>2, Zenon
<1>. QED
  BY <1>1, <1>2, Zenon DEF ShownInv

LEMMA StartShown ==
  ASSUME GroupInv, ShownInv, NEW k \in Runs, StartStep(k)
  PROVE  ShownInv'
<1>1. /\ UNCHANGED <<groupStatus, status, mirror, unseen>>
      /\ \A g \in Groups : sup'[g] = sup[g] \/ sup[g] = "none"
  BY DEF StartStep, StartCheck, StartBindFails, StartSpawn, AcquireGroup, StartInsert, group, run,
         GroupInv, GroupTypes
<1>2. ShownTypes' /\ MirrorType' /\ UnseenType'
  BY <1>1, Zenon DEF ShownInv, ShownTypes, MirrorType, UnseenType
<1>3. \A j \in Runs : j # k => runPc'[j] = runPc[j] /\ groupOf'[j] = groupOf[j]
  BY DEF StartStep, StartCheck, StartBindFails, StartSpawn, AcquireGroup, StartInsert, run, Goto,
         GroupInv, GroupTypes
<1>4. \/ runPc[k] \in {"none", "checked"}
      \/ runPc'[k] = runPc[k] /\ groupOf'[k] = groupOf[k]
  BY Zenon DEF StartStep, StartCheck, StartBindFails, StartSpawn, StartInsert, run
<1>5. Mirrored(k)'
  BY <1>1, <1>4, SMTT(30) DEF ShownInv, Mirrored
<1>. QED
  BY <1>1, <1>2, <1>3, <1>5, RunShown, SMTT(30)

LEMMA TaskShown ==
  ASSUME GroupInv, ShownInv, NEW k \in Runs, RunStep(k) \/ AcceptFails(k)
  PROVE  ShownInv'
<1> USE DEF GroupInv, GroupTypes, ShownInv
<1>1. UNCHANGED <<groupStatus, sup, groupOf>>
  BY Zenon DEF RunStep, RunBegin, AcceptStops, Joined, Signal, Release, AcceptFails, group
<1>2. ShownTypes'
  BY Zenon DEF RunStep, RunBegin, AcceptStops, Joined, Signal, Release, AcceptFails, ShownTypes, Statuses
<1>3. MirrorType'
  BY Zenon DEF RunStep, RunBegin, AcceptStops, Joined, Signal, Release, AcceptFails, MirrorType
<1>4. UnseenType'
  BY Zenon DEF RunStep, RunBegin, AcceptStops, Joined, Signal, Release, AcceptFails, UnseenType
<1>5. \A j \in Runs : j # k => /\ mirror'[j] = mirror[j] /\ status'[j] = status[j] /\ unseen'[j] = unseen[j]
                                /\ runPc'[j] = runPc[j]
  BY DEF RunStep, RunBegin, AcceptStops, Joined, Signal, Release, AcceptFails, Goto,
         ShownTypes, MirrorType, UnseenType
<1>6. Mirrored(k)'
  <2>1. CASE RunBegin(k)
    <3>1. runPc[k] = "begin" /\ status' = status /\ runPc'[k] = "loop"
      BY <2>1, SMTT(30) DEF RunBegin, Goto
    <3>. QED
      BY <1>1, <3>1, Zenon DEF Mirrored
  <2>2. CASE AcceptStops(k) \/ AcceptFails(k)
    <3>1. UNCHANGED <<status, mirror, unseen>> /\ runPc[k] = "loop" /\ runPc'[k] = "drain"
      BY <2>2, Zenon DEF AcceptStops, AcceptFails, Goto
    <3>. QED
      BY <1>1, <3>1, Zenon DEF Mirrored
  <2>3. CASE Joined(k)
    <3>1. status' = status /\ runPc[k] = "drain" /\ runPc'[k] = "joined"
      BY <2>3, Zenon DEF Joined, Goto
    <3>2. ~mirror'[k]
      BY <2>3, SMTT(30) DEF Joined, MirrorType
    <3>. QED
      BY <1>1, <3>1, <3>2, Zenon DEF Mirrored
  <2>4. CASE Signal(k)
    <3>1. UNCHANGED <<mirror, unseen>> /\ runPc[k] = "joined" /\ runPc'[k] = "signalled"
      BY <2>4, Zenon DEF Signal, Goto
    <3>2. status'[k] \in {status[k], "Failed"}
      BY <2>4, Zenon DEF Signal, ShownTypes
    <3>. QED
      BY <1>1, <3>1, <3>2, Zenon DEF Mirrored
  <2>5. CASE Release(k)
    <3>1. UNCHANGED <<status, mirror, unseen>> /\ runPc[k] = "signalled" /\ runPc'[k] = "released"
      BY <2>5, SMTT(30) DEF Release, Goto
    <3>. QED
      BY <1>1, <3>1, Zenon DEF Mirrored
  <2>. QED
    BY <2>1, <2>2, <2>3, <2>4, <2>5, Zenon DEF RunStep
<1>. QED
  BY <1>1, <1>2, <1>3, <1>4, <1>5, <1>6, RunShown, ZenonT(30), Zenon

LEMMA CopyShown ==
  ASSUME GroupInv, ShownInv, NEW k \in Runs, MirrorStep(k)
  PROVE  ShownInv'
<1> USE DEF GroupInv, GroupTypes, ShownInv
<1>1. UNCHANGED <<groupStatus, sup, groupOf, runPc>>
  BY Zenon DEF MirrorStep, Mirror, MirrorEnds, group
<1>0. mirror[k]
  BY Zenon DEF MirrorStep, Mirror, MirrorEnds
<1>2. groupOf[k] \in Groups /\ runPc[k] \in {"loop", "drain"}
  BY <1>0, ManagerConstants DEF Mirrored, RunsHaveGroups, Leasing, Groups
<1>3. groupStatus[groupOf[k]] \in {"Starting", "Listening", "Reconnecting", "Failed"}
  BY <1>2, SMTT(30) DEF GroupsSay, Statuses
<1>4. /\ status' \in [Runs -> Statuses]
      /\ \A j \in Runs : j # k => status'[j] = status[j]
      /\ \/ status'[k] = status[k]
         \/ status'[k] = groupStatus[groupOf[k]] /\ status'[k] # "Starting"
  <2>1. CASE MirrorEnds(k)
    BY <2>1, Zenon DEF MirrorEnds, ShownTypes
  <2>2. CASE Mirror(k)
    <3> DEFINE s == groupStatus[groupOf[k]]
    <3>1. \/ s = "Listening" /\ status' = [status EXCEPT ![k] = "Listening"]
          \/ s \in {"Reconnecting", "Failed"} /\ status' = [status EXCEPT ![k] = s]
          \/ s \in {"Starting", "Listening"} /\ status' = status
      BY <1>3, <2>2, Zenon DEF Mirror
    <3>. QED
      BY <1>3, <3>1, Zenon DEF ShownTypes, Statuses
  <2>. QED
    BY <2>1, <2>2, Zenon DEF MirrorStep
<1>5. MirrorType'
  BY Zenon DEF MirrorStep, Mirror, MirrorEnds, MirrorType
<1>6. UnseenType'
  BY Zenon DEF MirrorStep, Mirror, MirrorEnds, UnseenType
<1>7. \A j \in Runs : j # k => mirror'[j] = mirror[j] /\ unseen'[j] = unseen[j]
  BY Zenon DEF MirrorStep, Mirror, MirrorEnds, MirrorType, UnseenType
<1>8. Mirrored(k)'
  <2>1. CASE MirrorEnds(k)
    <3>1. ~mirror'[k] /\ status' = status
      BY <2>1, SMTT(30) DEF MirrorEnds, MirrorType
    <3>. QED
      BY <1>1, <3>1, Zenon DEF Mirrored
  <2>2. CASE Mirror(k)
    <3>1. mirror' = mirror
      BY <2>2, Zenon DEF Mirror
    <3>2. status'[k] = "Listening" => groupStatus[groupOf[k]] = "Listening"
      <4>1. status[k] = "Listening" => groupStatus[groupOf[k]] # "Starting"
        BY Zenon DEF Mirrored
      <4>. QED
        BY <1>3, <2>2, <4>1, Zenon DEF Mirror, ShownTypes
    <3>. QED
      BY <1>1, <1>2, <3>1, <3>2, SMTT(30) DEF Mirrored, Groups
  <2>. QED
    BY <2>1, <2>2, Zenon DEF MirrorStep
<1>9. ShownTypes'
  BY <1>4, Zenon DEF ShownTypes
<1>. QED
  BY <1>1, <1>4, <1>5, <1>6, <1>7, <1>8, <1>9, RunShown, Zenon

\* A supervisor tells the mirrors of every change but that to Failed, which it makes
\* only when its connection was not up.
LEMMA SupShown ==
  ASSUME GroupInv, ShownInv, NEW g \in Groups, SupStep(g) \/ SupLost(g)
  PROVE  ShownInv'
<1> USE DEF GroupInv, GroupTypes, ShownInv
<1>1. UNCHANGED <<status, mirror, runPc, groupOf>>
  BY Zenon DEF SupStep, SupHead, SupConnected, SupConnectFails, SupBackoff, SupShutdown, SupLost, run
<1>2. \A h \in Groups : h # g => sup'[h] = sup[h] /\ groupStatus'[h] = groupStatus[h]
  BY Zenon DEF SupStep, SupHead, SupConnected, SupConnectFails, SupBackoff, SupShutdown, SupLost, SupGoto
<1>3. \/ groupStatus'[g] = groupStatus[g] /\ sup[g] = "live" /\ sup'[g] = "exit" /\ unseen' = unseen
      \/ groupStatus'[g] = groupStatus[g] /\ sup[g] \notin {"live", "exit"} /\ unseen' = unseen
      \/ groupStatus'[g] = "Failed" /\ sup[g] = "connecting" /\ unseen' = unseen
      \/ groupStatus'[g] = "Reconnecting" /\ SlotSend(g)
      \/ groupStatus'[g] = "Listening" /\ sup'[g] = "live" /\ SlotSend(g)
  BY Zenon DEF SupStep, SupHead, SupConnected, SupConnectFails, SupBackoff, SupShutdown, SupLost, SupGoto, run
<1>4. UnseenType'
  <2>1. CASE unseen' = unseen
    BY <2>1, Zenon DEF UnseenType
  <2>2. CASE SlotSend(g)
    BY <2>2, SMTT(30) DEF SlotSend, UnseenType
  <2>. QED
    BY <1>3, <2>1, <2>2, Zenon
<1>5. GroupsSay'
  BY <1>2, <1>3, SMTT(30) DEF GroupsSay
<1>6. \A h \in Groups : groupStatus[h] # "Starting" => groupStatus'[h] # "Starting"
  BY <1>2, <1>3, Zenon
<1>7. ASSUME NEW k \in Runs PROVE Mirrored(k)'
  <2>0. groupOf[k] # 0 => groupOf[k] \in Groups
    BY ManagerConstants, SMTT(30) DEF Groups
  <2>1. CASE groupOf[k] # g
    <3>1. unseen'[k] = unseen[k]
      BY <1>3, <2>1, SMTT(30) DEF SlotSend, UnseenType
    <3>. QED
      BY <1>1, <1>2, <2>0, <2>1, <3>1, <1>6, SMTT(30) DEF Mirrored, RunsHaveGroups, Leasing
  <2>2. CASE groupOf[k] = g
    <3>1. CASE SlotSend(g)
      <4>1. mirror[k] => unseen'[k]
        BY <2>2, <3>1, SMTT(30) DEF SlotSend, MirrorType
      <4>. QED
        BY <1>1, <1>6, <2>0, <2>2, <4>1, Zenon DEF Mirrored
    <3>2. CASE unseen' = unseen
      BY <1>1, <1>3, <1>6, <2>0, <2>2, <3>1, <3>2, Zenon DEF Mirrored, GroupsSay
    <3>. QED
      BY <1>3, <3>1, <3>2, ZenonT(30), Zenon
  <2>. QED
    BY <2>1, <2>2, Zenon
<1>8. ShownTypes' /\ MirrorType'
  BY <1>1, Zenon DEF ShownTypes, MirrorType
<1>. QED
  BY <1>4, <1>5, <1>7, <1>8, SMTT(30)

LEMMA ShownNext == GroupInv /\ ShownInv /\ [Next]_vars => ShownInv'
<1> SUFFICES ASSUME GroupInv, ShownInv, [Next]_vars PROVE ShownInv'
  BY Zenon
<1>1. ASSUME NEW k \in Runs, StartStep(k) \/ RunStep(k) \/ AcceptFails(k) \/ MirrorStep(k) PROVE ShownInv'
  BY <1>1, StartShown, TaskShown, CopyShown, Zenon
<1>2. ASSUME NEW g \in Groups, SupStep(g) \/ SupLost(g) PROVE ShownInv'
  BY <1>2, SupShown, Zenon
<1>3. ASSUME UNCHANGED <<group, runPc, groupOf, mirror, unseen>>, ShownTypes',
             \A k \in Runs : status'[k] \in {status[k], "Stopped"}
      PROVE  ShownInv'
  <2>1. UNCHANGED <<groupStatus, sup, runPc, groupOf, mirror, unseen>>
    BY <1>3, Zenon DEF group
  <2>2. MirrorType' /\ UnseenType'
    BY <2>1, SMTT(30) DEF ShownInv, MirrorType, UnseenType
  <2>3. GroupsSay' /\ \A k \in Runs : Mirrored(k)'
    BY <1>3, <2>1 DEF ShownInv, GroupsSay, Mirrored
  <2>. QED
    BY <1>3, <2>2, <2>3, Zenon DEF ShownInv
<1>4. ASSUME NEW p \in Stoppers, StopReturns(p) PROVE ShownInv'
  <2>1. ShownTypes' /\ \A k \in Runs : status'[k] \in {status[k], "Stopped"}
    BY <1>4, Zenon DEF StopReturns, ShownInv, ShownTypes, Statuses
  <2>. QED
    BY <1>3, <1>4, <2>1, Zenon DEF StopReturns
<1>5. ASSUME NEW p \in Stoppers, NEW i \in Ids, Stop(p, i) PROVE ShownInv'
  BY <1>3, <1>5, Zenon DEF Stop, ShownInv, ShownTypes
<1>6. CASE UNCHANGED vars
  BY <1>3, <1>6, Zenon DEF vars, run, ShownInv, ShownTypes
<1>. QED
  BY <1>1, <1>2, <1>4, <1>5, <1>6, Zenon DEF Next

\* A tunnel that shows "Listening", with nothing on its way to its mirror, has a group
\* that is connected (manager.rs: the mirror task of run_tunnel, supervise_conn): a
\* connection that is lost, or an attempt that fails for good, leaves no stale status.
THEOREM ManagerListening == Spec => []ListeningIsConnected
<1>1. ShownInv => ListeningIsConnected
  BY Zenon DEF ShownInv, Mirrored, ListeningIsConnected
<1>. QED
  BY <1>1, GroupAlways, ShownInit, ShownNext, PTL DEF Spec

-----------------------------------------------------------------------------
(***************************************************************************)
(* Types.                                                                  *)
(***************************************************************************)
TableTypes ==
  /\ tunnels \in [Ids -> 0..MaxRuns] /\ inserted \in SUBSET Runs
  /\ connects \in 0..MaxConnects /\ idOf \in [Runs -> Ids]
  /\ stopping \in [Stoppers -> 0..MaxRuns]
ShutdownFlag == shutdown \in [Runs -> BOOLEAN]
StartedFlag == stopStarted \in [Runs -> BOOLEAN]
FailedFlag == failed \in [Runs -> BOOLEAN]
RestTypes == TableTypes /\ ShutdownFlag /\ StartedFlag /\ FailedFlag

LEMMA RestInit == Init => RestTypes
<1> SUFFICES ASSUME Init PROVE RestTypes
  BY Zenon
<1>1. TableTypes
  BY ManagerConstants DEF Init, TableTypes
<1>2. ShutdownFlag
  BY Zenon DEF Init, ShutdownFlag
<1>3. StartedFlag
  BY Zenon DEF Init, StartedFlag
<1>4. FailedFlag
  BY Zenon DEF Init, FailedFlag
<1>. QED
  BY <1>1, <1>2, <1>3, <1>4, Zenon DEF RestTypes

LEMMA RestNext == RestTypes /\ [Next]_vars => RestTypes'
<1> SUFFICES ASSUME RestTypes, [Next]_vars PROVE RestTypes'
  BY Zenon
<1> USE ManagerConstants DEF RestTypes
<1>1. ASSUME NEW k \in Runs, StartStep(k) \/ RunStep(k) \/ AcceptFails(k) \/ MirrorStep(k) PROVE RestTypes'
  <2> USE DEF StartStep, StartCheck, StartBindFails, StartSpawn, StartInsert, RunStep, RunBegin, AcceptStops,
             Joined, Signal, Release, AcceptFails, MirrorStep, Mirror, MirrorEnds, registry, group, run
  <2>1. TableTypes'
    <3>1. UNCHANGED <<connects, idOf, stopping>>
      BY <1>1, SMTT(30)
    <3>2. \/ UNCHANGED <<tunnels, inserted>>
          \/ tunnels' = [tunnels EXCEPT ![idOf[k]] = k] /\ inserted' = inserted \cup {k}
      BY <1>1, Zenon
    <3>3. tunnels' \in [Ids -> 0..MaxRuns]
      BY <3>2 DEF TableTypes, Runs
    <3>4. inserted' \in SUBSET Runs
      BY <3>2, SMTT(30) DEF TableTypes
    <3>. QED
      BY <3>1, <3>3, <3>4, SMTT(30) DEF TableTypes
  <2>2. ShutdownFlag'
    BY <1>1, Zenon DEF ShutdownFlag
  <2>3. StartedFlag'
    BY <1>1, Zenon DEF StartedFlag
  <2>4. FailedFlag'
    BY <1>1, ZenonT(30), Zenon DEF FailedFlag
  <2>. QED
    BY <2>1, <2>2, <2>3, <2>4, Zenon
<1>2. ASSUME NEW g \in Groups, SupStep(g) \/ SupLost(g) PROVE RestTypes'
  <2> USE DEF SupStep, SupHead, SupConnected, SupConnectFails, SupBackoff, SupShutdown, SupLost, registry, run
  <2>1. UNCHANGED <<tunnels, inserted, idOf, stopping, shutdown, stopStarted, failed>>
    BY <1>2, Zenon
  <2>2. \/ connects' = connects
        \/ connects < MaxConnects /\ connects' = connects + 1
    BY <1>2, Zenon
  <2>. QED
    BY <2>1, <2>2 DEF TableTypes, ShutdownFlag, StartedFlag, FailedFlag
<1>3. ASSUME NEW p \in Stoppers, StopReturns(p) PROVE RestTypes'
  <2>1. UNCHANGED <<inserted, connects, idOf, shutdown, stopStarted, failed>>
    BY <1>3, Zenon DEF StopReturns, group
  <2>2. tunnels' \in [Ids -> 0..MaxRuns]
    <3> DEFINE x == idOf[stopping[p]]
    <3>1. tunnels' = [tunnels EXCEPT ![x] = 0] /\ tunnels \in [Ids -> 0..MaxRuns]
      BY <1>3, Zenon DEF StopReturns, TableTypes
    <3> HIDE DEF x
    <3>2. \A i \in Ids : tunnels'[i] = 0 \/ tunnels'[i] = tunnels[i]
      BY <3>1, Zenon
    <3>3. \A i \in Ids : tunnels'[i] \in 0..MaxRuns
      BY <3>1, <3>2
    <3>4. tunnels' = [i \in Ids |-> tunnels'[i]]
      BY <3>1, Zenon
    <3>. QED
      BY <3>3, <3>4, Zenon
  <2>3. stopping' \in [Stoppers -> 0..MaxRuns]
    BY <1>3 DEF StopReturns, TableTypes
  <2>. QED
    BY <2>1, <2>2, <2>3, Zenon DEF TableTypes, ShutdownFlag, StartedFlag, FailedFlag
<1>4. ASSUME NEW p \in Stoppers, NEW i \in Ids, Stop(p, i) PROVE RestTypes'
  <2>1. TableTypes' /\ FailedFlag'
    BY <1>4, Zenon DEF Stop, registry, group, TableTypes, FailedFlag
  <2>2. ShutdownFlag'
    BY <1>4, Zenon DEF Stop, ShutdownFlag
  <2>3. StartedFlag'
    BY <1>4, ZenonT(30), Zenon DEF Stop, StartedFlag
  <2>. QED
    BY <2>1, <2>2, <2>3, Zenon
<1>5. CASE UNCHANGED vars
  BY <1>5, Zenon DEF vars, registry, group, run, TableTypes, ShutdownFlag, StartedFlag, FailedFlag
<1>. QED
  BY <1>1, <1>2, <1>3, <1>4, <1>5, Zenon DEF Next

\* Every variable of the manager keeps its type; a group never has more leases than there
\* were starts.
THEOREM ManagerTypes == Spec => []TypeOK
<1>1. GroupInv /\ ShownInv /\ RestTypes => TypeOK
  <2> SUFFICES ASSUME GroupInv, ShownInv, RestTypes PROVE TypeOK
    BY Zenon
  <2>1. leases \in [Groups -> 0..MaxRuns]
    <3> SUFFICES ASSUME NEW g \in Groups PROVE leases[g] \in 0..MaxRuns
      BY Zenon DEF GroupInv, GroupTypes
    <3>1. Lessees(g) \in SUBSET Runs
      BY Zenon DEF Lessees
    <3>2. IsFiniteSet(Runs) /\ Cardinality(Runs) = MaxRuns
      BY ManagerConstants, FS_Interval DEF Runs
    <3>3. Cardinality(Lessees(g)) <= MaxRuns
      BY <3>1, <3>2, FS_Subset, Zenon
    <3>4. leases[g] = Cardinality(Lessees(g)) /\ leases[g] \in Nat
      BY Zenon DEF GroupInv, GroupTypes, LeasesAreTasks
    <3>. QED
      BY <3>3, <3>4, ManagerConstants
  <2>2. {shutdown, stopStarted, failed, mirror, unseen} \subseteq [Runs -> BOOLEAN]
    BY Zenon DEF RestTypes, ShutdownFlag, StartedFlag, FailedFlag, ShownInv, MirrorType, UnseenType
  <2>3. groupShutdown \in [Groups -> BOOLEAN]
    BY Zenon DEF GroupInv, ShutdownType
  <2>. QED
    BY <2>1, <2>2, <2>3
    DEF TypeOK, GroupInv, GroupTypes, SupSteps, RunSteps, Leasing, ShownInv, ShownTypes, RestTypes, TableTypes
<1>. QED
  BY <1>1, GroupAlways, ShownInit, ShownNext, RestInit, RestNext, PTL DEF Spec

=============================================================================
