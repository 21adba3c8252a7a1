---------------------------- MODULE TunnelManager ----------------------------
(***************************************************************************)
(* The tunnel manager: crates/core-tunnel/src/manager.rs.  Tunnels of one  *)
(* session share a group, and through it one SSH connection kept up by the *)
(* group's supervisor.  This module has start, stop, the group registry    *)
(* and its leases, the supervisor, and the life of a tunnel's task with    *)
(* the mirror that copies the group's status to the tunnel; the relays of  *)
(* one tunnel, which read the connection in the slot, are abstracted to    *)
(* "the drain ends", which the grace timeout and abort_all bring about.    *)
(* The tunnels are local or dynamic ones; a remote tunnel differs in its   *)
(* accept loop (remote_loop).                                              *)
(*                                                                         *)
(* A run is one call of start that got as far as its task; run k is the    *)
(* entry, the task and the mirror it creates.  A group is named by the     *)
(* order of creation; all runs have the same group key.                    *)
(*   runPc:  "none", "checked" (the id is not in the table), "begin" (task *)
(*           spawned), "loop" (accepting), "drain", "joined" (run_tunnel   *)
(*           has returned), "signalled" (stopped sent), "released"         *)
(*   sup:    "none", "head", "connecting", "live", "backoff", "exit"       *)
(***************************************************************************)
EXTENDS Integers, FiniteSets

CONSTANTS Ids,           \* tunnel ids
          FixedPort,     \* the ids that listen on a fixed local port
          Stoppers,      \* concurrent calls of stop
          MaxRuns,       \* bound: starts in a behaviour
          MaxConnects    \* bound: connections made in a behaviour

ASSUME ManagerConstants == /\ IsFiniteSet(Ids) /\ FixedPort \subseteq Ids
                           /\ IsFiniteSet(Stoppers)
                           /\ MaxRuns \in Nat /\ MaxConnects \in Nat

Runs == 1..MaxRuns
Groups == 1..MaxRuns

VARIABLES
  tunnels,       \* TunnelManager.tunnels: the run whose entry an id maps to (0: none)
  inserted,      \* the runs whose start has returned
  registered,    \* TunnelManager.groups: the group under the key (0: none)
  leases, groupShutdown, groupStatus, sup,  \* TunnelGroup and its supervisor
  connects,      \* connections made so far
  runPc, idOf, groupOf, status, shutdown, stopStarted, failed,
  mirror,        \* the mirror task of a run is there
  unseen,        \* its slot receiver has a value it has not seen
  stopping       \* the run a call of stop waits for (0: none), per stopper

registry == <<tunnels, inserted, registered>>
group == <<leases, groupShutdown, groupStatus, sup, connects>>
run == <<runPc, idOf, groupOf, status, shutdown, stopStarted, failed, mirror, unseen>>
vars == <<registry, group, run, stopping>>

Init ==
  /\ tunnels = [i \in Ids |-> 0]
  /\ inserted = {}
  /\ registered = 0
  /\ leases = [g \in Groups |-> 0]
  /\ groupShutdown = [g \in Groups |-> FALSE]
  /\ groupStatus = [g \in Groups |-> "Starting"]
  /\ sup = [g \in Groups |-> "none"]
  /\ connects = 0
  /\ runPc = [k \in Runs |-> "none"]
  /\ idOf \in [Runs -> Ids]
  /\ groupOf = [k \in Runs |-> 0]
  /\ status = [k \in Runs |-> "Starting"]
  /\ shutdown = [k \in Runs |-> FALSE]
  /\ stopStarted = [k \in Runs |-> FALSE]
  /\ failed = [k \in Runs |-> FALSE]
  /\ mirror = [k \in Runs |-> FALSE]
  /\ unseen = [k \in Runs |-> FALSE]
  /\ stopping = [p \in Stoppers |-> 0]

Goto(k, l) == runPc' = [runPc EXCEPT ![k] = l]

-----------------------------------------------------------------------------
(* start *)

\* start: the id is not in the table (the lock is released again).
StartCheck(k) ==
  /\ runPc[k] = "none"
  /\ \A j \in 1..(k - 1) : runPc[j] # "none"
  /\ tunnels[idOf[k]] = 0
  /\ Goto(k, "checked")
  /\ UNCHANGED <<registry, group, idOf, groupOf, status, shutdown, stopStarted, failed,
                 mirror, unseen, stopping>>

\* A fixed local port is taken while another run of the id has its listener.
PortTaken(k) == /\ idOf[k] \in FixedPort
                /\ \E j \in Runs : idOf[j] = idOf[k] /\ runPc[j] \in {"begin", "loop"}

\* bind_listener fails and start returns its error.
StartBindFails(k) ==
  /\ runPc[k] = "checked"
  /\ PortTaken(k)
  /\ Goto(k, "released")
  /\ UNCHANGED <<registry, group, idOf, groupOf, status, shutdown, stopStarted, failed,
                 mirror, unseen, stopping>>

\* acquire_group: join the registered group or make one, with its supervisor.
AcquireGroup(k) ==
  IF registered # 0
    THEN /\ leases' = [leases EXCEPT ![registered] = @ + 1]
         /\ groupOf' = [groupOf EXCEPT ![k] = registered]
         /\ UNCHANGED <<registered, sup>>
    ELSE \E g \in Groups :
           /\ sup[g] = "none"
           /\ \A h \in 1..(g - 1) : sup[h] # "none"
           /\ leases' = [leases EXCEPT ![g] = 1]
           /\ groupOf' = [groupOf EXCEPT ![k] = g]
           /\ registered' = g
           /\ sup' = [sup EXCEPT ![g] = "head"]

\* The listener is bound, the group acquired and the task spawned.
StartSpawn(k) ==
  /\ runPc[k] = "checked"
  /\ ~PortTaken(k)
  /\ AcquireGroup(k)
  /\ Goto(k, "begin")
  /\ UNCHANGED <<tunnels, inserted, groupShutdown, groupStatus, connects, idOf, status,
                 shutdown, stopStarted, failed, mirror, unseen, stopping>>

\* tunnels.insert, whatever the table holds by now; start returns.
StartInsert(k) ==
  /\ groupOf[k] # 0
  /\ k \notin inserted
  /\ tunnels' = [tunnels EXCEPT ![idOf[k]] = k]
  /\ inserted' = inserted \cup {k}
  /\ UNCHANGED <<registered, group, run, stopping>>

-----------------------------------------------------------------------------
(* The tunnel's task and its mirror. *)

\* run_tunnel: the mirror subscribes to the slot, whose present value counts as
\* seen, and the accept loop is spawned.
RunBegin(k) ==
  /\ runPc[k] = "begin"
  /\ Goto(k, "loop")
  /\ mirror' = [mirror EXCEPT ![k] = TRUE]
  /\ unseen' = [unseen EXCEPT ![k] = FALSE]
  /\ UNCHANGED <<registry, group, idOf, groupOf, status, shutdown, stopStarted, failed, stopping>>

\* The accept loop ends because of stop.
AcceptStops(k) ==
  /\ runPc[k] = "loop"
  /\ shutdown[k]
  /\ Goto(k, "drain")
  /\ UNCHANGED <<registry, group, idOf, groupOf, status, shutdown, stopStarted, failed, mirror,
                 unseen, stopping>>

\* accept() fails: the loop ends with an error.
AcceptFails(k) ==
  /\ runPc[k] = "loop"
  /\ Goto(k, "drain")
  /\ failed' = [failed EXCEPT ![k] = TRUE]
  /\ UNCHANGED <<registry, group, idOf, groupOf, status, shutdown, stopStarted, mirror, unseen,
                 stopping>>

\* The relays are joined: shutdown is sent for the mirror, which is aborted.
Joined(k) ==
  /\ runPc[k] = "drain"
  /\ Goto(k, "joined")
  /\ shutdown' = [shutdown EXCEPT ![k] = TRUE]
  /\ mirror' = [mirror EXCEPT ![k] = FALSE]
  /\ unseen' = [unseen EXCEPT ![k] = FALSE]
  /\ UNCHANGED <<registry, group, idOf, groupOf, status, stopStarted, failed, stopping>>

\* Mutant: a task that failed returns without sending stopped.
SignalOnSuccess(k) ==
  /\ runPc[k] = "joined"
  /\ ~failed[k]
  /\ Goto(k, "signalled")
  /\ UNCHANGED <<registry, group, idOf, groupOf, status, shutdown, stopStarted, failed, mirror,
                 unseen, stopping>>

\* The task records a fatal error unless it is being stopped, then sends stopped;
\* its local result is not used again.
Signal(k) ==
  /\ runPc[k] = "joined"
  /\ Goto(k, "signalled")
  /\ status' = IF failed[k] /\ ~stopStarted[k] THEN [status EXCEPT ![k] = "Failed"] ELSE status
  /\ failed' = [failed EXCEPT ![k] = FALSE]
  /\ UNCHANGED <<registry, group, idOf, groupOf, shutdown, stopStarted, mirror, unseen, stopping>>

\* Mutant: the lease is not given back when the run failed.
ReleaseUnlessFailed(k) ==
  /\ runPc[k] = "signalled"
  /\ Goto(k, "released")
  /\ LET g == groupOf[k]
         last == leases[g] = 1
     IN IF status[k] = "Failed"
          THEN UNCHANGED <<leases, registered, groupShutdown>>
          ELSE /\ leases' = [leases EXCEPT ![g] = @ - 1]
               /\ registered' = IF last THEN 0 ELSE registered
               /\ groupShutdown' = [groupShutdown EXCEPT ![g] = @ \/ last]
  /\ UNCHANGED <<tunnels, inserted, groupStatus, sup, connects, idOf,
                 groupOf, status, shutdown, stopStarted, failed, mirror, unseen, stopping>>

\* Mutant: the last lease leaves the group in the registry.
ReleaseKeepsGroup(k) ==
  /\ runPc[k] = "signalled"
  /\ Goto(k, "released")
  /\ LET g == groupOf[k]
     IN /\ leases' = [leases EXCEPT ![g] = @ - 1]
        /\ groupShutdown' = [groupShutdown EXCEPT ![g] = @ \/ leases[g] = 1]
  /\ UNCHANGED <<registry, groupStatus, sup, connects, idOf,
                 groupOf, status, shutdown, stopStarted, failed, mirror, unseen, stopping>>

\* release_group: the last lease takes the group out of the registry and shuts
\* its supervisor down.
Release(k) ==
  /\ runPc[k] = "signalled"
  /\ Goto(k, "released")
  /\ LET g == groupOf[k]
         last == leases[g] = 1
     IN /\ leases' = [leases EXCEPT ![g] = @ - 1]
        /\ registered' = IF last THEN 0 ELSE registered
        /\ groupShutdown' = [groupShutdown EXCEPT ![g] = @ \/ last]
  /\ UNCHANGED <<tunnels, inserted, groupStatus, sup, connects, idOf,
                 groupOf, status, shutdown, stopStarted, failed, mirror, unseen, stopping>>

\* The mirror wakes for a change of the slot and copies the group's status.
Mirror(k) ==
  /\ mirror[k]
  /\ unseen[k]
  /\ unseen' = [unseen EXCEPT ![k] = FALSE]
  /\ LET s == groupStatus[groupOf[k]]
     IN status' = CASE s = "Listening" /\ status[k] \in {"Starting", "Reconnecting"}
                                             -> [status EXCEPT ![k] = "Listening"]
                    [] s \in {"Reconnecting", "Failed"} -> [status EXCEPT ![k] = s]
                    [] OTHER -> status
  /\ UNCHANGED <<registry, group, runPc, idOf, groupOf, shutdown, stopStarted, failed, mirror,
                 stopping>>

\* It ends when shutdown changes.
MirrorEnds(k) ==
  /\ mirror[k]
  /\ shutdown[k]
  /\ mirror' = [mirror EXCEPT ![k] = FALSE]
  /\ unseen' = [unseen EXCEPT ![k] = FALSE]
  /\ UNCHANGED <<registry, group, runPc, idOf, groupOf, status, shutdown, stopStarted, failed,
                 stopping>>

-----------------------------------------------------------------------------
(* The group's supervisor: supervise_conn. *)

\* slot.send: the receivers of the group, here the mirrors, have an unseen value.
SlotSend(g) == unseen' = [k \in Runs |-> unseen[k] \/ (mirror[k] /\ groupOf[k] = g)]

SupGoto(g, l) == sup' = [sup EXCEPT ![g] = l]

\* The head of the loop looks at shutdown, then connects; connect() is not
\* interrupted.
SupHead(g) ==
  /\ sup[g] = "head"
  /\ SupGoto(g, IF groupShutdown[g] THEN "exit" ELSE "connecting")
  /\ UNCHANGED <<registry, leases, groupShutdown, groupStatus, connects, run, stopping>>

\* Connected: the status first, then the slot.
SupConnected(g) ==
  /\ sup[g] = "connecting"
  /\ connects < MaxConnects
  /\ connects' = connects + 1
  /\ groupStatus' = [groupStatus EXCEPT ![g] = "Listening"]
  /\ SlotSend(g)
  /\ SupGoto(g, "live")
  /\ UNCHANGED <<registry, leases, groupShutdown, runPc, idOf, groupOf, status, shutdown,
                 stopStarted, failed, mirror, stopping>>

\* A retryable error backs off; any other ends the supervisor with Failed, and
\* the slot is left as it is.
SupConnectFails(g) ==
  /\ sup[g] = "connecting"
  /\ \/ SupGoto(g, "backoff") /\ UNCHANGED groupStatus
     \/ SupGoto(g, "exit") /\ groupStatus' = [groupStatus EXCEPT ![g] = "Failed"]
  /\ UNCHANGED <<registry, leases, groupShutdown, connects, run,
                 stopping>>

SupBackoff(g) ==
  /\ sup[g] = "backoff"
  /\ SupGoto(g, IF groupShutdown[g] THEN "exit" ELSE "head")
  /\ UNCHANGED <<registry, leases, groupShutdown, groupStatus, connects, run, stopping>>

\* Mutant: the loss is not sent through the slot.
SupLostKeepsSlot(g) ==
  /\ sup[g] = "live"
  /\ groupStatus' = [groupStatus EXCEPT ![g] = "Reconnecting"]
  /\ SupGoto(g, "head")
  /\ UNCHANGED <<registry, leases, groupShutdown, connects, run, stopping>>

\* The liveness poll finds the connection closed, or a relay that could not open
\* its channel, on this connection or on an older one, has called notify_one.
SupLost(g) ==
  /\ sup[g] = "live"
  /\ groupStatus' = [groupStatus EXCEPT ![g] = "Reconnecting"]
  /\ SlotSend(g)
  /\ SupGoto(g, "head")
  /\ UNCHANGED <<registry, leases, groupShutdown, connects, runPc, idOf, groupOf, status,
                 shutdown, stopStarted, failed, mirror, stopping>>

\* Mutant: a live supervisor no longer listens for shutdown.
SupShutdownMissing(g) == FALSE /\ UNCHANGED vars

SupShutdown(g) ==
  /\ sup[g] = "live"
  /\ groupShutdown[g]
  /\ SupGoto(g, "exit")
  /\ UNCHANGED <<registry, leases, groupShutdown, groupStatus, connects, run,
                 stopping>>

-----------------------------------------------------------------------------
(* stop *)

\* stop finds the entry; the first call sends shutdown; each waits for stopped.
Stop(p, i) ==
  /\ stopping[p] = 0
  /\ tunnels[i] # 0
  /\ LET k == tunnels[i]
     IN /\ stopping' = [stopping EXCEPT ![p] = k]
        /\ stopStarted' = [stopStarted EXCEPT ![k] = TRUE]
        /\ shutdown' = [shutdown EXCEPT ![k] = TRUE]
  /\ UNCHANGED <<registry, group, runPc, idOf, groupOf, status, failed, mirror, unseen>>

\* stopped has been sent (the deadline of stop, there for a task that panics, is
\* not modelled): the entry is Stopped and the id leaves the table.
StopReturns(p) ==
  /\ stopping[p] # 0
  /\ runPc[stopping[p]] \in {"signalled", "released"}
  /\ status' = [status EXCEPT ![stopping[p]] = "Stopped"]
  /\ tunnels' = [tunnels EXCEPT ![idOf[stopping[p]]] = 0]
  /\ stopping' = [stopping EXCEPT ![p] = 0]
  /\ UNCHANGED <<inserted, registered, group, runPc, idOf, groupOf, shutdown, stopStarted, failed,
                 mirror, unseen>>

-----------------------------------------------------------------------------
StartStep(k) == StartCheck(k) \/ StartBindFails(k) \/ StartSpawn(k) \/ StartInsert(k)
RunStep(k) == RunBegin(k) \/ AcceptStops(k) \/ Joined(k) \/ Signal(k) \/ Release(k)
MirrorStep(k) == Mirror(k) \/ MirrorEnds(k)
SupStep(g) == \/ SupHead(g) \/ SupConnected(g) \/ SupConnectFails(g) \/ SupBackoff(g)
              \/ SupShutdown(g)

Next == \/ \E k \in Runs : StartStep(k) \/ RunStep(k) \/ AcceptFails(k) \/ MirrorStep(k)
        \/ \E g \in Groups : SupStep(g) \/ SupLost(g)
        \/ \E p \in Stoppers : StopReturns(p) \/ \E i \in Ids : Stop(p, i)

Spec == Init /\ [][Next]_vars

\* Spawned tasks are polled when they are ready, connect() ends one way or the
\* other, and a start or stop under way goes on.  Nobody has to call start or
\* stop, and neither accept() nor the connection has to fail.
Fairness == /\ \A k \in Runs : WF_vars(RunStep(k))
            /\ \A g \in Groups : WF_vars(SupStep(g))
            /\ \A p \in Stoppers : WF_vars(StopReturns(p))

FairSpec == Spec /\ Fairness

-----------------------------------------------------------------------------
Statuses == {"Starting", "Listening", "Reconnecting", "Stopped", "Failed"}

\* Every variable has its type.
TypeOK ==
  /\ tunnels \in [Ids -> 0..MaxRuns]
  /\ inserted \subseteq Runs
  /\ registered \in 0..MaxRuns
  /\ leases \in [Groups -> 0..MaxRuns]
  /\ groupStatus \in [Groups -> Statuses]
  /\ sup \in [Groups -> {"none", "head", "connecting", "live", "backoff", "exit"}]
  /\ groupShutdown \in [Groups -> BOOLEAN]
  /\ connects \in 0..MaxConnects
  /\ runPc \in [Runs -> {"none", "checked", "begin", "loop", "drain", "joined", "signalled",
                         "released"}]
  /\ idOf \in [Runs -> Ids]
  /\ groupOf \in [Runs -> 0..MaxRuns]
  /\ status \in [Runs -> Statuses]
  /\ {shutdown, stopStarted, failed, mirror, unseen} \subseteq [Runs -> BOOLEAN]
  /\ stopping \in [Stoppers -> 0..MaxRuns]

Lessees(g) == {k \in Runs : groupOf[k] = g
                            /\ runPc[k] \in {"begin", "loop", "drain", "joined", "signalled"}}

\* acquire_group and release_group are linear: the leases of a group are the
\* tasks that still need it, the registry holds the group exactly while there
\* are any, and only then is its supervisor not told to stop.
LeasesAreTasks ==
  \A g \in Groups :
    /\ leases[g] = Cardinality(Lessees(g))
    /\ leases[g] > 0 <=> registered = g
    /\ sup[g] # "none" => (groupShutdown[g] <=> leases[g] = 0)

\* "Tunnels of one group share one transport": a tunnel that is up never runs on
\* a group whose supervisor has gone away, unless it gave up for good.
SupervisorOutlivesTunnels ==
  \A k \in Runs : runPc[k] = "loop" =>
     /\ groupOf[k] = registered
     /\ sup[groupOf[k]] = "exit" => groupStatus[groupOf[k]] = "Failed"

\* The mirror never leaves a stale "Listening": a tunnel shown as listening,
\* with nothing on its way to the mirror, has a group that is connected.
ListeningIsConnected ==
  \A k \in Runs : status[k] = "Listening" /\ mirror[k] /\ ~unseen[k]
                     => groupStatus[groupOf[k]] = "Listening"

\* stop "must not hang": each call returns without its deadline, also when the
\* task has failed by itself, before or after the call.
StopsReturn == \A p \in Stoppers : stopping[p] # 0 ~> stopping[p] = 0

\* The last tunnel takes the supervisor and the shared transport with it: a
\* supervisor that has been told to stop ends, wherever it was.  (Neither is ever
\* undone, so this is "told leads to ended" for each group.)
SupervisorsEnd == <>[](\A g \in Groups : groupShutdown[g] => sup[g] = "exit")

\* Both: what is told to stop stops.
ShutdownCompletes == StopsReturn /\ SupervisorsEnd
=============================================================================
