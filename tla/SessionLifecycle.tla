-------------------------- MODULE SessionLifecycle --------------------------
(***************************************************************************)
(* What follows a change of a stored session: the commands that write the  *)
(* store (crates/app/src/sessions.rs, tunnels.rs, core-store), the events  *)
(* they publish and the tasks that consume them (lifecycle.rs), and the    *)
(* two kinds of thing that live on a session's configuration: pooled       *)
(* connections (sftp.rs and exec.rs, one pool here) and running tunnels.   *)
(*                                                                         *)
(* The configuration of a session is the number of its last version; a     *)
(* connection or a tunnel remembers the version it was resolved from.      *)
(***************************************************************************)
EXTENDS Naturals, Sequences, FiniteSets

CONSTANTS
  Sessions, Tunnels, Commands,
  Owner,              \* the session of each tunnel
  AdHoc,              \* tunnels started by tunnel_start: they have no definition
  Capacity,           \* the events a consumer may be behind (64 in the code)
  MaxVersion, MaxOps  \* bounds: versions of a session, commands in all

None == 0
Building == MaxVersion + 1
Consumers == {"tunnels", "pool"}

VARIABLES
  row,                \* the sessions table: the version of each, None if there is none
  next,               \* the version the next write gives
  grouped,            \* sessions whose group_path is inside the group being deleted
  defs,               \* the tunnels table: the tunnels that have a definition
  run,                \* running tunnels: the version of the session each was started with
  pool,               \* pooled connections: None, Building, or the version each was built from
  queue,              \* broadcast receivers: the events not yet received
  work,               \* the tunnel consumer: the event it handles and what is left of it
  cmd, ops,           \* commands in progress
  silent,             \* history: <<session, why>>, changes no event tells of
  late,               \* history: tunnels started with a version that was no longer current
  passed              \* history: tunnels that had no definition when theirs were restarted

store == <<row, next, grouped, defs>>
events == <<queue, work>>
vars == <<store, run, pool, events, cmd, ops, silent, late, passed>>

NoWork == [kind |-> "none", todo |-> {}, tun |-> "none", ver |-> None]
NoCmd == [kind |-> "none", pc |-> "none", ids |-> {}, tun |-> "none", ver |-> None]

Init ==
  /\ row = [s \in Sessions |-> 1] /\ next = 2 /\ grouped \in SUBSET Sessions
  /\ defs \in SUBSET (Tunnels \ AdHoc)
  /\ run = [t \in Tunnels |-> None] /\ pool = [s \in Sessions |-> None]
  /\ queue = [c \in Consumers |-> <<>>] /\ work = NoWork
  /\ cmd = [c \in Commands |-> NoCmd] /\ ops = 0
  /\ silent = {} /\ late = {} /\ passed = {}

(***************************************************************************)
(* Events.                                                                 *)
(***************************************************************************)
Event(kind, ids) == [kind |-> kind, ids |-> ids]
Pushed(q, e) == IF Len(q) = Capacity THEN Append(Tail(q), e) ELSE Append(q, e)
\* What a consumer that is too far behind loses.
Lagged == {c \in Consumers : Len(queue[c]) = Capacity /\ Head(queue[c]).kind # "Deleting"}
Lost == UNION {Head(queue[c]).ids : c \in Lagged}

\* SessionEvents::publish: every receiver gets the event; one that is full loses
\* its oldest (Lagged).  An event makes up for the changes of its sessions that
\* none told of, but the change of a session that is gone by then not for its deletion.
MakesUp(kind, s) == kind = "Deleted" \/ (kind = "Upserted" /\ row[s] # None)
Publish(kind, ids) ==
  /\ queue' = [c \in Consumers |-> Pushed(queue[c], Event(kind, ids))]
  /\ silent' = {x \in silent \cup (Lost \X {"lag"}) : x[1] \notin ids \/ ~MakesUp(kind, x[1])}

(***************************************************************************)
(* Commands.                                                               *)
(***************************************************************************)
Begin(c, new) ==
  /\ cmd[c] = NoCmd /\ ops < MaxOps /\ ops' = ops + 1
  /\ cmd' = [cmd EXCEPT ![c] = new]
  /\ UNCHANGED <<store, run, pool, events, silent, late, passed>>
Step(c, pc) == cmd' = [cmd EXCEPT ![c].pc = pc]
End(c) == cmd' = [cmd EXCEPT ![c] = NoCmd]
At(c, kind, pc) == cmd[c].kind = kind /\ cmd[c].pc = pc

\* session_upsert: the row, the audit row (an error ends the command), the event.
UpsertBegin(c, s) == Begin(c, [NoCmd EXCEPT !.kind = "upsert", !.pc = "write", !.ids = {s}])
UpsertWrite(c) ==
  /\ At(c, "upsert", "write") /\ next <= MaxVersion
  /\ row' = [s \in Sessions |-> IF s \in cmd[c].ids THEN next ELSE row[s]] /\ next' = next + 1
  /\ \/ Step(c, "publish") /\ UNCHANGED silent
     \/ End(c) /\ silent' = silent \cup (cmd[c].ids \X {"audit"})
  /\ UNCHANGED <<grouped, defs, run, pool, events, ops, late, passed>>
UpsertPublish(c) ==
  /\ At(c, "upsert", "publish")
  /\ Publish("Upserted", cmd[c].ids) /\ End(c)
  /\ UNCHANGED <<store, run, pool, work, ops, late, passed>>

\* session_delete and group_delete with its sessions: the event before, the rows
\* with what the foreign keys cascade to, the event after.  A group's sessions
\* are read before; its deletion takes those that are in it then.
DeleteBegin(c, s) == Begin(c, [NoCmd EXCEPT !.kind = "delete", !.pc = "deleting", !.ids = {s}])
GroupDeleteBegin(c) ==
  Begin(c, [NoCmd EXCEPT !.kind = "group", !.pc = "deleting", !.ids = {s \in grouped : row[s] # None}])
Deleting(c) ==
  /\ cmd[c].pc = "deleting" /\ Step(c, "rows")
  /\ IF cmd[c].ids = {} THEN UNCHANGED <<queue, silent>> ELSE Publish("Deleting", cmd[c].ids)
  /\ UNCHANGED <<store, run, pool, work, ops, late, passed>>
DeleteRows(c) ==
  LET gone == {s \in Sessions : row[s] # None /\ s \in IF cmd[c].kind = "group" THEN grouped ELSE cmd[c].ids}
  IN  /\ cmd[c].pc = "rows"
      /\ row' = [s \in Sessions |-> IF s \in gone THEN None ELSE row[s]]
      /\ defs' = {t \in defs : Owner[t] \notin gone}
      /\ silent' = silent \cup ((gone \ cmd[c].ids) \X {"group"})
      /\ IF cmd[c].kind = "delete" /\ gone = {} THEN End(c) ELSE Step(c, "deleted")
      /\ UNCHANGED <<next, grouped, run, pool, events, ops, late, passed>>
Deleted(c) ==
  /\ cmd[c].pc = "deleted" /\ End(c)
  /\ IF cmd[c].ids = {} THEN UNCHANGED <<queue, silent>> ELSE Publish("Deleted", cmd[c].ids)
  /\ UNCHANGED <<store, run, pool, work, ops, late, passed>>

\* session_move, and group_delete that keeps the sessions.
Move(c, s) ==
  /\ cmd[c] = NoCmd /\ ops < MaxOps /\ ops' = ops + 1
  /\ row[s] # None /\ grouped' = IF s \in grouped THEN grouped \ {s} ELSE grouped \cup {s}
  /\ UNCHANGED <<row, next, defs, run, pool, events, cmd, silent, late, passed>>

\* config_import of a session, or of a tunnel of a session that is there: it is
\* checked against the store first, and then written in one transaction.
ImportBegin(c, s, t) ==
  /\ t = "none" \/ (t \in Tunnels \ AdHoc /\ Owner[t] = s /\ row[s] # None)
  /\ Begin(c, [NoCmd EXCEPT !.kind = "import", !.pc = "write", !.ids = {s}, !.tun = t])
ImportWrite(c) ==
  /\ At(c, "import", "write") /\ End(c)
  /\ IF cmd[c].tun = "none"
     THEN /\ next <= MaxVersion /\ next' = next + 1 /\ silent' = silent \cup (cmd[c].ids \X {"import"})
          /\ row' = [s \in Sessions |-> IF s \in cmd[c].ids THEN next ELSE row[s]]
          /\ UNCHANGED defs
     ELSE /\ defs' = IF row[Owner[cmd[c].tun]] = None THEN defs ELSE defs \cup {cmd[c].tun}
          /\ UNCHANGED <<row, next, silent>>
  /\ UNCHANGED <<grouped, run, pool, events, ops, late, passed>>

\* TunnelManager::stop, which is no error for a tunnel that does not run.
Stopped(t) == run' = [run EXCEPT ![t] = None] /\ late' = late \ {t} /\ passed' = passed \ {t}

\* tunnel_save (its foreign key wants the session) and tunnel_delete.
TunnelSave(c, t) ==
  /\ cmd[c] = NoCmd /\ ops < MaxOps /\ ops' = ops + 1
  /\ t \notin AdHoc /\ row[Owner[t]] # None /\ defs' = defs \cup {t}
  /\ cmd' = [cmd EXCEPT ![c] = [NoCmd EXCEPT !.kind = "start", !.pc = "check", !.tun = t]]
  /\ UNCHANGED <<row, next, grouped, run, pool, events, silent, late, passed>>
TunnelDelete(c, t) ==
  /\ cmd[c] = NoCmd /\ ops < MaxOps /\ ops' = ops + 1
  /\ t \notin AdHoc /\ Stopped(t)
  /\ cmd' = [cmd EXCEPT ![c] = [NoCmd EXCEPT !.kind = "drop", !.pc = "row", !.tun = t]]
  /\ UNCHANGED <<store, pool, events, silent>>
TunnelDeleteRow(c) ==
  /\ At(c, "drop", "row") /\ defs' = defs \ {cmd[c].tun} /\ End(c)
  /\ UNCHANGED <<row, next, grouped, run, pool, events, ops, silent, late, passed>>

\* tunnel_start, and start_session_tunnels and autostart_tunnels for a definition.
TunnelStart(c, t) ==
  /\ t \in AdHoc \cup defs
  /\ Begin(c, [NoCmd EXCEPT !.kind = "start", !.pc = "check", !.tun = t])

\* start_tunnel: a tunnel that runs is left alone; the session must be there, and
\* its configuration gives the group.
CheckStart(c) ==
  LET t == cmd[c].tun
  IN  /\ At(c, "start", "check")
      /\ IF run[t] # None \/ row[Owner[t]] = None THEN End(c)
         ELSE cmd' = [cmd EXCEPT ![c].pc = "start", ![c].ver = row[Owner[t]]]
      /\ UNCHANGED <<store, run, pool, events, ops, silent, late, passed>>
\* TunnelManager::start refuses an id that is there.
Started(t, v) ==
  /\ run' = IF run[t] = None THEN [run EXCEPT ![t] = v] ELSE run
  /\ late' = IF run[t] = None /\ v # row[Owner[t]] THEN late \cup {t} ELSE late
ManagerStart(c) ==
  /\ At(c, "start", "start")
  /\ Started(cmd[c].tun, cmd[c].ver) /\ End(c)
  /\ UNCHANGED <<store, pool, events, ops, silent, passed>>

\* tunnel_stop and stop_session_tunnels.
TunnelStop(t) ==
  /\ run[t] # None /\ Stopped(t)
  /\ UNCHANGED <<store, pool, events, cmd, ops, silent>>

(***************************************************************************)
(* The pool: ensure_ctx puts a slot in the map and then resolves and       *)
(* connects; what fails stays out.                                         *)
(***************************************************************************)
EnsureCtx(s) ==
  /\ pool[s] = None /\ row[s] # None /\ pool' = [pool EXCEPT ![s] = Building]
  /\ UNCHANGED <<store, run, events, cmd, ops, silent, late, passed>>
BuildCtx(s) ==
  /\ pool[s] = Building /\ pool' = [pool EXCEPT ![s] = row[s]]
  /\ UNCHANGED <<store, run, events, cmd, ops, silent, late, passed>>

(***************************************************************************)
(* The consumers.                                                          *)
(***************************************************************************)
\* Mutant: the pool keeps the connections of a session that changes.
PoolKeepsChanged ==
  /\ queue["pool"] # <<>>
  /\ LET e == Head(queue["pool"])
     IN  pool' = [s \in Sessions |-> IF s \in e.ids /\ e.kind = "Deleted" THEN None ELSE pool[s]]
  /\ queue' = [queue EXCEPT !["pool"] = Tail(@)]
  /\ UNCHANGED <<store, run, work, cmd, ops, silent, late, passed>>
\* Mutant: the consumer does not get past an event it has no use for.
PoolConsumeStuck ==
  /\ queue["pool"] # <<>> /\ Head(queue["pool"]).kind # "Deleting"
  /\ pool' = [s \in Sessions |-> IF s \in Head(queue["pool"]).ids THEN None ELSE pool[s]]
  /\ queue' = [queue EXCEPT !["pool"] = Tail(@)]
  /\ UNCHANGED <<store, run, work, cmd, ops, silent, late, passed>>
\* drop_ctx for a session that changed or is gone.
PoolConsume ==
  /\ queue["pool"] # <<>>
  /\ LET e == Head(queue["pool"])
     IN  pool' = [s \in Sessions |-> IF s \in e.ids /\ e.kind # "Deleting" THEN None ELSE pool[s]]
  /\ queue' = [queue EXCEPT !["pool"] = Tail(@)]
  /\ UNCHANGED <<store, run, work, cmd, ops, silent, late, passed>>

Running(ids) == {t \in Tunnels : run[t] # None /\ Owner[t] \in ids}

\* Mutant: a change restarts no tunnel.
TunnelsReceiveDeletions ==
  /\ work = NoWork /\ queue["tunnels"] # <<>>
  /\ LET e == Head(queue["tunnels"])
     IN  work' = [NoWork EXCEPT !.kind = e.kind, !.todo = IF e.kind = "Upserted" THEN {} ELSE Running(e.ids)]
  /\ queue' = [queue EXCEPT !["tunnels"] = Tail(@)]
  /\ UNCHANGED <<store, run, pool, cmd, ops, silent, late, passed>>
\* An event about the tunnels of a session: a change restarts those that run and
\* have a definition, a deletion stops all that run.
TunnelsReceive ==
  /\ work = NoWork /\ queue["tunnels"] # <<>>
  /\ LET e == Head(queue["tunnels"])
     IN  work' = [NoWork EXCEPT !.kind = e.kind,
                   !.todo = IF e.kind = "Upserted" THEN Running(e.ids) \cap defs ELSE Running(e.ids)]
  /\ LET e == Head(queue["tunnels"])
     IN  passed' = IF e.kind = "Upserted" THEN passed \cup (Running(e.ids) \ defs) ELSE passed
  /\ queue' = [queue EXCEPT !["tunnels"] = Tail(@)]
  /\ UNCHANGED <<store, run, pool, cmd, ops, silent, late>>
WorkStop(t) ==
  /\ t \in work.todo /\ work.tun = "none"
  /\ Stopped(t)
  /\ work' = IF work.kind = "Upserted" THEN [work EXCEPT !.tun = t] ELSE [work EXCEPT !.todo = @ \ {t}]
  /\ UNCHANGED <<store, pool, queue, cmd, ops, silent>>
WorkCheck ==
  /\ work.tun # "none" /\ work.ver = None
  /\ LET t == work.tun
     IN  work' = IF run[t] # None \/ row[Owner[t]] = None
                 THEN [work EXCEPT !.tun = "none", !.todo = @ \ {t}]
                 ELSE [work EXCEPT !.ver = row[Owner[t]]]
  /\ UNCHANGED <<store, run, pool, queue, cmd, ops, silent, late, passed>>
WorkStart ==
  /\ work.ver # None
  /\ Started(work.tun, work.ver)
  /\ work' = [work EXCEPT !.tun = "none", !.ver = None, !.todo = @ \ {work.tun}]
  /\ UNCHANGED <<store, pool, queue, cmd, ops, silent, passed>>
WorkDone ==
  /\ work.kind # "none" /\ work.todo = {} /\ work' = NoWork
  /\ UNCHANGED <<store, run, pool, queue, cmd, ops, silent, late, passed>>

Consume ==
  \/ PoolConsume \/ TunnelsReceive \/ WorkCheck \/ WorkStart \/ WorkDone
  \/ \E t \in Tunnels : WorkStop(t)
Continue(c) ==
  \/ UpsertWrite(c) \/ UpsertPublish(c) \/ Deleting(c) \/ DeleteRows(c) \/ Deleted(c)
  \/ ImportWrite(c) \/ TunnelDeleteRow(c) \/ CheckStart(c) \/ ManagerStart(c)

Next ==
  \/ Consume
  \/ \E c \in Commands :
        \/ Continue(c) \/ GroupDeleteBegin(c)
        \/ \E s \in Sessions :
              \/ UpsertBegin(c, s) \/ DeleteBegin(c, s) \/ Move(c, s)
              \/ \E t \in Tunnels \cup {"none"} : ImportBegin(c, s, t)
        \/ \E t \in Tunnels : TunnelStart(c, t) \/ TunnelSave(c, t) \/ TunnelDelete(c, t)
  \/ \E t \in Tunnels : TunnelStop(t)
  \/ \E s \in Sessions : EnsureCtx(s) \/ BuildCtx(s)

Spec == Init /\ [][Next]_vars
\* The runtime polls the consumers, and a command that was begun.
Progress == Consume \/ \E c \in Commands : Continue(c)
FairSpec == Spec /\ WF_vars(Progress)

(***************************************************************************)
(* Properties.                                                             *)
(***************************************************************************)
\* Types; a definition has its session (the foreign key and its cascade).
LifecycleTypeOK ==
  /\ \A s \in Sessions : row[s] \in 0..MaxVersion /\ pool[s] \in 0..Building
  /\ \A t \in Tunnels : run[t] \in 0..MaxVersion
  /\ \A t \in defs : t \notin AdHoc /\ row[Owner[t]] # None
  /\ \A c \in Consumers : Len(queue[c]) <= Capacity

\* An event about s is on its way to the consumer, or will be published.
Pending(consumer, s) ==
  \/ \E i \in DOMAIN queue[consumer] : queue[consumer][i].kind # "Deleting" /\ s \in queue[consumer][i].ids
  \/ \E c \in Commands : s \in cmd[c].ids /\ cmd[c].pc \in {"publish", "deleted"}
Silent(s) == \E x \in silent : x[1] = s
StaleConnection(s) == pool[s] \notin {None, Building, row[s]}
\* A tunnel that a restart found without a definition is only stopped with its session.
StaleTunnel(t) ==
  /\ run[t] \notin {None, row[Owner[t]]} /\ t \notin late
  /\ row[Owner[t]] = None \/ t \notin passed

\* A pooled connection that was built from a configuration the store no longer
\* has is about to be dropped, unless the change was one of those that publish
\* no event: an import, an audit failure, a session moved into a group that is
\* being deleted, a lagging consumer.
ConnectionsFollow == \A s \in Sessions : StaleConnection(s) => Silent(s) \/ Pending("pool", s)

\* The same for the tunnels that run, which are also stale where a start that
\* had read the session before the change completed after it.
TunnelsFollow ==
  \A t \in Tunnels : StaleTunnel(t) =>
     Silent(Owner[t]) \/ Pending("tunnels", Owner[t]) \/ t \in work.todo

CaughtUp ==
  /\ \A s \in Sessions : StaleConnection(s) => Silent(s)
  /\ \A t \in Tunnels : StaleTunnel(t) => Silent(Owner[t])
\* Nothing stays stale that an event tells of: the consumers catch up.
ChangesFollowed == []<>CaughtUp
=============================================================================
