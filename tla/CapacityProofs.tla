-------------------------- MODULE CapacityProofs ----------------------------
(***************************************************************************)
(* What is shared by a limit: the permits and the servers of MCP; the      *)
(* buffer of an agent's terminal; and a budget, which is a semaphore, for  *)
(* every cap and any number of callers.                                    *)
(***************************************************************************)
EXTENDS Budget, Agents, FiniteSetTheorems, TLAPS

(***************************************************************************)
(* The MCP server.                                                         *)
(***************************************************************************)

\* Where a restart and a request are, and what they hold.
RestartPcs == {"idle", "stop", "close_all", "signal", "grace", "read", "bind", "install", "done"}
ReqPcs == {"idle", "call", "ssh_exec", "terminal_open", "terminal_close", "sftp_write", "permit", "run", "audit", "wait", "answered"}
Answers == {"none", "done", "refused", "unresolved", "failed", "ok", "gone"}
RestartRec == [pc : RestartPcs, cfg : Mcp!Configs, old : {Mcp!None} \cup Mcp!Restarts, again : BOOLEAN]
ReqRec == [tool : Mcp!Tools \cup {"none"}, pc : ReqPcs, srv : {Mcp!None} \cup Mcp!Restarts, term : {Mcp!None} \cup Mcp!Reqs, ans : Answers]

\* Types of the manager and its servers.
ManagerTyped ==
  /\ settings \in Mcp!Configs /\ inner \in {Mcp!None} \cup Mcp!Restarts /\ rs \in [Mcp!Restarts -> RestartRec]
  /\ srv \in [Mcp!Restarts -> {"none", "serving", "draining", "down"}]
  /\ tx \in [Mcp!Restarts -> {"none", "held", "sent", "dropped"}]
  /\ cfg \in [Mcp!Restarts -> Mcp!Configs]
\* Its part of the inductive invariant.
ManagerInv == ManagerTyped /\ Mcp!ServersOwned

\* What is on record of a request, by where it is.
ReqInv(q) ==
  /\ req[q] \in ReqRec
  /\ audit[q] = <<>> \/ \E a \in Answers : audit[q] = <<a>>
  /\ req[q].pc \notin {"wait", "answered"} => audit[q] = <<>>
  /\ req[q].pc \in {"idle", "call"} => req[q].tool = "none"
  /\ req[q].pc \in {"ssh_exec", "permit", "run"} => req[q].tool = "ssh_exec"
  /\ req[q].pc \in {"terminal_open", "terminal_close", "sftp_write"} => req[q].tool = req[q].pc
  /\ req[q].pc = "audit" => req[q].tool = "ssh_exec" \/ (req[q].tool # "none" /\ req[q].ans = "ok")
  /\ req[q].pc = "wait" => req[q].tool = "sftp_write" /\ req[q].ans = "ok" /\ audit[q] = <<"ok">>
  /\ req[q].pc = "answered" =>
       /\ req[q].tool = "ssh_exec" /\ req[q].ans \notin {"unresolved", "gone"} => audit[q] = <<req[q].ans>>
       /\ req[q].tool # "ssh_exec" /\ req[q].ans = "ok" => audit[q] = <<"ok">>

\* The permits are those of the requests that run.
Held == {q \in Mcp!Reqs : req[q].pc = "run"}
\* The part of the requests.
CallsInv ==
  /\ req \in [Mcp!Reqs -> ReqRec] /\ audit \in [Mcp!Reqs -> Seq(Answers)]
  /\ \A q \in Mcp!Reqs : ReqInv(q)
  /\ terms \subseteq Mcp!Reqs /\ Cardinality(held) <= Permits /\ held = Held
\* The inductive invariant: the two parts do not depend on each other.
McpInv == ManagerInv /\ CallsInv

LEMMA PermitCount == \A S : Mcp!Cardinality(S) = Cardinality(S)
BY Zenon DEF Mcp!Cardinality, Cardinality

\* At first nothing is served.
LEMMA McpInitInv == McpConstants /\ Mcp!Init => McpInv
<1> SUFFICES ASSUME McpConstants, Mcp!Init PROVE McpInv
  BY Zenon
<1>1. Mcp!NoConfig \in Mcp!Configs
  BY Zenon DEF McpConstants, Mcp!NoConfig, Mcp!Configs
<1>2. Mcp!IdleRestart \in RestartRec
  BY <1>1, Zenon DEF Mcp!IdleRestart, RestartRec, RestartPcs
<1>3. Mcp!NoReq \in ReqRec /\ Mcp!NoReq.pc = "idle" /\ Mcp!NoReq.tool = "none"
  BY Zenon DEF Mcp!NoReq, ReqRec, ReqPcs, Answers
<1>4. ManagerTyped
  BY <1>1, <1>2, Zenon DEF Mcp!Init, ManagerTyped
<1>5. Mcp!ServersOwned
  BY Zenon DEF Mcp!Init, Mcp!ServersOwned, Mcp!Listening
<1>6. \A q \in Mcp!Reqs : ReqInv(q)
  BY <1>3, Zenon DEF Mcp!Init, ReqInv
<1>7. held = {} /\ Held = {} /\ terms = {}
  BY <1>3, Zenon DEF Mcp!Init, Held
<1>8. Cardinality(held) <= Permits
  BY <1>7, FS_EmptySet DEF McpConstants
<1>9. req \in [Mcp!Reqs -> ReqRec] /\ audit \in [Mcp!Reqs -> Seq(Answers)]
  BY <1>3 DEF Mcp!Init
<1> QED BY <1>4, <1>5, <1>6, <1>7, <1>8, <1>9 DEF McpInv, ManagerInv, CallsInv

\* Steps of the manager.
LEMMA ManagerStepInv ==
  ASSUME McpConstants, ManagerInv, NEW r \in Mcp!Restarts, Mcp!Restart(r) \/ Mcp!Boot(r) \/ Mcp!ManagerStep(r) \/ Mcp!Serve(r)
  PROVE  ManagerInv'
<1> USE DEF ManagerInv
<1>1. ManagerTyped /\ rs[r] \in RestartRec /\ r # Mcp!None
  BY DEF ManagerTyped, Mcp!Restarts, Mcp!None
<1>0. Mcp!NoConfig \in Mcp!Configs
  BY Zenon DEF McpConstants, Mcp!NoConfig, Mcp!Configs
<1>2. Mcp!Done \in RestartRec /\ Mcp!Done.pc = "done"
  BY <1>0, Zenon DEF Mcp!IdleRestart, RestartRec, RestartPcs, Mcp!Done
<1>3. CASE Mcp!Restart(r) \/ Mcp!Boot(r)
  <2>1. PICK step \in {"stop", "read"} : rs' = [rs EXCEPT ![r].pc = step]
    BY <1>3, Zenon DEF Mcp!Restart, Mcp!Boot
  <2>2. rs[r].pc = "idle" /\ UNCHANGED <<settings, inner, srv, tx, cfg>>
    BY <1>3, Zenon DEF Mcp!Restart, Mcp!Boot, Mcp!server
  <2>3. ManagerTyped'
    BY <1>1, <2>1, <2>2, Zenon DEF ManagerTyped, RestartRec, RestartPcs
  <2>4. Mcp!ServersOwned'
    BY <1>1, <2>1, <2>2 DEF ManagerTyped, Mcp!ServersOwned, Mcp!Listening, RestartRec
  <2> QED BY <2>3, <2>4, Zenon
<1>4. CASE Mcp!StopTake(r)
  <2>1. PICK step \in {"read", "bind", "close_all"} : rs' = [rs EXCEPT ![r].pc = step, ![r].old = inner] /\ (inner # Mcp!None => step = "close_all")
    BY <1>4, Zenon DEF Mcp!StopTake, Mcp!AfterStop
  <2>2. rs[r].pc = "stop" /\ inner' = Mcp!None /\ UNCHANGED <<settings, srv, tx, cfg>>
    BY <1>4, Zenon DEF Mcp!StopTake, Mcp!server
  <2>a. rs'[r].pc = step /\ rs'[r].old = inner /\ \A u \in Mcp!Restarts \ {r} : rs'[u] = rs[u]
    BY <1>1, <2>1, Zenon DEF ManagerTyped, RestartRec
  <2>3. ManagerTyped'
    BY <1>1, <2>1, <2>2, Zenon DEF ManagerTyped, RestartRec, RestartPcs
  <2>4. Mcp!ServersOwned'
    BY <1>1, <2>1, <2>2, <2>a DEF ManagerTyped, Mcp!ServersOwned, Mcp!Listening, Mcp!None, Mcp!Restarts
  <2> QED BY <2>3, <2>4, Zenon
<1>5. CASE Mcp!CloseAll(r)
  <2>2. rs[r].pc = "close_all" /\ rs' = [rs EXCEPT ![r].pc = "signal"] /\ UNCHANGED <<settings, inner, srv, tx, cfg>>
    BY <1>5, Zenon DEF Mcp!CloseAll, Mcp!server
  <2>a. rs'[r].pc = "signal" /\ rs'[r].old = rs[r].old /\ \A u \in Mcp!Restarts \ {r} : rs'[u] = rs[u]
    BY <1>1, <2>2, Zenon DEF ManagerTyped, RestartRec
  <2>3. ManagerTyped'
    BY <1>1, <2>2, Zenon DEF ManagerTyped, RestartRec, RestartPcs
  <2>4. Mcp!ServersOwned'
    BY <1>1, <2>2, <2>a DEF ManagerTyped, Mcp!ServersOwned, Mcp!Listening
  <2> QED BY <2>3, <2>4, Zenon
<1>6. CASE Mcp!Signal(r)
  <2>2. /\ rs[r].pc = "signal" /\ rs' = [rs EXCEPT ![r].pc = "grace"] /\ UNCHANGED <<settings, inner, srv, cfg>>
        /\ tx' = [tx EXCEPT ![rs[r].old] = "sent"]
    BY <1>6, Zenon DEF Mcp!Signal
  <2>a. rs'[r].pc = "grace" /\ rs'[r].old = rs[r].old /\ \A u \in Mcp!Restarts \ {r} : rs'[u] = rs[u]
    BY <1>1, <2>2, Zenon DEF ManagerTyped, RestartRec
  <2>3. ManagerTyped'
    BY <1>1, <2>2, Zenon DEF ManagerTyped, RestartRec, RestartPcs
  <2>4. Mcp!ServersOwned'
    BY <1>1, <2>2, <2>a DEF ManagerTyped, Mcp!ServersOwned, Mcp!Listening
  <2> QED BY <2>3, <2>4, Zenon
<1>7. CASE Mcp!StopWait(r)
  <2>1. PICK step \in {"read", "bind"} : rs' = [rs EXCEPT ![r].pc = step, ![r].old = Mcp!None]
    BY <1>7, Zenon DEF Mcp!StopWait, Mcp!AfterStop
  <2>2. rs[r].pc = "grace" /\ srv' = [srv EXCEPT ![rs[r].old] = "down"] /\ UNCHANGED <<settings, inner, tx, cfg>>
    BY <1>7, Zenon DEF Mcp!StopWait
  <2>a. rs'[r].pc = step /\ \A u \in Mcp!Restarts \ {r} : rs'[u] = rs[u]
    BY <1>1, <2>1, Zenon DEF ManagerTyped, RestartRec
  <2>3. ManagerTyped'
    BY <1>1, <2>1, <2>2, Zenon DEF ManagerTyped, RestartRec, RestartPcs
  <2>4. Mcp!ServersOwned'
    BY <1>1, <2>1, <2>2, <2>a DEF ManagerTyped, Mcp!ServersOwned, Mcp!Listening
  <2> QED BY <2>3, <2>4, Zenon
<1>8. CASE Mcp!ReadConfig(r)
  <2>1. PICK x \in RestartRec : rs' = [rs EXCEPT ![r] = x] /\ x.pc \in {"done", "stop"}
    <3>1. [rs[r] EXCEPT !.cfg = settings, !.again = TRUE, !.pc = "stop"] \in RestartRec
          /\ [rs[r] EXCEPT !.cfg = settings, !.again = TRUE, !.pc = "stop"].pc = "stop"
      BY <1>1, Zenon DEF ManagerTyped, RestartRec, RestartPcs
    <3>2. CASE rs' = [rs EXCEPT ![r] = Mcp!Done]
      BY <1>2, <3>2, Zenon
    <3>3. CASE rs' = [rs EXCEPT ![r] = [@ EXCEPT !.cfg = settings, !.again = TRUE, !.pc = "stop"]]
      BY <3>1, <3>3, Zenon
    <3> QED BY <1>8, <3>2, <3>3, Zenon DEF Mcp!ReadConfig
  <2>2. rs[r].pc = "read" /\ UNCHANGED <<settings, inner, srv, tx, cfg>>
    BY <1>8, Zenon DEF Mcp!ReadConfig, Mcp!server
  <2>3. ManagerTyped'
    BY <1>1, <2>1, <2>2, Zenon DEF ManagerTyped
  <2>4. Mcp!ServersOwned'
    BY <1>1, <2>1, <2>2 DEF ManagerTyped, Mcp!ServersOwned, Mcp!Listening
  <2> QED BY <2>3, <2>4, Zenon
<1>9. CASE Mcp!Bind(r)
  <2>1. CASE rs' = [rs EXCEPT ![r] = Mcp!Done] /\ UNCHANGED Mcp!server
    <3>1. rs[r].pc = "bind" /\ UNCHANGED <<settings, inner, srv, tx, cfg>>
      BY <1>9, <2>1, Zenon DEF Mcp!Bind, Mcp!server
    <3>2. ManagerTyped'
      BY <1>1, <1>2, <2>1, <3>1 DEF ManagerTyped
    <3>3. Mcp!ServersOwned'
      BY <1>1, <1>2, <2>1, <3>1, SMTT(30) DEF ManagerTyped, Mcp!ServersOwned, Mcp!Listening
    <3> QED BY <3>2, <3>3, Zenon
  <2>2. CASE /\ rs' = [rs EXCEPT ![r].pc = "install"]
             /\ srv' = [srv EXCEPT ![r] = "serving"] /\ tx' = [tx EXCEPT ![r] = "held"]
             /\ cfg' = [cfg EXCEPT ![r] = rs[r].cfg]
    <3>1. rs[r].pc = "bind" /\ UNCHANGED <<settings, inner>>
      BY <1>9, Zenon DEF Mcp!Bind
    <3>a. rs'[r].pc = "install" /\ \A u \in Mcp!Restarts \ {r} : rs'[u] = rs[u]
      BY <1>1, <2>2, Zenon DEF ManagerTyped, RestartRec
    <3>2. ManagerTyped'
      BY <1>1, <2>2, <3>1 DEF ManagerTyped, RestartRec, RestartPcs
    <3>3. Mcp!ServersOwned'
      BY <1>1, <2>2, <3>1, <3>a DEF ManagerTyped, Mcp!ServersOwned, Mcp!Listening
    <3> QED BY <3>2, <3>3, Zenon
  <2> QED BY <1>9, <2>1, <2>2, Zenon DEF Mcp!Bind
<1>10. CASE Mcp!Install(r)
  <2>2. /\ rs[r].pc = "install" /\ rs' = [rs EXCEPT ![r] = Mcp!Done] /\ inner' = r /\ UNCHANGED <<settings, srv, cfg>>
        /\ tx' = [s \in Mcp!Restarts |-> IF s = inner THEN "dropped" ELSE tx[s]]
    BY <1>10, Zenon DEF Mcp!Install
  <2>3. ManagerTyped'
    BY <1>1, <1>2, <2>2, Zenon DEF ManagerTyped
  <2>4. Mcp!ServersOwned'
    BY <1>1, <1>2, <2>2 DEF ManagerTyped, Mcp!ServersOwned, Mcp!Listening
  <2> QED BY <2>3, <2>4, Zenon
<1>11. CASE Mcp!Serve(r)
  BY <1>1, <1>11 DEF Mcp!Serve, Mcp!manager, ManagerTyped, Mcp!ServersOwned, Mcp!Listening
<1> QED BY <1>3, <1>4, <1>5, <1>6, <1>7, <1>8, <1>9, <1>10, <1>11, Zenon DEF Mcp!ManagerStep

\* What the steps of a request do to it, and to no other.
LEMMA ReqSteps ==
  ASSUME CallsInv, NEW q \in Mcp!Reqs
  PROVE  /\ \A a \in Answers : Mcp!Answer(q, a) =>
              /\ req' \in [Mcp!Reqs -> ReqRec] /\ \A u \in Mcp!Reqs \ {q} : req'[u] = req[u]
              /\ req'[q].pc = "answered" /\ req'[q].ans = a /\ req'[q].tool = req[q].tool
         /\ \A a \in Answers : Mcp!Record(q, a) =>
              /\ req' \in [Mcp!Reqs -> ReqRec] /\ \A u \in Mcp!Reqs \ {q} : req'[u] = req[u]
              /\ req'[q].pc = "audit" /\ req'[q].ans = a /\ req'[q].tool = req[q].tool
         /\ \A step \in ReqPcs : Mcp!Goto(q, step) =>
              /\ req' \in [Mcp!Reqs -> ReqRec] /\ \A u \in Mcp!Reqs \ {q} : req'[u] = req[u]
              /\ req'[q].pc = step /\ req'[q].ans = req[q].ans /\ req'[q].tool = req[q].tool
<1>1. req \in [Mcp!Reqs -> ReqRec] /\ req[q] \in ReqRec
  BY Zenon DEF CallsInv
<1>2. ASSUME NEW a \in Answers, Mcp!Answer(q, a)
      PROVE  /\ req' \in [Mcp!Reqs -> ReqRec] /\ \A u \in Mcp!Reqs \ {q} : req'[u] = req[u]
             /\ req'[q].pc = "answered" /\ req'[q].ans = a /\ req'[q].tool = req[q].tool
  BY <1>1, <1>2, Zenon DEF Mcp!Answer, ReqRec, ReqPcs
<1>3. ASSUME NEW a \in Answers, Mcp!Record(q, a)
      PROVE  /\ req' \in [Mcp!Reqs -> ReqRec] /\ \A u \in Mcp!Reqs \ {q} : req'[u] = req[u]
             /\ req'[q].pc = "audit" /\ req'[q].ans = a /\ req'[q].tool = req[q].tool
  BY <1>1, <1>3, Zenon DEF Mcp!Record, ReqRec, ReqPcs
<1>4. ASSUME NEW step \in ReqPcs, Mcp!Goto(q, step)
      PROVE  /\ req' \in [Mcp!Reqs -> ReqRec] /\ \A u \in Mcp!Reqs \ {q} : req'[u] = req[u]
             /\ req'[q].pc = step /\ req'[q].ans = req[q].ans /\ req'[q].tool = req[q].tool
  BY <1>1, <1>4, Zenon DEF Mcp!Goto, ReqRec
<1> QED BY <1>2, <1>3, <1>4, Zenon

\* A step of one request keeps what holds of the others.
LEMMA CallsApart ==
  ASSUME CallsInv, NEW q \in Mcp!Reqs, req' \in [Mcp!Reqs -> ReqRec], audit' \in [Mcp!Reqs -> Seq(Answers)],
         \A u \in Mcp!Reqs \ {q} : req'[u] = req[u] /\ audit'[u] = audit[u],
         ReqInv(q)', terms' \subseteq Mcp!Reqs, Cardinality(held') <= Permits,
         held' = (held \ {q}) \cup IF req'[q].pc = "run" THEN {q} ELSE {}
  PROVE  CallsInv'
<1>1. ASSUME NEW u \in Mcp!Reqs PROVE ReqInv(u)'
  <2>1. CASE u # q
    <3>1. req'[u] = req[u] /\ audit'[u] = audit[u] /\ ReqInv(u)
      BY <2>1, Zenon DEF CallsInv
    <3> QED BY <3>1 DEF ReqInv
  <2> QED BY <2>1, Zenon
<1>2. held' = Held'
  BY Zenon DEF CallsInv, Held
<1> QED BY <1>1, <1>2, Zenon DEF CallsInv

\* A step that keeps the records, and leaves no permit but its own.
LEMMA RequestInv ==
  ASSUME McpConstants, CallsInv, NEW q \in Mcp!Reqs, Mcp!RequestStep(q) \/ Mcp!SftpTimeout(q) \/ Mcp!ClientGone(q)
  PROVE  CallsInv'
<1> USE DEF Mcp!Keep
<1>1. req[q] \in ReqRec /\ ReqInv(q) /\ audit \in [Mcp!Reqs -> Seq(Answers)] /\ terms \subseteq Mcp!Reqs /\ held = Held
  BY Zenon DEF CallsInv
<1>2. {"refused", "unresolved", "failed", "ok", "gone"} \subseteq Answers /\ {"permit", "run", "wait"} \subseteq ReqPcs
  BY Zenon DEF Answers, ReqPcs
<1>3. IsFiniteSet(held) /\ Cardinality(held) \in Nat /\ Cardinality(held) <= Permits
  <2>1. IsFiniteSet(Mcp!Reqs)
    BY FS_Interval DEF McpConstants, Mcp!Reqs
  <2>2. held \subseteq Mcp!Reqs
    BY <1>1, Zenon DEF Held
  <2>3. IsFiniteSet(held)
    BY <2>1, <2>2, FS_Subset, Zenon
  <2>4. Cardinality(held) \in Nat
    BY <2>3, FS_CardinalityType, Zenon
  <2> QED BY <2>3, <2>4, Zenon DEF CallsInv
<1>4. Cardinality(held \ {q}) <= Permits
  <2>1. Cardinality(held \ {q}) <= Cardinality(held) /\ IsFiniteSet(held \ {q})
    BY <1>3, FS_Subset, Zenon
  <2>2. Cardinality(held \ {q}) \in Nat
    BY <2>1, FS_CardinalityType, Zenon
  <2> QED BY <1>3, <2>1, <2>2 DEF McpConstants
<1>5. q \in held <=> req[q].pc = "run"
  BY <1>1, Zenon DEF Held
<1>6. ASSUME req' \in [Mcp!Reqs -> ReqRec], audit' \in [Mcp!Reqs -> Seq(Answers)],
             \A u \in Mcp!Reqs \ {q} : req'[u] = req[u] /\ audit'[u] = audit[u],
             ReqInv(q)', terms' \subseteq Mcp!Reqs, held' = held \ {q}, req'[q].pc # "run"
      PROVE  CallsInv'
  BY <1>4, <1>6, CallsApart, Zenon
<1>7. ASSUME NEW a \in {"unresolved", "failed"}, Mcp!Answer(q, a), UNCHANGED <<held, terms, audit>>,
             req[q].pc \notin {"run", "idle", "answered"}, req[q].tool = "ssh_exec" => a = "unresolved"
      PROVE CallsInv'
  <2>1. /\ req' \in [Mcp!Reqs -> ReqRec] /\ \A u \in Mcp!Reqs \ {q} : req'[u] = req[u]
        /\ req'[q].pc = "answered" /\ req'[q].ans = a /\ req'[q].tool = req[q].tool
    BY <1>2, <1>7, ReqSteps, Zenon
  <2>2. ReqInv(q)'
    BY <1>1, <1>7, <2>1 DEF ReqInv
  <2>3. held \ {q} = held
    BY <1>5, <1>7, Zenon
  <2> QED BY <1>1, <1>6, <1>7, <2>1, <2>2, <2>3, Zenon
<1>8. ASSUME NEW a \in {"refused", "failed", "ok"}, Mcp!Record(q, a), held' = held \ {q}, terms' \subseteq Mcp!Reqs, audit' = audit,
             req[q].tool # "none", req[q].tool = "ssh_exec" \/ a = "ok", req[q].pc \notin {"wait", "answered"}
      PROVE CallsInv'
  <2>1. /\ req' \in [Mcp!Reqs -> ReqRec] /\ \A u \in Mcp!Reqs \ {q} : req'[u] = req[u]
        /\ req'[q].pc = "audit" /\ req'[q].ans = a /\ req'[q].tool = req[q].tool
    BY <1>2, <1>8, ReqSteps, Zenon
  <2>2. ReqInv(q)'
    BY <1>1, <1>8, <2>1 DEF ReqInv
  <2> QED BY <1>1, <1>6, <1>8, <2>1, <2>2, Zenon
<1>9. CASE Mcp!Audit(q)
  <2>1. audit' = [audit EXCEPT ![q] = Append(@, req[q].ans)] /\ req[q].pc = "audit" /\ audit[q] = <<>>
        /\ UNCHANGED <<held, terms>> /\ held \ {q} = held
    BY <1>1, <1>5, <1>9, Zenon DEF Mcp!Audit, ReqInv
  <2>2. audit' \in [Mcp!Reqs -> Seq(Answers)] /\ audit'[q] = <<req[q].ans>> /\ \A u \in Mcp!Reqs \ {q} : audit'[u] = audit[u]
    BY <1>1, <2>1 DEF ReqRec
  <2>3. req[q].ans \in Answers
    BY <1>1, Zenon DEF ReqRec
  <2>4. CASE Mcp!Answer(q, req[q].ans)
    <3>1. /\ req' \in [Mcp!Reqs -> ReqRec] /\ \A u \in Mcp!Reqs \ {q} : req'[u] = req[u]
          /\ req'[q].pc = "answered" /\ req'[q].ans = req[q].ans /\ req'[q].tool = req[q].tool
      BY <2>3, <2>4, ReqSteps, Zenon
    <3>2. ReqInv(q)'
      BY <1>1, <2>1, <2>2, <2>3, <3>1 DEF ReqInv
    <3> QED BY <1>1, <1>6, <2>1, <2>2, <3>1, <3>2, Zenon
  <2>5. CASE req[q].tool = "sftp_write" /\ Mcp!Goto(q, "wait")
    <3>1. /\ req' \in [Mcp!Reqs -> ReqRec] /\ \A u \in Mcp!Reqs \ {q} : req'[u] = req[u]
          /\ req'[q].pc = "wait" /\ req'[q].ans = req[q].ans /\ req'[q].tool = req[q].tool
      BY <1>2, <2>5, ReqSteps, Zenon
    <3>2. req[q].ans = "ok"
      BY <1>1, <2>1, <2>5 DEF ReqInv
    <3>3. ReqInv(q)'
      BY <1>1, <2>1, <2>2, <2>3, <2>5, <3>1, <3>2 DEF ReqInv
    <3> QED BY <1>1, <1>6, <2>1, <2>2, <3>1, <3>3, Zenon
  <2> QED BY <1>9, <2>4, <2>5, Zenon DEF Mcp!Audit
<1>10. CASE Mcp!ExecGate(q)
  <2>1. req[q].pc = "ssh_exec" /\ req[q].tool = "ssh_exec" /\ UNCHANGED <<held, terms, audit>> /\ held \ {q} = held
    BY <1>1, <1>5, <1>10, Zenon DEF Mcp!ExecGate, ReqInv
  <2>2. CASE Mcp!Goto(q, "permit")
    <3>1. /\ req' \in [Mcp!Reqs -> ReqRec] /\ \A u \in Mcp!Reqs \ {q} : req'[u] = req[u]
          /\ req'[q].pc = "permit" /\ req'[q].ans = req[q].ans /\ req'[q].tool = req[q].tool
      BY <1>2, <2>2, ReqSteps, Zenon
    <3>2. ReqInv(q)'
      BY <1>1, <2>1, <3>1 DEF ReqInv
    <3> QED BY <1>1, <1>6, <2>1, <3>1, <3>2, Zenon
  <2>3. CASE Mcp!Record(q, "refused")
    BY <1>1, <1>8, <2>1, <2>3, Zenon
  <2>4. CASE Mcp!Answer(q, "unresolved")
    BY <1>7, <2>1, <2>4, Zenon
  <2> QED BY <1>10, <2>2, <2>3, <2>4, Zenon DEF Mcp!ExecGate
<1>11. CASE Mcp!ExecAcquire(q)
  <2>1. req[q].pc = "permit" /\ req[q].tool = "ssh_exec" /\ UNCHANGED <<terms, audit>> /\ held \ {q} = held /\ q \notin held
    BY <1>1, <1>5, <1>11, Zenon DEF Mcp!ExecAcquire, ReqInv
  <2>2. CASE Cardinality(held) < Permits /\ held' = held \cup {q} /\ Mcp!Goto(q, "run")
    <3>1. /\ req' \in [Mcp!Reqs -> ReqRec] /\ \A u \in Mcp!Reqs \ {q} : req'[u] = req[u]
          /\ req'[q].pc = "run" /\ req'[q].ans = req[q].ans /\ req'[q].tool = req[q].tool
      BY <1>2, <2>2, ReqSteps, Zenon
    <3>2. ReqInv(q)'
      BY <1>1, <2>1, <3>1 DEF ReqInv
    <3>3. Cardinality(held') <= Permits
      <4>1. Cardinality(held') = Cardinality(held) + 1
        BY <1>3, <2>1, <2>2, FS_AddElement, Zenon
      <4> QED BY <1>3, <2>2, <4>1 DEF McpConstants
    <3>4. held' = (held \ {q}) \cup IF req'[q].pc = "run" THEN {q} ELSE {}
      BY <2>1, <2>2, <3>1, Zenon
    <3> QED BY <1>1, <2>1, <3>1, <3>2, <3>3, <3>4, CallsApart, Zenon
  <2>3. CASE Mcp!Record(q, "failed") /\ UNCHANGED held
    BY <1>1, <1>8, <2>1, <2>3, Zenon
  <2> QED BY <1>11, <2>2, <2>3, PermitCount, Zenon DEF Mcp!ExecAcquire
<1>12. CASE Mcp!ExecEnd(q)
  <2>1. req[q].pc = "run" /\ req[q].tool = "ssh_exec" /\ UNCHANGED <<terms, audit>> /\ held' = held \ {q}
    BY <1>1, <1>12, Zenon DEF Mcp!ExecEnd, ReqInv
  <2>2. ASSUME NEW a \in {"failed", "ok"}, Mcp!Record(q, a) PROVE CallsInv'
    BY <1>1, <1>8, <2>1, <2>2, Zenon
  <2> QED BY <1>12, <2>2, Zenon DEF Mcp!ExecEnd
<1>13. CASE Mcp!Open(q) \/ Mcp!Close(q)
  <2>1. req[q].pc \in {"terminal_open", "terminal_close"} /\ req[q].tool = req[q].pc /\ UNCHANGED <<held, audit>> /\ held \ {q} = held
    BY <1>1, <1>5, <1>13, SMTT(30) DEF Mcp!Open, Mcp!Close, ReqInv
  <2>2. CASE Mcp!Record(q, "ok")
    <3>1. terms' \subseteq Mcp!Reqs
      BY <1>1, <1>13, Zenon DEF Mcp!Open, Mcp!Close
    <3> QED BY <1>8, <2>1, <2>2, <3>1
  <2>3. CASE Mcp!Answer(q, "failed") /\ UNCHANGED terms
    BY <1>7, <2>1, <2>3, Zenon
  <2> QED BY <1>13, <2>2, <2>3, Zenon DEF Mcp!Open, Mcp!Close
<1>14. CASE Mcp!SftpOp(q)
  <2>1. req[q].pc = "sftp_write" /\ req[q].tool = "sftp_write" /\ UNCHANGED <<held, terms, audit>> /\ held \ {q} = held
    BY <1>1, <1>5, <1>14, Zenon DEF Mcp!SftpOp, ReqInv
  <2>2. CASE Mcp!Record(q, "ok")
    BY <1>1, <1>8, <2>1, <2>2, Zenon
  <2>3. CASE Mcp!Answer(q, "failed")
    BY <1>7, <2>1, <2>3, Zenon
  <2> QED BY <1>14, <2>2, <2>3, Zenon DEF Mcp!SftpOp
<1>15. CASE Mcp!WaitTransfer(q)
  <2>1. req[q].pc = "wait" /\ req[q].tool = "sftp_write" /\ audit[q] = <<"ok">> /\ UNCHANGED <<held, terms, audit>>
        /\ held \ {q} = held
    BY <1>1, <1>5, <1>15, Zenon DEF Mcp!WaitTransfer, ReqInv
  <2>2. CASE Mcp!Answer(q, "ok")
    <3>1. /\ req' \in [Mcp!Reqs -> ReqRec] /\ \A u \in Mcp!Reqs \ {q} : req'[u] = req[u]
          /\ req'[q].pc = "answered" /\ req'[q].ans = "ok" /\ req'[q].tool = req[q].tool
      BY <1>2, <2>2, ReqSteps, Zenon
    <3>2. ReqInv(q)'
      BY <1>1, <2>1, <3>1 DEF ReqInv
    <3> QED BY <1>1, <1>6, <2>1, <3>1, <3>2, Zenon
  <2>3. CASE Mcp!Answer(q, "failed")
    BY <1>7, <2>1, <2>3, Zenon
  <2> QED BY <1>15, <2>2, <2>3, Zenon DEF Mcp!WaitTransfer
<1>16. CASE Mcp!SftpTimeout(q)
  <2>1. req[q].tool = "sftp_write" /\ req[q].pc \notin {"run", "idle", "answered"} /\ UNCHANGED <<held, terms, audit>> /\ Mcp!Answer(q, "failed")
    BY <1>1, <1>16 DEF Mcp!SftpTimeout, ReqInv
  <2> QED BY <1>7, <2>1, Zenon
<1>17. CASE Mcp!ClientGone(q)
  <2>1. Mcp!Answer(q, "gone") /\ held' = held \ {q} /\ UNCHANGED <<terms, audit>> /\ req[q].pc \notin {"idle", "answered"}
    BY <1>17, Zenon DEF Mcp!ClientGone
  <2>2. /\ req' \in [Mcp!Reqs -> ReqRec] /\ \A u \in Mcp!Reqs \ {q} : req'[u] = req[u]
        /\ req'[q].pc = "answered" /\ req'[q].ans = "gone" /\ req'[q].tool = req[q].tool
    BY <1>2, <2>1, ReqSteps, Zenon
  <2>3. ReqInv(q)'
    BY <1>1, <2>1, <2>2 DEF ReqInv
  <2> QED BY <1>1, <1>6, <2>1, <2>2, <2>3, Zenon
<1> QED BY <1>9, <1>10, <1>11, <1>12, <1>13, <1>14, <1>15, <1>16, <1>17, Zenon DEF Mcp!RequestStep

\* A request comes in,
LEMMA PostInv ==
  ASSUME McpConstants, CallsInv, NEW q \in Mcp!Reqs, NEW s \in Mcp!Restarts, Mcp!Post(q, s)
  PROVE  CallsInv'
<1>1. req[q] \in ReqRec /\ ReqInv(q) /\ req \in [Mcp!Reqs -> ReqRec] /\ audit \in [Mcp!Reqs -> Seq(Answers)] /\ terms \subseteq Mcp!Reqs /\ held = Held
      /\ Cardinality(held) <= Permits
  BY Zenon DEF CallsInv
<1>2. req[q].pc = "idle" /\ req' = [req EXCEPT ![q].srv = s, ![q].pc = "call"] /\ UNCHANGED <<held, terms, audit>>
  BY DEF Mcp!Post, Mcp!NoReq
<1>3. req' \in [Mcp!Reqs -> ReqRec] /\ (\A u \in Mcp!Reqs \ {q} : req'[u] = req[u]) /\ req'[q].pc = "call" /\ req'[q].tool = req[q].tool
      /\ req'[q].ans = req[q].ans
  BY <1>1, <1>2, Zenon DEF ReqRec, ReqPcs
<1>4. ReqInv(q)'
  BY <1>1, <1>2, <1>3, Zenon DEF ReqInv
<1>5. q \notin held
  BY <1>1, <1>2, Zenon DEF Held
<1>6. held' = (held \ {q}) \cup IF req'[q].pc = "run" THEN {q} ELSE {}
  BY <1>2, <1>3, <1>5, Zenon
<1>7. audit' \in [Mcp!Reqs -> Seq(Answers)] /\ terms' \subseteq Mcp!Reqs /\ Cardinality(held') <= Permits
      /\ \A u \in Mcp!Reqs \ {q} : req'[u] = req[u] /\ audit'[u] = audit[u]
  BY <1>1, <1>2, <1>3, Zenon
<1> QED BY <1>3, <1>4, <1>6, <1>7, CallsApart, Zenon

\* and names its tool.
LEMMA CallToolInv ==
  ASSUME McpConstants, CallsInv, NEW q \in Mcp!Reqs, NEW tool \in Mcp!Tools, NEW t \in Mcp!Reqs \cup {Mcp!None}, Mcp!CallTool(q, tool, t)
  PROVE  CallsInv'
<1>1. req[q] \in ReqRec /\ ReqInv(q) /\ req \in [Mcp!Reqs -> ReqRec] /\ audit \in [Mcp!Reqs -> Seq(Answers)] /\ terms \subseteq Mcp!Reqs /\ held = Held
      /\ Cardinality(held) <= Permits
  BY Zenon DEF CallsInv
<1>2. req[q].pc = "call" /\ req[q].tool = "none" /\ UNCHANGED <<held, terms, audit>>
  BY <1>1, Zenon DEF Mcp!CallTool, ReqInv
<1>3. q \notin held
  BY <1>1, <1>2, Zenon DEF Held
<1>4. CASE req' = [req EXCEPT ![q].tool = tool, ![q].term = t, ![q].pc = tool]
  <2>1. req' \in [Mcp!Reqs -> ReqRec] /\ (\A u \in Mcp!Reqs \ {q} : req'[u] = req[u]) /\ req'[q].pc = tool /\ req'[q].tool = tool
    BY <1>1, <1>4, ZenonT(30) DEF ReqRec, ReqPcs, Mcp!Tools
  <2>2. ReqInv(q)'
    BY <1>1, <1>2, <2>1, Zenon DEF ReqInv, Mcp!Tools
  <2>3. held' = (held \ {q}) \cup IF req'[q].pc = "run" THEN {q} ELSE {}
    BY <1>2, <1>3, <2>1, Zenon DEF Mcp!Tools
  <2> QED BY <1>1, <1>2, <2>1, <2>2, <2>3, CallsApart, Zenon
<1>5. CASE Mcp!Answer(q, "done")
  <2>1. /\ req' \in [Mcp!Reqs -> ReqRec] /\ \A u \in Mcp!Reqs \ {q} : req'[u] = req[u]
        /\ req'[q].pc = "answered" /\ req'[q].ans = "done" /\ req'[q].tool = req[q].tool
    BY <1>5, ReqSteps, Zenon DEF Answers
  <2>2. ReqInv(q)'
    BY <1>1, <1>2, <2>1 DEF ReqInv
  <2>3. held' = (held \ {q}) \cup IF req'[q].pc = "run" THEN {q} ELSE {}
    BY <1>2, <1>3, <2>1, Zenon
  <2> QED BY <1>1, <1>2, <2>1, <2>2, <2>3, CallsApart, Zenon
<1> QED BY <1>4, <1>5, Zenon DEF Mcp!CallTool

\* For any number of restarts, changes of the settings and requests, and every
\* number of permits: a server that listens is held by the manager or told to stop,
\* no more commands run than there are permits, and the audit has what the agent was
\* answered, once (mcp: the manager, the tools and audit).
THEOREM AgentsAreAccounted == ASSUME McpConstants PROVE Mcp!Spec => []AgentsAccounted
<1>1. Mcp!Init => McpInv
  BY McpInitInv, Zenon
<1>2. McpInv /\ [Mcp!Next]_(Mcp!vars) => McpInv'
  <2> SUFFICES ASSUME McpInv, [Mcp!Next]_(Mcp!vars) PROVE McpInv'
    BY Zenon
  <2>0. ManagerInv /\ CallsInv
    BY Zenon DEF McpInv
  <2>1. ASSUME UNCHANGED Mcp!calls PROVE CallsInv'
    BY <2>0, <2>1 DEF CallsInv, Mcp!calls, ReqInv, Held
  <2>2. ASSUME UNCHANGED <<Mcp!manager, Mcp!server>> PROVE ManagerInv'
    BY <2>0, <2>2 DEF ManagerInv, ManagerTyped, Mcp!ServersOwned, Mcp!Listening, Mcp!manager, Mcp!server
  <2>3. CASE \E c \in Mcp!Configs : Mcp!ChangeSettings(c)
    <3>1. UNCHANGED Mcp!calls
      BY <2>3, Zenon DEF Mcp!ChangeSettings
    <3>2. ManagerInv'
      BY <2>0, <2>3 DEF Mcp!ChangeSettings, ManagerInv, ManagerTyped, Mcp!ServersOwned, Mcp!Listening, Mcp!server
    <3> QED BY <2>1, <3>1, <3>2, Zenon DEF McpInv
  <2>4. ASSUME NEW r \in Mcp!Restarts, Mcp!Restart(r) \/ Mcp!Boot(r) \/ Mcp!ManagerStep(r) \/ Mcp!Serve(r) PROVE McpInv'
    <3>1. CASE ~Mcp!CloseAll(r)
      <4>1. UNCHANGED Mcp!calls
        BY <2>4, <3>1, Zenon DEF Mcp!Restart, Mcp!Boot, Mcp!ManagerStep, Mcp!Serve, Mcp!StopTake, Mcp!Signal, Mcp!StopWait, Mcp!ReadConfig, Mcp!Bind, Mcp!Install
      <4> QED BY <2>0, <2>1, <2>4, <4>1, ManagerStepInv, Zenon DEF McpInv
    <3>2. CASE Mcp!CloseAll(r)
      <4>1. terms' = {} /\ UNCHANGED <<held, req, audit>>
        BY <3>2, Zenon DEF Mcp!CloseAll
      <4>2. CallsInv'
        BY <2>0, <4>1, Zenon DEF CallsInv, ReqInv, Held
      <4> QED BY <2>0, <2>4, <4>2, ManagerStepInv DEF McpInv
    <3> QED BY <3>1, <3>2, Zenon
  <2>5. ASSUME NEW q \in Mcp!Reqs, Mcp!RequestStep(q) \/ Mcp!SftpTimeout(q) \/ Mcp!ClientGone(q) PROVE McpInv'
    <3>1. UNCHANGED <<Mcp!manager, Mcp!server>>
      BY <2>5, Zenon DEF Mcp!RequestStep, Mcp!SftpTimeout, Mcp!ClientGone, Mcp!Audit, Mcp!ExecGate, Mcp!ExecAcquire, Mcp!ExecEnd, Mcp!Open, Mcp!Close, Mcp!SftpOp, Mcp!WaitTransfer, Mcp!Keep
    <3> QED BY <2>0, <2>2, <2>5, <3>1, RequestInv DEF McpInv
  <2>6. ASSUME NEW q \in Mcp!Reqs, NEW s \in Mcp!Restarts, Mcp!Post(q, s) PROVE McpInv'
    <3>1. UNCHANGED <<Mcp!manager, Mcp!server>>
      BY <2>6, Zenon DEF Mcp!Post, Mcp!Keep
    <3> QED BY <2>0, <2>2, <2>6, <3>1, PostInv, Zenon DEF McpInv
  <2>7. ASSUME NEW q \in Mcp!Reqs, NEW tool \in Mcp!Tools, NEW t \in Mcp!Reqs \cup {Mcp!None}, Mcp!CallTool(q, tool, t) PROVE McpInv'
    <3>1. UNCHANGED <<Mcp!manager, Mcp!server>>
      BY <2>7, Zenon DEF Mcp!CallTool, Mcp!Keep
    <3> QED BY <2>0, <2>2, <2>7, <3>1, CallToolInv DEF McpInv
  <2>8. CASE UNCHANGED Mcp!vars
    <3>1. UNCHANGED Mcp!calls /\ UNCHANGED <<Mcp!manager, Mcp!server>>
      BY <2>8, Zenon DEF Mcp!vars
    <3> QED BY <2>1, <2>2, <3>1, Zenon DEF McpInv
  <2> QED BY <2>3, <2>4, <2>5, <2>6, <2>7, <2>8, Zenon DEF Mcp!Next
<1>3. McpInv => AgentsAccounted
  <2> SUFFICES ASSUME McpInv PROVE AgentsAccounted
    BY Zenon
  <2>1. \A q \in Mcp!Reqs : Len(audit[q]) <= 1
    <3>1. ASSUME NEW q \in Mcp!Reqs PROVE Len(audit[q]) <= 1
      <4>1. audit[q] = <<>> \/ \E a \in Answers : audit[q] = <<a>>
        BY Zenon DEF McpInv, CallsInv, ReqInv
      <4>2. CASE audit[q] = <<>>
        BY <4>2
      <4>3. CASE audit[q] # <<>>
        <5>1. PICK a \in Answers : audit[q] = <<a>>
          BY <4>1, <4>3, Zenon
        <5> QED BY <5>1
      <4> QED BY <4>2, <4>3, Zenon
    <3> QED BY <3>1, Zenon
  <2>2. Mcp!AuditedAsAnswered
    BY <2>1, Zenon DEF McpInv, CallsInv, ReqInv, Mcp!AuditedAsAnswered
  <2>3. Mcp!McpTypeOK
    BY PermitCount, Zenon DEF McpInv, CallsInv, ManagerInv, ManagerTyped, Mcp!McpTypeOK, Held
  <2> QED BY <2>2, <2>3, Zenon DEF AgentsAccounted, McpInv, ManagerInv
<1> QED
  BY <1>1, <1>2, <1>3, PTL DEF Mcp!Spec

(***************************************************************************)
(* The buffer of a terminal.                                               *)
(***************************************************************************)

\* The inductive invariant: the offset counts what was given and what was lost, what
\* is gone is marked truncated, and a reader that was told of the end has come to it.
BufferInv ==
  /\ total \in Nat /\ len \in 0..total /\ offset \in 0..total /\ got \in Nat /\ lost \in Nat
  /\ got + lost = offset
  /\ len < total => truncated
  /\ known /\ closed => task = "done"
  /\ known => task # "aborted"
  /\ known /\ ended => closed /\ offset = total

\* Every step keeps it.
LEMMA BufferStep ==
  ASSUME BufferConstants, BufferInv, [Buffer!Next]_(Buffer!vars)
  PROVE  BufferInv'
<1> USE DEF BufferConstants
<1>1. ASSUME NEW n \in 1..MaxChunk, Buffer!NextData(n) PROVE BufferInv'
  <2>1. known => ~closed /\ ~ended
    BY <1>1, Zenon DEF Buffer!NextData, BufferInv
  <2>2. UNCHANGED <<closed, known, read, offset, got, lost, ended>> /\ (task = "run" => task' = "run")
    BY <1>1, Zenon DEF Buffer!NextData, Buffer!client
  <2>3. total' = total + n /\ len' = IF len + n > BufCap THEN BufCap ELSE len + n
    BY <1>1, Zenon DEF Buffer!NextData, Buffer!append
  <2>a. truncated \/ len + n > BufCap => truncated'
    BY <1>1, Zenon DEF Buffer!NextData, Buffer!append
  <2>b. len' < total' => len < total \/ len + n > BufCap
    BY <2>3 DEF BufferInv
  <2>4. (len < total => truncated)'
    BY <2>a, <2>b, Zenon DEF BufferInv
  <2>5. (known /\ closed => task = "done")' /\ (known => task # "aborted")' /\ (known /\ ended => closed /\ offset = total)'
    BY <1>1, <2>1, <2>2 DEF BufferInv, Buffer!NextData
  <2> QED BY <2>2, <2>3, <2>4, <2>5 DEF BufferInv
<1>2. CASE Buffer!EndOfData
  BY <1>2, Zenon DEF Buffer!EndOfData, Buffer!client, BufferInv
<1>3. CASE Buffer!terminal_read
  BY <1>3, Zenon DEF Buffer!terminal_read, BufferInv
<1>4. CASE Buffer!Answer
  <2>1. UNCHANGED <<total, len, truncated, closed, task, known>> /\ offset' = total /\ ended' = closed
    BY <1>4, Zenon DEF Buffer!Answer
  <2>2. got' \in Nat /\ lost' \in Nat /\ got' + lost' = total
    BY <1>4 DEF Buffer!Answer, Buffer!start, BufferInv
  <2>3. (known /\ ended => closed /\ offset = total)'
    BY <2>1, Zenon
  <2>4. (len < total => truncated)' /\ (known /\ closed => task = "done")' /\ (known => task # "aborted")'
    BY <2>1, Zenon DEF BufferInv
  <2>5. (total \in Nat /\ len \in 0..total /\ offset \in 0..total)' /\ got' + lost' = offset'
    <3>1. total' = total /\ len' = len /\ offset' = total
      BY <2>1, Zenon
    <3>2. total \in Nat /\ len \in 0..total
      BY Zenon DEF BufferInv
    <3>3. total \in 0..total
      BY <3>2
    <3> QED BY <2>2, <3>1, <3>2, <3>3, Zenon
  <2> QED BY <2>2, <2>3, <2>4, <2>5, Zenon DEF BufferInv
<1>5. CASE Buffer!terminal_close
  BY <1>5, Zenon DEF Buffer!terminal_close, Buffer!client, BufferInv
<1>6. CASE UNCHANGED Buffer!vars
  BY <1>6, Zenon DEF Buffer!vars, BufferInv
<1> QED
  BY <1>1, <1>2, <1>3, <1>4, <1>5, <1>6, Zenon DEF Buffer!Next

\* For every capacity of the buffer and every size of the chunks: an agent that
\* reads a terminal gets every byte once or is told it was lost, and closed comes
\* with the last of them (the ring buffer of a terminal).
THEOREM AgentOutput == ASSUME BufferConstants PROVE Buffer!Spec => []OutputOnce
<1>1. Buffer!Init => BufferInv
  BY DEF Buffer!Init, BufferInv, BufferConstants
<1>2. BufferInv => OutputOnce
  BY Zenon DEF BufferInv, OutputOnce, Buffer!EveryByteOnce, Buffer!ClosedIsTheEnd
<1> QED
  BY <1>1, <1>2, BufferStep, PTL DEF Buffer!Spec

(***************************************************************************)
(* The budget.  Its queue is a sequence.                                   *)
(***************************************************************************)
INSTANCE SequenceTheorems

\* The inductive invariant: notify_one wakes the head of the queue, so that what
\* the queue holds matters to who holds a permit.
BudgetInv == BudgetTypeOK /\ UsedCountsPermits /\ QueueIsSleepers

-----------------------------------------------------------------------------
LEMMA HoldersFinite == IsFiniteSet(Holders) /\ Cardinality(Holders) \in Nat
<1>1. Holders \in SUBSET Clients
  BY Zenon DEF Holders
<1>. QED
  BY <1>1, BudgetConstants, FS_Subset, FS_CardinalityType, Zenon

LEMMA BudgetInit == Init => BudgetInv
<1> SUFFICES ASSUME Init PROVE BudgetInv
  BY Zenon
<1> USE BudgetConstants DEF Init
<1>1. stored \in BOOLEAN
  BY Zenon
<1>2. BudgetTypeOK
  BY <1>1 DEF BudgetTypeOK, PCs, Modes
<1>3. Holders = {}
  BY Zenon DEF Holders
<1>4. UsedCountsPermits
  BY <1>3, FS_EmptySet DEF UsedCountsPermits
<1>5. QueueIsSleepers
  BY DEF QueueIsSleepers, Range
<1>. QED
  BY <1>2, <1>4, <1>5, Zenon DEF BudgetInv

\* Steps of one call that leave the queue alone.
LEMMA GotoQueue ==
  ASSUME BudgetInv, NEW c \in Clients, NEW l \in PCs, Goto(c, l), UNCHANGED queue,
         pc[c] # "asleep", l # "asleep"
  PROVE  QueueIsSleepers' /\ pc' \in [Clients -> PCs]
<1>1. pc' \in [Clients -> PCs]
  BY Zenon DEF BudgetInv, BudgetTypeOK, Goto
<1>2. {d \in Clients : pc'[d] = "asleep"} = {d \in Clients : pc[d] = "asleep"}
  BY Zenon DEF BudgetInv, BudgetTypeOK, Goto
<1>. QED
  BY <1>1, <1>2 DEF BudgetInv, QueueIsSleepers

\* notify_one of a call that is awake and holds nothing: a sleeper, if there is one,
\* leaves the queue, and no permit changes hands.
LEMMA NotifyStep ==
  ASSUME BudgetInv, NEW c \in Clients, pc[c] \in {"notify", "woken"}, NotifyOne(queue, c, "idle")
  PROVE  /\ pc' \in [Clients -> PCs] /\ queue' \in Seq(Clients) /\ stored' \in BOOLEAN
         /\ Holders' = Holders /\ QueueIsSleepers'
<1> USE DEF BudgetInv, BudgetTypeOK, PCs
<1>1. CASE queue = <<>>
  <2>1. pc' = [pc EXCEPT ![c] = "idle"] /\ queue' = queue /\ stored' = TRUE
    BY <1>1, Zenon DEF NotifyOne, Goto
  <2>2. Holders' = Holders
    BY <2>1, Zenon DEF Holders
  <2>3. QueueIsSleepers'
    BY <2>1, GotoQueue, Zenon DEF Goto
  <2>. QED
    BY <2>1, <2>2, <2>3, Zenon
<1>2. CASE queue # <<>>
  <2> DEFINE h == Head(queue)
  <2>1. queue' = Tail(queue) /\ pc' = [pc EXCEPT ![h] = "woken", ![c] = "idle"] /\ stored' = stored
    BY <1>2, Zenon DEF NotifyOne
  <2>2. h \in Clients /\ h = queue[1] /\ pc[h] = "asleep" /\ h # c
    BY <1>2 DEF QueueIsSleepers, Range
  <2>3. pc' \in [Clients -> PCs] /\ queue' \in Seq(Clients)
    BY <1>2, <2>1
  <2>4. Holders' = Holders
    BY <2>1, <2>2 DEF Holders
  <2>5. \A i \in DOMAIN queue' : i + 1 \in DOMAIN queue /\ queue'[i] = queue[i + 1]
    BY <1>2, <2>1
  <2>6. \A i, j \in DOMAIN queue' : queue'[i] = queue'[j] => i = j
    BY <1>2, <2>5, <2>1 DEF QueueIsSleepers
  <2>7. ASSUME NEW d \in Clients
        PROVE  d \in Range(queue') <=> pc'[d] = "asleep"
    <3>1. d \in Range(queue) <=> pc[d] = "asleep"
      BY Zenon DEF QueueIsSleepers
    <3>2. d \in Range(queue') <=> d \in Range(queue) /\ d # h
      <4>1. ASSUME NEW i \in DOMAIN queue, queue[i] # h
            PROVE  i - 1 \in DOMAIN queue' /\ queue'[i - 1] = queue[i]
        BY <4>1, <1>2, <2>1, <2>2
      <4>2. \A i \in DOMAIN queue' : queue'[i] # h
        BY <2>2, <2>5, <2>1, <1>2 DEF QueueIsSleepers
      <4>. QED
        BY <4>1, <4>2, <2>5 DEF Range
    <3>. QED
      BY <3>1, <3>2, <2>1, <2>2, Zenon
  <2>8. Range(queue') \subseteq Clients
    BY <2>3 DEF Range
  <2>9. QueueIsSleepers'
    BY <2>6, <2>7, <2>8, Zenon DEF QueueIsSleepers
  <2>. QED
    BY <2>1, <2>3, <2>4, <2>9
<1>. QED
  BY <1>1, <1>2, Zenon

LEMMA WithoutProperties ==
  ASSUME NEW S, NEW s \in Seq(S), NEW k \in 1..Len(s)
  PROVE  /\ Without(s, k) \in Seq(S)
         /\ Len(Without(s, k)) = Len(s) - 1
         /\ \A i \in 1..(Len(s) - 1) : Without(s, k)[i] = IF i < k THEN s[i] ELSE s[i + 1]
<1> DEFINE a == SubSeq(s, 1, k - 1)
           b == SubSeq(s, k + 1, Len(s))
<1>1. a \in Seq(S) /\ Len(a) = k - 1 /\ \A i \in 1..(k - 1) : a[i] = s[i]
  <2>1. \A i \in 1..(k - 1) : s[i] \in S
    OBVIOUS
  <2>. QED
    BY <2>1, SubSeqProperties
<1>2. b \in Seq(S) /\ Len(b) = Len(s) - k /\ \A i \in 1..(Len(s) - k) : b[i] = s[k + i]
  <2>1. \A i \in (k + 1)..Len(s) : s[i] \in S
    OBVIOUS
  <2>2. /\ b \in Seq(S) /\ Len(b) = IF k + 1 <= Len(s) THEN Len(s) - (k + 1) + 1 ELSE 0
        /\ \A i \in 1..(Len(s) - (k + 1) + 1) : b[i] = s[(k + 1) + i - 1]
    BY <2>1, SubSeqProperties
  <2>. QED
    BY <2>2
<1> HIDE DEF a, b
<1>3. /\ a \o b \in Seq(S) /\ Len(a \o b) = Len(a) + Len(b)
      /\ \A i \in 1..(Len(a) + Len(b)) : (a \o b)[i] = IF i <= Len(a) THEN a[i] ELSE b[i - Len(a)]
  BY <1>1, <1>2, ConcatProperties, Zenon
<1>4. Without(s, k) = a \o b
  BY Zenon DEF Without, a, b
<1>5. Len(a) + Len(b) = Len(s) - 1
  BY <1>1, <1>2
<1>6. ASSUME NEW i \in 1..(Len(s) - 1)
      PROVE  (a \o b)[i] = IF i < k THEN s[i] ELSE s[i + 1]
  <2>1. CASE i < k
    BY <2>1, <1>1, <1>3, <1>5
  <2>2. CASE ~(i < k)
    <3>1. i - (k - 1) \in 1..(Len(s) - k) /\ ~(i <= Len(a))
      BY <2>2, <1>1
    <3>2. (a \o b)[i] = b[i - (k - 1)]
      BY <3>1, <1>1, <1>3, <1>5
    <3>3. b[i - (k - 1)] = s[k + (i - (k - 1))] /\ k + (i - (k - 1)) = i + 1
      BY <3>1, <1>2
    <3>. QED
      BY <2>2, <3>2, <3>3, Zenon
  <2>. QED
    BY <2>1, <2>2, Zenon
<1>. QED
  BY <1>3, <1>4, <1>5, <1>6

\* A call times out asleep: it leaves the queue from where it stands.
LEMMA UnqueueStep ==
  ASSUME BudgetInv, NEW c \in Clients, pc[c] = "asleep", Goto(c, "idle"),
         NEW k \in DOMAIN queue, queue[k] = c, queue' = Without(queue, k)
  PROVE  /\ pc' \in [Clients -> PCs] /\ queue' \in Seq(Clients)
         /\ Holders' = Holders /\ QueueIsSleepers'
<1> USE DEF BudgetInv, BudgetTypeOK, PCs
<1> DEFINE back(i) == IF i < k THEN i ELSE i + 1
           forth(i) == IF i < k THEN i ELSE i - 1
<1>1. pc' = [pc EXCEPT ![c] = "idle"]
  BY Zenon DEF Goto
<1>2. Holders' = Holders
  BY <1>1, Zenon DEF Holders
<1>3. /\ queue' \in Seq(Clients) /\ Len(queue') = Len(queue) - 1
      /\ \A i \in 1..(Len(queue) - 1) : queue'[i] = IF i < k THEN queue[i] ELSE queue[i + 1]
  <2>1. queue \in Seq(Clients) /\ k \in 1..Len(queue)
    OBVIOUS
  <2>. QED
    BY <2>1, WithoutProperties, Zenon
<1>4. \A i \in DOMAIN queue' : back(i) \in DOMAIN queue /\ back(i) # k /\ queue'[i] = queue[back(i)]
  BY <1>3
<1>5. \A i \in DOMAIN queue : i # k => forth(i) \in DOMAIN queue' /\ queue'[forth(i)] = queue[i]
  <2> SUFFICES ASSUME NEW i \in DOMAIN queue, i # k
               PROVE  forth(i) \in DOMAIN queue' /\ queue'[forth(i)] = queue[i]
    BY Zenon
  <2>1. i \in 1..Len(queue) /\ k \in 1..Len(queue)
    OBVIOUS
  <2>2. forth(i) \in 1..(Len(queue) - 1) /\ queue'[forth(i)] = queue[i]
    BY <2>1, <1>3, SMTT(30)
  <2>. QED
    BY <2>2, <1>3
<1>6. \A i, j \in DOMAIN queue' : queue'[i] = queue'[j] => i = j
  <2> SUFFICES ASSUME NEW i \in DOMAIN queue', NEW j \in DOMAIN queue', queue'[i] = queue'[j]
               PROVE  i = j
    BY Zenon
  <2>1. back(i) = back(j)
    BY <1>4 DEF QueueIsSleepers
  <2>. QED
    BY <2>1, <1>3
<1>7. ASSUME NEW d \in Clients
      PROVE  d \in Range(queue') <=> pc'[d] = "asleep"
  <2>1. d \in Range(queue) <=> pc[d] = "asleep"
    BY Zenon DEF QueueIsSleepers
  <2>2. d \in Range(queue') => d \in Range(queue) /\ d # c
    BY <1>4 DEF Range, QueueIsSleepers
  <2>3. d \in Range(queue) /\ d # c => d \in Range(queue')
    <3> SUFFICES ASSUME NEW i \in DOMAIN queue, d = queue[i], d # c PROVE d \in Range(queue')
      BY Zenon DEF Range
    <3>1. forth(i) \in DOMAIN queue' /\ queue'[forth(i)] = d
      BY <1>5, Zenon
    <3>. QED
      BY <3>1, Zenon DEF Range
  <2>. QED
    BY <1>1, <2>1, <2>2, <2>3, Zenon
<1>8. Range(queue') \subseteq Clients
  BY <1>3 DEF Range
<1>9. QueueIsSleepers'
  BY <1>6, <1>7, <1>8, Zenon DEF QueueIsSleepers
<1>. QED
  BY <1>1, <1>2, <1>3, <1>9

\* A call that finds the budget full and no stored wake-up joins the queue.
LEMMA EnqueueStep ==
  ASSUME BudgetInv, NEW c \in Clients, pc[c] = "register", Goto(c, "asleep"),
         queue' = Append(queue, c)
  PROVE  /\ pc' \in [Clients -> PCs] /\ queue' \in Seq(Clients)
         /\ Holders' = Holders /\ QueueIsSleepers'
<1> USE DEF BudgetInv, BudgetTypeOK, PCs
<1>1. pc' = [pc EXCEPT ![c] = "asleep"]
  BY Zenon DEF Goto
<1>2. Holders' = Holders
  BY <1>1, Zenon DEF Holders
<1>3. queue' \in Seq(Clients) /\ Len(queue') = Len(queue) + 1 /\ queue'[Len(queue) + 1] = c
      /\ \A i \in DOMAIN queue : i \in DOMAIN queue' /\ queue'[i] = queue[i]
  OBVIOUS
<1>4. \A i \in DOMAIN queue : queue[i] # c
  BY Zenon DEF QueueIsSleepers, Range
<1>5. \A i, j \in DOMAIN queue' : queue'[i] = queue'[j] => i = j
  <2>1. \A i \in DOMAIN queue' : i \in DOMAIN queue \/ i = Len(queue) + 1
    BY <1>3
  <2>. QED
    BY <2>1, <1>3, <1>4 DEF QueueIsSleepers
<1>6. Range(queue') = Range(queue) \cup {c}
  BY <1>3 DEF Range
<1>7. {d \in Clients : pc'[d] = "asleep"} = {d \in Clients : pc[d] = "asleep"} \cup {c}
  BY <1>1, Zenon
<1>8. QueueIsSleepers'
  BY <1>5, <1>6, <1>7 DEF QueueIsSleepers
<1>. QED
  BY <1>1, <1>2, <1>3, <1>8

\* The two steps that move a unit.
LEMMA UnitStep ==
  ASSUME BudgetInv, NEW c \in Clients,
         \/ pc[c] = "take" /\ used < Cap /\ used' = used + 1 /\ Goto(c, "held")
         \/ pc[c] = "held" /\ used' = used - 1 /\ Goto(c, "notify")
  PROVE  /\ used' \in Nat /\ UsedCountsPermits'
         /\ \/ c \notin Holders /\ Holders' = Holders \cup {c} /\ Cardinality(Holders) < Cap
            \/ c \in Holders /\ Holders' = Holders \ {c}
<1> USE BudgetConstants, HoldersFinite DEF BudgetInv, BudgetTypeOK, UsedCountsPermits
<1>1. CASE pc[c] = "take" /\ used < Cap /\ used' = used + 1 /\ Goto(c, "held")
  <2>1. c \notin Holders /\ Holders' = Holders \cup {c}
    BY <1>1, Zenon DEF Holders, Goto
  <2>2. Cardinality(Holders') = Cardinality(Holders) + 1
    BY <2>1, FS_AddElement, Zenon
  <2>. QED
    BY <1>1, <2>1, <2>2
<1>2. CASE pc[c] = "held" /\ used' = used - 1 /\ Goto(c, "notify")
  <2>1. c \in Holders /\ Holders' = Holders \ {c}
    BY <1>2, Zenon DEF Holders, Goto
  <2>2. Cardinality(Holders') = Cardinality(Holders) - 1
    BY <2>1, FS_RemoveElement, Zenon
  <2>3. Cardinality(Holders') \in Nat
    BY <2>1, FS_RemoveElement, FS_CardinalityType, Zenon
  <2>. QED
    BY <1>2, <2>1, <2>2, <2>3
<1>. QED
  BY <1>1, <1>2, Zenon

LEMMA SameCardinality == \A S : Sem!Cardinality(S) = Cardinality(S)
BY Zenon DEF Sem!Cardinality, Cardinality

\* One step of one call keeps the invariant, and is a step of the semaphore.
LEMMA ClientStep ==
  ASSUME BudgetInv, NEW c \in Clients,
         \/ \E m \in Modes : Call(c, m)
         \/ WaiterStep(c) \/ DropPermit(c) \/ TimedOut(c)
  PROVE  BudgetInv' /\ (Sem!Take(c) \/ Sem!Give(c) \/ UNCHANGED Holders)
<1> USE BudgetConstants
<1>0. /\ used \in Nat /\ rejected \in 0..MaxRejected /\ stored \in BOOLEAN
      /\ queue \in Seq(Clients) /\ pc \in [Clients -> PCs] /\ mode \in [Clients -> Modes]
  BY Zenon DEF BudgetInv, BudgetTypeOK
<1>1. ASSUME /\ used' \in Nat /\ rejected' \in 0..MaxRejected /\ stored' \in BOOLEAN
             /\ queue' \in Seq(Clients) /\ pc' \in [Clients -> PCs] /\ mode' \in [Clients -> Modes]
             /\ UsedCountsPermits' /\ QueueIsSleepers'
      PROVE  BudgetInv'
  BY <1>1, Zenon DEF BudgetInv, BudgetTypeOK
<1>2. ASSUME UNCHANGED <<used, Holders>>
      PROVE  UsedCountsPermits'
  BY <1>2, Zenon DEF BudgetInv, UsedCountsPermits
<1>3. CountRejected => rejected' \in 0..MaxRejected
  BY <1>0 DEF CountRejected
<1>4. CASE \E m \in Modes : Call(c, m)
  <2>1. PICK m \in Modes : Call(c, m)
    BY <1>4, Zenon
  <2>2. Holders' = Holders
    BY <1>0, <2>1, Zenon DEF Call, Goto, Holders
  <2>3. QueueIsSleepers' /\ pc' \in [Clients -> PCs]
    BY <2>1, GotoQueue, Zenon DEF Call, PCs
  <2>. QED
    BY <1>0, <1>1, <1>2, <2>1, <2>2, <2>3, Zenon DEF Call
<1>5. CASE CasTake(c)
  <2>1. CASE used < Cap
    <3>1. used' = used + 1 /\ Goto(c, "held") /\ pc[c] = "take" /\ rejected' = rejected
      BY <1>5, <2>1, <1>0 DEF CasTake
    <3>2. QueueIsSleepers' /\ pc' \in [Clients -> PCs]
      BY <1>5, <3>1, GotoQueue, Zenon DEF CasTake, PCs
    <3>3. /\ used' \in Nat /\ UsedCountsPermits'
          /\ \/ c \notin Holders /\ Holders' = Holders \cup {c} /\ Cardinality(Holders) < Cap
             \/ c \in Holders /\ Holders' = Holders \ {c}
      BY <2>1, <3>1, UnitStep, Zenon
    <3>4. BudgetInv'
      BY <1>5, <1>0, <1>1, <3>1, <3>2, <3>3 DEF CasTake
    <3>. QED
      BY <3>3, <3>4, SameCardinality, Zenon DEF Sem!Take, Sem!Give, Sem!CanTake
  <2>2. CASE ~(used < Cap)
    <3>1. PICK l \in {"idle", "register"} : Goto(c, l)
      BY <1>5, <2>2, Zenon DEF CasTake
    <3>2. QueueIsSleepers' /\ pc' \in [Clients -> PCs]
      BY <1>5, <3>1, GotoQueue DEF CasTake, PCs
    <3>3. Holders' = Holders
      BY <1>5, <1>0, <3>1, Zenon DEF CasTake, Goto, Holders
    <3>4. used' = used /\ rejected' \in 0..MaxRejected
      BY <1>5, <1>0, <1>3, <2>2, Zenon DEF CasTake
    <3>5. BudgetInv'
      BY <1>5, <1>0, <1>1, <1>2, <3>2, <3>3, <3>4 DEF CasTake
    <3>. QED
      BY <3>3, <3>5, Zenon
  <2>. QED
    BY <2>1, <2>2, Zenon
<1>6. CASE Notified(c)
  <2>1. CASE stored
    <3>1. Goto(c, "take") /\ UNCHANGED queue /\ stored' = FALSE
      BY <1>6, <2>1, Zenon DEF Notified
    <3>2. QueueIsSleepers' /\ pc' \in [Clients -> PCs]
      BY <1>6, <3>1, GotoQueue DEF Notified, PCs
    <3>3. Holders' = Holders
      BY <1>6, <1>0, <3>1, Zenon DEF Notified, Goto, Holders
    <3>. QED
      BY <1>6, <1>0, <1>1, <1>2, <3>1, <3>2, <3>3, Zenon DEF Notified
  <2>2. CASE ~stored
    <3>1. Goto(c, "asleep") /\ queue' = Append(queue, c) /\ stored' = stored
      BY <1>6, <2>2, Zenon DEF Notified
    <3>2. /\ pc' \in [Clients -> PCs] /\ queue' \in Seq(Clients)
          /\ Holders' = Holders /\ QueueIsSleepers'
      BY <1>6, <3>1, EnqueueStep, Zenon DEF Notified
    <3>. QED
      BY <1>6, <1>0, <1>1, <1>2, <3>1, <3>2 DEF Notified
  <2>. QED
    BY <2>1, <2>2, Zenon
<1>7. CASE Resumed(c)
  <2>1. QueueIsSleepers' /\ pc' \in [Clients -> PCs]
    BY <1>7, GotoQueue, Zenon DEF Resumed, PCs
  <2>2. Holders' = Holders
    BY <1>7, <1>0, Zenon DEF Resumed, Goto, Holders
  <2>. QED
    BY <1>7, <1>0, <1>1, <1>2, <2>1, <2>2 DEF Resumed
<1>8. CASE DropNotify(c)
  <2>1. /\ pc' \in [Clients -> PCs] /\ queue' \in Seq(Clients) /\ stored' \in BOOLEAN
        /\ Holders' = Holders /\ QueueIsSleepers'
    BY <1>8, NotifyStep DEF DropNotify
  <2>. QED
    BY <1>8, <1>0, <1>1, <1>2, <2>1 DEF DropNotify
<1>9. CASE DropPermit(c)
  <2>1. used' = used - 1 /\ Goto(c, "notify") /\ pc[c] = "held"
    BY <1>9, Zenon DEF DropPermit
  <2>2. QueueIsSleepers' /\ pc' \in [Clients -> PCs]
    BY <1>9, <2>1, GotoQueue, Zenon DEF DropPermit, PCs
  <2>3. /\ used' \in Nat /\ UsedCountsPermits'
        /\ \/ c \notin Holders /\ Holders' = Holders \cup {c} /\ Cardinality(Holders) < Cap
           \/ c \in Holders /\ Holders' = Holders \ {c}
    BY <2>1, UnitStep, Zenon
  <2>4. BudgetInv'
    BY <1>9, <1>0, <1>1, <2>2, <2>3 DEF DropPermit
  <2>. QED
    BY <2>3, <2>4, SameCardinality, Zenon DEF Sem!Take, Sem!Give, Sem!CanTake
<1>10. CASE TimedOut(c)
  <2>1. rejected' \in 0..MaxRejected /\ UNCHANGED <<used, mode>>
    BY <1>10, <1>3, Zenon DEF TimedOut
  <2>2. CASE pc[c] = "asleep"
    <3>1. PICK k \in DOMAIN queue : queue[k] = c /\ queue' = Without(queue, k)
      BY <1>10, <2>2, Zenon DEF TimedOut
    <3>2. Goto(c, "idle") /\ stored' = stored
      BY <1>10, <2>2, Zenon DEF TimedOut
    <3>3. /\ pc' \in [Clients -> PCs] /\ queue' \in Seq(Clients)
          /\ Holders' = Holders /\ QueueIsSleepers'
      BY <2>2, <3>1, <3>2, UnqueueStep, Zenon
    <3>. QED
      BY <1>0, <1>1, <1>2, <2>1, <3>2, <3>3, SMTT(30)
  <2>3. CASE pc[c] = "woken"
    <3>1. /\ pc' \in [Clients -> PCs] /\ queue' \in Seq(Clients) /\ stored' \in BOOLEAN
          /\ Holders' = Holders /\ QueueIsSleepers'
      BY <1>10, <2>3, NotifyStep, Zenon DEF TimedOut
    <3>. QED
      BY <1>0, <1>1, <1>2, <2>1, <3>1
  <2>. QED
    BY <1>10, <2>2, <2>3, Zenon DEF TimedOut
<1>. QED
  BY <1>4, <1>5, <1>6, <1>7, <1>8, <1>9, <1>10 DEF WaiterStep

LEMMA BudgetInductive == BudgetInv /\ [Next]_vars => BudgetInv' /\ [Sem!SemNext]_Holders
<1> SUFFICES ASSUME BudgetInv, [Next]_vars PROVE BudgetInv' /\ [Sem!SemNext]_Holders
  BY Zenon
<1>1. CASE Next
  BY <1>1, ClientStep, Zenon DEF Next, Sem!SemNext
<1>2. CASE UNCHANGED vars
  BY <1>2, Zenon DEF BudgetInv, BudgetTypeOK, UsedCountsPermits, QueueIsSleepers, Holders, vars
<1>. QED
  BY <1>1, <1>2, Zenon

LEMMA BudgetInvariant == Spec => []BudgetInv
BY BudgetInit, BudgetInductive, PTL DEF Spec

\* Budget::used is the number of live Permits and never exceeds the cap, whatever
\* order takes, drops, timeouts and wake-ups come in.
THEOREM BudgetCounts == Spec => []UsedCountsPermits
<1>1. BudgetInv => UsedCountsPermits
  BY Zenon DEF BudgetInv
<1>. QED
  BY <1>1, BudgetInvariant, PTL

\* A call is in the Notify's queue exactly while it sleeps: acquire_timeout leaves
\* nothing behind that could swallow the wake-up of Permit::drop.
THEOREM BudgetQueue == Spec => []QueueIsSleepers
<1>1. BudgetInv => QueueIsSleepers
  BY Zenon DEF BudgetInv
<1>. QED
  BY <1>1, BudgetInvariant, PTL

\* The budget implements the semaphore its users rely on.
THEOREM BudgetIsASemaphore == Spec => SemSpec
<1>1. Init => Sem!SemInit
  BY Zenon DEF Init, Sem!SemInit, Holders
<1>. QED
  BY <1>1, BudgetInvariant, BudgetInductive, PTL DEF Spec, SemSpec, Sem!SemSpec

(***************************************************************************)
(* No missed wake-up.                                                      *)
(***************************************************************************)
Awake == {"held", "notify", "woken", "take"}
Waking == \E c \in Clients : pc[c] \in Awake

\* The Notify stores a wake-up only while no call is registered; a call that is about
\* to register, or has, finds it or somebody who is still to notify.
WakerInv ==
  /\ stored => queue = <<>>
  /\ (\E c \in Clients : pc[c] \in {"register", "asleep"}) => stored \/ Waking

\* One call moves on and is then awake itself, or someone else is.
LEMMA StaysAwake ==
  ASSUME pc \in [Clients -> PCs], NEW c \in Clients, NEW l, Goto(c, l),
         l \in Awake \/ \E d \in Clients : d # c /\ pc[d] \in Awake
  PROVE  Waking'
BY Zenon DEF Goto, Waking

\* A full budget has an owner.
LEMMA FullHasOwner == ASSUME BudgetInv, Cap > 0, used >= Cap PROVE \E d \in Clients : pc[d] = "held"
<1>1. Cardinality(Holders) > 0 /\ Cardinality(Holders) \in Nat
  BY HoldersFinite, BudgetConstants DEF BudgetInv, UsedCountsPermits
<1>2. Holders # {}
  BY <1>1, FS_EmptySet
<1>. QED
  BY <1>2, Zenon DEF Holders

\* notify_one leaves a stored wake-up or a woken call.
LEMMA NotifyWakes ==
  ASSUME BudgetInv, WakerInv, NEW c \in Clients, pc[c] # "asleep", NotifyOne(queue, c, "idle")
  PROVE  WakerInv'
<1>1. CASE queue = <<>>
  <2>1. stored' = TRUE /\ queue' = <<>>
    BY <1>1, Zenon DEF NotifyOne
  <2>. QED
    BY <2>1, Zenon DEF WakerInv
<1>2. CASE queue # <<>>
  <2>1. /\ pc' = [pc EXCEPT ![Head(queue)] = "woken", ![c] = "idle"]
        /\ stored' = stored
    BY <1>2, Zenon DEF NotifyOne
  <2>2. ~stored
    BY <1>2, Zenon DEF WakerInv
  <2>3. queue \in Seq(Clients) /\ pc \in [Clients -> PCs]
    BY Zenon DEF BudgetInv, BudgetTypeOK
  <2>4. Head(queue) \in Range(queue) /\ Head(queue) \in Clients
    BY <1>2, <2>3 DEF Range
  <2>5. Head(queue) # c
    BY <2>4, Zenon DEF BudgetInv, QueueIsSleepers
  <2>6. pc'[Head(queue)] = "woken"
    BY <2>1, <2>3, <2>4, <2>5, Zenon
  <2>7. Waking'
    BY <2>4, <2>6, Zenon DEF Waking, Awake
  <2>. QED
    BY <2>1, <2>2, <2>7, Zenon DEF WakerInv
<1>. QED
  BY <1>1, <1>2, Zenon

LEMMA WakerStep ==
  ASSUME BudgetInv, WakerInv, Cap > 0, NEW c \in Clients,
         \/ \E m \in Modes : Call(c, m)
         \/ WaiterStep(c) \/ DropPermit(c) \/ TimedOut(c)
  PROVE  WakerInv'
<1>0. pc \in [Clients -> PCs] /\ queue \in Seq(Clients)
  BY Zenon DEF BudgetInv, BudgetTypeOK
<1>1. ASSUME Waking', UNCHANGED <<stored, queue>> PROVE WakerInv'
  BY <1>1, Zenon DEF WakerInv
<1>2. CASE \E m \in Modes : Call(c, m)
  <2>1. Goto(c, "take") /\ UNCHANGED <<stored, queue>>
    BY <1>2, Zenon DEF Call
  <2>. QED
    BY <1>0, <1>1, <2>1, StaysAwake, Zenon DEF Awake
<1>3. CASE CasTake(c)
  <2>1. UNCHANGED <<stored, queue>> /\ pc[c] = "take"
    BY <1>3, Zenon DEF CasTake
  <2>2. CASE Goto(c, "held")
    BY <1>0, <1>1, <2>1, <2>2, StaysAwake, Zenon DEF Awake
  <2>3. CASE used >= Cap /\ \E l \in {"idle", "register"} : Goto(c, l)
    <3>1. \E d \in Clients : d # c /\ pc[d] \in Awake
      BY <2>1, <2>3, FullHasOwner, Zenon DEF Awake
    <3>. QED
      BY <1>0, <1>1, <2>1, <2>3, <3>1, StaysAwake
  <2>. QED
    BY <1>3, <2>2, <2>3, Zenon DEF CasTake
<1>4. CASE Notified(c)
  <2>1. CASE stored
    <3>1. Goto(c, "take") /\ ~stored'
      BY <1>4, <2>1, Zenon DEF Notified
    <3>2. Waking'
      BY <1>0, <3>1, StaysAwake, Zenon DEF Awake
    <3>. QED
      BY <3>1, <3>2, Zenon DEF WakerInv
  <2>2. CASE ~stored
    <3>1. pc[c] = "register" /\ Goto(c, "asleep") /\ stored' = stored
      BY <1>4, <2>2, Zenon DEF Notified
    <3>2. Waking
      BY <2>2, <3>1, Zenon DEF WakerInv
    <3>3. PICK d \in Clients : pc[d] \in Awake
      BY <3>2, Zenon DEF Waking
    <3>4. d # c
      BY <3>1, <3>3, Zenon DEF Awake
    <3>5. Waking'
      BY <1>0, <3>1, <3>3, <3>4, StaysAwake, SMTT(30)
    <3>. QED
      BY <2>2, <3>1, <3>5, Zenon DEF WakerInv
  <2>. QED
    BY <2>1, <2>2, Zenon
<1>5. CASE Resumed(c)
  <2>1. Goto(c, "take") /\ UNCHANGED <<stored, queue>>
    BY <1>5, Zenon DEF Resumed
  <2>. QED
    BY <1>0, <1>1, <2>1, StaysAwake, Zenon DEF Awake
<1>6. CASE DropNotify(c)
  BY <1>6, NotifyWakes, Zenon DEF DropNotify
<1>7. CASE DropPermit(c)
  <2>1. Goto(c, "notify") /\ UNCHANGED <<stored, queue>>
    BY <1>7, Zenon DEF DropPermit
  <2>. QED
    BY <1>0, <1>1, <2>1, StaysAwake, Zenon DEF Awake
<1>8. CASE TimedOut(c)
  <2>1. CASE pc[c] = "asleep"
    <3>1. Goto(c, "idle") /\ stored' = stored /\ c \in Range(queue)
      BY <1>8, <2>1, Zenon DEF TimedOut, BudgetInv, QueueIsSleepers
    <3>2. queue # <<>>
      BY <3>1 DEF Range
    <3>3. ~stored /\ Waking
      BY <2>1, <3>2, Zenon DEF WakerInv
    <3>4. PICK d \in Clients : pc[d] \in Awake
      BY <3>3, Zenon DEF Waking
    <3>5. d # c
      BY <2>1, <3>4, Zenon DEF Awake
    <3>6. Waking'
      BY <1>0, <3>1, <3>4, <3>5, StaysAwake
    <3>. QED
      BY <3>1, <3>3, <3>6, Zenon DEF WakerInv
  <2>2. CASE pc[c] = "woken"
    <3>1. NotifyOne(queue, c, "idle")
      BY <1>8, <2>2, Zenon DEF TimedOut
    <3>. QED
      BY <2>2, <3>1, NotifyWakes, Zenon
  <2>. QED
    BY <1>8, <2>1, <2>2, Zenon DEF TimedOut
<1>. QED
  BY <1>2, <1>3, <1>4, <1>5, <1>6, <1>7, <1>8 DEF WaiterStep

\* Permit::drop's comment, "a waiter that registers late is still woken", as safety:
\* whenever a call sleeps, somebody holds a unit or is still to notify or to take, so
\* no interleaving of drops, timeouts and registrations leaves every call asleep; the
\* one wake-up a Notify stores is enough.  (A budget with cap 0 has nobody to wait for.)
THEOREM BudgetNoMissedWakeup ==
  ASSUME Cap > 0
  PROVE  Spec => []SleepersHaveAWaker
<1>1. Init => WakerInv
  BY Zenon DEF Init, WakerInv
<1>2. BudgetInv /\ WakerInv /\ [Next]_vars => WakerInv'
  <2> SUFFICES ASSUME BudgetInv, WakerInv, [Next]_vars PROVE WakerInv'
    BY Zenon
  <2>1. CASE Next
    BY <2>1, WakerStep, Zenon DEF Next
  <2>2. CASE UNCHANGED vars
    BY <2>2, Zenon DEF WakerInv, Waking, vars
  <2>. QED
    BY <2>1, <2>2, Zenon
<1>3. ASSUME BudgetInv, WakerInv PROVE SleepersHaveAWaker
  <2> SUFFICES ASSUME queue # <<>> PROVE Waking
    BY Zenon DEF SleepersHaveAWaker, Waking, Awake
  <2>1. queue \in Seq(Clients) /\ Head(queue) \in Range(queue)
    BY <1>3 DEF BudgetInv, BudgetTypeOK, Range
  <2>2. Head(queue) \in Clients /\ pc[Head(queue)] = "asleep"
    BY <1>3, <2>1, Zenon DEF BudgetInv, QueueIsSleepers
  <2>. QED
    BY <1>3, <2>2, Zenon DEF WakerInv
<1>. QED
  BY <1>1, <1>2, <1>3, BudgetInvariant, PTL DEF Spec

\* The counter never wraps below zero and the queue holds callers only.
THEOREM BudgetTypes == Spec => []BudgetTypeOK
<1>1. BudgetInv => BudgetTypeOK
  BY Zenon DEF BudgetInv
<1>. QED
  BY <1>1, BudgetInvariant, PTL
=============================================================================
