------------------------------ MODULE McpServer ------------------------------
(***************************************************************************)
(* The MCP service: McpManager's start, stop and restart, the HTTP server  *)
(* they own, and the requests it serves (crates/app/src/mcp.rs), with the  *)
(* interactive terminals a request opens and closes (mcp_terminal.rs) and  *)
(* the quota of the exec connection (exec.rs).  The output of a terminal   *)
(* is TerminalBuffer's matter.                                             *)
(*                                                                         *)
(* A restart starts at most one server, so a server has its restart's      *)
(* number.  axum serves every connection on a task of its own: neither the *)
(* end nor the abort of the server's task ends a request in progress.      *)
(***************************************************************************)
EXTENDS Naturals, Sequences, FiniteSets

CONSTANTS
  MaxRestarts,        \* bound: calls of restart_from_settings and boot_from_settings
  MaxChanges,         \* bound: changes of the settings
  Ports, DefaultPort, \* DEFAULT_PORT, what mcp.port says until it is set
  MaxReqs,            \* bound: requests
  Permits             \* MCP_PERMITS

Restarts == 1..MaxRestarts
Reqs == 1..MaxReqs    \* in the order they come in
None == 0

VARIABLES
  settings, changes,  \* mcp.enabled and mcp.port
  inner,              \* McpInner: the server whose shutdown and task handles are held
  rs,                 \* a restart: pc, the configuration read, the server it stops
  srv, tx, cfg,       \* a server: its task, its shutdown channel, its snapshot
  held,               \* exec permits held, by request
  terms,              \* McpTerminalState.terms: the open terminals, named by their request
  req,                \* a request: tool, pc, server, the terminal it closes, its answer
  audit               \* rows a request has added to the audit table

manager == <<settings, changes, inner, rs>>
server == <<srv, tx, cfg>>
calls == <<held, terms, req, audit>>
vars == <<manager, server, calls>>

Configs == [enabled : BOOLEAN, port : Ports]
Tools == {"ssh_exec", "terminal_open", "terminal_close", "sftp_write"}
NoConfig == [enabled |-> FALSE, port |-> DefaultPort]
IdleRestart == [pc |-> "idle", cfg |-> NoConfig, old |-> None, again |-> FALSE]
Done == [IdleRestart EXCEPT !.pc = "done"]
NoReq == [tool |-> "none", pc |-> "idle", srv |-> None, term |-> None, ans |-> "none"]

Init ==
  /\ settings \in {c \in Configs : c.port = DefaultPort} /\ changes = 0 /\ inner = None
  /\ rs = [r \in Restarts |-> IdleRestart]
  /\ srv = [r \in Restarts |-> "none"] /\ tx = [r \in Restarts |-> "none"]
  /\ cfg = [r \in Restarts |-> NoConfig]
  /\ held = {} /\ terms = {}
  /\ req = [q \in Reqs |-> NoReq] /\ audit = [q \in Reqs |-> <<>>]

(***************************************************************************)
(* The manager.  restart_from_settings: stop, read the settings, and start *)
(* (which stops again, binds the port and installs the handles).           *)
(***************************************************************************)
ChangeSettings(c) ==
  /\ changes < MaxChanges /\ c # settings
  /\ settings' = c /\ changes' = changes + 1
  /\ UNCHANGED <<inner, rs, server, calls>>

Restart(r) ==
  /\ rs[r].pc = "idle" /\ \A p \in 1..(r - 1) : rs[p].pc # "idle"
  /\ rs' = [rs EXCEPT ![r].pc = "stop"]
  /\ UNCHANGED <<settings, changes, inner, server, calls>>

\* boot_from_settings: reads first; a service that is not enabled is not started.
Boot(r) ==
  /\ r = 1 /\ rs[r].pc = "idle"
  /\ rs' = [rs EXCEPT ![r].pc = "read"]
  /\ UNCHANGED <<settings, changes, inner, server, calls>>

\* After the first stop the settings are read, after start's own the port is bound.
AfterStop(r) == IF rs[r].again THEN "bind" ELSE "read"

\* stop: the handles leave inner in one step.
StopTake(r) ==
  /\ rs[r].pc = "stop"
  /\ rs' = [rs EXCEPT ![r].pc = IF inner = None THEN AfterStop(r) ELSE "close_all", ![r].old = inner]
  /\ inner' = None
  /\ UNCHANGED <<settings, changes, server, calls>>

\* close_all drains the registry and closes what was in it.
CloseAll(r) ==
  /\ rs[r].pc = "close_all"
  /\ terms' = {}
  /\ rs' = [rs EXCEPT ![r].pc = "signal"]
  /\ UNCHANGED <<settings, changes, inner, server, held, req, audit>>

Signal(r) ==
  /\ rs[r].pc = "signal"
  /\ tx' = [tx EXCEPT ![rs[r].old] = "sent"]
  /\ rs' = [rs EXCEPT ![r].pc = "grace"]
  /\ UNCHANGED <<settings, changes, inner, srv, cfg, calls>>

\* Mutant: no limit on the wait.
StopWaitForever(r) ==
  /\ rs[r].pc = "grace" /\ srv[rs[r].old] = "down"
  /\ rs' = [rs EXCEPT ![r].pc = AfterStop(r), ![r].old = None]
  /\ UNCHANGED <<settings, changes, inner, server, calls>>
\* The wait for the task: it ends, or STOP_GRACE passes and it is aborted.
StopWait(r) ==
  /\ rs[r].pc = "grace"
  /\ srv' = [srv EXCEPT ![rs[r].old] = "down"]
  /\ rs' = [rs EXCEPT ![r].pc = AfterStop(r), ![r].old = None]
  /\ UNCHANGED <<settings, changes, inner, tx, cfg, calls>>

\* read_mcp_config, which may fail, and ensure_token where the service is enabled.
ReadConfig(r) ==
  /\ rs[r].pc = "read"
  /\ \/ rs' = [rs EXCEPT ![r] = Done]
     \/ settings.enabled /\ rs' = [rs EXCEPT ![r] = [@ EXCEPT !.cfg = settings, !.again = TRUE, !.pc = "stop"]]
  /\ UNCHANGED <<settings, changes, inner, server, calls>>

Listening == {s \in Restarts : srv[s] = "serving"}

Bind(r) ==
  /\ rs[r].pc = "bind"
  /\ IF \E s \in Listening : cfg[s].port = rs[r].cfg.port
     THEN rs' = [rs EXCEPT ![r] = Done] /\ UNCHANGED server
     ELSE /\ rs' = [rs EXCEPT ![r].pc = "install"]
          /\ srv' = [srv EXCEPT ![r] = "serving"] /\ tx' = [tx EXCEPT ![r] = "held"]
          /\ cfg' = [cfg EXCEPT ![r] = rs[r].cfg]
  /\ UNCHANGED <<settings, changes, inner, calls>>

\* Mutant: the handles that are replaced are kept alive.
InstallLeaks(r) ==
  /\ rs[r].pc = "install"
  /\ inner' = r
  /\ rs' = [rs EXCEPT ![r] = Done]
  /\ UNCHANGED <<settings, changes, server, calls>>
\* The handles replace whatever another start has installed meanwhile: its
\* shutdown sender is dropped, its task detached.
Install(r) ==
  /\ rs[r].pc = "install"
  /\ tx' = [s \in Restarts |-> IF s = inner THEN "dropped" ELSE tx[s]]
  /\ inner' = r
  /\ rs' = [rs EXCEPT ![r] = Done]
  /\ UNCHANGED <<settings, changes, srv, cfg, calls>>

ManagerStep(r) ==
  \/ StopTake(r) \/ CloseAll(r) \/ Signal(r) \/ StopWait(r)
  \/ ReadConfig(r) \/ Bind(r) \/ Install(r)

(***************************************************************************)
(* The server's task: on a signal, or when the sender is gone, it closes   *)
(* the listener and waits for the connections.                             *)
(***************************************************************************)
Busy(s) == \E q \in Reqs : req[q].srv = s /\ req[q].pc \notin {"idle", "answered"}

\* Mutant: only a value that is sent ends the server.
ServeSent(s) ==
  /\ \/ srv[s] = "serving" /\ tx[s] = "sent" /\ srv' = [srv EXCEPT ![s] = "draining"]
     \/ srv[s] = "draining" /\ ~Busy(s) /\ srv' = [srv EXCEPT ![s] = "down"]
  /\ UNCHANGED <<manager, tx, cfg, calls>>
Serve(s) ==
  /\ \/ srv[s] = "serving" /\ tx[s] \in {"sent", "dropped"} /\ srv' = [srv EXCEPT ![s] = "draining"]
     \/ srv[s] = "draining" /\ ~Busy(s) /\ srv' = [srv EXCEPT ![s] = "down"]
  /\ UNCHANGED <<manager, tx, cfg, calls>>

(***************************************************************************)
(* Requests.                                                               *)
(***************************************************************************)
Goto(q, pc) == req' = [req EXCEPT ![q].pc = pc]
Answer(q, a) == req' = [req EXCEPT ![q] = [@ EXCEPT !.pc = "answered", !.ans = a, !.srv = None, !.term = None]]
Keep == UNCHANGED <<manager, server>>

\* mcp_post and dispatch: a bad token, a body that is no request, a notification
\* and every method but tools/call are answered at once and change nothing.
Post(q, s) ==
  /\ req[q] = NoReq /\ \A p \in 1..(q - 1) : req[p] # NoReq
  /\ srv[s] = "serving"
  /\ req' = [req EXCEPT ![q].srv = s, ![q].pc = "call"]
  /\ UNCHANGED <<held, terms, audit>> /\ Keep

\* call_tool: the permission of the tool's group (the session's own, or the one
\* in the server's snapshot) is checked; a terminal that some request has opened
\* can be closed by another.
CallTool(q, tool, t) ==
  /\ req[q].pc = "call"
  /\ t \in IF tool = "terminal_close" THEN terms ELSE {None}
  /\ \/ req' = [req EXCEPT ![q].tool = tool, ![q].term = t, ![q].pc = tool]
     \/ Answer(q, "done")
  /\ UNCHANGED <<held, terms, audit>> /\ Keep

\* mcp_audit, then the answer; an upload or download may be waited for first.
Audit(q) ==
  /\ req[q].pc = "audit"
  /\ audit' = [audit EXCEPT ![q] = Append(@, req[q].ans)]
  /\ Answer(q, req[q].ans) \/ (req[q].tool = "sftp_write" /\ Goto(q, "wait"))
  /\ UNCHANGED <<held, terms>> /\ Keep
Record(q, a) == req' = [req EXCEPT ![q].pc = "audit", ![q].ans = a]

\* Outcomes: "refused" (rate_limited, rejected), "failed" (error, timeout), "ok".
\* ssh_exec: the rate limit of the session, then the policy, then the session:
\* one that is unknown or local ends the request.
ExecGate(q) ==
  /\ req[q].pc = "ssh_exec"
  /\ Record(q, "refused") \/ Answer(q, "unresolved") \/ Goto(q, "permit")
  /\ UNCHANGED <<held, terms, audit>> /\ Keep

\* ensure_exec_ctx and acquire_mcp: a permit, or an error after the wait.
ExecAcquire(q) ==
  /\ req[q].pc = "permit"
  /\ \/ Cardinality(held) < Permits /\ held' = held \cup {q} /\ Goto(q, "run")
     \/ Record(q, "failed") /\ UNCHANGED held
  /\ UNCHANGED <<terms, audit>> /\ Keep

\* Mutant: a command that times out is not recorded.
ExecEndUnrecorded(q) ==
  /\ req[q].pc = "run"
  /\ held' = held \ {q}
  /\ Record(q, "ok") \/ Answer(q, "failed")
  /\ UNCHANGED <<terms, audit>> /\ Keep
\* ssh_exec_inner ends, or the timeout drops it; the permit goes either way.
ExecEnd(q) ==
  /\ req[q].pc = "run"
  /\ held' = held \ {q}
  /\ Record(q, "ok") \/ Record(q, "failed")
  /\ UNCHANGED <<terms, audit>> /\ Keep

\* terminal_open: the session is resolved and connected, or that fails; then
\* the terminal is registered.
Open(q) ==
  /\ req[q].pc = "terminal_open"
  /\ \/ terms' = terms \cup {q} /\ Record(q, "ok")
     \/ Answer(q, "failed") /\ UNCHANGED terms
  /\ UNCHANGED <<held, audit>> /\ Keep

\* terminal_close: what is not in the registry is an error.
Close(q) ==
  /\ req[q].pc = "terminal_close"
  /\ IF req[q].term \in terms THEN terms' = terms \ {req[q].term} /\ Record(q, "ok")
     ELSE Answer(q, "failed") /\ UNCHANGED terms
  /\ UNCHANGED <<held, audit>> /\ Keep

\* sftp_tool: the operation, its record and the answer, inside one timeout.
SftpOp(q) ==
  /\ req[q].pc = "sftp_write"
  /\ Record(q, "ok") \/ Answer(q, "failed")
  /\ UNCHANGED <<held, terms, audit>> /\ Keep
\* wait_transfer polls the queue until the transfer is terminal, is gone, or
\* the caller's patience ends.
WaitTransfer(q) ==
  /\ req[q].pc = "wait"
  /\ Answer(q, "ok") \/ Answer(q, "failed")
  /\ UNCHANGED <<held, terms, audit>> /\ Keep
SftpTimeout(q) ==
  /\ req[q].tool = "sftp_write" /\ req[q].pc \notin {"idle", "answered"}
  /\ Answer(q, "failed")
  /\ UNCHANGED <<held, terms, audit>> /\ Keep

\* The client goes away: the handler is dropped where it waits.
ClientGone(q) ==
  /\ req[q].pc \notin {"idle", "answered"}
  /\ Answer(q, "gone") /\ held' = held \ {q}
  /\ UNCHANGED <<terms, audit>> /\ Keep

RequestStep(q) ==
  \/ Audit(q) \/ ExecGate(q) \/ ExecAcquire(q) \/ ExecEnd(q)
  \/ Open(q) \/ Close(q) \/ SftpOp(q) \/ WaitTransfer(q)

Next ==
  \/ \E c \in Configs : ChangeSettings(c)
  \/ \E r \in Restarts : Restart(r) \/ Boot(r) \/ ManagerStep(r) \/ Serve(r)
  \/ \E q \in Reqs : RequestStep(q) \/ SftpTimeout(q) \/ ClientGone(q)
  \/ \E q \in Reqs, s \in Restarts : Post(q, s)
  \/ \E q \in Reqs, tool \in Tools, t \in Reqs \cup {None} : CallTool(q, tool, t)

Spec == Init /\ [][Next]_vars

\* The runtime polls the manager's callers and the server's task, and STOP_GRACE
\* passes.  Nothing is assumed of the requests.
Progress == \E r \in Restarts : ManagerStep(r) \/ Serve(r)
FairSpec == Spec /\ WF_vars(Progress)

(***************************************************************************)
(* Properties.                                                             *)
(***************************************************************************)
\* Types; no more commands run at once than MCP_PERMITS, and only running
\* commands hold a permit.
McpTypeOK ==
  /\ settings \in Configs /\ inner \in {None} \cup Restarts
  /\ \A s \in Restarts : srv[s] \in {"none", "serving", "draining", "down"}
  /\ \A s \in Restarts : tx[s] \in {"none", "held", "sent", "dropped"}
  /\ terms \subseteq Reqs /\ Cardinality(held) <= Permits
  /\ held = {q \in Reqs : req[q].pc = "run"}

\* No server listens that nobody can stop: its handles are in inner, or with
\* the start or the stop that has just made or taken it, or it has been told
\* to end.  Two restarts may overlap anywhere between their awaits.
ServersOwned ==
  \A s \in Listening : tx[s] = "held" =>
     \/ inner = s \/ rs[s].pc = "install"
     \/ \E r \in Restarts : rs[r].old = s /\ rs[r].pc \in {"close_all", "signal"}

\* Every command that got as far as the rate limiter is on record with the
\* outcome its client was told, once; so is every change made for a client.
AuditedAsAnswered ==
  \A q \in Reqs : req[q].pc = "answered" =>
     /\ req[q].tool = "ssh_exec" /\ req[q].ans \notin {"unresolved", "gone"} => audit[q] = <<req[q].ans>>
     /\ req[q].tool # "ssh_exec" /\ req[q].ans = "ok" => audit[q] = <<"ok">>
     /\ Len(audit[q]) <= 1

Restarted == \A r \in Restarts : rs[r].pc \in {"idle", "done"}
PortsGivenUp == \A s \in Listening : tx[s] = "held"
\* Every restart comes to an end, however long the requests of the server it
\* stops take: the wait for them is limited by STOP_GRACE.
RestartsEnd == []<>Restarted

\* A server whose shutdown was sent, or whose handles a later start replaced,
\* gives up its port.
ReplacedServersEnd == []<>PortsGivenUp
=============================================================================
