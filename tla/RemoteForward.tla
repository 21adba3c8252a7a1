--------------------------- MODULE RemoteForward ----------------------------
(***************************************************************************)
(* A remote tunnel: remote_loop (crates/core-tunnel/src/manager.rs) asks   *)
(* the server to listen and relays the channels the server opens, which    *)
(* the connection's handler passes on through forward_routes               *)
(* (crates/core-ssh/src/connection.rs).  The group's supervisor replaces   *)
(* the connection when it is lost or reported as bad.                      *)
(*                                                                         *)
(* Connections are numbered.  A relay is the permit it holds.              *)
(***************************************************************************)
EXTENDS Naturals, FiniteSets

CONSTANTS
  MaxConnections,     \* bound: connections of the group
  Cap,                \* channels the route holds (64)
  MaxConns,           \* spec.max_conns
  MaxOpens            \* bound: channels the server opens

Connections == 1..MaxConnections

VARIABLES
  slot,               \* the connection in the group's slot (0: Connecting)
  made,               \* connections made
  closed,             \* connections that closed
  listening,          \* connections on which the server listens for the tunnel
  routes,             \* connections whose forward_routes has the tunnel's sender
  queued,             \* channels in the receiver
  relays,             \* relays that run
  opens,              \* channels the server has opened
  pc,                 \* remote_loop: wait, forward, listen, backoff, cancel, over
  conn,               \* the connection it holds (0: none)
  shutdown,
  status,             \* what remote_loop has made of the tunnel's status
  stuck               \* history: the connection it listens on was lost

vars == <<slot, made, closed, listening, routes, queued, relays, opens, pc, conn, shutdown, status, stuck>>
net == <<slot, made, closed>>
chans == <<queued, relays, opens>>

Init ==
  /\ slot = 0 /\ made = 0 /\ closed = {} /\ listening = {} /\ routes = {}
  /\ queued = 0 /\ relays = 0 /\ opens = 0
  /\ pc = "wait" /\ conn = 0 /\ shutdown = FALSE /\ status = "Starting" /\ stuck = FALSE

(***************************************************************************)
(* The group's connection and the server.                                  *)
(***************************************************************************)
Connect ==
  /\ slot = 0 /\ made < MaxConnections /\ made' = made + 1 /\ slot' = made + 1
  /\ UNCHANGED <<closed, listening, routes, chans, pc, conn, shutdown, status, stuck>>
\* The supervisor leaves the connection: it closed, or a relay of the group
\* reported it.
Leave ==
  /\ slot # 0 /\ made < MaxConnections /\ slot' = 0
  /\ UNCHANGED <<made, closed, listening, routes, chans, pc, conn, shutdown, status, stuck>>
\* It closes; the server listens no more.
Closes(g) ==
  /\ g \in 1..made /\ g \notin closed /\ made < MaxConnections
  /\ closed' = closed \cup {g} /\ listening' = listening \ {g}
  /\ stuck' = (stuck \/ (conn = g /\ pc = "listen"))
  /\ UNCHANGED <<slot, made, routes, chans, pc, conn, shutdown, status>>
\* server_channel_open_forwarded_tcpip: try_send to the route's receiver.
ServerOpens(g) ==
  /\ g \in listening /\ g \in routes /\ opens < MaxOpens /\ opens' = opens + 1
  /\ queued' = IF queued < Cap THEN queued + 1 ELSE queued
  /\ UNCHANGED <<net, listening, routes, relays, pc, conn, shutdown, status, stuck>>

(***************************************************************************)
(* remote_loop.                                                            *)
(***************************************************************************)
\* wait_connected; when it times out, stop is looked for.
Waited ==
  /\ pc = "wait" /\ slot # 0 /\ conn' = slot /\ pc' = "forward"
  /\ UNCHANGED <<net, listening, routes, chans, shutdown, status, stuck>>
WaitTimeout ==
  /\ pc = "wait" /\ slot = 0 /\ shutdown /\ pc' = "over"
  /\ UNCHANGED <<net, listening, routes, chans, conn, shutdown, status, stuck>>
\* Mutant: after a failure the loop does not try again.
BackoffEnds ==
  /\ pc = "backoff" /\ pc' = "over" /\ conn' = 0
  /\ UNCHANGED <<net, listening, routes, chans, shutdown, status, stuck>>
\* tcpip_forward: the route first, then the request; a failure takes it out.
Forwarded ==
  /\ pc = "forward" /\ conn \notin closed
  /\ routes' = routes \cup {conn} /\ listening' = listening \cup {conn} /\ status' = "Listening" /\ pc' = "listen"
  /\ UNCHANGED <<net, chans, conn, shutdown, stuck>>
ForwardFails ==
  /\ pc = "forward" /\ pc' = "backoff"
  /\ UNCHANGED <<net, listening, routes, chans, conn, shutdown, status, stuck>>
\* Two seconds, or stop.
Backoff ==
  /\ pc = "backoff" /\ pc' = (IF shutdown THEN "over" ELSE "wait") /\ conn' = 0
  /\ UNCHANGED <<net, listening, routes, chans, shutdown, status, stuck>>

\* rx.recv(): a channel is relayed if there is a permit, and closed otherwise.  It
\* is None when the sender is gone, and the loop starts over; but the sender is in
\* the forward_routes of the connection, which the loop itself holds.
SenderDropped == conn \notin routes
\* Mutant: the permit of a relay is not asked for.
ReceiveUngated ==
  /\ pc = "listen" /\ (queued > 0 \/ SenderDropped)
  /\ IF queued > 0 THEN queued' = queued - 1 /\ relays' = relays + 1 /\ UNCHANGED <<pc, conn>>
     ELSE pc' = "wait" /\ conn' = 0 /\ UNCHANGED <<queued, relays>>
  /\ UNCHANGED <<net, listening, routes, opens, shutdown, status, stuck>>
Receive ==
  /\ pc = "listen" /\ (queued > 0 \/ SenderDropped)
  /\ IF queued > 0
     THEN queued' = queued - 1 /\ relays' = (IF relays < MaxConns THEN relays + 1 ELSE relays) /\ UNCHANGED <<pc, conn>>
     ELSE pc' = "wait" /\ conn' = 0 /\ UNCHANGED <<queued, relays>>
  /\ UNCHANGED <<net, listening, routes, opens, shutdown, status, stuck>>
RelayEnds ==
  /\ relays > 0 /\ relays' = relays - 1
  /\ UNCHANGED <<net, listening, routes, queued, opens, pc, conn, shutdown, status, stuck>>
Stop ==
  /\ ~shutdown /\ shutdown' = TRUE
  /\ UNCHANGED <<net, listening, routes, chans, pc, conn, status, stuck>>
\* Mutant: the server is not told.
CancelForgotten ==
  /\ pc = "listen" /\ shutdown
  /\ pc' = "over" /\ routes' = routes \ {conn} /\ conn' = 0 /\ queued' = 0
  /\ UNCHANGED <<net, listening, relays, opens, shutdown, status, stuck>>
\* cancel_tcpip_forward: the request first, then the route, which stays when the
\* request fails; the receiver is dropped with the loop.
Cancel ==
  /\ pc = "listen" /\ shutdown
  /\ routes' = IF conn \in closed THEN routes ELSE routes \ {conn}
  /\ listening' = listening \ {conn}
  /\ pc' = "over" /\ conn' = 0 /\ queued' = 0
  /\ UNCHANGED <<net, relays, opens, shutdown, status, stuck>>

Loop == Waited \/ WaitTimeout \/ Forwarded \/ ForwardFails \/ Backoff \/ Receive \/ Cancel
Next ==
  \/ Loop \/ Connect \/ Leave \/ RelayEnds \/ Stop
  \/ \E g \in Connections : Closes(g) \/ ServerOpens(g)

Spec == Init /\ [][Next]_vars
\* The loop is polled and its timers come; the supervisor notices a connection
\* that closed and makes another; the server does not refuse for ever.
FairSpec ==
  Spec /\ WF_vars(Loop) /\ WF_vars(Connect) /\ WF_vars(slot \in closed /\ Leave) /\ SF_vars(Forwarded)

(***************************************************************************)
(* Properties.                                                             *)
(***************************************************************************)
\* The channels of one tunnel are bounded whatever the server opens: the route's
\* queue and the relays.
RemoteBounded == queued <= Cap /\ relays <= MaxConns

\* A tunnel that has stopped leaves no server listening for it, on whichever
\* connection of the group it registered, also one the group has left since.
StoppedIsSilent == pc = "over" => listening = {}

Listens == shutdown \/ stuck \/ conn \in listening
\* A remote tunnel comes to listen, however often registering fails or the group
\* changes its connection; unless the connection closed while it was listening.
RemoteListens == []<>Listens

\* The comment at rx.recv() says that the loop registers again after the group has
\* reconnected.
RemoteComesBack == []<>(shutdown \/ conn \in listening)
=============================================================================
