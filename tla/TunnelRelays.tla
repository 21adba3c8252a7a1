---------------------------- MODULE TunnelRelays ----------------------------
(***************************************************************************)
(* The connections of one local or dynamic tunnel                          *)
(* (crates/core-tunnel/src/manager.rs): the accept loop admits them, the   *)
(* supervisor of run_tunnel spawns them in its JoinSet, and each goes      *)
(* through the SOCKS5 handshake (dynamic), a channel of the group's budget *)
(* and the connection in the group's slot to its relay.                    *)
(*                                                                         *)
(* Permits are owned by the future of a connection: who holds which        *)
(* follows from where it is.  TunnelManager has start, stop and the        *)
(* group; Relay has what a relay does.                                     *)
(***************************************************************************)
EXTENDS Naturals, FiniteSets

CONSTANTS
  Conns,              \* clients that connect
  MaxConns,           \* spec.max_conns: relays
  MaxHandshakes,      \* SOCKS_HANDSHAKE_CONCURRENCY
  MaxChans,           \* the group's channel_budget; others take none here
  MaxQueue,           \* RELAY_REQ_QUEUE
  MaxLosses           \* bound: losses of the group's connection

ASSUME RelayLimits ==
  IsFiniteSet(Conns) /\ MaxConns \in Nat /\ MaxHandshakes \in Nat /\ MaxChans \in Nat

VARIABLES
  socks,              \* the tunnel is a dynamic one
  pc,                 \* where a connection is
  tried,              \* connections whose first attempt at a channel failed
  active,             \* stats.active_conns
  stage,              \* of run_tunnel: accepting, draining, ended
  connected,          \* the slot is Connected
  notify,             \* a permit of the group's Notify
  losses

vars == <<socks, pc, tried, active, stage, connected, notify, losses>>

At(ps) == {c \in Conns : pc[c] \in ps}
Relaying == {"chan", "wait", "open", "relay"}
Live == {"queued", "handshake", "reply"} \cup Relaying
Over == {"rejected", "failed", "completed", "aborted"}
Handshakes == IF socks THEN At({"queued", "handshake"}) ELSE {}
Relays == IF socks THEN At({"reply"} \cup Relaying) ELSE At({"queued"} \cup Relaying)
Chans == At({"wait", "open", "relay"})

Init ==
  /\ socks \in BOOLEAN /\ pc = [c \in Conns |-> "new"] /\ tried = {} /\ active = 0
  /\ stage = "accept" /\ connected = TRUE /\ notify = FALSE /\ losses = 0

Goto(c, l) == pc' = [pc EXCEPT ![c] = l]
\* Mutant: a rejection does not count it off.
LeaveRejected(c, l) == Goto(c, l) /\ active' = IF l = "rejected" THEN active ELSE active - 1
\* Every way out of a connection counts it off.
Leave(c, l) == Goto(c, l) /\ active' = active - 1

(***************************************************************************)
(* accept_loop and the supervisor.                                         *)
(***************************************************************************)
\* A full queue holds up the loop.
Accept(c) ==
  /\ stage = "accept" /\ pc[c] = "new" /\ Cardinality(At({"queued"})) < MaxQueue
  /\ IF IF socks THEN Cardinality(Handshakes) < MaxHandshakes ELSE Cardinality(Relays) < MaxConns
     THEN Goto(c, "queued") /\ active' = active + 1
     ELSE Goto(c, "rejected") /\ UNCHANGED active
  /\ UNCHANGED <<socks, tried, stage, connected, notify, losses>>
Spawn(c) ==
  /\ pc[c] = "queued" /\ Goto(c, IF socks THEN "handshake" ELSE "chan")
  /\ UNCHANGED <<socks, tried, active, stage, connected, notify, losses>>

\* stop: the accept loop ends, what is queued is still spawned.
Stop ==
  /\ stage = "accept" /\ stage' = "drain"
  /\ UNCHANGED <<socks, pc, tried, active, connected, notify, losses>>
Drained ==
  /\ stage = "drain" /\ At(Live) = {} /\ stage' = "ended"
  /\ UNCHANGED <<socks, pc, tried, active, connected, notify, losses>>
\* stop_grace_timeout: abort_all ends them where they are, uncounted.
Abort ==
  /\ stage = "drain" /\ At({"queued"}) = {} /\ At(Live) # {} /\ stage' = "ended"
  /\ pc' = [c \in Conns |-> IF pc[c] \in Live THEN "aborted" ELSE pc[c]]
  /\ UNCHANGED <<socks, tried, active, connected, notify, losses>>

(***************************************************************************)
(* handle_socks5.                                                          *)
(***************************************************************************)
\* Mutant: the relay's permit is asked for without being taken.
HandshakenAnyway(c) ==
  /\ pc[c] = "handshake" /\ Goto(c, "reply")
  /\ UNCHANGED <<socks, tried, active, stage, connected, notify, losses>>
\* The handshake's permit is given back before one of a relay is tried for.
Handshaken(c) ==
  /\ pc[c] = "handshake"
  /\ IF Cardinality(Relays) < MaxConns THEN Goto(c, "reply") /\ UNCHANGED active ELSE Leave(c, "rejected")
  /\ UNCHANGED <<socks, tried, stage, connected, notify, losses>>
\* A handshake that is wrong or takes too long, or a client that is gone at the
\* reply.
HandshakeFails(c) ==
  /\ pc[c] \in {"handshake", "reply"} /\ Leave(c, "failed")
  /\ UNCHANGED <<socks, tried, stage, connected, notify, losses>>
Replied(c) ==
  /\ pc[c] = "reply" /\ Goto(c, "chan")
  /\ UNCHANGED <<socks, tried, active, stage, connected, notify, losses>>

(***************************************************************************)
(* handle_local.                                                           *)
(***************************************************************************)
ChanAcquired(c) ==
  /\ pc[c] = "chan" /\ Cardinality(Chans) < MaxChans /\ Goto(c, "wait")
  /\ UNCHANGED <<socks, tried, active, stage, connected, notify, losses>>
\* Mutant: a connection waits for a channel as long as it takes.
ChanTimeoutNever(c) == FALSE /\ UNCHANGED vars
\* GROUP_CHANNEL_WAIT.
ChanTimeout(c) ==
  /\ pc[c] = "chan" /\ Cardinality(Chans) = MaxChans /\ Leave(c, "rejected")
  /\ UNCHANGED <<socks, tried, stage, connected, notify, losses>>
\* wait_connected: the connection in the slot, also one just reported as bad.
Connected(c) ==
  /\ pc[c] = "wait" /\ connected /\ Goto(c, "open")
  /\ UNCHANGED <<socks, tried, active, stage, connected, notify, losses>>
\* FailFast, or RECONNECT_WAIT is over.
NotConnected(c) ==
  /\ pc[c] = "wait" /\ ~connected /\ Leave(c, "failed")
  /\ UNCHANGED <<socks, tried, stage, connected, notify, losses>>
Opened(c) ==
  /\ pc[c] = "open" /\ Goto(c, "relay")
  /\ UNCHANGED <<socks, tried, active, stage, connected, notify, losses>>
\* The first time the group is told to reconnect, and it is tried again.
OpenFails(c) ==
  /\ pc[c] = "open"
  /\ IF c \notin tried THEN Goto(c, "wait") /\ notify' = TRUE /\ tried' = tried \cup {c} /\ UNCHANGED active
     ELSE Leave(c, "failed") /\ UNCHANGED <<notify, tried>>
  /\ UNCHANGED <<socks, stage, connected, losses>>
Relayed(c) ==
  /\ pc[c] = "relay" /\ Leave(c, "completed")
  /\ UNCHANGED <<socks, tried, stage, connected, notify, losses>>

\* The group's supervisor (TunnelManager): the connection is lost or reported.
Lost ==
  /\ connected /\ losses < MaxLosses /\ connected' = FALSE /\ notify' = FALSE /\ losses' = losses + 1
  /\ UNCHANGED <<socks, pc, tried, active, stage>>
Reconnected ==
  /\ ~connected /\ connected' = TRUE
  /\ UNCHANGED <<socks, pc, tried, active, stage, losses, notify>>

Step(c) ==
  \/ Spawn(c) \/ Handshaken(c) \/ HandshakeFails(c) \/ Replied(c) \/ ChanAcquired(c) \/ ChanTimeout(c)
  \/ Connected(c) \/ NotConnected(c) \/ Opened(c) \/ OpenFails(c)
Next ==
  \/ \E c \in Conns : Accept(c) \/ Relayed(c) \/ Step(c)
  \/ Stop \/ Drained \/ Abort \/ Lost \/ Reconnected

Spec == Init /\ [][Next]_vars
\* Tasks are polled and their timeouts come; a relay may last.
FairSpec == Spec /\ WF_vars(\E c \in Conns : Step(c)) /\ WF_vars(Drained \/ Abort)

(***************************************************************************)
(* Properties.                                                             *)
(***************************************************************************)
\* Relays, handshakes and channels stay within their limits, whatever order the
\* connections come, fail and end in.
LimitsKept ==
  /\ Cardinality(Relays) <= MaxConns /\ Cardinality(Handshakes) <= MaxHandshakes
  /\ Cardinality(Chans) <= MaxChans

\* active_conns counts the connections that are there: every way out of the
\* handlers counts once.  Those the end of a grace period aborts are never
\* counted off, so that the tunnel ends with the count of them, which run_tunnel
\* reports as an error of ownership.
ActiveCounted == active = Cardinality(At(Live)) + Cardinality(At({"aborted"}))

\* Both: the limits of a tunnel are kept, and its count is right.
RelaysCounted == LimitsKept /\ ActiveCounted

Settled == At(Live) \subseteq At({"relay"})
\* A connection that is admitted comes to its relay or is sent away: nothing it
\* waits for can keep it for ever, also when the channels are taken by relays
\* that do not end.
ConnsSettle == []<>Settled
=============================================================================
