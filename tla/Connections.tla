---------------------------- MODULE Connections -----------------------------
(*****************************************************************************)
(* What a session is connected with, side by side: the attempts to connect   *)
(* (SshConnect), the connections of its tunnels (TunnelRelays, Relay), and   *)
(* as instances a local terminal and a remote tunnel, with what these two    *)
(* promise.                                                                  *)
(*****************************************************************************)
EXTENDS TunnelRelays, SshConnect, Relay

CONSTANTS
  ChanCap, PipeCap, MaxOutput, MaxMsgs,
  MaxConnections, RouteCap, MaxRelays, MaxOpens

VARIABLES
  child, produced, pipe, master, ptyReader, chan, received, rx, msgs, senders, ptyWriter, sentMsgs,
  slot, made, closed, listening, routes, queued, relays, opens, loopPc, conn, shutdown, status,
  stuck

Pty == INSTANCE LocalPty WITH reader <- ptyReader, writer <- ptyWriter, Cap <- ChanCap
Remote == INSTANCE RemoteForward WITH pc <- loopPc, Cap <- RouteCap, MaxConns <- MaxRelays

\* What the proofs need of the constants.
PtyConstants == ChanCap \in Nat /\ PipeCap \in Nat
RemoteConstants == RouteCap \in Nat /\ MaxRelays \in Nat

\* Of a local terminal: its end comes behind all its output, and what is on its way is bounded.
OutputEndsWhole == Pty!EndIsWhole /\ Pty!OutputBounded
\* Of a remote tunnel: its channels and relays are bounded, and once it has stopped the
\* server does not listen for it.
RemoteQuiet == Remote!RemoteBounded /\ Remote!StoppedIsSilent
=============================================================================
