--------------------------- MODULE MCConnections ----------------------------
(*****************************************************************************)
(* The tabs, the connections they make, a local terminal, and the            *)
(* connections of tunnels,                                                   *)
(* each by itself: a behaviour is one of one part, while the others stay     *)
(* in an initial state.                                                      *)
(*****************************************************************************)
EXTENDS Connections, OpenTabs, TLC

CONSTANTS l1, r1, a1, a2, b, h1, h2

MCChain == (a1 :> <<h1, h2>>) @@ (a2 :> <<h1>>) @@ (b :> <<h1>>)

VARIABLE part

ASSUME MCConnectConstants == ConnectConstants
ASSUME MCPartConstants == SessionsConstants /\ PtyConstants /\ RemoteConstants

tabsVars == <<opening, sessions, writer, shell, task, aborted, tries, limit, closing, starter,
  stops, tunnel, shown, drops, early, late>>
ptyVars == <<child, produced, pipe, master, ptyReader, chan, received, rx, msgs, senders,
  ptyWriter, sentMsgs>>
remoteVars == <<slot, made, closed, listening, routes, queued, relays, opens, loopPc, conn,
  shutdown, status, stuck>>
allVars == <<part, tabsVars, connectVars, ptyVars, vars, relayVars, remoteVars>>

MCInit ==
  /\ part \in {"tabs", "connect", "pty", "relays", "copy", "remote"}
  /\ Terminals!Init /\ ConnectInit /\ Pty!Init /\ Init /\ RelayInit /\ Remote!Init
  /\ part = "connect" \/ file = {}
  /\ part # "connect" \/ (\A r \in file : r[1] = h1)
  /\ part = "relays" \/ ~socks
MCNext ==
  /\ UNCHANGED part
  /\ \/ part = "tabs" /\ Terminals!Next /\ UNCHANGED <<connectVars, ptyVars, vars, relayVars, remoteVars>>
     \/ part = "connect" /\ ConnectNext /\ UNCHANGED <<tabsVars, ptyVars, vars, relayVars, remoteVars>>
     \/ part = "pty" /\ Pty!Next /\ UNCHANGED <<tabsVars, connectVars, vars, relayVars, remoteVars>>
     \/ part = "relays" /\ Next /\ UNCHANGED <<tabsVars, connectVars, ptyVars, relayVars, remoteVars>>
     \/ part = "copy" /\ RelayNext /\ UNCHANGED <<tabsVars, connectVars, ptyVars, vars, remoteVars>>
     \/ part = "remote" /\ Remote!Next /\ UNCHANGED <<tabsVars, connectVars, ptyVars, vars, relayVars>>
\* The fairness of each part.
MCFairness ==
  /\ WF_tabsVars(part = "tabs" /\ \E t \in Tabs : Terminals!Supervise(t) \/ Terminals!Closing(t))
  /\ WF_connectVars(part = "connect" /\ \E a \in Attempts : Attempt(a))
  /\ WF_ptyVars(part = "pty" /\ Pty!Threads)
  /\ WF_vars(part = "relays" /\ \E c \in Conns : Step(c))
  /\ WF_vars(part = "relays" /\ (Drained \/ Abort))
  /\ WF_relayVars(part = "copy" /\ DrainTimeout)
  /\ \A d \in Dirs : WF_relayVars(part = "copy" /\ Half(d))
  /\ WF_remoteVars(part = "remote" /\ Remote!Loop)
  /\ WF_remoteVars(part = "remote" /\ Remote!Connect)
  /\ WF_remoteVars(part = "remote" /\ slot \in closed /\ Remote!Leave)
  /\ SF_remoteVars(part = "remote" /\ Remote!Forwarded)
MCSpec == MCInit /\ [][MCNext]_allVars /\ MCFairness

\* Each part gets where it has to: a lost shell is replaced or ends its tab, and a
\* closed tab its supervisor (SupervisorsEnd), every connection attempt ends
\* (AttemptsEnd), of a local terminal that is closed nothing is left (NothingLeft),
\* a connection of a tunnel comes to its relay or is sent away (ConnsSettle), a
\* relay ends once a side has closed (RelayEnds), a remote tunnel comes to listen
\* (RemoteListens).
ConnectionsProgress ==
  []<>CASE part = "tabs" -> Terminals!Resolved
        [] part = "connect" -> AttemptsOver
        [] part = "pty" -> Pty!Gone
        [] part = "relays" -> Settled
        [] part = "copy" -> OverIfClosed
        [] part = "remote" -> Remote!Listens
=============================================================================
