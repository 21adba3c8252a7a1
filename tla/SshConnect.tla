----------------------------- MODULE SshConnect -----------------------------
(***************************************************************************)
(* Making an SSH connection: SshConnection::connect along a chain of jump  *)
(* hosts, the host key check and the known_hosts file it reads and         *)
(* rewrites, authentication and its prompts (crates/core-ssh/src:          *)
(* connection.rs, hostkey.rs; crates/app/src: connect.rs, terminal.rs).    *)
(*                                                                         *)
(* russh runs the host key check of a connection on a task of its own, as  *)
(* part of the key exchange that `handshake` waits for: the timeout ends   *)
(* the wait, not the task.                                                 *)
(***************************************************************************)
EXTENDS Naturals, Sequences

CONSTANTS
  Attempts,
  Background,         \* attempts without a user: tunnels, SFTP, exec, MCP
  Interactive,        \* attempts whose authentication is keyboard-interactive
  Chain,              \* for each attempt, the hosts it goes through; the last is the target
  Hosts, Keys, FirstKey,
  MaxRekeys           \* bound: host keys that change

\* What the constants have to be: every attempt has a target, behind any number of
\* jump hosts.
ConnectConstants ==
  /\ Background \subseteq Attempts /\ FirstKey \in Keys
  /\ \A a \in Attempts : Chain[a] \in Seq(Hosts) /\ Len(Chain[a]) > 0

VARIABLES
  file,               \* known_hosts: the <<host, key>> records in it
  hostkey,            \* the key each host presents
  rekeys,
  att,                \* an attempt: its step and the hop it is at
  chk,                \* the key check of each hop of each attempt
  learned,            \* history: for each host, the key of the last completed Learn
  clash               \* history: two rewrites of known_hosts were under way at once

connectVars == <<file, hostkey, rekeys, att, chk, learned, clash>>

NoKey == "none"
Hops(a) == DOMAIN Chain[a]
NoCheck == [pc |-> "none", key |-> NoKey, copy |-> {}, by |-> "none"]

ConnectInit ==
  /\ hostkey = [h \in Hosts |-> FirstKey] /\ rekeys = 0
  /\ file \in {{}} \cup {{<<h, k>>} : h \in Hosts, k \in Keys}
  /\ att = [a \in Attempts |-> [pc |-> "idle", hop |-> 1]]
  /\ chk = [a \in Attempts |-> [i \in Hops(a) |-> NoCheck]]
  /\ learned = [h \in Hosts |-> NoKey] /\ clash = FALSE

\* external: the administrator of a host replaces its key.
Rekey(h, k) ==
  /\ rekeys < MaxRekeys /\ k # hostkey[h]
  /\ hostkey' = [hostkey EXCEPT ![h] = k] /\ rekeys' = rekeys + 1
  /\ UNCHANGED <<file, att, chk, learned, clash>>

(***************************************************************************)
(* The attempt.                                                            *)
(***************************************************************************)
Go(a, pc) == att' = [att EXCEPT ![a].pc = pc]
Host(a) == Chain[a][att[a].hop]
KeepFile == UNCHANGED <<file, hostkey, rekeys, learned, clash>>

\* reject_background_ki, then the first handshake.
Connect(a) ==
  /\ att[a].pc = "idle"
  /\ Go(a, IF a \in Background \cap Interactive THEN "failed" ELSE "handshake")
  /\ UNCHANGED chk /\ KeepFile

\* The server is there, and presents its key.
Present(a) ==
  LET i == att[a].hop
  IN  /\ att[a].pc = "handshake" /\ chk[a][i] = NoCheck
      /\ chk' = [chk EXCEPT ![a][i] = [NoCheck EXCEPT !.pc = "evaluate", !.key = hostkey[Host(a)]]]
      /\ UNCHANGED att /\ KeepFile

Verdict(a) == chk[a][att[a].hop].pc

\* Mutant: authentication does not wait for the key check.
HandshakeEager(a) ==
  /\ att[a].pc = "handshake" /\ Verdict(a) # "none"
  /\ Go(a, IF Verdict(a) = "reject" THEN "failed" ELSE "auth")
  /\ UNCHANGED chk /\ KeepFile
Handshake(a) ==
  /\ att[a].pc = "handshake" /\ Verdict(a) \in {"accept", "reject"}
  /\ Go(a, IF Verdict(a) = "accept" THEN "auth" ELSE "failed")
  /\ UNCHANGED chk /\ KeepFile

\* CONNECT_TIMEOUT, for the handshake and for the channel to the next hop.
HandshakeTimeout(a) ==
  /\ att[a].pc = "handshake" /\ Verdict(a) # "accept" /\ Go(a, "failed")
  /\ UNCHANGED chk /\ KeepFile
\* Mutant: no limit on the channel to the next hop.
NoChannelTimeout(a) == FALSE
ChannelTimeout(a) ==
  /\ att[a].pc = "channel" /\ Go(a, "failed")
  /\ UNCHANGED chk /\ KeepFile

\* authenticate: the server or the agent says yes or no; keyboard-interactive
\* asks the user, in as many rounds as the server wants.  It has no timeout.
Authenticated(a) == IF att[a].hop = Len(Chain[a]) THEN "connected" ELSE "channel"
Authenticate(a) ==
  /\ att[a].pc = "auth"
  /\ \/ Go(a, "failed")
     \/ a \in Interactive /\ Go(a, "prompt")
     \/ a \notin Interactive /\ Go(a, Authenticated(a))
  /\ UNCHANGED chk /\ KeepFile
\* The last answer of the user, or none within CONFIRM_TIMEOUT.
Respond(a) ==
  /\ att[a].pc = "prompt"
  /\ \E pc \in {"failed", Authenticated(a)} : Go(a, pc)
  /\ UNCHANGED chk /\ KeepFile

\* The direct-tcpip channel to the next hop carries its handshake.
OpenChannel(a) ==
  /\ att[a].pc = "channel"
  /\ att' = [att EXCEPT ![a] = [pc |-> "handshake", hop |-> att[a].hop + 1]]
  /\ UNCHANGED chk /\ KeepFile

(***************************************************************************)
(* check_server_key.                                                       *)
(***************************************************************************)
Checks == UNION {{a} \X Hops(a) : a \in Attempts}
Set(a, i, c) == chk' = [chk EXCEPT ![a][i] = c]
CheckAt(a, i, pc) == chk[a][i].pc = pc
Keep == UNCHANGED <<hostkey, rekeys, att>>

\* evaluate: Trusted, or else the prompter decides; what cannot be read is refused.
Evaluate(a, i) ==
  LET c == chk[a][i]
  IN  /\ CheckAt(a, i, "evaluate")
      /\ \/ Set(a, i, [NoCheck EXCEPT !.pc = "reject"])
         \/ /\ <<Chain[a][i], c.key>> \in file
            /\ Set(a, i, [c EXCEPT !.pc = "accept", !.key = NoKey, !.by = "file"])
         \/ /\ <<Chain[a][i], c.key>> \notin file
            /\ Set(a, i, [c EXCEPT !.pc = "decide"])
      /\ UNCHANGED <<file, learned, clash>> /\ Keep

\* Mutant: a background attempt accepts a host it has no record of.
DecideTrusting(a, i) ==
  LET c == chk[a][i]
  IN  /\ CheckAt(a, i, "decide")
      /\ \/ Set(a, i, [NoCheck EXCEPT !.pc = "reject"])
         \/ Set(a, i, [c EXCEPT !.pc = "accept", !.key = NoKey, !.by = "user"])
         \/ a \notin Background /\ Set(a, i, [c EXCEPT !.pc = "remove", !.by = "user"])
      /\ UNCHANGED <<file, learned, clash>> /\ Keep
\* The prompter: the user learns, accepts once or rejects (or does not answer);
\* in the background it is always Reject.
Decide(a, i) ==
  LET c == chk[a][i]
  IN  /\ CheckAt(a, i, "decide")
      /\ \/ Set(a, i, [NoCheck EXCEPT !.pc = "reject"])
         \/ a \notin Background /\ Set(a, i, [c EXCEPT !.pc = "accept", !.key = NoKey, !.by = "user"])
         \/ a \notin Background /\ Set(a, i, [c EXCEPT !.pc = "remove", !.by = "user"])
      /\ UNCHANGED <<file, learned, clash>> /\ Keep

Rewriting == {x \in Checks : chk[x[1]][x[2]].pc \in {"truncate", "fill", "learn"}}
Clashes(a, i) == clash \/ Rewriting \ {<<a, i>>} # {}

\* remove_host_keys reads the whole file and writes back the other hosts'
\* records, if it found one of this host.  The write empties the file first.
RemoveRead(a, i) ==
  LET c == chk[a][i]
      others == {r \in file : r[1] # Chain[a][i]}
  IN  /\ CheckAt(a, i, "remove")
      /\ Set(a, i, IF others = file THEN [c EXCEPT !.pc = "learn"]
                   ELSE [c EXCEPT !.pc = "truncate", !.copy = others])
      /\ clash' = Clashes(a, i)
      /\ UNCHANGED <<file, learned>> /\ Keep
Truncate(a, i) ==
  /\ CheckAt(a, i, "truncate")
  /\ Set(a, i, [chk[a][i] EXCEPT !.pc = "fill"]) /\ file' = {}
  /\ UNCHANGED <<learned, clash>> /\ Keep
Fill(a, i) ==
  /\ CheckAt(a, i, "fill")
  /\ Set(a, i, [chk[a][i] EXCEPT !.pc = "learn", !.copy = {}]) /\ file' = chk[a][i].copy
  /\ UNCHANGED <<learned, clash>> /\ Keep

\* Mutant: the record is added under the host the attempt is for.
LearnTarget(a, i) ==
  LET c == chk[a][i]
  IN  /\ CheckAt(a, i, "learn")
      /\ file' = file \cup {<<Chain[a][Len(Chain[a])], c.key>>}
      /\ learned' = [learned EXCEPT ![Chain[a][i]] = c.key]
      /\ Set(a, i, [c EXCEPT !.pc = "accept", !.key = NoKey])
      /\ UNCHANGED clash /\ Keep
\* learn appends the record; a failure to write does not veto the connection.
Learn(a, i) ==
  LET c == chk[a][i]
  IN  /\ CheckAt(a, i, "learn")
      /\ \/ /\ file' = file \cup {<<Chain[a][i], c.key>>}
            /\ learned' = [learned EXCEPT ![Chain[a][i]] = c.key]
         \/ learned' = [learned EXCEPT ![Chain[a][i]] = NoKey] /\ UNCHANGED file
      /\ Set(a, i, [c EXCEPT !.pc = "accept", !.key = NoKey])
      /\ UNCHANGED clash /\ Keep

Check(a, i) ==
  \/ Evaluate(a, i) \/ Decide(a, i) \/ RemoveRead(a, i)
  \/ Truncate(a, i) \/ Fill(a, i) \/ Learn(a, i)

Attempt(a) == Handshake(a) \/ HandshakeTimeout(a) \/ ChannelTimeout(a) \/ Authenticate(a) \/ Respond(a)

ConnectNext ==
  \/ \E a \in Attempts : Connect(a) \/ Present(a) \/ OpenChannel(a) \/ Attempt(a)
  \/ \E x \in Checks : Check(x[1], x[2])
  \/ \E h \in Hosts, k \in Keys : Rekey(h, k)

ConnectSpec == ConnectInit /\ [][ConnectNext]_connectVars
\* The timeouts pass, and so does CONFIRM_TIMEOUT; a server that has accepted
\* the connection answers an authentication request, after finitely many rounds
\* of questions, or is given up by the keepalive.  Nothing is assumed of a server
\* that is silent during a handshake or a channel request.
ConnectFairSpec == ConnectSpec /\ WF_connectVars(\E a \in Attempts : Attempt(a))

(***************************************************************************)
(* Properties.                                                             *)
(***************************************************************************)

\* Credentials go only to a host whose key is known or was accepted, for this
\* very attempt, and through hosts of which the same is true: wherever an attempt
\* authenticates, or is connected, every hop so far has passed its check.
VerifiedBeforeAuth ==
  \A a \in Attempts : att[a].pc \in {"auth", "prompt", "channel", "connected"} =>
     \A i \in 1..att[a].hop : chk[a][i].pc = "accept"

\* Without a user nothing is accepted that is not on file, and nothing written.
BackgroundNeverTrusts ==
  \A a \in Background : \A i \in Hops(a) :
     chk[a][i].by # "user" /\ <<a, i>> \notin Rewriting

\* Both: no attempt gets past a host that it, or its user, does not trust.
OnlyTrustedHosts == VerifiedBeforeAuth /\ BackgroundNeverTrusts

\* When no rewrite of known_hosts is under way and no two ever were at once, the
\* file has for every host the key the user last learned, and no older one.
LearnedIsTrusted ==
  (Rewriting = {} /\ ~clash) =>
     \A h \in Hosts : learned[h] # NoKey => {r \in file : r[1] = h} = {<<h, learned[h]>>}

AttemptsOver == \A a \in Attempts : att[a].pc \in {"idle", "connected", "failed"}
\* Every attempt ends, whatever the servers it meets do.
AttemptsEnd == []<>AttemptsOver
=============================================================================
