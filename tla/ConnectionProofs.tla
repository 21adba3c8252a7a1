------------------------- MODULE ConnectionProofs ---------------------------
(***************************************************************************)
(* What runs over a connection, and how it is opened: a relay, the output  *)
(* of a local terminal, a remote tunnel, the attempts to connect, and the  *)
(* connections of a tunnel, for any number of concurrent attempts, hosts   *)
(* and keys, of clients, and every limit.                                  *)
(***************************************************************************)
EXTENDS Connections, TLAPS

(***************************************************************************)
(* What a relay delivers, for any number of chunks.                        *)
(***************************************************************************)
Halves == {"run", "closing", "eof", "write_failed", "fatal"}

\* The types, as far as the argument needs them.
RelayTypeOK ==
  /\ sent \in [Dirs -> Nat] /\ read \in [Dirs -> Nat] /\ written \in [Dirs -> Nat]
  /\ source \in [Dirs -> {"open", "closed", "reset"}]
  /\ sink \in [Dirs -> {"ok", "broken", "stalled"}]
  /\ half \in [Dirs -> Halves]
  /\ relay \in {"run", "drain", "ended", "timed_out"}
  /\ fin \subseteq Dirs

\* A half that has seen the end of file has delivered everything, its source sends
\* no more, and it passed the end on unless the sink was gone; while the relay runs
\* both halves do, and it is over of itself only with both ended or one fatally.
HalfInv ==
  /\ \A d \in Dirs :
        /\ half[d] \in {"closing", "eof"} => source[d] = "closed" /\ written[d] = sent[d]
        /\ half[d] = "eof" => d \in fin \/ sink[d] # "ok"
        /\ d \in fin => half[d] = "eof"
  /\ relay = "run" => \A d \in Dirs : half[d] \in {"run", "closing"}
  /\ relay = "drain" => \E d \in Dirs : half[d] \in {"eof", "write_failed"}
  /\ relay = "ended" => \/ \E d \in Dirs : half[d] = "fatal"
                        \/ \A d \in Dirs : half[d] \in {"eof", "write_failed"}

RelayInv == RelayTypeOK /\ HalfInv

-----------------------------------------------------------------------------
LEMMA RelayInvInit == RelayInit => RelayInv
BY DEF RelayInit, RelayInv, RelayTypeOK, HalfInv, Dirs, Halves

\* The client and the server change what the relay has not seen the end of.
LEMMA PeerStep ==
  ASSUME RelayInv, NEW d \in Dirs,
         \/ SourceSends(d) \/ SourceEnds(d, "closed") \/ SourceEnds(d, "reset")
         \/ SinkFails(d, "broken") \/ SinkFails(d, "stalled")
  PROVE  RelayInv'
<1>1. RelayTypeOK'
  BY DEF RelayInv, RelayTypeOK, SourceSends, SourceEnds, SinkFails
<1>2. HalfInv'
  <2>1. CASE SourceSends(d)
    BY <2>1, SMTT(30) DEF RelayInv, RelayTypeOK, HalfInv, SourceSends
  <2>2. CASE SourceEnds(d, "closed") \/ SourceEnds(d, "reset")
    BY <2>2, SMTT(30) DEF RelayInv, RelayTypeOK, HalfInv, SourceEnds
  <2>3. CASE SinkFails(d, "broken") \/ SinkFails(d, "stalled")
    BY <2>3 DEF RelayInv, RelayTypeOK, HalfInv, SinkFails
  <2>. QED
    BY <2>1, <2>2, <2>3, SMTT(30)
<1>. QED
  BY <1>1, <1>2, SMTT(30) DEF RelayInv

\* Copying a chunk, and looking for the end, change no verdict.
LEMMA CopyStep ==
  ASSUME RelayInv, NEW d \in Dirs, Read(d) \/ ReadEof(d)
  PROVE  RelayInv'
<1>1. RelayTypeOK'
  BY DEF RelayInv, RelayTypeOK, Read, ReadEof, Halves
<1>2. HalfInv'
  <2>1. CASE Read(d)
    BY <2>1, ZenonT(30), Zenon DEF RelayInv, HalfInv, Read
  <2>2. CASE ReadEof(d)
    <3>1. \A e \in Dirs : half'[e] = IF e = d THEN "closing" ELSE half[e]
      BY <2>2, Zenon DEF RelayInv, RelayTypeOK, ReadEof
    <3>2. half[d] = "run" /\ relay \in {"run", "drain"}
      BY <2>2, ZenonT(30) DEF ReadEof, On
    <3>3. UNCHANGED <<sent, source, sink, written, fin, relay>>
          /\ source[d] = "closed" /\ written[d] = sent[d]
      BY <2>2, ZenonT(30) DEF ReadEof
    <3>4. \A e \in Dirs :
             /\ half'[e] \in {"closing", "eof"} => source[e] = "closed" /\ written[e] = sent[e]
             /\ half'[e] = "eof" => e \in fin \/ sink[e] # "ok"
             /\ e \in fin => half'[e] = "eof"
      BY <3>1, <3>2, <3>3, ZenonT(30) DEF RelayInv, HalfInv
    <3>5. relay = "drain" => \E e \in Dirs : half'[e] \in {"eof", "write_failed"}
      <4>1. SUFFICES ASSUME relay = "drain"
                     PROVE  \E e \in Dirs : half'[e] \in {"eof", "write_failed"}
        BY Zenon
      <4>2. PICK e \in Dirs : half[e] \in {"eof", "write_failed"}
        BY <4>1, Zenon DEF RelayInv, HalfInv
      <4>3. half'[e] = half[e]
        BY <3>1, <3>2, <4>2, Zenon
      <4>. QED
        BY <4>2, <4>3, Zenon
    <3>6. relay = "run" => \A e \in Dirs : half'[e] \in {"run", "closing"}
      BY <3>1, <3>2 DEF RelayInv, HalfInv
    <3>. QED
      BY <3>2, <3>3, <3>4, <3>5, <3>6, ZenonT(30) DEF HalfInv
  <2>. QED
    BY <2>1, <2>2, Zenon
<1>. QED
  BY <1>1, <1>2, SMTT(30) DEF RelayInv

\* A half that ends while the relay is on: the drain begins, or the relay is over.
LEMMA EndStep ==
  ASSUME RelayInv, NEW d \in Dirs, ReadReset(d) \/ Write(d) \/ Signalled(d) \/ NotSignalled(d)
  PROVE  RelayInv'
<1>1. RelayTypeOK'
  BY DEF RelayInv, RelayTypeOK, ReadReset, Write, Signalled, NotSignalled, Ends, Halves
<1>2. HalfInv'
  <2>1. CASE ReadReset(d)
    BY <2>1, SMTT(30) DEF RelayInv, RelayTypeOK, HalfInv, ReadReset, Ends, On, Dirs, Halves
  <2>2. CASE Write(d)
    BY <2>2, SMTT(30) DEF RelayInv, RelayTypeOK, HalfInv, Write, Ends, On, Dirs, Halves
  <2>3. CASE Signalled(d)
    BY <2>3, SMTT(30) DEF RelayInv, RelayTypeOK, HalfInv, Signalled, Ends, On, Dirs, Halves
  <2>4. CASE NotSignalled(d)
    BY <2>4 DEF RelayInv, RelayTypeOK, HalfInv, NotSignalled, Ends, On, Dirs, Halves
  <2>. QED
    BY <2>1, <2>2, <2>3, <2>4, SMTT(30)
<1>. QED
  BY <1>1, <1>2, SMTT(30) DEF RelayInv

LEMMA RelayInductive == RelayInv /\ [RelayNext]_relayVars => RelayInv'
<1> SUFFICES ASSUME RelayInv, [RelayNext]_relayVars PROVE RelayInv'
  BY Zenon
<1>1. CASE DrainTimeout
  BY <1>1, SMTT(30) DEF RelayInv, RelayTypeOK, HalfInv, DrainTimeout
<1>2. CASE UNCHANGED relayVars
  BY <1>2, Zenon DEF RelayInv, RelayTypeOK, HalfInv, relayVars
<1>3. ASSUME NEW d \in Dirs, Half(d)
      PROVE  RelayInv'
  BY <1>3, CopyStep, EndStep, SMTT(30) DEF Half
<1>4. ASSUME NEW d \in Dirs,
             \/ SourceSends(d) \/ SourceEnds(d, "closed") \/ SourceEnds(d, "reset")
             \/ SinkFails(d, "broken") \/ SinkFails(d, "stalled")
      PROVE  RelayInv'
  BY <1>4, PeerStep, SMTT(30)
<1>. QED
  BY <1>1, <1>2, <1>3, <1>4, SMTT(30) DEF RelayNext

LEMMA RelayInvariant == RelaySpec => []RelayInv
BY RelayInvInit, RelayInductive, PTL DEF RelaySpec

\* relay() ends of itself, without a reset or a refused write, only after both
\* halves have copied everything and passed the end on, and neither passes it on
\* before the last byte sent ahead of it: no byte of an answer is lost because the
\* other side closed first.
THEOREM RelayDelivers == RelaySpec => []RelayFaithful
<1>1. RelayInv => AllDelivered
  BY Zenon DEF RelayInv, RelayTypeOK, HalfInv, AllDelivered, Dirs, Halves
<1>2. RelayInv => EndComesLast
  BY Zenon DEF RelayInv, RelayTypeOK, HalfInv, EndComesLast
<1>. QED
  BY <1>1, <1>2, RelayInvariant, PTL DEF RelayFaithful

(***************************************************************************)
(* A local terminal.                                                       *)
(***************************************************************************)

\* The chunk the reader has in hand.
InFlight == IF ptyReader = "send" THEN 1 ELSE 0
\* The inductive invariant: until the receiver is dropped, what was produced is
\* received, in the channel, in the pipe or in hand; the reader ends when the pipe
\* is empty and nobody can write to it, and the receiver is done when it and the
\* channel are.
PtyInv ==
  /\ produced \in Nat /\ pipe \in 0..PipeCap /\ chan \in 0..ChanCap /\ received \in Nat
  /\ ptyReader \in {"read", "send", "end"} /\ rx \in {"open", "done", "dropped"}
  /\ child => master
  /\ rx # "dropped" => produced = received + chan + pipe + InFlight
  /\ ptyReader = "end" /\ rx # "dropped" => pipe = 0 /\ ~master
  /\ rx = "done" => chan = 0 /\ ptyReader = "end"

\* Every step keeps it.
LEMMA PtyStep ==
  ASSUME PtyConstants, PtyInv, [Pty!Next]_(Pty!vars)
  PROVE  PtyInv'
<1> USE DEF PtyConstants
<1>1. CASE Pty!Produce
  <2>1. child /\ master' = master /\ child' = child /\ (ptyReader # "end" \/ rx = "dropped")
    BY <1>1, Zenon DEF Pty!Produce, PtyInv
  <2> QED BY <1>1, <2>1 DEF Pty!Produce, PtyInv, InFlight
<1>2. CASE Pty!Read
  BY <1>2 DEF Pty!Read, PtyInv, InFlight
<1>3. CASE Pty!ReadEof
  BY <1>3, Zenon DEF Pty!ReadEof, PtyInv, InFlight
<1>4. CASE Pty!SendData
  BY <1>4, SMTT(30) DEF Pty!SendData, PtyInv, InFlight
<1>5. CASE Pty!Receive
  BY <1>5 DEF Pty!Receive, PtyInv, InFlight
<1>6. CASE Pty!SeesEnd
  BY <1>6, Zenon DEF Pty!SeesEnd, PtyInv, InFlight
<1>7. CASE Pty!DropsReader
  BY <1>7, SMTT(30) DEF Pty!DropsReader, PtyInv, InFlight
<1>8. CASE UNCHANGED Pty!out /\ (child' => master') /\ (master' => master)
  <2>1. (ptyReader = "end" /\ rx # "dropped" => pipe = 0 /\ ~master)' 
    BY <1>8, Zenon DEF PtyInv, Pty!out
  <2> QED BY <1>8, <2>1, SMTT(30) DEF PtyInv, InFlight, Pty!out
<1>9. CASE Pty!Waited
  <2>1. UNCHANGED Pty!out /\ (child' => master') /\ (master' => master)
    BY <1>9, Zenon DEF Pty!Waited
  <2> QED BY <1>8, <2>1
<1>10. CASE Pty!ChildExits \/ Pty!Data \/ Pty!Resize \/ Pty!CloseMsg \/ Pty!NoSenders \/ Pty!WriteFails
            \/ Pty!WriteDone \/ Pty!DropsWriters \/ UNCHANGED Pty!vars
            \/ \E m \in {"data", "resize", "close"} : Pty!SendMsg(m)
  <2>1. UNCHANGED Pty!out /\ (child' => child) /\ master' = master
    BY <1>10 DEF Pty!ChildExits, Pty!Data, Pty!Resize, Pty!CloseMsg, Pty!NoSenders, Pty!WriteFails,
         Pty!WriteDone, Pty!DropsWriters, Pty!SendMsg, Pty!Ends, Pty!vars, Pty!out
  <2> QED BY <1>8, <2>1, Zenon DEF PtyInv
<1> QED
  BY <1>1, <1>2, <1>3, <1>4, <1>5, <1>6, <1>7, <1>9, <1>10, Zenon DEF Pty!Next, Pty!Threads

\* For every capacity and every amount of output: the receiver that sees the end of
\* a local terminal has all its output, and no more than the channel, the pipe and
\* one chunk is ever on its way (local_pty: the reader thread, its bounded channel
\* and the end).
THEOREM LocalOutput == ASSUME PtyConstants PROVE Pty!Spec => []OutputEndsWhole
<1>1. Pty!Init => PtyInv
  BY DEF Pty!Init, PtyInv, InFlight, PtyConstants
<1>2. PtyInv => OutputEndsWhole
  BY DEF PtyInv, InFlight, PtyConstants, OutputEndsWhole, Pty!EndIsWhole, Pty!OutputBounded
<1> QED
  BY <1>1, <1>2, PtyStep, PTL DEF Pty!Spec

(***************************************************************************)
(* A remote tunnel.                                                        *)
(***************************************************************************)

\* The inductive invariant: the server listens only on the connection the accept
\* loop has registered its route on.
RemoteInv ==
  /\ queued \in 0..RouteCap /\ relays \in 0..MaxRelays
  /\ loopPc = "listen" => conn \in routes /\ listening \subseteq {conn}
  /\ loopPc # "listen" => listening = {}
\* Every step keeps it.
LEMMA RemoteStep ==
  ASSUME RemoteConstants, RemoteInv, [Remote!Next]_(Remote!vars)
  PROVE  RemoteInv'
<1> USE DEF RemoteConstants
<1>1. CASE Remote!Connect \/ Remote!Leave \/ Remote!RelayEnds \/ Remote!Stop
  BY <1>1, SMTT(30) DEF Remote!Connect, Remote!Leave, Remote!RelayEnds, Remote!Stop, Remote!chans, Remote!net, RemoteInv
<1>2. ASSUME NEW g \in Remote!Connections, Remote!Closes(g) \/ Remote!ServerOpens(g) PROVE RemoteInv'
  BY <1>2, SMTT(30) DEF Remote!Closes, Remote!ServerOpens, Remote!chans, Remote!net, RemoteInv
<1>3. CASE Remote!Waited \/ Remote!WaitTimeout \/ Remote!ForwardFails \/ Remote!Backoff
  BY <1>3 DEF Remote!Waited, Remote!WaitTimeout, Remote!ForwardFails, Remote!Backoff, Remote!chans, RemoteInv
<1>4. CASE Remote!Forwarded
  BY <1>4 DEF Remote!Forwarded, Remote!chans, RemoteInv
<1>5. CASE Remote!Receive
  BY <1>5, SMTT(30) DEF Remote!Receive, Remote!SenderDropped, RemoteInv
<1>6. CASE Remote!Cancel
  BY <1>6 DEF Remote!Cancel, RemoteInv
<1>7. CASE UNCHANGED Remote!vars
  BY <1>7, SMTT(30) DEF Remote!vars, RemoteInv
<1> QED
  BY <1>1, <1>2, <1>3, <1>4, <1>5, <1>6, <1>7, Zenon DEF Remote!Next, Remote!Loop
\* For every number of connections, channels and relays: the queue of a remote
\* tunnel and its relays are bounded, and once it has stopped no server listens for
\* it (remote_loop).
THEOREM RemoteTunnel == ASSUME RemoteConstants PROVE Remote!Spec => []RemoteQuiet
<1>1. Remote!Init => RemoteInv
  BY DEF Remote!Init, RemoteInv, RemoteConstants
<1>2. RemoteInv => RemoteQuiet
  BY DEF RemoteInv, RemoteConstants, RemoteQuiet, Remote!RemoteBounded, Remote!StoppedIsSilent
<1> QED
  BY <1>1, <1>2, RemoteStep, PTL DEF Remote!Spec

(***************************************************************************)
(* Credentials go to verified hosts only, an attempt without a user trusts *)
(* no new key, and known_hosts has the keys the user learned last: for any *)
(* number of concurrent attempts, hosts and keys, and whatever the hosts   *)
(* and the users do.                                                       *)
(***************************************************************************)
INSTANCE SequenceTheorems


AttemptSteps == {"idle", "handshake", "auth", "prompt", "channel", "connected", "failed"}
Writing == {"remove", "truncate", "fill", "learn"}
Records == Hosts \X (Keys \cup {NoKey})
CheckRecords ==
  [pc : {"none", "evaluate", "decide", "accept", "reject"} \cup Writing,
   key : Keys \cup {NoKey}, copy : SUBSET Records, by : {"none", "file", "user"}]

\* The attempts, the checks and the file, as far as the argument needs their types.
AttemptsOK ==
  /\ att \in [Attempts -> [pc : AttemptSteps, hop : Nat]]
  /\ \A a \in Attempts : att[a].hop \in 1..Len(Chain[a])
ChecksOK ==
  /\ DOMAIN chk = Attempts
  /\ \A a \in Attempts : chk[a] \in [1..Len(Chain[a]) -> CheckRecords]
FileOK == file \in SUBSET Records /\ hostkey \in [Hosts -> Keys]

\* An attempt that is past the check of a hop, or past the hop, had it accepted.
PassedOK ==
  \A a \in Attempts :
     /\ \A i \in 1..(att[a].hop - 1) : chk[a][i].pc = "accept"
     /\ att[a].pc \in {"auth", "prompt", "channel", "connected"} => chk[a][att[a].hop].pc = "accept"
     /\ att[a].pc = "channel" => att[a].hop < Len(Chain[a])

\* A background check neither was decided by a user nor rewrites the file.
Unattended(c) == c.by # "user" /\ c.pc \notin Writing
BackgroundOK == \A a \in Background : \A i \in 1..Len(Chain[a]) : Unattended(chk[a][i])

\* The inductive invariant.
ConnectInv == AttemptsOK /\ ChecksOK /\ FileOK /\ PassedOK /\ BackgroundOK

-----------------------------------------------------------------------------
LEMMA ChainIsSeq ==
  ASSUME ConnectConstants, NEW a \in Attempts
  PROVE  /\ Len(Chain[a]) \in Nat /\ Len(Chain[a]) > 0 /\ DOMAIN Chain[a] = 1..Len(Chain[a])
         /\ \A i \in 1..Len(Chain[a]) : Chain[a][i] \in Hosts
<1>1. Chain[a] \in Seq(Hosts) /\ Len(Chain[a]) > 0
  BY Zenon DEF ConnectConstants
<1>2. Len(Chain[a]) \in Nat /\ DOMAIN Chain[a] = 1..Len(Chain[a]) /\ Chain[a] \in [1..Len(Chain[a]) -> Hosts]
  BY <1>1, LenProperties, Zenon
<1>. QED
  BY <1>1, <1>2, Zenon

LEMMA CheckIsHop == ASSUME NEW x \in Checks PROVE x[1] \in Attempts /\ x[2] \in DOMAIN Chain[x[1]]
<1>1. PICK a \in Attempts : x \in {a} \X Hops(a)
  BY Zenon DEF Checks
<1>2. x[1] = a /\ x[2] \in Hops(a)
  BY <1>1, Zenon
<1>. QED
  BY <1>2, Zenon DEF Hops

LEMMA NoCheckIsCheck == NoCheck \in CheckRecords /\ NoCheck.by = "none" /\ NoCheck.pc = "none"
BY Zenon DEF NoCheck, CheckRecords

LEMMA ConnectInvInit == ConnectConstants /\ ConnectInit => ConnectInv
<1> SUFFICES ASSUME ConnectConstants, ConnectInit PROVE ConnectInv
  BY Zenon
<1>1. \A a \in Attempts : DOMAIN Chain[a] = 1..Len(Chain[a]) /\ Len(Chain[a]) \in Nat /\ Len(Chain[a]) >= 1
  <2> TAKE a \in Attempts
  <2>1. Len(Chain[a]) \in Nat /\ Len(Chain[a]) > 0 /\ DOMAIN Chain[a] = 1..Len(Chain[a])
    BY ChainIsSeq, Zenon
  <2>. QED
    BY <2>1
<1>2. att = [a \in Attempts |-> [pc |-> "idle", hop |-> 1]]
  BY Zenon DEF ConnectInit
<1>3. chk = [a \in Attempts |-> [i \in Hops(a) |-> NoCheck]]
  BY Zenon DEF ConnectInit
<1>4. AttemptsOK
  BY <1>1, <1>2 DEF AttemptsOK, AttemptSteps
<1>5. ChecksOK
  BY <1>1, <1>3, NoCheckIsCheck, Zenon DEF ChecksOK, Hops
<1>6. FileOK
  <2>1. file = {} \/ \E h \in Hosts, k \in Keys : file = {<<h, k>>}
    <3>1. file \in {{}} \cup {{<<h, k>>} : h \in Hosts, k \in Keys}
      BY DEF ConnectInit
    <3>. QED
      BY <3>1
  <2>2. hostkey = [h \in Hosts |-> FirstKey] /\ FirstKey \in Keys
    BY Zenon DEF ConnectInit, ConnectConstants
  <2>3. file \subseteq Records
    <3>1. CASE file = {}
      BY <3>1, Zenon
    <3>2. ASSUME NEW h \in Hosts, NEW k \in Keys, file = {<<h, k>>} PROVE file \subseteq Records
      BY <3>2 DEF Records
    <3>. QED
      BY <2>1, <3>1, <3>2
  <2>. QED
    BY <2>2, <2>3, Zenon DEF FileOK
<1>7. PassedOK
  <2>1. \A a \in Attempts : att[a].hop = 1 /\ att[a].pc = "idle"
    BY <1>2, Zenon
  <2>2. \A i \in 1..(1 - 1) : FALSE
    OBVIOUS
  <2>. QED
    BY <2>1, <2>2, Zenon DEF PassedOK
<1>8. BackgroundOK
  <2>1. Background \subseteq Attempts
    BY Zenon DEF ConnectConstants
  <2>2. \A a \in Background : \A i \in 1..Len(Chain[a]) : chk[a][i] = NoCheck
    BY <1>1, <1>3, <2>1, Zenon DEF Hops
  <2>. QED
    BY <2>2, NoCheckIsCheck, Zenon DEF BackgroundOK, Unattended, Writing
<1>. QED
  BY <1>4, <1>5, <1>6, <1>7, <1>8 DEF ConnectInv

\* A step of an attempt that leaves the checks alone: it stays at its hop, and is past
\* the check only if that accepted.
LEMMA GoStep ==
  ASSUME ConnectInv, NEW a \in Attempts, NEW p \in AttemptSteps, Go(a, p), UNCHANGED chk, KeepFile,
         p \in {"auth", "prompt", "channel", "connected"} => chk[a][att[a].hop].pc = "accept",
         p = "channel" => att[a].hop < Len(Chain[a])
  PROVE  ConnectInv'
<1> USE DEF ConnectInv
<1>1. \A b \in Attempts : att'[b].hop = att[b].hop /\ (b # a => att'[b] = att[b])
  BY Zenon DEF Go, AttemptsOK
<1>2. att'[a].pc = p
  BY Zenon DEF Go, AttemptsOK
<1>3. AttemptsOK'
  <2>1. att' \in [Attempts -> [pc : AttemptSteps, hop : Nat]]
    BY Zenon DEF Go, AttemptsOK
  <2>. QED
    BY <1>1, <2>1, Zenon DEF AttemptsOK
<1>4. ChecksOK' /\ FileOK' /\ BackgroundOK'
  BY Zenon DEF ChecksOK, FileOK, BackgroundOK, KeepFile
<1>5. PassedOK'
  BY <1>1, <1>2 DEF PassedOK
<1>. QED
  BY <1>3, <1>4, <1>5, Zenon

\* The next hop begins, behind one that was accepted.
LEMMA OpenChannelStep ==
  ASSUME ConnectConstants, ConnectInv, NEW a \in Attempts, OpenChannel(a)
  PROVE  ConnectInv'
<1> USE DEF ConnectInv
<1>0. Len(Chain[a]) \in Nat /\ att[a].hop \in Nat
  BY ChainIsSeq, Zenon DEF AttemptsOK
<1>1. \A b \in Attempts : b # a => att'[b] = att[b]
  BY Zenon DEF OpenChannel, AttemptsOK
<1>2. /\ att'[a].pc = "handshake" /\ att'[a].hop = att[a].hop + 1 /\ att[a].hop < Len(Chain[a])
      /\ chk[a][att[a].hop].pc = "accept"
  BY Zenon DEF OpenChannel, AttemptsOK, PassedOK
<1>3. AttemptsOK'
  <2>1. att' \in [Attempts -> [pc : AttemptSteps, hop : Nat]]
    BY <1>0 DEF OpenChannel, AttemptsOK, AttemptSteps
  <2>. QED
    BY <1>0, <1>1, <1>2, <2>1 DEF AttemptsOK
<1>4. chk' = chk /\ ChecksOK' /\ FileOK' /\ BackgroundOK'
  BY Zenon DEF OpenChannel, ChecksOK, FileOK, BackgroundOK, KeepFile
<1>5. PassedOK'
  BY <1>0, <1>1, <1>2, <1>4 DEF PassedOK
<1>. QED
  BY <1>3, <1>4, <1>5, Zenon

\* A check moves on that has not accepted.
LEMMA SetStep ==
  ASSUME ConnectInv, Background \subseteq Attempts, NEW a \in Attempts, NEW i \in 1..Len(Chain[a]), NEW c \in CheckRecords,
         chk[a][i].pc # "accept", Set(a, i, c), UNCHANGED <<att, hostkey>>,
         file' \in SUBSET Records, a \in Background => Unattended(c)
  PROVE  ConnectInv'
<1> USE DEF ConnectInv
<1>1. /\ \A b \in Attempts : b # a => chk'[b] = chk[b]
      /\ \A j \in 1..Len(Chain[a]) : j # i => chk'[a][j] = chk[a][j]
      /\ chk'[a][i] = c
  BY Zenon DEF Set, ChecksOK
<1>2. ChecksOK'
  BY Zenon DEF Set, ChecksOK
<1>3. AttemptsOK' /\ FileOK'
  BY Zenon DEF AttemptsOK, FileOK
<1>4. PassedOK'
  BY <1>1, SMTT(30) DEF PassedOK, AttemptsOK
<1>5. BackgroundOK'
  <2> SUFFICES ASSUME NEW b \in Background, NEW j \in 1..Len(Chain[b]) PROVE Unattended(chk'[b][j])
    BY Zenon DEF BackgroundOK, Unattended
  <2>1. Unattended(chk[b][j])
    BY Zenon DEF BackgroundOK
  <2>. QED
    BY <1>1, <2>1, Zenon DEF Unattended
<1>. QED
  BY <1>2, <1>3, <1>4, <1>5, Zenon

\* The steps of attempts.
LEMMA AttemptStep ==
  ASSUME ConnectConstants, ConnectInv, NEW a \in Attempts, Connect(a) \/ Attempt(a)
  PROVE  ConnectInv'
<1>0. att[a].hop \in 1..Len(Chain[a]) /\ Len(Chain[a]) \in Nat
  <2>1. Len(Chain[a]) \in Nat
    BY ChainIsSeq, Zenon
  <2>. QED
    BY <2>1, Zenon DEF ConnectInv, AttemptsOK
<1>1. Authenticated(a) \in AttemptSteps /\ Authenticated(a) \in {"connected", "channel"}
      /\ (Authenticated(a) = "channel" => att[a].hop < Len(Chain[a]))
  BY <1>0 DEF Authenticated, AttemptSteps
<1>2. att[a].pc \in {"auth", "prompt"} => Verdict(a) = "accept"
  BY Zenon DEF ConnectInv, PassedOK, Verdict
<1>3. PICK p \in AttemptSteps :
        /\ Go(a, p) /\ UNCHANGED chk /\ KeepFile
        /\ p \in {"auth", "prompt", "channel", "connected"} => Verdict(a) = "accept"
        /\ p = "channel" => att[a].hop < Len(Chain[a])
  <2>1. CASE Connect(a)
    BY <2>1, Zenon DEF Connect, AttemptSteps
  <2>2. CASE Handshake(a)
    BY <2>2, Zenon DEF Handshake, AttemptSteps
  <2>3. CASE HandshakeTimeout(a) \/ ChannelTimeout(a)
    BY <2>3, Zenon DEF HandshakeTimeout, ChannelTimeout, AttemptSteps
  <2>4. CASE Authenticate(a)
    BY <1>1, <1>2, <2>4, Zenon DEF Authenticate, AttemptSteps
  <2>5. CASE Respond(a)
    BY <1>1, <1>2, <2>5, Zenon DEF Respond, AttemptSteps
  <2>. QED
    BY <2>1, <2>2, <2>3, <2>4, <2>5 DEF Attempt
<1>. QED
  BY <1>3, GoStep, Zenon DEF Verdict

\* The server presents its key.
LEMMA PresentStep ==
  ASSUME ConnectConstants, ConnectInv, NEW a \in Attempts, Present(a)
  PROVE  ConnectInv'
<1> DEFINE c == [NoCheck EXCEPT !.pc = "evaluate", !.key = hostkey[Host(a)]]
<1>1. att[a].hop \in 1..Len(Chain[a]) /\ Host(a) \in Hosts /\ Background \subseteq Attempts
  <2>1. att[a].hop \in 1..Len(Chain[a])
    BY Zenon DEF ConnectInv, AttemptsOK
  <2>2. Background \subseteq Attempts
    BY Zenon DEF ConnectConstants
  <2>. QED
    BY <2>1, <2>2, ChainIsSeq, Zenon DEF Host
<1>2. hostkey[Host(a)] \in Keys
  BY <1>1, Zenon DEF ConnectInv, FileOK
<1>3. c \in CheckRecords /\ c.by = "none" /\ c.pc = "evaluate"
  BY <1>2, Zenon DEF NoCheck, CheckRecords
<1>4. Set(a, att[a].hop, c) /\ UNCHANGED <<att, hostkey, file>> /\ chk[a][att[a].hop] = NoCheck
  BY Zenon DEF Present, Set, KeepFile
<1>5. file' \in SUBSET Records /\ Unattended(c) /\ chk[a][att[a].hop].pc # "accept"
  BY <1>3, <1>4, NoCheckIsCheck, Zenon DEF ConnectInv, FileOK, Unattended, Writing
<1> HIDE DEF c
<1>. QED
  BY <1>1, <1>3, <1>4, <1>5, SetStep

\* The steps of a key check.
LEMMA CheckStep ==
  ASSUME ConnectConstants, ConnectInv, NEW a \in Attempts, NEW i \in 1..Len(Chain[a]), Check(a, i)
  PROVE  ConnectInv'
<1> DEFINE k == chk[a][i]
           Moves(c) == Set(a, i, c) /\ (a \in Background => Unattended(c))
<1>1. k \in CheckRecords /\ file \in SUBSET Records /\ Chain[a][i] \in Hosts
  BY ChainIsSeq, Zenon DEF ConnectInv, ChecksOK, FileOK
<1>2. a \in Background => Unattended(k)
  BY Zenon DEF ConnectInv, BackgroundOK
<1>3. Background \subseteq Attempts
  BY Zenon DEF ConnectConstants
<1>4. k.pc # "accept" /\ UNCHANGED <<att, hostkey>>
  BY Zenon DEF Check, Evaluate, Decide, RemoveRead, Truncate, Fill, Learn, CheckAt, Keep
<1>5. \E c \in CheckRecords : Moves(c)
  <2>r. [NoCheck EXCEPT !.pc = "reject"] \in CheckRecords /\ Unattended([NoCheck EXCEPT !.pc = "reject"])
    BY Zenon DEF NoCheck, CheckRecords, Unattended, Writing
  <2>1. CASE Evaluate(a, i)
    <3>1. /\ [k EXCEPT !.pc = "accept", !.key = NoKey, !.by = "file"] \in CheckRecords
          /\ Unattended([k EXCEPT !.pc = "accept", !.key = NoKey, !.by = "file"])
      BY <1>1, Zenon DEF CheckRecords, Unattended, Writing
    <3>2. /\ [k EXCEPT !.pc = "decide"] \in CheckRecords
          /\ a \in Background => Unattended([k EXCEPT !.pc = "decide"])
      BY <1>1, <1>2, Zenon DEF CheckRecords, Unattended, Writing
    <3>. QED
      BY <2>1, <2>r, <3>1, <3>2, Zenon DEF Evaluate
  <2>2. CASE Decide(a, i)
    <3>1. /\ [k EXCEPT !.pc = "accept", !.key = NoKey, !.by = "user"] \in CheckRecords
          /\ [k EXCEPT !.pc = "remove", !.by = "user"] \in CheckRecords
      BY <1>1, Zenon DEF CheckRecords, Writing
    <3>. QED
      BY <2>2, <2>r, <3>1, Zenon DEF Decide
  <2>3. CASE RemoveRead(a, i)
    <3> DEFINE others == {r \in file : r[1] # Chain[a][i]}
    <3>1. a \notin Background
      BY <1>2, <2>3, Zenon DEF RemoveRead, CheckAt, Unattended, Writing
    <3>2. /\ [k EXCEPT !.pc = "learn"] \in CheckRecords
          /\ [k EXCEPT !.pc = "truncate", !.copy = others] \in CheckRecords
      BY <1>1, Zenon DEF CheckRecords, Writing
    <3>. QED
      BY <2>3, <3>1, <3>2, Zenon DEF RemoveRead
  <2>4. CASE Truncate(a, i)
    <3>1. a \notin Background
      BY <1>2, <2>4, Zenon DEF Truncate, CheckAt, Unattended, Writing
    <3>2. [k EXCEPT !.pc = "fill"] \in CheckRecords
      BY <1>1, Zenon DEF CheckRecords, Writing
    <3>. QED
      BY <2>4, <3>1, <3>2, Zenon DEF Truncate
  <2>5. CASE Fill(a, i)
    <3>1. a \notin Background
      BY <1>2, <2>5, Zenon DEF Fill, CheckAt, Unattended, Writing
    <3>2. [k EXCEPT !.pc = "learn", !.copy = {}] \in CheckRecords
      BY <1>1, Zenon DEF CheckRecords, Writing
    <3>. QED
      BY <2>5, <3>1, <3>2, Zenon DEF Fill
  <2>6. CASE Learn(a, i)
    <3>1. a \notin Background
      BY <1>2, <2>6, Zenon DEF Learn, CheckAt, Unattended, Writing
    <3>2. [k EXCEPT !.pc = "accept", !.key = NoKey] \in CheckRecords
      BY <1>1, Zenon DEF CheckRecords
    <3>. QED
      BY <2>6, <3>1, <3>2, Zenon DEF Learn
  <2>. QED
    BY <2>1, <2>2, <2>3, <2>4, <2>5, <2>6, Zenon DEF Check
<1>6. file' \in SUBSET Records
  <2>1. CASE Truncate(a, i) \/ Fill(a, i)
    BY <1>1, <2>1, Zenon DEF Truncate, Fill, CheckRecords
  <2>2. CASE Learn(a, i)
    <3>1. <<Chain[a][i], k.key>> \in Records
      BY <1>1, Zenon DEF CheckRecords, Records
    <3>2. file' = file \/ file' = file \cup {<<Chain[a][i], k.key>>}
      BY <2>2, Zenon DEF Learn
    <3>. QED
      BY <1>1, <3>1, <3>2, Zenon
  <2>3. CASE Evaluate(a, i) \/ Decide(a, i) \/ RemoveRead(a, i)
    BY <1>1, <2>3, Zenon DEF Evaluate, Decide, RemoveRead
  <2>. QED
    BY <2>1, <2>2, <2>3, Zenon DEF Check
<1>. QED
  BY <1>3, <1>4, <1>5, <1>6, SetStep, Zenon

LEMMA ConnectInvNext == ConnectConstants /\ ConnectInv /\ [ConnectNext]_connectVars => ConnectInv'
<1> SUFFICES ASSUME ConnectConstants, ConnectInv, [ConnectNext]_connectVars PROVE ConnectInv'
  BY Zenon
<1>1. ASSUME NEW a \in Attempts, Connect(a) \/ Present(a) \/ OpenChannel(a) \/ Attempt(a) PROVE ConnectInv'
  BY <1>1, AttemptStep, PresentStep, OpenChannelStep, Zenon
<1>2. ASSUME NEW x \in Checks, Check(x[1], x[2]) PROVE ConnectInv'
  <2>1. x[1] \in Attempts /\ x[2] \in DOMAIN Chain[x[1]]
    BY CheckIsHop, Zenon
  <2>2. x[2] \in 1..Len(Chain[x[1]])
    BY <2>1, ChainIsSeq, Zenon
  <2>. QED
    BY <1>2, <2>1, <2>2, CheckStep, Zenon
<1>3. ASSUME NEW h \in Hosts, NEW key \in Keys, Rekey(h, key) PROVE ConnectInv'
  <2>1. FileOK'
    BY <1>3, Zenon DEF Rekey, ConnectInv, FileOK
  <2>. QED
    BY <1>3, <2>1, Zenon DEF Rekey, ConnectInv, AttemptsOK, ChecksOK, PassedOK, BackgroundOK
<1>4. CASE UNCHANGED connectVars
  BY <1>4, Zenon DEF connectVars, ConnectInv, AttemptsOK, ChecksOK, FileOK, PassedOK, BackgroundOK
<1>. QED
  BY <1>1, <1>2, <1>3, <1>4, Zenon DEF ConnectNext

\* Wherever an attempt authenticates, its prompts and the connections behind it
\* included, every hop so far has passed the check of its host key
\* (connection.rs: connect, handshake, authenticate): for every chain and any
\* number of attempts that share known_hosts.
THEOREM ConnectVerifies == ASSUME ConnectConstants PROVE ConnectSpec => []VerifiedBeforeAuth
<1>1. ConnectInv => VerifiedBeforeAuth
  <2> SUFFICES ASSUME ConnectInv, NEW a \in Attempts,
                      att[a].pc \in {"auth", "prompt", "channel", "connected"}, NEW i \in 1..att[a].hop
               PROVE  chk[a][i].pc = "accept"
    BY Zenon DEF VerifiedBeforeAuth
  <2>1. att[a].hop \in Nat /\ (i = att[a].hop \/ i \in 1..(att[a].hop - 1))
    BY DEF ConnectInv, AttemptsOK
  <2>. QED
    BY <2>1, Zenon DEF ConnectInv, PassedOK
<1>. QED
  BY <1>1, ConnectInvInit, ConnectInvNext, PTL DEF ConnectSpec

\* An attempt without a user accepts only keys that are on record and never
\* rewrites known_hosts (connect.rs: the prompter of background connections).
THEOREM ConnectBackground == ASSUME ConnectConstants PROVE ConnectSpec => []BackgroundNeverTrusts
<1>1. ConnectInv => BackgroundNeverTrusts
  <2> SUFFICES ASSUME ConnectInv, NEW a \in Background, NEW i \in Hops(a)
               PROVE  chk[a][i].by # "user" /\ <<a, i>> \notin Rewriting
    BY Zenon DEF BackgroundNeverTrusts
  <2>1. a \in Attempts
    BY Zenon DEF ConnectConstants
  <2>2. i \in 1..Len(Chain[a])
    BY <2>1, ChainIsSeq, Zenon DEF Hops
  <2>3. Unattended(chk[a][i])
    BY <2>2, Zenon DEF ConnectInv, BackgroundOK
  <2>. QED
    BY <2>3, Zenon DEF Unattended, Writing, Rewriting
<1>. QED
  BY <1>1, ConnectInvInit, ConnectInvNext, PTL DEF ConnectSpec

\* Both of them: what the runs check of the concurrent attempts.
THEOREM ConnectOnlyTrusted == ASSUME ConnectConstants PROVE ConnectSpec => []OnlyTrustedHosts
BY ConnectVerifies, ConnectBackground, PTL DEF OnlyTrustedHosts

-----------------------------------------------------------------------------
(***************************************************************************)
(* known_hosts.                                                            *)
(***************************************************************************)
Busy(a, i) == chk[a][i].pc \in {"truncate", "fill", "learn"}
Quiet == \A a \in Attempts : \A i \in 1..Len(Chain[a]) : ~Busy(a, i)

\* The records f have for h the key that was learned last, and no other.
RightFor(f, h) ==
  learned[h] # NoKey => <<h, learned[h]>> \in f /\ \A r \in f : r[1] = h => r[2] = learned[h]
\* They have none of h, and are right for all the others.
RightWithout(f, h) == (\A r \in f : r[1] # h) /\ \A g \in Hosts \ {h} : RightFor(f, g)

LearnedOK == learned \in [Hosts -> Keys \cup {NoKey}]
\* One check at a time is rewriting the file.
Alone ==
  \A a, b \in Attempts : \A i \in 1..Len(Chain[a]), j \in 1..Len(Chain[b]) :
     Busy(a, i) /\ Busy(b, j) => a = b /\ i = j
\* What it is about to write, and then the file, lacks only the record it will append.
Staged ==
  \A a \in Attempts : \A i \in 1..Len(Chain[a]) :
     /\ chk[a][i].pc \in {"truncate", "fill"} => RightWithout(chk[a][i].copy, Chain[a][i])
     /\ chk[a][i].pc = "learn" => RightWithout(file, Chain[a][i])
\* The inductive invariant of the file, as long as no two rewrites have met.
KnownInv == LearnedOK /\ (~clash => Alone /\ Staged /\ (Quiet => \A h \in Hosts : RightFor(file, h)))

LEMMA KnownInit == ConnectConstants /\ ConnectInit => KnownInv
<1> SUFFICES ASSUME ConnectConstants, ConnectInit PROVE KnownInv
  BY Zenon
<1>1. learned = [h \in Hosts |-> NoKey]
  BY Zenon DEF ConnectInit
<1>2. chk = [a \in Attempts |-> [i \in Hops(a) |-> NoCheck]]
  BY Zenon DEF ConnectInit
<1>3. ASSUME NEW a \in Attempts, NEW i \in 1..Len(Chain[a]) PROVE chk[a][i].pc = "none"
  BY <1>2, <1>3, ChainIsSeq, NoCheckIsCheck, Zenon DEF Hops
<1>4. LearnedOK /\ \A h \in Hosts : RightFor(file, h)
  BY <1>1, Zenon DEF LearnedOK, RightFor
<1>5. Alone /\ Staged
  BY <1>3, Zenon DEF Alone, Staged, Busy
<1>. QED
  BY <1>4, <1>5, Zenon DEF KnownInv

\* A step that leaves the file alone, and no check in or out of a rewrite.
LEMMA KnownAside ==
  ASSUME KnownInv, UNCHANGED <<file, learned, clash>>,
         \A a \in Attempts : \A i \in 1..Len(Chain[a]) :
            chk'[a][i] = chk[a][i] \/ ~(Busy(a, i) \/ Busy(a, i)')
  PROVE  KnownInv'
<1>1. LearnedOK' /\ \A h \in Hosts : RightFor(file, h) => RightFor(file, h)'
  BY Zenon DEF KnownInv, LearnedOK, RightFor
<1>2. Alone => Alone'
  BY DEF Alone, Busy
<1>3. Staged => Staged'
  BY DEF Staged, Busy, RightWithout, RightFor
<1>4. Quiet' => Quiet
  BY Zenon DEF Quiet, Busy
<1>. QED
  BY <1>1, <1>2, <1>3, <1>4, Zenon DEF KnownInv

LEMMA BusyIsRewriting ==
  ASSUME ConnectConstants, NEW b \in Attempts, NEW j \in 1..Len(Chain[b]), Busy(b, j)
  PROVE  <<b, j>> \in Rewriting
<1>1. j \in Hops(b)
  BY ChainIsSeq, Zenon DEF Hops
<1>2. <<b, j>> \in {b} \X Hops(b) /\ <<b, j>>[1] = b /\ <<b, j>>[2] = j
  BY <1>1, Zenon
<1>3. <<b, j>> \in Checks
  BY <1>2, Zenon DEF Checks
<1>. QED
  BY <1>2, <1>3, Zenon DEF Rewriting, Busy

LEMMA SetFrame ==
  ASSUME ConnectInv, NEW a \in Attempts, NEW i \in 1..Len(Chain[a]), NEW c, Set(a, i, c)
  PROVE  /\ chk'[a][i] = c
         /\ \A b \in Attempts : \A j \in 1..Len(Chain[b]) :
               b # a \/ j # i => chk'[b][j] = chk[b][j]
BY Zenon DEF Set, ConnectInv, ChecksOK

\* remove_host_keys begins: if nobody else is rewriting, the file is right.
LEMMA KnownRemoveRead ==
  ASSUME ConnectConstants, ConnectInv, KnownInv, NEW a \in Attempts, NEW i \in 1..Len(Chain[a]),
         RemoveRead(a, i)
  PROVE  KnownInv'
<1> DEFINE k == chk[a][i]
           h == Chain[a][i]
           others == {r \in file : r[1] # h}
           c == IF others = file THEN [k EXCEPT !.pc = "learn"]
                ELSE [k EXCEPT !.pc = "truncate", !.copy = others]
<1>1. /\ k.pc = "remove" /\ Set(a, i, c) /\ UNCHANGED <<file, learned>>
      /\ clash' = Clashes(a, i)
  BY Zenon DEF RemoveRead, CheckAt
<1>2. k \in CheckRecords /\ h \in Hosts
  BY ChainIsSeq, Zenon DEF ConnectInv, ChecksOK
<1>3. \/ c.pc = "learn" /\ others = file
      \/ c.pc = "truncate" /\ c.copy = others
  BY <1>2, Zenon DEF CheckRecords
<1> HIDE DEF c
<1>4. /\ chk'[a][i] = c
      /\ \A b \in Attempts : \A j \in 1..Len(Chain[b]) : b # a \/ j # i => chk'[b][j] = chk[b][j]
  BY <1>1, SetFrame, Zenon
<1>5. LearnedOK'
  BY <1>1, Zenon DEF KnownInv, LearnedOK
<1>6. SUFFICES ASSUME ~clash'
               PROVE  Alone' /\ Staged' /\ ~Quiet'
  BY <1>5, Zenon DEF KnownInv
<1>7. ~clash /\ Quiet
  <2>1. ~clash /\ Rewriting \ {<<a, i>>} = {}
    BY <1>1, <1>6, Zenon DEF Clashes
  <2> SUFFICES ASSUME NEW b \in Attempts, NEW j \in 1..Len(Chain[b]), Busy(b, j) PROVE FALSE
    BY <2>1, Zenon DEF Quiet
  <2>3. <<b, j>> \in Rewriting
    BY BusyIsRewriting, Zenon
  <2>4. <<b, j>> # <<a, i>>
    BY <1>1, Zenon DEF Busy
  <2>. QED
    BY <2>1, <2>3, <2>4, Zenon
<1>8. \A g \in Hosts : RightFor(file, g)
  BY <1>7, Zenon DEF KnownInv
<1>9. Busy(a, i)' /\ \A b \in Attempts : \A j \in 1..Len(Chain[b]) : Busy(b, j)' => b = a /\ j = i
  BY <1>3, <1>4, <1>7, Zenon DEF Busy, Quiet
<1>10. RightWithout(others, h)
  BY <1>8, Zenon DEF RightWithout, RightFor
<1>11. /\ c.pc = "learn" => RightWithout(file, h)
       /\ c.pc = "truncate" => RightWithout(c.copy, h)
       /\ c.pc # "fill"
  BY <1>3, <1>10, ZenonT(30), Zenon
<1>12. Staged'
  BY <1>1, <1>4, <1>9, <1>11, SMTT(30) DEF Staged, Busy, RightWithout, RightFor
<1>. QED
  BY <1>9, <1>12, Zenon DEF Alone, Quiet

\* The file is emptied; the copy stays what it was.
LEMMA KnownTruncate ==
  ASSUME ConnectConstants, ConnectInv, KnownInv, NEW a \in Attempts, NEW i \in 1..Len(Chain[a]),
         Truncate(a, i)
  PROVE  KnownInv'
<1> DEFINE k == chk[a][i]
           c == [k EXCEPT !.pc = "fill"]
<1>1. k.pc = "truncate" /\ Set(a, i, c) /\ UNCHANGED <<learned, clash>>
  BY Zenon DEF Truncate, CheckAt
<1>2. c.pc = "fill" /\ c.copy = k.copy
  <2>1. k \in CheckRecords
    BY Zenon DEF ConnectInv, ChecksOK
  <2>. QED
    BY <2>1, Zenon DEF CheckRecords
<1> HIDE DEF c
<1>4. /\ chk'[a][i] = c
      /\ \A b \in Attempts : \A j \in 1..Len(Chain[b]) : b # a \/ j # i => chk'[b][j] = chk[b][j]
  BY <1>1, SetFrame
<1>6. SUFFICES ASSUME ~clash PROVE Alone' /\ Staged' /\ ~Quiet'
  BY <1>1, Zenon DEF KnownInv, LearnedOK
<1>9. Busy(a, i)' /\ \A b \in Attempts : \A j \in 1..Len(Chain[b]) : Busy(b, j)' => b = a /\ j = i
  BY <1>1, <1>2, <1>4, <1>6, SMTT(30) DEF Busy, KnownInv, Alone
<1>11. RightWithout(c.copy, Chain[a][i])
  BY <1>1, <1>2, <1>6, SMTT(30) DEF KnownInv, Staged
<1>12. Staged'
  BY <1>1, <1>2, <1>4, <1>9, <1>11, SMTT(30) DEF Staged, Busy, RightWithout, RightFor
<1>. QED
  BY <1>9, <1>12, Zenon DEF Alone, Quiet

\* The copy is written back.
LEMMA KnownFill ==
  ASSUME ConnectConstants, ConnectInv, KnownInv, NEW a \in Attempts, NEW i \in 1..Len(Chain[a]),
         Fill(a, i)
  PROVE  KnownInv'
<1> DEFINE k == chk[a][i]
           c == [k EXCEPT !.pc = "learn", !.copy = {}]
<1>1. k.pc = "fill" /\ Set(a, i, c) /\ file' = k.copy /\ UNCHANGED <<learned, clash>>
  BY Zenon DEF Fill, CheckAt
<1>2. c.pc = "learn"
  <2>1. k \in CheckRecords
    BY Zenon DEF ConnectInv, ChecksOK
  <2>. QED
    BY <2>1, SMTT(30) DEF CheckRecords
<1> HIDE DEF c
<1>4. /\ chk'[a][i] = c
      /\ \A b \in Attempts : \A j \in 1..Len(Chain[b]) : b # a \/ j # i => chk'[b][j] = chk[b][j]
  BY <1>1, SetFrame
<1>6. SUFFICES ASSUME ~clash PROVE Alone' /\ Staged' /\ ~Quiet'
  BY <1>1, Zenon DEF KnownInv, LearnedOK
<1>9. Busy(a, i)' /\ \A b \in Attempts : \A j \in 1..Len(Chain[b]) : Busy(b, j)' => b = a /\ j = i
  BY <1>1, <1>2, <1>4, <1>6, SMTT(30) DEF Busy, KnownInv, Alone
<1>11. RightWithout(k.copy, Chain[a][i])
  BY <1>1, <1>6, SMTT(30) DEF KnownInv, Staged
<1>12. Staged'
  BY <1>1, <1>2, <1>4, <1>9, <1>11, SMTT(30) DEF Staged, Busy, RightWithout, RightFor
<1>. QED
  BY <1>9, <1>12, Zenon DEF Alone, Quiet

\* The new record is appended to a file that has no other of its host, or is not, and then
\* nothing counts as learned.
LEMMA KnownLearn ==
  ASSUME ConnectConstants, ConnectInv, KnownInv, NEW a \in Attempts, NEW i \in 1..Len(Chain[a]),
         Learn(a, i)
  PROVE  KnownInv'
<1> DEFINE k == chk[a][i]
           h == Chain[a][i]
           c == [k EXCEPT !.pc = "accept", !.key = NoKey]
<1>1. k.pc = "learn" /\ Set(a, i, c) /\ UNCHANGED clash
  BY Zenon DEF Learn, CheckAt
<1>2. c.pc = "accept" /\ k.key \in Keys \cup {NoKey} /\ h \in Hosts
  <2>1. k \in CheckRecords
    BY Zenon DEF ConnectInv, ChecksOK
  <2>. QED
    BY <2>1, ChainIsSeq DEF CheckRecords
<1>3. \/ file' = file \cup {<<h, k.key>>} /\ learned' = [learned EXCEPT ![h] = k.key]
      \/ file' = file /\ learned' = [learned EXCEPT ![h] = NoKey]
  BY Zenon DEF Learn
<1> HIDE DEF c
<1>4. /\ chk'[a][i] = c
      /\ \A b \in Attempts : \A j \in 1..Len(Chain[b]) : b # a \/ j # i => chk'[b][j] = chk[b][j]
  BY <1>1, SetFrame
<1>5. LearnedOK'
  BY <1>2, <1>3, SMTT(30) DEF KnownInv, LearnedOK
<1>6. SUFFICES ASSUME ~clash
               PROVE  Quiet' /\ \A g \in Hosts : RightFor(file, g)'
  <2>1. Quiet' => Alone' /\ Staged'
    BY Zenon DEF Alone, Staged, Quiet, Busy
  <2>2. ~clash' => ~clash
    BY <1>1, Zenon
  <2>. QED
    BY <1>5, <2>1, <2>2, Zenon DEF KnownInv
<1>7. Quiet'
  BY <1>1, <1>2, <1>4, <1>6, SMTT(30) DEF Busy, KnownInv, Alone, Quiet
<1>8. RightWithout(file, h)
  BY <1>1, <1>6 DEF KnownInv, Staged
<1>9. LearnedOK
  BY SMTT(30) DEF KnownInv
<1>10. RightFor(file, h)'
  BY <1>2, <1>3, <1>8, <1>9, SMTT(30) DEF RightFor, RightWithout, LearnedOK
<1>11. ASSUME NEW g \in Hosts, g # h PROVE RightFor(file, g)'
  <2>1. RightFor(file, g) /\ learned'[g] = learned[g]
    BY <1>2, <1>3, <1>8, <1>9, <1>11, SMTT(30) DEF RightWithout, LearnedOK
  <2>. QED
    BY <1>3, <1>11, <2>1, SMTT(30) DEF RightFor
<1>. QED
  BY <1>7, <1>10, <1>11, Zenon

LEMMA KnownNext == ConnectConstants /\ ConnectInv /\ KnownInv /\ [ConnectNext]_connectVars => KnownInv'
<1> SUFFICES ASSUME ConnectConstants, ConnectInv, KnownInv, [ConnectNext]_connectVars PROVE KnownInv'
  BY Zenon
<1>1. CASE UNCHANGED <<file, learned, clash, chk>>
  BY <1>1, KnownAside, SMTT(30)
<1>2. ASSUME NEW a \in Attempts, Present(a) PROVE KnownInv'
  <2> DEFINE i == att[a].hop
             c == [NoCheck EXCEPT !.pc = "evaluate", !.key = hostkey[Host(a)]]
  <2>1. i \in 1..Len(Chain[a])
    BY Zenon DEF ConnectInv, AttemptsOK
  <2>2. Set(a, i, c) /\ chk[a][i] = NoCheck /\ UNCHANGED <<file, learned, clash>>
    BY <1>2, Zenon DEF Present, Set, KeepFile
  <2>3. c.pc = "evaluate"
    BY Zenon DEF NoCheck
  <2> HIDE DEF c
  <2>4. /\ chk'[a][i] = c
        /\ \A b \in Attempts : \A j \in 1..Len(Chain[b]) : b # a \/ j # i => chk'[b][j] = chk[b][j]
    BY <2>1, <2>2, SetFrame
  <2>. QED
    BY <2>2, <2>3, <2>4, NoCheckIsCheck, KnownAside, SMTT(30) DEF Busy
<1>3. ASSUME NEW a \in Attempts, NEW i \in 1..Len(Chain[a]), Evaluate(a, i) \/ Decide(a, i) PROVE KnownInv'
  <2>1. chk[a][i].pc \in {"evaluate", "decide"} /\ UNCHANGED <<file, learned, clash>>
    BY <1>3, Zenon DEF Evaluate, Decide, CheckAt
  <2>2. PICK c : Set(a, i, c) /\ c.pc \in {"reject", "accept", "decide", "remove"}
    <3> DEFINE k == chk[a][i]
    <3>1. k \in CheckRecords
      BY Zenon DEF ConnectInv, ChecksOK
    <3>2. /\ [NoCheck EXCEPT !.pc = "reject"].pc = "reject"
          /\ [k EXCEPT !.pc = "decide"].pc = "decide"
          /\ [k EXCEPT !.pc = "remove", !.by = "user"].pc = "remove"
          /\ [k EXCEPT !.pc = "accept", !.key = NoKey, !.by = "file"].pc = "accept"
          /\ [k EXCEPT !.pc = "accept", !.key = NoKey, !.by = "user"].pc = "accept"
      BY <3>1, Zenon DEF CheckRecords, NoCheck
    <3>3. CASE Evaluate(a, i)
      BY <3>2, <3>3, Zenon DEF Evaluate
    <3>4. CASE Decide(a, i)
      BY <3>2, <3>4, Zenon DEF Decide
    <3>. QED
      BY <1>3, <3>3, <3>4
  <2>4. /\ chk'[a][i] = c
        /\ \A b \in Attempts : \A j \in 1..Len(Chain[b]) : b # a \/ j # i => chk'[b][j] = chk[b][j]
    BY <2>2, SetFrame, SMTT(30)
  <2>. QED
    BY <2>1, <2>2, <2>4, KnownAside, Zenon DEF Busy
<1>4. ASSUME NEW x \in Checks, Check(x[1], x[2]) PROVE KnownInv'
  <2>1. x[1] \in Attempts /\ x[2] \in DOMAIN Chain[x[1]]
    BY CheckIsHop, Zenon
  <2>2. x[2] \in 1..Len(Chain[x[1]])
    BY <2>1, ChainIsSeq, SMTT(30)
  <2>. QED
    BY <1>3, <1>4, <2>1, <2>2, KnownRemoveRead, KnownTruncate, KnownFill, KnownLearn, SMTT(30) DEF Check
<1>5. ASSUME NEW a \in Attempts, Connect(a) \/ OpenChannel(a) \/ Attempt(a) PROVE KnownInv'
  BY <1>1, <1>5 DEF Connect, OpenChannel, Attempt, Handshake, HandshakeTimeout, ChannelTimeout,
                    Authenticate, Respond, KeepFile
<1>6. ASSUME NEW h \in Hosts, NEW key \in Keys, Rekey(h, key) PROVE KnownInv'
  BY <1>1, <1>6, Zenon DEF Rekey
<1>7. CASE UNCHANGED connectVars
  BY <1>1, <1>7, Zenon DEF connectVars
<1>. QED
  BY <1>2, <1>4, <1>5, <1>6, <1>7, SMTT(30) DEF ConnectNext

\* As long as no two rewrites of known_hosts have met, the file has for every host the key
\* the user learned last, and no older one (hostkey.rs: remove_host_keys, learn): learning
\* the key of one host does not disturb the records of the others, and no step of another
\* attempt, nor a timeout, comes in between.
THEOREM ConnectLearned == ASSUME ConnectConstants PROVE ConnectSpec => []LearnedIsTrusted
<1>1. ConnectInv /\ KnownInv => LearnedIsTrusted
  <2> SUFFICES ASSUME ConnectInv, KnownInv, Rewriting = {}, ~clash, NEW h \in Hosts, learned[h] # NoKey
               PROVE  {r \in file : r[1] = h} = {<<h, learned[h]>>}
    BY Zenon DEF LearnedIsTrusted
  <2>1. Quiet
    <3> SUFFICES ASSUME NEW b \in Attempts, NEW j \in 1..Len(Chain[b]), Busy(b, j) PROVE FALSE
      BY Zenon DEF Quiet
    <3>. QED
      BY BusyIsRewriting, Zenon
  <2>2. RightFor(file, h)
    BY <2>1, Zenon DEF KnownInv
  <2>3. file \subseteq Records
    BY Zenon DEF ConnectInv, FileOK
  <2>4. \A r \in file : r = <<r[1], r[2]>>
    BY <2>3 DEF Records
  <2>. QED
    BY <2>2, <2>4, Zenon DEF RightFor
<1>. QED
  BY <1>1, ConnectInvInit, ConnectInvNext, KnownInit, KnownNext, PTL DEF ConnectSpec

(***************************************************************************)
(* The limits of a tunnel and the count of its connections, for any number *)
(* of clients and every limit.                                             *)
(***************************************************************************)
INSTANCE FiniteSetTheorems


PCs == {"new"} \cup Live \cup Over

\* Where a connection holds the permit of a handshake, and that of a relay.
HandshakeAt == IF socks THEN {"queued", "handshake"} ELSE {}
RelayAt == IF socks THEN {"reply"} \cup Relaying ELSE {"queued"} \cup Relaying
ChanAt == {"wait", "open", "relay"}

\* The inductive invariant: only a dynamic tunnel has handshakes, so that a
\* connection keeps its permit on its way from the queue to the relay.
ConnsInv ==
  /\ socks \in BOOLEAN /\ pc \in [Conns -> PCs]
  /\ ~socks => At({"handshake", "reply"}) = {}
  /\ LimitsKept /\ ActiveCounted

-----------------------------------------------------------------------------
Among(f, ps) == {c \in Conns : f[c] \in ps}

LEMMA AmongFinite == ASSUME NEW f, NEW ps PROVE IsFiniteSet(Among(f, ps)) /\ Cardinality(Among(f, ps)) \in Nat
<1>1. Among(f, ps) \in SUBSET Conns
  BY Zenon DEF Among
<1>. QED
  BY <1>1, RelayLimits, FS_Subset, FS_CardinalityType

\* One connection moves on: each count of connections changes by it alone.
LEMMA AmongMoves ==
  ASSUME pc \in [Conns -> PCs], NEW c \in Conns, NEW l, pc' = [pc EXCEPT ![c] = l], NEW ps
  PROVE  /\ l \in ps /\ pc[c] \notin ps => Cardinality(Among(pc', ps)) = Cardinality(Among(pc, ps)) + 1
         /\ l \notin ps /\ pc[c] \in ps => Cardinality(Among(pc', ps)) = Cardinality(Among(pc, ps)) - 1
         /\ (l \in ps <=> pc[c] \in ps) => Among(pc', ps) = Among(pc, ps)
<1>1. Among(pc', ps) = IF l \in ps THEN Among(pc, ps) \cup {c} ELSE Among(pc, ps) \ {c}
  BY Zenon DEF Among
<1>2. c \in Among(pc, ps) <=> pc[c] \in ps
  BY Zenon DEF Among
<1>3. IsFiniteSet(Among(pc, ps))
  BY AmongFinite, Zenon
<1>4. CASE l \in ps /\ pc[c] \notin ps
  <2>1. Among(pc', ps) = Among(pc, ps) \cup {c} /\ c \notin Among(pc, ps)
    BY <1>1, <1>2, <1>4, Zenon
  <2>. QED
    BY <1>3, <1>4, <2>1, FS_AddElement, Zenon
<1>5. CASE l \notin ps /\ pc[c] \in ps
  <2>1. Among(pc', ps) = Among(pc, ps) \ {c} /\ c \in Among(pc, ps)
    BY <1>1, <1>2, <1>5, Zenon
  <2>. QED
    BY <1>3, <1>5, <2>1, FS_RemoveElement, ZenonT(30)
<1>6. CASE l \in ps <=> pc[c] \in ps
  BY <1>1, <1>2, <1>6
<1>. QED
  BY <1>4, <1>5, <1>6

\* What the limits and the count are about.
LEMMA Stages ==
  /\ Handshakes = Among(pc, HandshakeAt) /\ Relays = Among(pc, RelayAt) /\ Chans = Among(pc, ChanAt)
  /\ Handshakes' = Among(pc', HandshakeAt') /\ Relays' = Among(pc', RelayAt') /\ Chans' = Among(pc', ChanAt)
  /\ \A ps : At(ps) = Among(pc, ps)
  /\ At(Live)' = Among(pc', Live) /\ At({"aborted"})' = Among(pc', {"aborted"})
BY Zenon DEF Handshakes, Relays, Chans, HandshakeAt, RelayAt, ChanAt, At, Among

\* A connection moves on without going over a limit, and is counted as it comes
\* and goes.
LEMMA MoveStep ==
  ASSUME ConnsInv, NEW c \in Conns, NEW l \in PCs, pc' = [pc EXCEPT ![c] = l], socks' = socks,
         l # "aborted", pc[c] # "aborted", ~socks => l \notin {"handshake", "reply"},
         l \in HandshakeAt => pc[c] \in HandshakeAt \/ Cardinality(Handshakes) < MaxHandshakes,
         l \in RelayAt => pc[c] \in RelayAt \/ Cardinality(Relays) < MaxConns,
         l \in ChanAt => pc[c] \in ChanAt \/ Cardinality(Chans) < MaxChans,
         pc[c] \in Live /\ l \in Live => active' = active,
         pc[c] \notin Live /\ l \notin Live => active' = active,
         pc[c] \notin Live /\ l \in Live => active' = active + 1,
         pc[c] \in Live /\ l \notin Live => active' = active - 1
  PROVE  ConnsInv'
<1> USE RelayLimits
<1>0. pc \in [Conns -> PCs] /\ pc' \in [Conns -> PCs]
  BY Zenon DEF ConnsInv
<1>1. (~socks => At({"handshake", "reply"}) = {})'
  BY <1>0, Zenon DEF ConnsInv, At
<1>2. HandshakeAt' = HandshakeAt /\ RelayAt' = RelayAt
  BY Zenon DEF HandshakeAt, RelayAt
<1>3. ASSUME NEW ps
      PROVE  /\ l \in ps /\ pc[c] \notin ps => Cardinality(Among(pc', ps)) = Cardinality(Among(pc, ps)) + 1
             /\ l \notin ps /\ pc[c] \in ps => Cardinality(Among(pc', ps)) = Cardinality(Among(pc, ps)) - 1
             /\ (l \in ps <=> pc[c] \in ps) => Among(pc', ps) = Among(pc, ps)
  BY <1>0, AmongMoves, Zenon
<1>4. ASSUME NEW ps, NEW max \in Nat, Cardinality(Among(pc, ps)) <= max,
             l \in ps => pc[c] \in ps \/ Cardinality(Among(pc, ps)) < max
      PROVE  Cardinality(Among(pc', ps)) <= max
  <2>1. Cardinality(Among(pc, ps)) \in Nat
    BY AmongFinite, Zenon
  <2>2. CASE l \in ps /\ pc[c] \notin ps
    <3>1. Cardinality(Among(pc', ps)) = Cardinality(Among(pc, ps)) + 1
      BY <2>2, <1>3, Zenon
    <3>2. Cardinality(Among(pc, ps)) < max
      BY <2>2, <1>4
    <3>. QED
      BY <2>1, <3>1, <3>2
  <2>3. CASE l \notin ps /\ pc[c] \in ps
    <3>1. Cardinality(Among(pc', ps)) = Cardinality(Among(pc, ps)) - 1
      BY <2>3, <1>3, Zenon
    <3>2. Cardinality(Among(pc, ps)) <= max
      BY <1>4, Zenon
    <3>. QED
      BY <2>1, <3>1, <3>2
  <2>4. CASE l \in ps <=> pc[c] \in ps
    BY <1>0, <1>4, <2>4, <1>3, ZenonT(30)
  <2>. QED
    BY <2>2, <2>3, <2>4
<1>5. LimitsKept'
  <2>1. /\ Cardinality(Among(pc, RelayAt)) <= MaxConns
        /\ Cardinality(Among(pc, HandshakeAt)) <= MaxHandshakes
        /\ Cardinality(Among(pc, ChanAt)) <= MaxChans
    BY Stages, Zenon DEF ConnsInv, LimitsKept
  <2>2. /\ Cardinality(Among(pc', RelayAt)) <= MaxConns
        /\ Cardinality(Among(pc', HandshakeAt)) <= MaxHandshakes
        /\ Cardinality(Among(pc', ChanAt)) <= MaxChans
    BY <1>4, <2>1, Stages, ZenonT(30)
  <2>. QED
    BY <1>2, <2>2, Stages, SMTT(30) DEF LimitsKept
<1>6. ActiveCounted'
  <2>1. Among(pc', {"aborted"}) = Among(pc, {"aborted"})
    BY <1>3, Zenon
  <2>2. Cardinality(Among(pc, Live)) \in Nat /\ Cardinality(Among(pc, {"aborted"})) \in Nat
    BY AmongFinite, Zenon
  <2>3. active = Cardinality(Among(pc, Live)) + Cardinality(Among(pc, {"aborted"}))
    BY Stages, Zenon DEF ConnsInv, ActiveCounted
  <2>4. active' = Cardinality(Among(pc', Live)) + Cardinality(Among(pc', {"aborted"}))
    <3>1. CASE pc[c] \in Live <=> l \in Live
      BY <3>1, <2>1, <2>3, <1>3, ZenonT(30)
    <3>2. CASE pc[c] \notin Live /\ l \in Live
      <4>1. Cardinality(Among(pc', Live)) = Cardinality(Among(pc, Live)) + 1
        BY <3>2, <1>3, ZenonT(30)
      <4>. QED
        BY <3>2, <4>1, <2>1, <2>2, <2>3, SMTT(30)
    <3>3. CASE pc[c] \in Live /\ l \notin Live
      <4>1. Cardinality(Among(pc', Live)) = Cardinality(Among(pc, Live)) - 1
        BY <3>3, <1>3, Zenon
      <4>. QED
        BY <3>3, <4>1, <2>1, <2>2, <2>3, SMTT(30)
    <3>. QED
      BY <3>1, <3>2, <3>3, SMTT(30)
  <2>. QED
    BY <2>4, Stages DEF ActiveCounted
<1>7. socks' \in BOOLEAN
  BY Zenon DEF ConnsInv
<1>. QED
  BY <1>0, <1>1, <1>5, <1>6, <1>7, SMTT(30) DEF ConnsInv

LEMMA ConnsInit == Init => ConnsInv
<1> SUFFICES ASSUME Init PROVE ConnsInv
  BY Zenon
<1> USE RelayLimits DEF Init
<1>1. pc \in [Conns -> PCs] /\ socks \in BOOLEAN
  BY Zenon DEF PCs
<1>2. \A ps : "new" \notin ps => At(ps) = {}
  BY Zenon DEF At
<1>3. LimitsKept
  <2>1. Relays = {} /\ Handshakes = {} /\ Chans = {}
    BY Zenon DEF Relays, Handshakes, Chans, Relaying, At
  <2>. QED
    BY <2>1, FS_EmptySet DEF LimitsKept
<1>4. ActiveCounted
  <2>1. At(Live) = {} /\ At({"aborted"}) = {}
    BY <1>2, Zenon DEF Live, Relaying
  <2>. QED
    BY <2>1, FS_EmptySet DEF ActiveCounted
<1>. QED
  BY <1>1, <1>2, <1>3, <1>4, SMTT(30) DEF ConnsInv

\* Every step of a connection is such a move.
LEMMA ConnStep ==
  ASSUME ConnsInv, NEW c \in Conns, Accept(c) \/ Relayed(c) \/ Step(c)
  PROVE  ConnsInv'
<1> USE DEF Goto, Leave, Live, Over, Relaying, HandshakeAt, RelayAt, ChanAt, PCs
<1>0. ~socks => pc[c] \notin {"handshake", "reply"}
  BY Zenon DEF ConnsInv, At
<1>1. CASE Accept(c)
  BY <1>1, MoveStep DEF Accept
<1>2. CASE Relayed(c)
  BY <1>2, MoveStep, ZenonT(30) DEF Relayed
<1>3. CASE Spawn(c)
  BY <1>3, MoveStep, ZenonT(30) DEF Spawn
<1>4. CASE Handshaken(c)
  BY <1>0, <1>4, MoveStep DEF Handshaken
<1>5. CASE HandshakeFails(c)
  BY <1>5, MoveStep, ZenonT(30) DEF HandshakeFails
<1>6. CASE Replied(c)
  BY <1>0, <1>6, MoveStep, ZenonT(30) DEF Replied
<1>7. CASE ChanAcquired(c)
  BY <1>7, MoveStep, ZenonT(30) DEF ChanAcquired
<1>8. CASE ChanTimeout(c)
  BY <1>8, MoveStep, ZenonT(30) DEF ChanTimeout
<1>9. CASE Connected(c) \/ NotConnected(c)
  BY <1>9, MoveStep DEF Connected, NotConnected
<1>10. CASE Opened(c)
  BY <1>10, MoveStep, ZenonT(30) DEF Opened
<1>11. CASE OpenFails(c)
  BY <1>11, MoveStep DEF OpenFails
<1>. QED
  BY <1>1, <1>2, <1>3, <1>4, <1>5, <1>6, <1>7, <1>8, <1>9, <1>10, <1>11, SMTT(30) DEF Step

LEMMA DisjointUnion ==
  ASSUME NEW S, NEW T, IsFiniteSet(S), IsFiniteSet(T), S \cap T = {}
  PROVE  Cardinality(S \cup T) = Cardinality(S) + Cardinality(T)
<1>1. Cardinality(S \cap T) = 0 /\ Cardinality(S) \in Nat /\ Cardinality(T) \in Nat
  BY FS_EmptySet, FS_CardinalityType, Zenon
<1>2. Cardinality(S \cup T) = Cardinality(S) + Cardinality(T) - Cardinality(S \cap T)
  BY FS_Union, Zenon
<1>. QED
  BY <1>1, <1>2

\* abort_all: what was alive is aborted where it is, and stays counted.
LEMMA AbortStep == ConnsInv /\ Abort => ConnsInv'
<1> SUFFICES ASSUME ConnsInv, Abort PROVE ConnsInv'
  BY Zenon
<1> USE RelayLimits
<1>0. /\ pc \in [Conns -> PCs] /\ socks \in BOOLEAN /\ UNCHANGED <<socks, active>>
      /\ pc' = [c \in Conns |-> IF pc[c] \in Live THEN "aborted" ELSE pc[c]]
  BY Zenon DEF ConnsInv, Abort
<1>1. pc' \in [Conns -> PCs] /\ socks' \in BOOLEAN
  BY <1>0, Zenon DEF PCs, Over
<1>2. ASSUME NEW ps, ps \subseteq Live PROVE Among(pc', ps) = {}
  BY <1>0, <1>2, Zenon DEF Among, Live, Relaying
<1>3. (~socks => At({"handshake", "reply"}) = {})'
  BY <1>0, Zenon DEF At, Live
<1>4. LimitsKept'
  <2>1. HandshakeAt' \subseteq Live /\ RelayAt' \subseteq Live /\ ChanAt \subseteq Live
    BY Zenon DEF HandshakeAt, RelayAt, ChanAt, Live, Relaying
  <2>2. Relays' = {} /\ Handshakes' = {} /\ Chans' = {}
    BY <1>2, <2>1, Stages, Zenon
  <2>. QED
    BY <2>2, FS_EmptySet DEF LimitsKept
<1>5. ActiveCounted'
  <2>1. /\ Among(pc', {"aborted"}) = Among(pc, {"aborted"}) \cup Among(pc, Live)
        /\ Among(pc, {"aborted"}) \cap Among(pc, Live) = {}
    BY <1>0, Zenon DEF Among, Live, Relaying
  <2>2. Cardinality(Among(pc', {"aborted"})) = Cardinality(Among(pc, {"aborted"})) + Cardinality(Among(pc, Live))
    <3>1. IsFiniteSet(Among(pc, {"aborted"})) /\ IsFiniteSet(Among(pc, Live))
      BY AmongFinite
    <3>. QED
      BY <2>1, <3>1, DisjointUnion
  <2>3. Cardinality(Among(pc', Live)) = 0
    BY <1>2, FS_EmptySet
  <2>4. Cardinality(Among(pc, {"aborted"})) \in Nat /\ Cardinality(Among(pc, Live)) \in Nat
    BY AmongFinite, Zenon
  <2>5. active = Cardinality(Among(pc, Live)) + Cardinality(Among(pc, {"aborted"}))
    BY Stages DEF ConnsInv, ActiveCounted
  <2>6. active' = Cardinality(Among(pc', Live)) + Cardinality(Among(pc', {"aborted"}))
    BY <1>0, <2>2, <2>3, <2>4, <2>5, SMTT(30)
  <2>. QED
    BY <2>6, Stages DEF ActiveCounted
<1>. QED
  BY <1>1, <1>3, <1>4, <1>5 DEF ConnsInv

LEMMA ConnsInductive == ConnsInv /\ [Next]_vars => ConnsInv'
<1> SUFFICES ASSUME ConnsInv, [Next]_vars PROVE ConnsInv'
  BY Zenon
<1>1. CASE \E c \in Conns : Accept(c) \/ Relayed(c) \/ Step(c)
  BY <1>1, ConnStep
<1>2. CASE Abort
  BY <1>2, AbortStep, SMTT(30)
<1>3. CASE Stop \/ Drained \/ Lost \/ Reconnected \/ UNCHANGED vars
  <2>1. UNCHANGED <<socks, pc, active>>
    BY <1>3, Zenon DEF Stop, Drained, Lost, Reconnected, vars
  <2>. QED
    BY <2>1 DEF ConnsInv, LimitsKept, ActiveCounted, Relays, Handshakes, Chans, At
<1>. QED
  BY <1>1, <1>2, <1>3 DEF Next

LEMMA ConnsInvariant == Spec => []ConnsInv
BY ConnsInit, ConnsInductive, PTL DEF Spec

\* The permits of accept_loop, handle_socks5 and handle_local keep relays, handshakes
\* and channels within their limits, however many clients connect, and
\* stats.active_conns is the number of connections that are there, plus those that
\* abort_all ended: no handler leaves without counting itself off, and none twice.
THEOREM ConnectionsCounted == Spec => []RelaysCounted
<1>1. ConnsInv => RelaysCounted
  BY Zenon DEF ConnsInv, RelaysCounted
<1>. QED
  BY <1>1, ConnsInvariant, PTL
=============================================================================
