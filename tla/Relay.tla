------------------------------- MODULE Relay --------------------------------
(***************************************************************************)
(* A relay of a tunnel (relay, crates/core-tunnel/src/manager.rs): two     *)
(* halves copy between a TCP connection and an SSH channel, one chunk at a *)
(* time; when one has ended the other may drain for a while.               *)
(***************************************************************************)
EXTENDS Naturals

CONSTANT MaxChunks    \* bound: chunks a side sends

Dirs == {"up", "down"}

VARIABLES
  sent,               \* of a direction: chunks its source has sent
  source,             \* the source: open, closed (end of file), reset
  sink,               \* the sink: taking what is written, broken, or stalled
  read,               \* chunks the half has read
  written,            \* chunks the half has written
  fin,                \* directions whose end was passed on to the sink
  half,               \* the half: running, closing (passing the end on), or how it ended
  relay               \* running, draining, or over: ended or timed out

relayVars == <<sent, source, sink, read, written, fin, half, relay>>

RelayInit ==
  /\ sent = [d \in Dirs |-> 0] /\ source = [d \in Dirs |-> "open"] /\ sink = [d \in Dirs |-> "ok"]
  /\ read = [d \in Dirs |-> 0] /\ written = [d \in Dirs |-> 0] /\ fin = {}
  /\ half = [d \in Dirs |-> "run"] /\ relay = "run"

\* The client, the server behind the channel, and what lies between.
SourceSends(d) ==
  /\ source[d] = "open" /\ sent[d] < MaxChunks /\ sent' = [sent EXCEPT ![d] = @ + 1]
  /\ UNCHANGED <<source, sink, read, written, fin, half, relay>>
SourceEnds(d, how) ==
  /\ source[d] = "open" /\ source' = [source EXCEPT ![d] = how]
  /\ UNCHANGED <<sent, sink, read, written, fin, half, relay>>
SinkFails(d, how) ==
  /\ sink[d] = "ok" /\ sink' = [sink EXCEPT ![d] = how]
  /\ UNCHANGED <<sent, source, read, written, fin, half, relay>>

On == relay \in {"run", "drain"}
\* Mutant: one half is enough.
EndsBoth(d, how) == half' = [half EXCEPT ![d] = how] /\ relay' = "ended"
\* The first half to end is followed by the drain, unless it ended fatally; with
\* the second the relay is over.
Ends(d, how) ==
  /\ half' = [half EXCEPT ![d] = how]
  /\ relay' = IF relay = "drain" \/ how = "fatal" THEN "ended" ELSE "drain"

Read(d) ==
  /\ On /\ half[d] = "run" /\ read[d] = written[d] /\ read[d] < sent[d] /\ source[d] # "reset"
  /\ read' = [read EXCEPT ![d] = @ + 1]
  /\ UNCHANGED <<sent, source, sink, written, fin, half, relay>>
ReadReset(d) ==
  /\ On /\ half[d] = "run" /\ read[d] = written[d] /\ source[d] = "reset" /\ Ends(d, "fatal")
  /\ UNCHANGED <<sent, source, sink, read, written, fin>>
Write(d) ==
  /\ On /\ half[d] = "run" /\ written[d] < read[d] /\ sink[d] # "stalled"
  /\ IF sink[d] = "broken" THEN Ends(d, "write_failed") /\ UNCHANGED written
     ELSE written' = [written EXCEPT ![d] = @ + 1] /\ UNCHANGED <<half, relay>>
  /\ UNCHANGED <<sent, source, sink, read, fin>>
\* Mutant: the end is looked for while a chunk is on its way.
ReadEofEarly(d) ==
  /\ On /\ half[d] = "run" /\ read[d] = sent[d] /\ source[d] = "closed"
  /\ half' = [half EXCEPT ![d] = "closing"]
  /\ UNCHANGED <<sent, source, sink, read, written, fin, relay>>
\* End of file: it is passed on, for at most EOF_SIGNAL_TIMEOUT.
ReadEof(d) ==
  /\ On /\ half[d] = "run" /\ read[d] = written[d] /\ read[d] = sent[d] /\ source[d] = "closed"
  /\ half' = [half EXCEPT ![d] = "closing"]
  /\ UNCHANGED <<sent, source, sink, read, written, fin, relay>>
Signalled(d) ==
  /\ On /\ half[d] = "closing" /\ sink[d] = "ok" /\ fin' = fin \cup {d} /\ Ends(d, "eof")
  /\ UNCHANGED <<sent, source, sink, read, written>>
NotSignalled(d) ==
  /\ On /\ half[d] = "closing" /\ sink[d] # "ok" /\ Ends(d, "eof")
  /\ UNCHANGED <<sent, source, sink, read, written, fin>>
\* Mutant: the other half may take as long as it takes.
DrainTimeoutNever == FALSE /\ UNCHANGED relayVars
DrainTimeout ==
  /\ relay = "drain" /\ relay' = "timed_out"
  /\ UNCHANGED <<sent, source, sink, read, written, fin, half>>

Half(d) == Read(d) \/ Write(d) \/ ReadEof(d) \/ ReadReset(d) \/ Signalled(d) \/ NotSignalled(d)
RelayNext ==
  \/ DrainTimeout
  \/ \E d \in Dirs : Half(d) \/ SourceSends(d) \/ SourceEnds(d, "closed") \/ SourceEnds(d, "reset")
                       \/ SinkFails(d, "broken") \/ SinkFails(d, "stalled")

RelaySpec == RelayInit /\ [][RelayNext]_relayVars
RelayFairSpec == RelaySpec /\ WF_relayVars(DrainTimeout) /\ \A d \in Dirs : WF_relayVars(Half(d))

(***************************************************************************)
(* Properties.                                                             *)
(***************************************************************************)
\* A relay that ends of itself, without a reset, a refused write or the timeout,
\* has delivered all that either side sent and told each of the other's end:
\* the side that closes first gets its answer.
AllDelivered ==
  relay = "ended" /\ (\A d \in Dirs : half[d] \notin {"fatal", "write_failed"}) =>
     \A d \in Dirs : written[d] = sent[d] /\ (d \in fin \/ sink[d] # "ok")
\* No side is told of an end before everything sent ahead of it was delivered.
EndComesLast == \A d \in fin : written[d] = sent[d]
\* Both: what a side sends arrives, and its end behind it.
RelayFaithful == AllDelivered /\ EndComesLast

OverIfClosed ==
  On => \A d \in Dirs : half[d] = "run" /\ (source[d] = "open" \/ sink[d] = "stalled")
\* A side that closes has the relay ended, also when the other neither sends nor
\* closes, or takes nothing any more; only a close behind data that the other side
\* does not take is not noticed.
RelayEnds == []<>OverIfClosed
=============================================================================
