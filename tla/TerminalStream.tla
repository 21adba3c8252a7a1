--------------------------- MODULE TerminalStream ---------------------------
(***************************************************************************)
(* The data path of one terminal tab: the read loop with its aggregation   *)
(* buffer and background ring (crates/app/src/terminal/stream.rs), the     *)
(* credit protocol it writes through (StreamProtocol), the frontend        *)
(* consumer (app/ui/src/terminal/stream-consumer.ts) and the commands the  *)
(* frontend sends back, each of which is a runtime task of its own.        *)
(*                                                                         *)
(* A byte is the position at which the remote produced it: 1, 2, 3, ...    *)
(* A truncation notice of NoticeLen bytes is <<-k, 0, ...>> for the count  *)
(* k it announces.                                                         *)
(***************************************************************************)
EXTENDS StreamProtocol, Lists, Functions

CONSTANTS
    MaxBytes,     \* bound: bytes the remote ever produces
    MaxChunk,     \* bytes one next_data() may return
    AggCap,       \* AGG_CAP
    RingCap,      \* RING_CAP
    DrainChunk,   \* RING_DRAIN_CHUNK
    NoticeLen,    \* length of the truncation notice
    MaxFocusCmds  \* bound: term_focus commands in flight

ASSUME TerminalConstants ==
    /\ {MaxBytes, MaxChunk, AggCap, RingCap, DrainChunk, NoticeLen, MaxFocusCmds}
          \subseteq Nat \ {0}
    /\ {AggCap - 1 + MaxChunk, DrainChunk, NoticeLen} \subseteq 1 .. CreditHigh

VARIABLES
    rd, ret,      \* where the read loop is, and where a flush or send returns to
    read,         \* bytes read from the remote so far
    agg, buf,     \* aggregation buffer; batch taken out of it (or out of the ring)
    ring, truncated,
    focused,      \* the flag the read loop reads
    wire,         \* payload of every registered frame: offset i is wire[i]
    chan,         \* frames under way to the frontend
    lastEnd,      \* StreamConsumer.lastEndOffset
    taken,        \* end of the batch handed to write()
    rendered,     \* end of the batch whose write callback has fired
    opened,       \* term_open has returned and tabId is set
    uiFocused, focusCmds

readerVars == <<rd, ret, read, agg, buf, ring, truncated>>
uiVars     == <<lastEnd, taken, rendered>>
focusVars  == <<focused, opened, uiFocused, focusCmds>>
vars == <<streamVars, readerVars, wire, chan, uiVars, focusVars>>

Init ==
    /\ StreamInit
    /\ rd = "top" /\ ret = "top" /\ read = 0
    /\ agg = <<>> /\ buf = <<>> /\ ring = <<>> /\ truncated = 0
    /\ wire = <<>> /\ chan = <<>>
    /\ lastEnd = 0 /\ taken = 0 /\ rendered = 0
    /\ opened \in BOOLEAN
    /\ focused = TRUE /\ uiFocused = TRUE /\ focusCmds = <<>>

-----------------------------------------------------------------------------
(***************************************************************************)
(* The read loop.                                                          *)
(***************************************************************************)

Notice(k) == [i \in 1 .. NoticeLen |-> IF i = 1 THEN -k ELSE 0]

Newest(s, n) == SubSeq(s, Len(s) - n + 1, Len(s))
Least(m, n)  == IF m < n THEN m ELSE n

\* RingBuf::push: keep the newest RingCap bytes, count every byte dropped.
RingPush(data) ==
    LET kept == Least(Len(ring) + Len(data), RingCap)
    IN  /\ ring' = Newest(ring \o data, kept)
        /\ truncated' = truncated + Len(ring) + Len(data) - kept

\* Mutant: the truncation count is taken but no notice is sent.
LoopTopSilent ==
    /\ rd = "top"
    /\ truncated' = IF focused THEN 0 ELSE truncated
    /\ rd' = IF focused /\ ring # <<>> THEN "drain" ELSE "select"
    /\ UNCHANGED <<streamVars, read, agg, ring, buf, ret, wire, chan, uiVars, focusVars>>

\* Mutant: the notice is sent but the truncation count is not taken.
LoopTopKeepsCount ==
    /\ rd = "top"
    /\ IF focused /\ ring # <<>>
       THEN /\ buf' = IF truncated > 0 THEN Notice(truncated) ELSE <<>>
            /\ rd' = IF truncated > 0 THEN "await_credit" ELSE "drain"
            /\ ret' = "drain"
       ELSE rd' = "select" /\ UNCHANGED <<buf, ret>>
    /\ UNCHANGED <<streamVars, read, agg, ring, truncated, wire, chan, uiVars, focusVars>>

\* Loop head: back in the foreground the ring is replayed first, its notice before it.
LoopTop ==
    /\ rd = "top"
    /\ IF focused /\ ring # <<>>
       THEN /\ truncated' = 0
            /\ buf' = IF truncated > 0 THEN Notice(truncated) ELSE <<>>
            /\ rd' = IF truncated > 0 THEN "await_credit" ELSE "drain"
            /\ ret' = "drain"
       ELSE rd' = "select" /\ UNCHANGED <<truncated, buf, ret>>
    /\ UNCHANGED <<streamVars, read, agg, ring, wire, chan, uiVars, focusVars>>

\* drain_ring's loop: one chunk at a time while the tab stays in the foreground.
DrainRing ==
    /\ rd = "drain"
    /\ LET k == Least(Len(ring), DrainChunk)
       IN  IF focused /\ ring # <<>>
           THEN /\ buf' = SubSeq(ring, 1, k)
                /\ ring' = SubSeq(ring, k + 1, Len(ring))
                /\ rd' = "await_credit" /\ ret' = "drain"
           ELSE rd' = "select" /\ UNCHANGED <<buf, ring, ret>>
    /\ UNCHANGED <<streamVars, read, agg, truncated, wire, chan, uiVars, focusVars>>

\* acquire_credit(...).await
AwaitCredit ==
    /\ rd = "await_credit"
    /\ TakeCredit(Len(buf))
    /\ rd' = "send"
    /\ UNCHANGED <<ret, read, agg, buf, ring, truncated, wire, chan, uiVars, focusVars>>

\* Mutant: the range is registered only once the sink has taken the frame.
SendRegistersLate(delivered) ==
    /\ rd = "send"
    /\ sent_total' = IF CanAlloc /\ delivered THEN sent_total + held ELSE sent_total
    /\ broken' = (broken \/ ~CanAlloc)
    /\ held' = 0
    /\ wire' = IF CanAlloc /\ delivered THEN wire \o buf ELSE wire
    /\ chan' = IF CanAlloc /\ delivered
               THEN Append(chan, [start |-> sent_total, end |-> sent_total + Len(buf)])
               ELSE chan
    /\ buf' = <<>>
    /\ rd' = ret
    /\ UNCHANGED <<acked_total, credits, ack, ret, read, agg, ring, truncated, uiVars, focusVars>>

\* send_frame.
Send(delivered) ==
    /\ rd = "send"
    /\ SendFrame(delivered)
    /\ wire' = IF CanAlloc THEN wire \o buf ELSE wire
    /\ chan' = IF CanAlloc /\ delivered
               THEN Append(chan, [start |-> sent_total, end |-> sent_total + Len(buf)])
               ELSE chan
    /\ buf' = <<>>
    /\ rd' = ret
    /\ UNCHANGED <<ret, read, agg, ring, truncated, uiVars, focusVars>>

\* select!: data arrives, the stream ends, or the aggregation window elapses.
NextData(n) ==
    /\ rd = "select"
    /\ read + n <= MaxBytes
    /\ read' = read + n
    /\ agg' = agg \o [i \in 1 .. n |-> read + i]
    /\ rd' = IF Len(agg') >= AggCap THEN "flush" ELSE "top"
    /\ ret' = "top"
    /\ UNCHANGED <<streamVars, buf, ring, truncated, wire, chan, uiVars, focusVars>>

Eof ==
    /\ rd = "select"
    /\ rd' = "flush" /\ ret' = "ended"
    /\ UNCHANGED <<streamVars, read, agg, buf, ring, truncated, wire, chan, uiVars, focusVars>>

WindowElapsed ==
    /\ rd = "select"
    /\ rd' = IF agg # <<>> THEN "flush" ELSE "top"
    /\ ret' = "top"
    /\ UNCHANGED <<streamVars, read, agg, buf, ring, truncated, wire, chan, uiVars, focusVars>>

\* flush: foreground waits for credit, background sends only if there is credit now and
\* otherwise parks the batch in the ring; a broken epoch drops it.
Flush ==
    /\ rd = "flush"
    /\ agg' = <<>>
    /\ \/ /\ agg = <<>> \/ broken
          /\ rd' = ret
          /\ UNCHANGED <<streamVars, buf, ring, truncated>>
       \/ /\ agg # <<>> /\ ~broken /\ focused
          /\ buf' = agg
          /\ rd' = "await_credit"
          /\ UNCHANGED <<streamVars, ring, truncated>>
       \/ /\ agg # <<>> /\ ~broken /\ ~focused
          /\ TakeCredit(Len(agg))
          /\ buf' = agg
          /\ rd' = "send"
          /\ UNCHANGED <<ring, truncated>>
       \/ /\ agg # <<>> /\ ~broken /\ ~focused
          /\ credits < Len(agg)
          /\ RingPush(agg)
          /\ rd' = ret
          /\ UNCHANGED <<streamVars, buf>>
    /\ UNCHANGED <<ret, read, wire, chan, uiVars, focusVars>>

\* supervise(): the read loop has returned; the session reconnects and loops again with
\* the same credit state and ring, or it is closed for good.
Supervise ==
    /\ rd = "ended"
    /\ rd' \in {"top", "closed"}
    /\ UNCHANGED <<streamVars, ret, read, agg, buf, ring, truncated, wire, chan, uiVars, focusVars>>

-----------------------------------------------------------------------------
(***************************************************************************)
(* The frontend.                                                           *)
(***************************************************************************)

\* push(): parseFrame drops a frame that does not advance lastEndOffset.
Push ==
    /\ chan # <<>>
    /\ chan' = Tail(chan)
    /\ lastEnd' = IF Head(chan).end > lastEnd THEN Head(chan).end ELSE lastEnd
    /\ UNCHANGED <<streamVars, readerVars, wire, taken, rendered, focusVars>>

\* flushOnce(): everything queued becomes one write, unless one is under way.
FlushOnce ==
    /\ taken < lastEnd
    /\ taken = rendered
    /\ taken' = lastEnd
    /\ UNCHANGED <<streamVars, readerVars, wire, chan, lastEnd, rendered, focusVars>>

\* Mutant: the callback acknowledges all that has arrived, not what was written.
WriteDoneAcksArrived ==
    /\ taken > rendered
    /\ rendered' = taken
    /\ \/ opened /\ \E a \in AckIds : AckCalled(a, lastEnd)
       \/ ~opened /\ UNCHANGED streamVars
    /\ UNCHANGED <<readerVars, wire, chan, lastEnd, taken, focusVars>>

\* The write callback: the batch is acknowledged if the tab has its id by now.
WriteDone ==
    /\ taken > rendered
    /\ rendered' = taken
    /\ \/ opened /\ \E a \in AckIds : AckCalled(a, taken)
       \/ ~opened /\ UNCHANGED streamVars
    /\ UNCHANGED <<readerVars, wire, chan, lastEnd, taken, focusVars>>

\* term_open returns: tabId is set and a background tab says so.
TermOpened ==
    /\ ~opened
    /\ opened' = TRUE
    /\ focusCmds' = IF uiFocused THEN focusCmds ELSE Append(focusCmds, FALSE)
    /\ UNCHANGED <<streamVars, readerVars, wire, chan, uiVars, focused, uiFocused>>

\* setFocused(): remembered, and sent once the tab has its id.
SetFocused(f) ==
    /\ uiFocused # f
    /\ Len(focusCmds) < MaxFocusCmds
    /\ uiFocused' = f
    /\ focusCmds' = IF opened THEN Append(focusCmds, f) ELSE focusCmds
    /\ UNCHANGED <<streamVars, readerVars, wire, chan, uiVars, focused, opened>>

\* A term_focus command runs; commands in flight are unordered tasks.
TermFocus(i) ==
    /\ focused' = focusCmds[i]
    /\ focusCmds' = Without(focusCmds, i)
    /\ UNCHANGED <<streamVars, readerVars, wire, chan, uiVars, opened, uiFocused>>

\* One step of an ack() call.
TermCredit(a) ==
    /\ AckStep(a)
    /\ UNCHANGED <<readerVars, wire, chan, uiVars, focusVars>>

-----------------------------------------------------------------------------
ReaderStep ==
    \/ LoopTop \/ DrainRing \/ AwaitCredit \/ WindowElapsed \/ Flush \/ Supervise
    \/ \E delivered \in BOOLEAN : Send(delivered)

Next ==
    \/ ReaderStep
    \/ \E n \in 1 .. MaxChunk : NextData(n)
    \/ Eof
    \/ Push \/ FlushOnce \/ WriteDone \/ TermOpened
    \/ \E f \in BOOLEAN : SetFocused(f)
    \/ \E i \in DOMAIN focusCmds : TermFocus(i)
    \/ \E a \in AckIds : TermCredit(a)

Spec == Init /\ [][Next]_vars

\* Tasks of the runtime and callbacks of the browser run when they can; the remote and
\* the user promise nothing.
Fairness ==
    /\ WF_vars(ReaderStep)
    /\ WF_vars(Push) /\ WF_vars(FlushOnce) /\ WF_vars(WriteDone) /\ WF_vars(TermOpened)
    /\ WF_vars(\E i \in DOMAIN focusCmds : TermFocus(i))
    /\ \A a \in AckIds : WF_vars(TermCredit(a))

FairSpec == Spec /\ Fairness

-----------------------------------------------------------------------------
ReaderAt == {"top", "drain", "await_credit", "send", "select", "flush", "ended", "closed"}

\* Every variable has its type; the ring and the aggregation buffer of stream.rs keep
\* their bounds, and every registered offset has its byte.
TypeOK ==
    /\ StreamTypeOK
    /\ rd \in ReaderAt /\ ret \in {"top", "drain", "ended"}
    /\ read \in 0 .. MaxBytes /\ truncated \in 0 .. MaxBytes
    /\ Len(agg) < AggCap + MaxChunk /\ Len(ring) <= RingCap
    /\ sent_total = Len(wire)
    /\ opened \in BOOLEAN /\ focused \in BOOLEAN /\ uiFocused \in BOOLEAN

IsByte(x) == x > 0
Bytes(s) == SelectSeq(s, IsByte)

\* Bytes the notices in s announce as truncated.
Announced(s) == SumFunction([i \in DOMAIN s |-> IF s[i] < 0 THEN -s[i] ELSE 0])

\* C11 (stream.rs: no silent truncation): until the epoch breaks, every byte read from
\* the remote is buffered, framed, or counted as truncated, exactly once; the count is
\* still to be announced or is in a notice that is.
BytesAccounted ==
    ~broken =>
        read = Len(agg) + Len(Bytes(buf)) + Len(ring) + Len(Bytes(wire))
               + truncated + Announced(buf \o wire)

\* A truncation count is never stranded: while one waits to be announced the ring is not
\* empty, so the loop head of the next foreground turn will announce it.
TruncationPending == truncated > 0 => ring # <<>>

\* The frontend sees a gapless byte stream: the frames under way continue from
\* lastEndOffset, so parseFrame neither drops one nor reports a gap.
FramesContiguous ==
    \A i \in DOMAIN chan :
        chan[i].start = (IF i = 1 THEN lastEnd ELSE chan[i - 1].end) /\ chan[i].start < chan[i].end

\* Credit comes back only for bytes the terminal has really rendered, whatever order the
\* term_credit tasks run in.
AckedWereRendered == acked_total <= rendered /\ rendered <= taken /\ taken <= lastEnd

\* Both: what the frontend has seen, shown and acknowledged is in step with what was sent.
FrontendInStep == FramesContiguous /\ AckedWereRendered

\* Byte b has been read and has neither been rendered nor evicted from the ring.
Undelivered(b) ==
    \/ b \in Range(agg \o buf \o ring)
    \/ \E i \in rendered + 1 .. Len(wire) : wire[i] = b

Over == broken \/ rd = "closed"

\* Backpressure never wedges: once the backend's flag stays in the foreground, every
\* byte read is rendered, however the window is exhausted and refunded meanwhile.  (The
\* tab had its id before the first output.)
ForegroundDelivers ==
    (opened /\ <>[]focused) => \A b \in 1 .. MaxBytes : Undelivered(b) ~> (~Undelivered(b) \/ Over)
=============================================================================
