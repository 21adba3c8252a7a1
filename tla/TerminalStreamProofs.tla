------------------------ MODULE TerminalStreamProofs ------------------------
(***************************************************************************)
(* The data path of a terminal tab.  First the credit protocol by itself:  *)
(* credit is conserved and the window bounded, for every window, every     *)
(* offset width and any number of concurrent ACKs.  Then the read loop,    *)
(* which keeps to the protocol and strands no truncation count, and the    *)
(* frontend, which sees a gapless stream and gets credit back only for     *)
(* what it has rendered, for every size of ring, batch and notice and any  *)
(* number of commands in flight.                                           *)
(***************************************************************************)
EXTENDS TerminalStream, FiniteSetTheorems, SequenceTheorems, TLAPS

(***************************************************************************)
(* The credit protocol.                                                    *)
(***************************************************************************)
\* What each ack() call knows at its program point, and that two calls never refund
\* the same byte: the part of the inductive invariant that TypeOK does not give.
AckCallsOK ==
    /\ \A a \in AckIds :
          /\ ack[a].pc = "cas" =>
                ack[a].newly > 0 /\ ack[a].cur + ack[a].newly <= sent_total
          /\ ack[a].pc = "add_permits" =>
                ack[a].newly > 0 /\ ack[a].cur + ack[a].newly <= acked_total
    /\ \A a, b \in AckIds, x \in 1 .. acked_total :
          BeingRefunded(a, x) /\ BeingRefunded(b, x) => a = b

\* The inductive invariant.
CreditInv ==
    /\ StreamTypeOK
    /\ acked_total <= sent_total
    /\ AckCallsOK
    /\ CreditConserved

-----------------------------------------------------------------------------
LEMMA RefundingFinite ==
    ASSUME acked_total \in Nat
    PROVE  IsFiniteSet(Refunding) /\ Cardinality(Refunding) \in Nat
<1>1. IsFiniteSet(1 .. acked_total)
  BY FS_Interval
<1>2. Refunding \in SUBSET (1 .. acked_total)
  BY Zenon DEF Refunding
<1>. QED
  BY <1>1, <1>2, FS_Subset, FS_CardinalityType, Zenon

LEMMA DisjointCardinality ==
    ASSUME NEW S, NEW T, IsFiniteSet(S), IsFiniteSet(T), S \cap T = {}
    PROVE  /\ IsFiniteSet(S \cup T)
           /\ Cardinality(S \cup T) = Cardinality(S) + Cardinality(T)
<1>1. Cardinality(S \cap T) = 0
  BY FS_EmptySet, Zenon
<1>. QED
  BY <1>1, FS_Union, FS_CardinalityType

LEMMA RangeCardinality ==
    ASSUME NEW k \in Nat, NEW n \in Nat
    PROVE  IsFiniteSet(k + 1 .. k + n) /\ Cardinality(k + 1 .. k + n) = n
<1>1. k + 1 \in Int /\ k + n \in Int
  OBVIOUS
<1>2. /\ IsFiniteSet(k + 1 .. k + n)
      /\ Cardinality(k + 1 .. k + n) = IF k + 1 > k + n THEN 0 ELSE k + n - (k + 1) + 1
  BY <1>1, FS_Interval
<1>3. (IF k + 1 > k + n THEN 0 ELSE k + n - (k + 1) + 1) = n
  OBVIOUS
<1>. QED
  BY <1>2, <1>3

\* A step that changes neither acked_total nor who is refunding what.
LEMMA RefundingUnchanged ==
    ASSUME acked_total' = acked_total,
           \A a \in AckIds, x \in 1 .. acked_total :
              BeingRefunded(a, x)' <=> BeingRefunded(a, x)
    PROVE  Refunding' = Refunding
BY Zenon DEF Refunding

-----------------------------------------------------------------------------
LEMMA CreditInit == StreamInit => CreditInv
<1> SUFFICES ASSUME StreamInit PROVE CreditInv
  BY Zenon
<1> USE StreamConstants DEF StreamInit
<1>1. StreamTypeOK
  <2>1. NoCall \in AckCall
    BY DEF AckCall, NoCall, Offsets
  <2>2. broken \in BOOLEAN
    BY Zenon
  <2>3. ack \in [AckIds -> AckCall]
    BY <2>1, Zenon
  <2>. QED
    BY <2>2, <2>3 DEF StreamTypeOK
<1>2. AckCallsOK /\ acked_total <= sent_total
  BY DEF AckCallsOK, NoCall
<1>3. Cardinality(Refunding) = 0
  BY FS_EmptySet DEF Refunding
<1>4. CreditConserved
  BY <1>3 DEF CreditConserved
<1>. QED
  BY <1>1, <1>2, <1>4, Zenon DEF CreditInv

\* Taking credit moves it from the semaphore to the read loop.
LEMMA TakeCreditStep ==
    ASSUME CreditInv, NEW n \in 1 .. CreditHigh, held = 0, TakeCredit(n)
    PROVE  CreditInv'
<1> USE StreamConstants DEF CreditInv, TakeCredit
<1>1. StreamTypeOK'
  BY DEF StreamTypeOK
<1>2. AckCallsOK' /\ (acked_total <= sent_total)'
  BY Zenon DEF AckCallsOK, BeingRefunded
<1>3. Refunding' = Refunding
  BY RefundingUnchanged, Zenon DEF BeingRefunded
<1>4. CreditConserved'
  BY <1>3, RefundingFinite DEF CreditConserved, StreamTypeOK
<1>. QED
  BY <1>1, <1>2, <1>4, Zenon

\* Framing moves it on to the sent, unacknowledged bytes, or loses it in a broken epoch.
LEMMA SendFrameStep ==
    ASSUME CreditInv, NEW delivered \in BOOLEAN, SendFrame(delivered)
    PROVE  CreditInv'
<1> USE StreamConstants DEF CreditInv, SendFrame
<1>0. sent_total' \in Nat /\ sent_total' >= sent_total /\ sent_total' <= MaxOffset
  BY DEF StreamTypeOK, CanAlloc
<1>1. StreamTypeOK'
  BY <1>0 DEF StreamTypeOK
<1>2. AckCallsOK' /\ (acked_total <= sent_total)'
  BY <1>0 DEF AckCallsOK, BeingRefunded, StreamTypeOK, AckCall
<1>3. Refunding' = Refunding
  BY RefundingUnchanged, Zenon DEF BeingRefunded
<1>4. CreditConserved'
  <2>1. CASE CanAlloc
    BY <1>3, <2>1, RefundingFinite DEF CreditConserved, StreamTypeOK, CanAlloc
  <2>2. CASE ~CanAlloc
    <3>1. broken'
      BY <2>2, Zenon
    <3>. QED
      BY <1>3, <2>2, <3>1, RefundingFinite DEF CreditConserved, StreamTypeOK
  <2>. QED
    BY <2>1, <2>2, Zenon
<1>. QED
  BY <1>1, <1>2, <1>4, Zenon

\* A step of one call that neither moves acked_total nor enters or leaves add_permits.
LEMMA AckLocalStep ==
    ASSUME CreditInv, NEW a \in AckIds, NEW c \in AckCall,
           ack[a].pc # "add_permits", c.pc # "add_permits",
           c.pc = "cas" => c.newly > 0 /\ c.cur + c.newly <= sent_total,
           ack' = [ack EXCEPT ![a] = c],
           UNCHANGED <<sent_total, acked_total, broken, credits, held>>
    PROVE  CreditInv'
<1> USE DEF CreditInv
<1>1. StreamTypeOK'
  BY Zenon DEF StreamTypeOK
<1>2. \A b \in AckIds, x \in 1 .. acked_total : BeingRefunded(b, x)' <=> BeingRefunded(b, x)
  BY Zenon DEF BeingRefunded, StreamTypeOK
<1>3. AckCallsOK'
  <2>1. \A b \in AckIds : ack'[b] = IF b = a THEN c ELSE ack[b]
    BY Zenon DEF StreamTypeOK
  <2>. QED
    BY <1>2, <2>1, Zenon DEF AckCallsOK
<1>4. Refunding' = Refunding
  BY <1>2, RefundingUnchanged, Zenon
<1>5. CreditConserved'
  BY <1>4, RefundingFinite, Zenon DEF CreditConserved, StreamTypeOK
<1>. QED
  BY <1>1, <1>3, <1>5, Zenon

\* A successful CAS: the call now refunds exactly the bytes it acknowledged.
LEMMA AckCasStep ==
    ASSUME CreditInv, NEW a \in AckIds, AckCas(a)
    PROVE  CreditInv'
<1>1. CASE acked_total # ack[a].cur
  <2> DEFINE c == [ack[a] EXCEPT !.pc = "load_sent", !.cur = acked_total]
  <2>1. c \in AckCall /\ c.pc = "load_sent"
    BY Zenon DEF CreditInv, StreamTypeOK, AckCall
  <2>2. ack' = [ack EXCEPT ![a] = c]
    BY <1>1, Zenon DEF AckCas
  <2>. QED
    BY <1>1, <2>1, <2>2, AckLocalStep, Zenon DEF AckCas
<1>2. CASE acked_total = ack[a].cur
  <2> DEFINE n == ack[a].newly
             new == acked_total + 1 .. acked_total + n
  <2>1. /\ n \in Nat /\ acked_total \in Nat /\ n > 0
        /\ acked_total + n <= sent_total
        /\ acked_total' = acked_total + n
        /\ ack' = [ack EXCEPT ![a].pc = "add_permits"]
        /\ UNCHANGED <<sent_total, broken, credits, held>>
    BY <1>2, Zenon DEF AckCas, CreditInv, StreamTypeOK, AckCall, AckCallsOK
  <2>2. StreamTypeOK'
    BY <2>1 DEF CreditInv, StreamTypeOK, AckCall
  <2>3. \A b \in AckIds, x \in Nat :
           BeingRefunded(b, x)' <=> IF b = a THEN x \in new ELSE BeingRefunded(b, x)
    BY <1>2, <2>1 DEF BeingRefunded, CreditInv, StreamTypeOK, AckCall, AckCas
  <2>4. \A b \in AckIds, x \in Nat : BeingRefunded(b, x) => x <= acked_total
    BY <2>1 DEF BeingRefunded, CreditInv, AckCallsOK, StreamTypeOK, AckCall
  <2>5. AckCallsOK'
    <3>1. \A b \in AckIds : ack'[b] = IF b = a THEN [ack[a] EXCEPT !.pc = "add_permits"]
                                      ELSE ack[b]
      BY <2>1, Zenon DEF CreditInv, StreamTypeOK
    <3>2. \A b \in AckIds :
             /\ ack'[b].pc = "cas" =>
                   ack'[b].newly > 0 /\ ack'[b].cur + ack'[b].newly <= sent_total'
             /\ ack'[b].pc = "add_permits" =>
                   ack'[b].newly > 0 /\ ack'[b].cur + ack'[b].newly <= acked_total'
      BY <1>2, <2>1, <3>1 DEF CreditInv, AckCallsOK, StreamTypeOK, AckCall
    <3>3. \A b, d \in AckIds, x \in 1 .. acked_total' :
             BeingRefunded(b, x)' /\ BeingRefunded(d, x)' => b = d
      BY <2>1, <2>3, <2>4 DEF CreditInv, AckCallsOK
    <3>. QED
      BY <3>2, <3>3, Zenon DEF AckCallsOK
  <2>6. Refunding' = Refunding \cup new
    <3>1. \A x \in Nat : ~BeingRefunded(a, x)
      BY Zenon DEF BeingRefunded, AckCas
    <3>. QED
      BY <2>1, <2>3, <2>4, <3>1 DEF Refunding
  <2>7. Cardinality(Refunding') = Cardinality(Refunding) + n
    <3>1. IsFiniteSet(new) /\ Cardinality(new) = n
      BY <2>1, RangeCardinality, Zenon
    <3>2. Refunding \cap new = {}
      BY <2>1 DEF Refunding
    <3>. QED
      BY <2>1, <2>6, <3>1, <3>2, RefundingFinite, DisjointCardinality, Zenon
  <2>8. CreditConserved'
    BY <2>1, <2>7, RefundingFinite DEF CreditConserved, CreditInv, StreamTypeOK
  <2>. QED
    BY <2>1, <2>2, <2>5, <2>8, Zenon DEF CreditInv, StreamTypeOK
<1>. QED
  BY <1>1, <1>2, Zenon

\* add_permits: the refund leaves the set of bytes under way and enters the semaphore.
LEMMA AckAddPermitsStep ==
    ASSUME CreditInv, NEW a \in AckIds, AckAddPermits(a)
    PROVE  CreditInv'
<1> DEFINE n == ack[a].newly
           done == ack[a].cur + 1 .. ack[a].cur + n
<1>1. /\ n \in Nat /\ acked_total \in Nat /\ ack[a].cur \in Nat
      /\ ack[a].cur + n <= acked_total
  BY Zenon DEF AckAddPermits, CreditInv, StreamTypeOK, AckCall, AckCallsOK
<1>2. StreamTypeOK'
  <2>1. NoCall \in AckCall
    BY StreamConstants DEF AckCall, NoCall, Offsets
  <2>. QED
    BY <1>1, <2>1 DEF AckAddPermits, CreditInv, StreamTypeOK
<1>3. \A b \in AckIds : ack'[b] = IF b = a THEN NoCall ELSE ack[b]
  BY Zenon DEF AckAddPermits, CreditInv, StreamTypeOK
<1>4. \A b \in AckIds, x \in Nat : BeingRefunded(b, x)' <=> b # a /\ BeingRefunded(b, x)
  BY <1>3 DEF BeingRefunded, NoCall
<1>5. \A x \in Nat : BeingRefunded(a, x) <=> x \in done
  BY <1>1 DEF BeingRefunded, AckAddPermits
<1>6. AckCallsOK'
  BY <1>3, <1>4 DEF AckAddPermits, CreditInv, AckCallsOK, NoCall
<1>7. Refunding' \cup done = Refunding /\ Refunding' \cap done = {}
  <2>1. acked_total' = acked_total
    BY Zenon DEF AckAddPermits
  <2>2. done \subseteq 1 .. acked_total
    BY <1>1
  <2>. QED
    BY <1>1, <1>4, <1>5, <2>1, <2>2 DEF Refunding, CreditInv, AckCallsOK
<1>8. Cardinality(Refunding) = Cardinality(Refunding') + n
  <2>1. IsFiniteSet(done) /\ Cardinality(done) = n
    BY <1>1, RangeCardinality, SMTT(30)
  <2>2. IsFiniteSet(Refunding') /\ Cardinality(Refunding') \in Nat
    <3>1. Refunding' \subseteq Refunding
      BY <1>7, Zenon
    <3>. QED
      BY <1>1, <3>1, RefundingFinite, FS_Subset, FS_CardinalityType, Zenon
  <2>. QED
    BY <1>7, <2>1, <2>2, DisjointCardinality, Zenon
<1>9. CreditConserved'
  <2>1. Cardinality(Refunding') \in Nat
    <3>1. acked_total' \in Nat
      BY <1>2, Zenon DEF StreamTypeOK
    <3>2. Refunding' \subseteq Refunding
      BY <1>7, Zenon
    <3>. QED
      BY <1>1, <3>2, RefundingFinite, FS_Subset, FS_CardinalityType, Zenon
  <2>. QED
    BY <1>1, <1>8, <2>1 DEF CreditConserved, CreditInv, StreamTypeOK, AckAddPermits
<1>. QED
  BY <1>2, <1>6, <1>9, Zenon DEF CreditInv, AckAddPermits

LEMMA CreditStep == CreditInv /\ [StreamNext]_streamVars => CreditInv'
<1> SUFFICES ASSUME CreditInv, [StreamNext]_streamVars PROVE CreditInv'
  BY Zenon
<1>1. ASSUME NEW n \in 1 .. CreditHigh, held = 0, TakeCredit(n) PROVE CreditInv'
  BY <1>1, TakeCreditStep, Zenon
<1>2. ASSUME NEW delivered \in BOOLEAN, SendFrame(delivered) PROVE CreditInv'
  BY <1>2, SendFrameStep, Zenon
<1>3. ASSUME NEW a \in AckIds, NEW v \in Offsets, AckCalled(a, v) PROVE CreditInv'
  <2> DEFINE c == [NoCall EXCEPT !.pc = "check", !.incoming = v]
  <2>1. c \in AckCall /\ c.pc = "check"
    BY Zenon DEF AckCall, NoCall
  <2>. QED
    BY <1>3, <2>1, AckLocalStep, Zenon DEF AckCalled
<1>4. ASSUME NEW a \in AckIds, AckCheck(a) PROVE CreditInv'
  <2>1. NoCall \in AckCall /\ NoCall.pc = "idle"
    BY StreamConstants DEF AckCall, NoCall, Offsets
  <2> DEFINE c == [ack[a] EXCEPT !.pc = "load_sent", !.cur = acked_total]
  <2>2. c \in AckCall /\ c.pc = "load_sent"
    BY Zenon DEF CreditInv, StreamTypeOK, AckCall
  <2>3. ack' = [ack EXCEPT ![a] = NoCall] \/ ack' = [ack EXCEPT ![a] = c]
    BY <1>4, Zenon DEF AckCheck
  <2>. QED
    BY <1>4, <2>1, <2>2, <2>3, AckLocalStep, Zenon DEF AckCheck
<1>5. ASSUME NEW a \in AckIds, AckLoadSent(a) PROVE CreditInv'
  <2>1. NoCall \in AckCall /\ NoCall.pc = "idle"
    BY StreamConstants DEF AckCall, NoCall, Offsets
  <2> DEFINE m == Newly(ack[a])
             c == [ack[a] EXCEPT !.pc = "cas", !.newly = m]
  <2>2. CASE m <= 0
    BY <1>5, <2>1, <2>2, AckLocalStep, Zenon DEF AckLoadSent
  <2>3. CASE ~(m <= 0)
    <3>1. m \in Nat /\ m > 0 /\ ack[a].cur + m <= sent_total
      BY <2>3, StreamConstants DEF Newly, CreditInv, StreamTypeOK, AckCall, Offsets
    <3>2. c \in AckCall /\ c.pc = "cas" /\ c.newly = m /\ c.cur = ack[a].cur
      BY <3>1, Zenon DEF CreditInv, StreamTypeOK, AckCall
    <3>3. ack' = [ack EXCEPT ![a] = c]
      BY <1>5, <2>3, Zenon DEF AckLoadSent
    <3>. QED
      BY <1>5, <3>1, <3>2, <3>3, AckLocalStep, Zenon DEF AckLoadSent
  <2>. QED
    BY <2>2, <2>3, Zenon
<1>6. ASSUME NEW a \in AckIds, AckCas(a) PROVE CreditInv'
  BY <1>6, AckCasStep, Zenon
<1>7. ASSUME NEW a \in AckIds, AckAddPermits(a) PROVE CreditInv'
  BY <1>7, AckAddPermitsStep, Zenon
<1>8. CASE UNCHANGED streamVars
  BY <1>8 DEF streamVars, CreditInv, StreamTypeOK, AckCallsOK, CreditConserved,
              Refunding, BeingRefunded
<1>. QED
  BY <1>1, <1>2, <1>3, <1>4, <1>5, <1>6, <1>7, <1>8, Zenon DEF StreamNext, AckStep

-----------------------------------------------------------------------------
\* The window, the semaphore and every ack() call keep their types.
THEOREM StreamTypeCorrect == StreamSpec => []StreamTypeOK
<1>1. CreditInv => StreamTypeOK
  BY Zenon DEF CreditInv
<1>. QED
  BY <1>1, CreditInit, CreditStep, PTL DEF StreamSpec

\* No interleaving of the read loop with any number of concurrent ack() calls mints or
\* leaks a permit of a live epoch.
THEOREM CreditConservation == StreamSpec => []CreditConserved
<1>1. CreditInv => CreditConserved
  BY Zenon DEF CreditInv
<1>. QED
  BY <1>1, CreditInit, CreditStep, PTL DEF StreamSpec

\* At most CREDIT_HIGH bytes are ever unacknowledged.
THEOREM WindowBound == StreamSpec => []WindowBounded
<1>1. ASSUME CreditInv PROVE WindowBounded
  <2>1. /\ sent_total \in Nat /\ acked_total \in Nat /\ credits \in Nat /\ held \in Nat
        /\ acked_total <= sent_total
    BY <1>1, StreamConstants DEF CreditInv, StreamTypeOK
  <2>2. Cardinality(Refunding) \in Nat
    BY <2>1, RefundingFinite, Zenon
  <2>3. credits + held + (sent_total - acked_total) + Cardinality(Refunding) <= CreditHigh
    BY <1>1, Zenon DEF CreditInv, CreditConserved
  <2>. QED
    BY <2>1, <2>2, <2>3, StreamConstants DEF WindowBounded
<1>. QED
  BY <1>1, CreditInit, CreditStep, PTL DEF StreamSpec

\* Both of them: the credit is what it should be, and so is the window it stands for
\* (stream_protocol.rs: CreditState).
THEOREM CreditSoundness == StreamSpec => []CreditSound
BY CreditConservation, WindowBound, PTL DEF CreditSound

\* Offsets only grow, and a broken epoch allocates none.
THEOREM EpochMonotonicity == StreamSpec => EpochMonotone
<1> DEFINE Mono == /\ sent_total' >= sent_total
                   /\ acked_total' >= acked_total
                   /\ broken => broken' /\ sent_total' = sent_total
<1>1. ASSUME CreditInv, [StreamNext]_streamVars PROVE [Mono]_streamVars
  <2>1. sent_total \in Nat /\ acked_total \in Nat /\ held \in Nat
    BY <1>1, StreamConstants DEF CreditInv, StreamTypeOK
  <2>2. ASSUME NEW n \in 1 .. CreditHigh, TakeCredit(n) PROVE Mono
    BY <2>1, <2>2 DEF TakeCredit
  <2>3. ASSUME NEW delivered \in BOOLEAN, SendFrame(delivered) PROVE Mono
    <3>1. broken => broken' /\ ~CanAlloc
      BY <2>3, Zenon DEF SendFrame, CanAlloc
    <3>2. sent_total' = IF CanAlloc THEN sent_total + held ELSE sent_total
      BY <2>3, Zenon DEF SendFrame
    <3>3. acked_total' = acked_total
      BY <2>3, Zenon DEF SendFrame
    <3>4. sent_total' >= sent_total /\ (~CanAlloc => sent_total' = sent_total)
      BY <2>1, <3>2
    <3>. QED
      BY <2>1, <3>1, <3>3, <3>4
  <2>4. ASSUME NEW a \in AckIds, NEW v \in Offsets, AckCalled(a, v) PROVE Mono
    BY <2>1, <2>4 DEF AckCalled
  <2>5. ASSUME NEW a \in AckIds, AckStep(a) PROVE Mono
    <3>1. ack[a].newly \in Nat
      BY <1>1, <2>5, Zenon DEF CreditInv, StreamTypeOK, AckCall
    <3>. QED
      BY <2>1, <2>5, <3>1 DEF AckStep, AckCheck, AckLoadSent, AckCas, AckAddPermits
  <2>. QED
    BY <1>1, <2>2, <2>3, <2>4, <2>5, Zenon DEF StreamNext
<1>. QED
  BY <1>1, CreditInit, CreditStep, PTL DEF StreamSpec, EpochMonotone

(***************************************************************************)
(* The read loop and the frontend.                                         *)
(***************************************************************************)
ReaderTypes ==
    /\ rd \in ReaderAt /\ ret \in {"top", "drain", "ended"}
    /\ agg \in Seq(Int) /\ buf \in Seq(Int) /\ ring \in Seq(Int) /\ wire \in Seq(Int)
    /\ read \in Nat /\ truncated \in Nat

\* The read loop holds credit for the batch it is about to send and for no other; it
\* comes to a flush, and to the ring, with a batch and a chunk that fit the window.
LoopOK ==
    /\ held = IF rd = "send" THEN Len(buf) ELSE 0
    /\ rd \in {"await_credit", "send"} => Len(buf) \in 1 .. CreditHigh
    /\ Len(agg) < AggCap + (IF rd = "flush" THEN MaxChunk ELSE 0)
    /\ rd = "flush" => ret # "drain"
    /\ sent_total = Len(wire)

\* The ring: while it is being replayed its truncation count has been taken.
RingOK ==
    /\ Len(ring) <= RingCap
    /\ TruncationPending
    /\ rd = "drain" \/ (rd \in {"await_credit", "send"} /\ ret = "drain") => truncated = 0
    /\ truncated + Len(ring) + Len(agg) <= read /\ read <= MaxBytes

Frame == [start : Nat, end : Nat]
\* What is under way ends where the next frame starts, until the epoch breaks.
FrontOK ==
    /\ chan \in Seq(Frame) /\ lastEnd \in Nat /\ taken \in Nat /\ rendered \in Nat
    /\ lastEnd <= sent_total /\ \A i \in 1 .. Len(chan) : chan[i].end <= sent_total
    /\ ~broken => sent_total = IF Len(chan) = 0 THEN lastEnd ELSE chan[Len(chan)].end
    /\ FramesContiguous

\* No ack() call asks, or is about to commit, to more than was rendered.
CallsOK ==
    \A a \in AckIds : /\ ack[a].pc # "idle" => ack[a].incoming <= rendered
                      /\ ack[a].pc = "cas" => ack[a].cur + ack[a].newly <= rendered

\* The inductive invariant.
TermInv == CreditInv /\ ReaderTypes /\ LoopOK /\ RingOK /\ FrontOK /\ AckedWereRendered /\ CallsOK

-----------------------------------------------------------------------------
LEMMA Sizes ==
    /\ MaxBytes \in Nat /\ MaxBytes > 0 /\ MaxChunk \in Nat /\ MaxChunk > 0
    /\ AggCap \in Nat /\ AggCap > 0 /\ RingCap \in Nat /\ RingCap > 0
    /\ DrainChunk \in 1 .. CreditHigh /\ NoticeLen \in 1 .. CreditHigh /\ CreditHigh \in Nat
    /\ AggCap - 1 + MaxChunk <= CreditHigh
BY TerminalConstants, StreamConstants

LEMMA EmptyLen == /\ \A s \in Seq(Int) : Len(s) \in Nat /\ (s = <<>> <=> Len(s) = 0)
                  /\ <<>> \in Seq(Int) /\ Len(<<>>) = 0
BY EmptySeq, LenProperties, Zenon

LEMMA NoticeIsSeq ==
    ASSUME NEW k \in Nat
    PROVE  Notice(k) \in Seq(Int) /\ Len(Notice(k)) = NoticeLen
<1>1. NoticeLen \in Nat
  BY Sizes
<1>2. Notice(k) \in [1 .. NoticeLen -> Int]
  BY <1>1 DEF Notice
<1>. QED
  BY <1>1, <1>2

LEMMA TermInit == Init => TermInv
<1> SUFFICES ASSUME Init PROVE TermInv
  BY Zenon
<1>1. CreditInv
  BY CreditInit, Zenon DEF Init
<1>2. ReaderTypes /\ LoopOK /\ RingOK
  BY Sizes, EmptyLen DEF Init, StreamInit, ReaderTypes, ReaderAt, LoopOK, RingOK, TruncationPending
<1>3. FrontOK /\ AckedWereRendered
  BY DEF Init, StreamInit, FrontOK, Frame, FramesContiguous, AckedWereRendered
<1>4. CallsOK
  BY Zenon DEF Init, StreamInit, CallsOK, NoCall
<1>. QED
  BY <1>1, <1>2, <1>3, <1>4, Zenon DEF TermInv

(***************************************************************************)
(* Every step is one of the credit protocol, or none.                      *)
(***************************************************************************)
LEMMA ProtocolStep == TermInv /\ [Next]_vars => [StreamNext]_streamVars
<1> SUFFICES ASSUME TermInv, [Next]_vars, ~UNCHANGED streamVars PROVE StreamNext
  BY Zenon
<1>1. CASE AwaitCredit
  <2>1. TakeCredit(Len(buf)) /\ Len(buf) \in 1 .. CreditHigh /\ held = 0
    BY <1>1, Zenon DEF AwaitCredit, TermInv, LoopOK
  <2>. QED
    BY <2>1, Zenon DEF StreamNext
<1>2. CASE Flush
  <2>1. TakeCredit(Len(agg)) /\ agg # <<>> /\ rd = "flush"
    BY <1>2, Zenon DEF Flush
  <2>2. held = 0 /\ Len(agg) \in 1 .. CreditHigh
    BY <2>1, Sizes, EmptyLen DEF TermInv, LoopOK, ReaderTypes
  <2>. QED
    BY <2>1, <2>2, Zenon DEF StreamNext
<1>3. ASSUME NEW delivered \in BOOLEAN, Send(delivered) PROVE StreamNext
  <2>1. SendFrame(delivered) /\ rd = "send"
    BY <1>3, Zenon DEF Send
  <2>2. held > 0
    BY <2>1, Sizes DEF TermInv, LoopOK
  <2>. QED
    BY <2>1, <2>2, Zenon DEF StreamNext
<1>4. CASE WriteDone
  <2>1. PICK a \in AckIds : AckCalled(a, taken)
    BY <1>4, Zenon DEF WriteDone
  <2>2. taken \in Offsets
    <3>1. taken \in Nat /\ taken <= lastEnd /\ lastEnd \in Nat /\ lastEnd <= sent_total
      BY Zenon DEF TermInv, FrontOK, AckedWereRendered
    <3>2. sent_total \in 0 .. MaxOffset
      BY Zenon DEF TermInv, CreditInv, StreamTypeOK
    <3>. QED
      BY <3>1, <3>2, StreamConstants DEF Offsets
  <2>. QED
    BY <2>1, <2>2, Zenon DEF StreamNext
<1>5. ASSUME NEW a \in AckIds, TermCredit(a) PROVE StreamNext
  BY <1>5, Zenon DEF TermCredit, StreamNext
<1>6. ASSUME LoopTop \/ DrainRing \/ WindowElapsed \/ Supervise \/ Eof \/ Push \/ FlushOnce \/ TermOpened
      PROVE  FALSE
  BY <1>6, Zenon DEF LoopTop, DrainRing, WindowElapsed, Supervise, Eof, Push, FlushOnce, TermOpened
<1>7. /\ \A n \in 1 .. MaxChunk : ~NextData(n)
      /\ \A f \in BOOLEAN : ~SetFocused(f)
      /\ \A i \in DOMAIN focusCmds : ~TermFocus(i)
      /\ ~UNCHANGED vars
  BY Zenon DEF NextData, SetFocused, TermFocus, vars
<1>. QED
  BY <1>1, <1>2, <1>3, <1>4, <1>5, <1>6, <1>7, Zenon DEF Next, ReaderStep

(***************************************************************************)
(* The read loop.                                                          *)
(***************************************************************************)
LEMMA CutLen ==
    ASSUME NEW s \in Seq(Int), NEW m \in Nat \ {0}, NEW n \in Nat, n <= Len(s), m <= n + 1
    PROVE  SubSeq(s, m, n) \in Seq(Int) /\ Len(SubSeq(s, m, n)) = n - m + 1
<1>1. \A i \in m .. n : s[i] \in Int
  BY LenProperties
<1>. QED
  BY <1>1, SubSeqProperties

\* RingBuf::push neither overflows nor leaves a count without a byte behind it.
LEMMA PushKeeps ==
    ASSUME ring \in Seq(Int), truncated \in Nat, NEW data \in Seq(Int), Len(data) > 0, RingPush(data)
    PROVE  /\ ring' \in Seq(Int) /\ truncated' \in Nat
           /\ Len(ring') \in 1 .. RingCap
           /\ truncated' + Len(ring') = truncated + Len(ring) + Len(data)
<1> DEFINE all == ring \o data
           kept == Least(Len(ring) + Len(data), RingCap)
<1>1. /\ all \in Seq(Int) /\ Len(all) = Len(ring) + Len(data)
      /\ Len(ring) \in Nat /\ Len(data) \in Nat
  BY ConcatProperties, LenProperties, Zenon
<1>2. kept \in 1 .. RingCap /\ kept <= Len(all) /\ kept \in Nat
  BY <1>1, Sizes DEF Least
<1>3. ring' = SubSeq(all, Len(all) - kept + 1, Len(all))
  BY Zenon DEF RingPush, Newest
<1>6. truncated' = truncated + Len(all) - kept
  <2>1. truncated' = truncated + Len(ring) + Len(data) - kept
    BY Zenon DEF RingPush
  <2> HIDE DEF all, kept
  <2>. QED
    BY <1>1, <1>2, <2>1
<1> HIDE DEF all, kept
<1>4. Len(all) \in Nat /\ Len(all) - kept + 1 \in Nat \ {0}
  BY <1>1, <1>2
<1>5. ring' \in Seq(Int) /\ Len(ring') = Len(all) - (Len(all) - kept + 1) + 1
  BY <1>1, <1>2, <1>3, <1>4, CutLen, SMTT(30)
<1>. QED
  BY <1>1, <1>2, <1>4, <1>5, <1>6

ReaderOK == ReaderTypes /\ LoopOK /\ RingOK

LEMMA ReaderAside ==
    ASSUME ReaderOK, UNCHANGED <<readerVars, wire, held, sent_total>>
    PROVE  ReaderOK'
BY Zenon DEF ReaderOK, ReaderTypes, LoopOK, RingOK, readerVars, TruncationPending

LEMMA LoopTopReads == ASSUME ReaderOK, LoopTop PROVE ReaderOK'
<1> USE DEF ReaderOK
<1>1. UNCHANGED <<sent_total, held, read, agg, ring, wire>>
  BY Zenon DEF LoopTop, streamVars
<1>2. rd = "top" /\ held = 0 /\ Len(agg) < AggCap
  BY Sizes DEF LoopTop, LoopOK
<1>3. CASE focused /\ ring # <<>> /\ truncated > 0
  <2>1. truncated' = 0 /\ buf' = Notice(truncated) /\ rd' = "await_credit" /\ ret' = "drain"
    BY <1>3, Zenon DEF LoopTop
  <2>2. buf' \in Seq(Int) /\ Len(buf') \in 1 .. CreditHigh
    BY <2>1, NoticeIsSeq, Sizes, Zenon DEF ReaderTypes
  <2>3. ReaderTypes' /\ LoopOK'
    BY <1>1, <1>2, <2>1, <2>2, Zenon DEF ReaderTypes, ReaderAt, LoopOK
  <2>4. RingOK'
    BY <1>1, <2>1, EmptyLen DEF ReaderTypes, RingOK, TruncationPending
  <2>. QED
    BY <2>3, <2>4, Zenon
<1>4. CASE focused /\ ring # <<>> /\ ~(truncated > 0)
  <2>1. truncated' = 0 /\ buf' = <<>> /\ rd' = "drain" /\ ret' = "drain"
    BY <1>4, Zenon DEF LoopTop
  <2>2. ReaderTypes' /\ LoopOK'
    BY <1>1, <1>2, <2>1, EmptyLen, Zenon DEF ReaderTypes, ReaderAt, LoopOK
  <2>3. RingOK'
    BY <1>1, <2>1, EmptyLen DEF ReaderTypes, RingOK, TruncationPending
  <2>. QED
    BY <2>2, <2>3, Zenon
<1>5. CASE ~(focused /\ ring # <<>>)
  <2>1. UNCHANGED <<truncated, buf, ret>> /\ rd' = "select"
    BY <1>5, Zenon DEF LoopTop
  <2>. QED
    BY <1>1, <1>2, <2>1, Zenon DEF ReaderTypes, ReaderAt, LoopOK, RingOK, TruncationPending
<1>. QED
  BY <1>3, <1>4, <1>5, Zenon

LEMMA DrainReads == ASSUME ReaderOK, DrainRing PROVE ReaderOK'
<1> USE DEF ReaderOK
<1>1. UNCHANGED <<sent_total, held, read, agg, truncated, wire>>
  BY Zenon DEF DrainRing, streamVars
<1>2. rd = "drain" /\ held = 0 /\ Len(agg) < AggCap /\ truncated = 0
  BY Sizes DEF DrainRing, LoopOK, RingOK
<1>3. CASE focused /\ ring # <<>>
  <2> DEFINE k == Least(Len(ring), DrainChunk)
  <2>1. /\ buf' = SubSeq(ring, 1, k) /\ ring' = SubSeq(ring, k + 1, Len(ring))
        /\ rd' = "await_credit" /\ ret' = "drain"
    BY <1>3, Zenon DEF DrainRing
  <2>2. k \in 1 .. CreditHigh /\ k \in Nat /\ k <= Len(ring) /\ Len(ring) \in Nat
    BY <1>3, Sizes, EmptyLen DEF Least, ReaderTypes
  <2> HIDE DEF k
  <2>3. buf' \in Seq(Int) /\ Len(buf') = k
    BY <2>1, <2>2, CutLen DEF ReaderTypes
  <2>4. ring' \in Seq(Int) /\ Len(ring') = Len(ring) - k
    <3>1. k + 1 \in Nat \ {0} /\ k + 1 <= Len(ring) + 1
      BY <2>2
    <3>2. ring' \in Seq(Int) /\ Len(ring') = Len(ring) - (k + 1) + 1
      BY <2>1, <2>2, <3>1, CutLen DEF ReaderTypes
    <3>. QED
      BY <2>2, <3>2
  <2>5. ReaderTypes' /\ LoopOK'
    BY <1>1, <1>2, <2>1, <2>2, <2>3, <2>4, Zenon DEF ReaderTypes, ReaderAt, LoopOK
  <2>6. RingOK'
    BY <1>1, <1>2, <2>2, <2>4, EmptyLen, Sizes DEF ReaderTypes, RingOK, TruncationPending
  <2>. QED
    BY <2>5, <2>6, Zenon
<1>4. CASE ~(focused /\ ring # <<>>)
  <2>1. UNCHANGED <<ring, buf, ret>> /\ rd' = "select"
    BY <1>4, Zenon DEF DrainRing
  <2>. QED
    BY <1>1, <1>2, <2>1, Zenon DEF ReaderTypes, ReaderAt, LoopOK, RingOK, TruncationPending
<1>. QED
  BY <1>3, <1>4, Zenon

LEMMA AwaitReads == ASSUME ReaderOK, AwaitCredit PROVE ReaderOK'
BY Zenon DEF ReaderOK, AwaitCredit, TakeCredit, ReaderTypes, ReaderAt, LoopOK, RingOK, TruncationPending

LEMMA SendReads ==
    ASSUME ReaderOK, sent_total \in Nat, NEW delivered \in BOOLEAN, Send(delivered)
    PROVE  ReaderOK'
<1> USE DEF ReaderOK
<1>1. /\ rd = "send" /\ held = Len(buf) /\ held' = 0 /\ buf' = <<>> /\ rd' = ret
      /\ UNCHANGED <<ret, read, agg, ring, truncated>>
  BY Zenon DEF Send, SendFrame, LoopOK
<1>2. wire' \in Seq(Int) /\ sent_total' = Len(wire')
  <2>1. CASE CanAlloc
    <3>1. wire' = wire \o buf /\ sent_total' = sent_total + held
      BY <2>1, Zenon DEF Send, SendFrame
    <3>2. wire' \in Seq(Int) /\ Len(wire') = Len(wire) + Len(buf)
      BY <3>1, ConcatProperties, Zenon DEF ReaderTypes
    <3>. QED
      BY <1>1, <3>1, <3>2, Zenon DEF LoopOK
  <2>2. CASE ~CanAlloc
    BY <2>2, Zenon DEF Send, SendFrame, ReaderTypes, LoopOK
  <2>. QED
    BY <2>1, <2>2, Zenon
<1>3. ReaderTypes' /\ LoopOK'
  BY <1>1, <1>2, EmptyLen DEF ReaderTypes, ReaderAt, LoopOK
<1>4. RingOK'
  BY <1>1, Zenon DEF ReaderTypes, RingOK, TruncationPending
<1>. QED
  BY <1>3, <1>4, Zenon

LEMMA NextDataReads ==
    ASSUME ReaderOK, NEW n \in 1 .. MaxChunk, NextData(n)
    PROVE  ReaderOK'
<1> USE DEF ReaderOK
<1> DEFINE chunk == [i \in 1 .. n |-> read + i]
<1>1. /\ rd = "select" /\ held = 0 /\ Len(agg) < AggCap
      /\ UNCHANGED <<sent_total, held, buf, ring, truncated, wire>>
      /\ read' = read + n /\ read' <= MaxBytes /\ ret' = "top" /\ n \in Nat /\ n <= MaxChunk
  BY Sizes DEF NextData, LoopOK, streamVars
<1>2. chunk \in Seq(Int) /\ Len(chunk) = n
  <2>1. chunk \in [1 .. n -> Int]
    BY <1>1 DEF ReaderTypes
  <2>. QED
    BY <1>1, <2>1
<1>3. agg' = agg \o chunk /\ rd' = IF Len(agg') >= AggCap THEN "flush" ELSE "top"
  BY Zenon DEF NextData
<1> HIDE DEF chunk
<1>4. agg' \in Seq(Int) /\ Len(agg') = Len(agg) + n
  BY <1>2, <1>3, ConcatProperties, Zenon DEF ReaderTypes
<1>5. rd' \in {"flush", "top"} /\ (rd' = "top" => Len(agg') < AggCap)
  BY <1>3, <1>4, EmptyLen, Sizes DEF ReaderTypes
<1>6. ReaderTypes' /\ LoopOK'
  BY <1>1, <1>4, <1>5, EmptyLen, Sizes DEF ReaderTypes, ReaderAt, LoopOK
<1>7. RingOK'
  BY <1>1, <1>4, <1>5, EmptyLen, Sizes, SMTT(30) DEF ReaderTypes, RingOK, TruncationPending
<1>. QED
  BY <1>6, <1>7, Zenon

LEMMA TurnReads == ASSUME ReaderOK, Eof \/ WindowElapsed \/ Supervise PROVE ReaderOK'
<1> USE DEF ReaderOK
<1>1. /\ UNCHANGED <<sent_total, held, read, agg, buf, ring, truncated, wire>>
      /\ rd' \in {"flush", "top", "closed"} /\ (rd' = "flush" => ret' # "drain")
      /\ ret' \in {"top", "drain", "ended"} /\ rd \in {"select", "ended"}
  BY Zenon DEF Eof, WindowElapsed, Supervise, streamVars, ReaderTypes
<1>2. ReaderTypes' /\ LoopOK'
  BY <1>1, EmptyLen, Sizes DEF ReaderTypes, ReaderAt, LoopOK
<1>3. RingOK'
  BY <1>1, Zenon DEF ReaderTypes, RingOK, TruncationPending
<1>. QED
  BY <1>2, <1>3, Zenon

LEMMA FlushReads == ASSUME ReaderOK, Flush PROVE ReaderOK'
<1> USE DEF ReaderOK
<1>1. /\ rd = "flush" /\ held = 0 /\ agg' = <<>> /\ ret \in {"top", "ended"}
      /\ UNCHANGED <<ret, read, wire>> /\ agg' \in Seq(Int) /\ Len(agg') = 0
  BY EmptyLen, Zenon DEF Flush, LoopOK, ReaderTypes
<1>2. UNCHANGED sent_total
  BY Zenon DEF Flush, TakeCredit, streamVars
<1>3. CASE rd' = ret /\ UNCHANGED <<streamVars, buf, ring, truncated>>
  BY <1>1, <1>2, <1>3, EmptyLen, Sizes
     DEF streamVars, ReaderTypes, ReaderAt, LoopOK, RingOK, TruncationPending
<1>4. CASE /\ agg # <<>> /\ buf' = agg /\ UNCHANGED <<ring, truncated>>
           /\ \/ rd' = "await_credit" /\ UNCHANGED streamVars
              \/ rd' = "send" /\ TakeCredit(Len(agg))
  <2>1. Len(agg) \in 1 .. CreditHigh
    BY <1>1, <1>4, EmptyLen, Sizes DEF ReaderTypes, LoopOK
  <2>2. /\ rd' \in {"await_credit", "send"} /\ held' = IF rd' = "send" THEN Len(buf') ELSE 0
        /\ buf' = agg /\ UNCHANGED <<ring, truncated>>
    BY <1>1, <1>4, Zenon DEF TakeCredit, streamVars
  <2>3. ReaderTypes' /\ LoopOK'
    BY <1>1, <1>2, <2>1, <2>2, Sizes DEF ReaderTypes, ReaderAt, LoopOK
  <2>4. RingOK'
    BY <1>1, <2>2, EmptyLen DEF ReaderTypes, RingOK, TruncationPending
  <2>. QED
    BY <2>3, <2>4, Zenon
<1>5. CASE agg # <<>> /\ RingPush(agg) /\ rd' = ret /\ UNCHANGED <<streamVars, buf>>
  <2>1. Len(agg) > 0 /\ Len(agg) \in Nat
    BY <1>5, EmptyLen DEF ReaderTypes
  <2>2. /\ ring' \in Seq(Int) /\ truncated' \in Nat /\ Len(ring') \in 1 .. RingCap
        /\ truncated' + Len(ring') = truncated + Len(ring) + Len(agg)
    BY <1>5, <2>1, PushKeeps, Zenon DEF ReaderTypes
  <2>3. /\ rd' \in {"top", "ended"} /\ held' = 0 /\ UNCHANGED <<buf, ret, read, wire>>
        /\ truncated + Len(ring) \in Nat
    BY <1>1, <1>5, EmptyLen DEF streamVars, ReaderTypes
  <2>4. ReaderTypes'
    BY <1>1, <2>2, <2>3, Zenon DEF ReaderTypes, ReaderAt
  <2>5. LoopOK'
    BY <1>1, <1>2, <2>3, Sizes DEF ReaderTypes, LoopOK
  <2>6. RingOK'
    BY <1>1, <2>2, <2>3, EmptyLen, Sizes, SMTT(30) DEF RingOK, TruncationPending
  <2>. QED
    BY <2>4, <2>5, <2>6, Zenon
<1>. QED
  BY <1>3, <1>4, <1>5, Zenon DEF Flush

(***************************************************************************)
(* The frontend.                                                           *)
(***************************************************************************)
LEMMA FrontAside ==
    ASSUME FrontOK, UNCHANGED <<sent_total, broken, chan, uiVars>>
    PROVE  FrontOK'
BY Zenon DEF FrontOK, FramesContiguous, uiVars

\* What FrontOK says of one frame under way.
LEMMA FrameFacts ==
    ASSUME FrontOK, NEW i \in 1 .. Len(chan)
    PROVE  /\ chan[i].start \in Nat /\ chan[i].end \in Nat /\ chan[i].end <= sent_total
           /\ chan[i].start = (IF i = 1 THEN lastEnd ELSE chan[i - 1].end)
           /\ chan[i].start < chan[i].end
<1>1. chan \in Seq(Frame) /\ DOMAIN chan = 1 .. Len(chan)
  BY LenProperties, Zenon DEF FrontOK
<1>2. chan[i] \in Frame
  BY <1>1, ElementOfSeq, Zenon
<1>3. chan[i].start \in Nat /\ chan[i].end \in Nat
  BY <1>2, Zenon DEF Frame
<1>4. /\ chan[i].end <= sent_total
      /\ chan[i].start = (IF i = 1 THEN lastEnd ELSE chan[i - 1].end)
      /\ chan[i].start < chan[i].end
  BY <1>1, Zenon DEF FrontOK, FramesContiguous
<1>. QED
  BY <1>3, <1>4, Zenon

LEMMA SendFront ==
    ASSUME ReaderOK, FrontOK, sent_total \in Nat, NEW delivered \in BOOLEAN, Send(delivered)
    PROVE  FrontOK'
<1>1. UNCHANGED <<lastEnd, taken, rendered>>
  BY Zenon DEF Send, uiVars
<1>2. rd = "send" /\ held = Len(buf) /\ held \in Nat /\ held > 0
  BY Sizes DEF Send, ReaderOK, LoopOK
<1>3. CASE ~CanAlloc
  <2>1. UNCHANGED <<sent_total, chan>> /\ broken'
    BY <1>3, Zenon DEF Send, SendFrame
  <2>. QED
    BY <1>1, <2>1, Zenon DEF FrontOK, FramesContiguous
<1>4. CASE CanAlloc /\ ~delivered
  <2>1. sent_total' = sent_total + held /\ UNCHANGED chan /\ broken'
    BY <1>4, Zenon DEF Send, SendFrame
  <2>2. \A i \in 1 .. Len(chan) : chan[i].end \in Nat
    BY FrameFacts, Zenon
  <2>. QED
    BY <1>1, <1>2, <2>1, <2>2 DEF FrontOK, FramesContiguous
<1>5. CASE CanAlloc /\ delivered
  <2> DEFINE f == [start |-> sent_total, end |-> sent_total + Len(buf)]
             n == Len(chan)
  <2>1. sent_total' = sent_total + held /\ chan' = Append(chan, f) /\ ~broken
    BY <1>5, Zenon DEF Send, SendFrame, CanAlloc
  <2>2. f \in Frame /\ f.start = sent_total /\ f.end = sent_total'
    BY <1>2, <2>1 DEF Frame
  <2> HIDE DEF f
  <2>3. chan \in Seq(Frame) /\ n \in Nat /\ lastEnd \in Nat
    BY DEF FrontOK
  <2>4. /\ chan' \in Seq(Frame) /\ Len(chan') = n + 1
        /\ \A i \in 1 .. n : chan'[i] = chan[i]
        /\ chan'[n + 1] = f
    BY <2>1, <2>2, <2>3, AppendProperties
  <2>5. sent_total = IF n = 0 THEN lastEnd ELSE chan[n].end
    BY <2>1, Zenon DEF FrontOK
  <2> HIDE DEF n
  <2>6. \A i \in 1 .. n : /\ chan[i].end \in Nat /\ chan[i].end <= sent_total
                           /\ chan[i].start = (IF i = 1 THEN lastEnd ELSE chan[i - 1].end)
                           /\ chan[i].start < chan[i].end
    BY FrameFacts, Zenon DEF n
  <2>7. FramesContiguous'
    <3> SUFFICES ASSUME NEW i \in 1 .. n + 1
                 PROVE  /\ chan'[i].start = (IF i = 1 THEN lastEnd ELSE chan'[i - 1].end)
                        /\ chan'[i].start < chan'[i].end
      <4>1. DOMAIN chan' = 1 .. n + 1
        BY <2>3, <2>4
      <4>. QED
        BY <1>1, <4>1, Zenon DEF FramesContiguous
    <3>1. CASE i \in 1 .. n
      <4>1. i # 1 => i - 1 \in 1 .. n
        BY <2>3, <3>1
      <4>. QED
        BY <2>4, <2>6, <3>1, <4>1, Zenon
    <3>2. CASE i = n + 1
      <4>1. chan'[i] = f /\ f.start < f.end
        BY <1>2, <2>1, <2>2, <2>4, <3>2
      <4>2. CASE n = 0
        BY <2>2, <2>5, <3>2, <4>1, <4>2
      <4>3. CASE n # 0
        <5>1. i # 1 /\ i - 1 = n /\ n \in 1 .. n
          BY <2>3, <3>2, <4>3
        <5>. QED
          BY <2>2, <2>4, <2>5, <4>1, <4>3, <5>1, Zenon
      <4>. QED
        BY <4>2, <4>3, Zenon
    <3>. QED
      BY <2>3, <3>1, <3>2
  <2>8. /\ \A i \in 1 .. Len(chan') : chan'[i].end <= sent_total'
        /\ Len(chan') # 0 /\ chan'[Len(chan')].end = sent_total'
    <3>1. ASSUME NEW i \in 1 .. n PROVE chan'[i].end <= sent_total'
      <4>1. chan'[i] = chan[i] /\ chan[i].end \in Nat /\ chan[i].end <= sent_total
        BY <2>4, <2>6, Zenon
      <4>. QED
        BY <1>2, <2>1, <4>1
    <3>2. chan'[n + 1].end = sent_total' /\ sent_total' \in Nat
      BY <1>2, <2>1, <2>2, <2>4
    <3>. QED
      BY <2>3, <2>4, <3>1, <3>2
  <2>9. lastEnd' \in Nat /\ taken' \in Nat /\ rendered' \in Nat /\ lastEnd' <= sent_total'
    BY <1>1, <1>2, <2>1 DEF FrontOK
  <2>. QED
    BY <2>4, <2>7, <2>8, <2>9, Zenon DEF FrontOK
<1>. QED
  BY <1>3, <1>4, <1>5, Zenon

LEMMA PushFront == ASSUME FrontOK, sent_total \in Nat, Push
                   PROVE  FrontOK' /\ lastEnd' >= lastEnd
<1> DEFINE n == Len(chan)
<1>1. /\ chan \in Seq(Frame) /\ chan # <<>> /\ chan' = Tail(chan)
      /\ lastEnd' = IF Head(chan).end > lastEnd THEN Head(chan).end ELSE lastEnd
      /\ UNCHANGED <<sent_total, broken, taken, rendered>>
  BY Zenon DEF Push, FrontOK, streamVars
<1>2. n \in Nat /\ n > 0 /\ DOMAIN chan = 1 .. n
  BY <1>1, EmptySeq, LenProperties
<1>3. /\ chan' \in Seq(Frame) /\ Len(chan') = n - 1 /\ Head(chan) = chan[1]
      /\ \A i \in 1 .. n - 1 : chan'[i] = chan[i + 1]
  BY <1>1, <1>2, HeadTailProperties
<1>4. \A i \in 1 .. n : /\ chan[i].end \in Nat /\ chan[i].end <= sent_total
                         /\ chan[i].start = (IF i = 1 THEN lastEnd ELSE chan[i - 1].end)
                         /\ chan[i].start < chan[i].end
  BY FrameFacts, Zenon
<1>5. lastEnd \in Nat /\ (~broken => sent_total = chan[n].end)
  BY <1>2 DEF FrontOK
<1> HIDE DEF n
<1>6. lastEnd' = chan[1].end /\ lastEnd' \in Nat /\ lastEnd' <= sent_total /\ lastEnd' >= lastEnd
  <2>1. 1 \in 1 .. n
    BY <1>2
  <2>2. chan[1].end \in Nat /\ chan[1].end <= sent_total /\ lastEnd < chan[1].end
    BY <1>4, <2>1, Zenon
  <2>. QED
    BY <1>1, <1>3, <1>5, <2>2
<1>7. DOMAIN chan' = 1 .. n - 1
  BY <1>2, <1>3
<1>8. FramesContiguous'
  <2> SUFFICES ASSUME NEW i \in 1 .. n - 1
               PROVE  /\ chan'[i].start = (IF i = 1 THEN lastEnd' ELSE chan'[i - 1].end)
                      /\ chan'[i].start < chan'[i].end
    BY <1>7, Zenon DEF FramesContiguous
  <2>1. /\ i + 1 \in 1 .. n /\ i + 1 # 1 /\ (i + 1) - 1 = i
        /\ i # 1 => i - 1 \in 1 .. n - 1 /\ (i - 1) + 1 = i
    BY <1>2
  <2>2. chan'[i] = chan[i + 1] /\ (i # 1 => chan'[i - 1] = chan[i])
    BY <1>3, <2>1, Zenon
  <2>3. chan[i + 1].start = chan[i].end /\ chan[i + 1].start < chan[i + 1].end
    BY <1>4, <2>1, Zenon
  <2>. QED
    BY <1>6, <2>2, <2>3, Zenon
<1>9. /\ \A i \in 1 .. Len(chan') : chan'[i].end <= sent_total'
      /\ ~broken' => sent_total' = IF Len(chan') = 0 THEN lastEnd' ELSE chan'[Len(chan')].end
  <2>1. \A i \in 1 .. n - 1 : i + 1 \in 1 .. n
    BY <1>2
  <2>2. n # 1 => n - 1 \in 1 .. n - 1 /\ (n - 1) + 1 = n
    BY <1>2
  <2>3. n - 1 = 0 <=> n = 1
    BY <1>2
  <2>4. ASSUME NEW i \in 1 .. n - 1 PROVE chan'[i].end <= sent_total
    BY <1>3, <1>4, <2>1, Zenon
  <2>5. n # 1 => chan'[n - 1] = chan[n]
    BY <1>3, <2>2, Zenon
  <2>6. ~broken => sent_total = IF Len(chan') = 0 THEN lastEnd' ELSE chan'[Len(chan')].end
    BY <1>3, <1>5, <1>6, <2>3, <2>5, Zenon
  <2>. QED
    BY <1>1, <1>3, <2>4, <2>6, Zenon
<1>10. taken' \in Nat /\ rendered' \in Nat /\ lastEnd' <= sent_total'
  BY <1>1, <1>6, Zenon DEF FrontOK
<1>. QED
  BY <1>3, <1>6, <1>8, <1>9, <1>10, Zenon DEF FrontOK

LEMMA CallsAside ==
    ASSUME AckedWereRendered, CallsOK, UNCHANGED <<acked_total, ack, lastEnd, taken, rendered>>
    PROVE  AckedWereRendered' /\ CallsOK'
BY Zenon DEF AckedWereRendered, CallsOK

\* A call changed by one step of its own asks for no more than was rendered.
LEMMA CallsOneStep ==
    ASSUME CallsOK, ack \in [AckIds -> AckCall], NEW a \in AckIds, NEW c, ack' = [ack EXCEPT ![a] = c],
           UNCHANGED rendered,
           c.pc # "idle" => c.incoming <= rendered,
           c.pc = "cas" => c.cur + c.newly <= rendered
    PROVE  CallsOK'
<1>1. \A b \in AckIds : ack'[b] = IF b = a THEN c ELSE ack[b]
  BY Zenon
<1> SUFFICES ASSUME NEW b \in AckIds
             PROVE  /\ ack'[b].pc # "idle" => ack'[b].incoming <= rendered
                    /\ ack'[b].pc = "cas" => ack'[b].cur + ack'[b].newly <= rendered
  BY Zenon DEF CallsOK
<1>2. CASE b = a
  BY <1>1, <1>2, Zenon
<1>3. CASE b # a
  <2>1. ack'[b] = ack[b]
    BY <1>1, <1>3, Zenon
  <2>. QED
    BY <2>1, Zenon DEF CallsOK
<1>. QED
  BY <1>2, <1>3, Zenon

LEMMA WriteDoneFront ==
    ASSUME StreamTypeOK, FrontOK, AckedWereRendered, CallsOK, WriteDone
    PROVE  FrontOK' /\ AckedWereRendered' /\ CallsOK'
<1>1. /\ rendered' = taken /\ taken > rendered /\ UNCHANGED <<chan, lastEnd, taken>>
      /\ UNCHANGED <<sent_total, acked_total, broken>>
  BY Zenon DEF WriteDone, AckCalled, streamVars
<1>2. /\ acked_total \in Nat /\ rendered \in Nat /\ taken \in Nat /\ ack \in [AckIds -> AckCall]
  BY Zenon DEF StreamTypeOK, FrontOK
<1>3. FrontOK' /\ AckedWereRendered'
  BY <1>1, <1>2 DEF FrontOK, FramesContiguous, AckedWereRendered
<1>4. ASSUME NEW b \in AckIds, ack'[b] = ack[b]
      PROVE  /\ ack'[b].pc # "idle" => ack'[b].incoming <= rendered'
             /\ ack'[b].pc = "cas" => ack'[b].cur + ack'[b].newly <= rendered'
  <2>1. ack[b].incoming \in Int /\ ack[b].cur \in Int /\ ack[b].newly \in Int
    BY <1>2, StreamConstants, SMTT(30) DEF AckCall, Offsets
  <2>. QED
    BY <1>1, <1>2, <1>4, <2>1 DEF CallsOK
<1>5. ASSUME UNCHANGED streamVars PROVE CallsOK'
  BY <1>4, <1>5, Zenon DEF CallsOK, streamVars
<1>6. ASSUME NEW a \in AckIds, AckCalled(a, taken) PROVE CallsOK'
  <2> DEFINE c == [NoCall EXCEPT !.pc = "check", !.incoming = taken]
  <2>1. c.pc = "check" /\ c.incoming = taken
    BY Zenon DEF NoCall
  <2>2. ack' = [ack EXCEPT ![a] = c]
    BY <1>6, Zenon DEF AckCalled
  <2> HIDE DEF c
  <2>3. ack'[a] = c /\ \A b \in AckIds \ {a} : ack'[b] = ack[b]
    BY <1>2, <2>2, Zenon
  <2>4. taken <= rendered'
    BY <1>1, <1>2
  <2>5. ASSUME NEW b \in AckIds
        PROVE  /\ ack'[b].pc # "idle" => ack'[b].incoming <= rendered'
               /\ ack'[b].pc = "cas" => ack'[b].cur + ack'[b].newly <= rendered'
    <3>1. CASE b = a
      BY <2>1, <2>3, <2>4, <3>1, Zenon
    <3>2. CASE b # a
      BY <1>4, <2>3, <3>2, Zenon
    <3>. QED
      BY <3>1, <3>2, Zenon
  <2>. QED
    BY <2>5, Zenon DEF CallsOK
<1>7. UNCHANGED streamVars \/ \E a \in AckIds : AckCalled(a, taken)
  BY Zenon DEF WriteDone
<1>. QED
  BY <1>3, <1>5, <1>6, <1>7, Zenon

LEMMA TermCreditFront ==
    ASSUME StreamTypeOK, AckedWereRendered, CallsOK, FrontOK, NEW a \in AckIds, TermCredit(a)
    PROVE  FrontOK' /\ AckedWereRendered' /\ CallsOK'
<1>1. /\ UNCHANGED <<chan, uiVars>> /\ UNCHANGED <<sent_total, broken>>
      /\ AckStep(a)
  BY Zenon DEF TermCredit, AckStep, AckCheck, AckLoadSent, AckCas, AckAddPermits
<1>2. FrontOK' /\ UNCHANGED <<lastEnd, taken, rendered>>
  BY <1>1, FrontAside, Zenon DEF uiVars
<1>3. /\ acked_total \in Nat /\ rendered \in Nat /\ sent_total \in Nat
      /\ ack \in [AckIds -> AckCall] /\ ack[a] \in AckCall
      /\ ack[a].incoming \in Nat /\ ack[a].cur \in Nat /\ ack[a].newly \in Nat
  BY StreamConstants DEF StreamTypeOK, FrontOK, AckCall, Offsets
<1>4. ack[a].pc # "idle" => ack[a].incoming <= rendered
  BY Zenon DEF CallsOK
<1>5. NoCall.pc = "idle"
  BY Zenon DEF NoCall
<1>6. CASE AckCheck(a)
  <2>1. UNCHANGED acked_total /\ ack[a].pc = "check"
    BY <1>6, Zenon DEF AckCheck
  <2>2. CASE broken
    <3>1. ack' = [ack EXCEPT ![a] = NoCall]
      BY <1>6, <2>2, Zenon DEF AckCheck
    <3>. QED
      BY <1>2, <1>3, <1>5, <2>1, <3>1, CallsOneStep, Zenon DEF AckedWereRendered
  <2>3. CASE ~broken
    <3> DEFINE c == [ack[a] EXCEPT !.pc = "load_sent", !.cur = acked_total]
    <3>1. ack' = [ack EXCEPT ![a] = c]
      BY <1>3, <1>6, <2>3, Zenon DEF AckCheck
    <3>2. c.pc = "load_sent" /\ c.incoming = ack[a].incoming
      BY <1>3, Zenon DEF AckCall
    <3> HIDE DEF c
    <3>. QED
      BY <1>2, <1>3, <1>4, <2>1, <3>1, <3>2, CallsOneStep, Zenon DEF AckedWereRendered
  <2>. QED
    BY <2>2, <2>3, Zenon
<1>7. CASE AckLoadSent(a)
  <2>1. UNCHANGED acked_total /\ ack[a].pc = "load_sent"
    BY <1>7, Zenon DEF AckLoadSent
  <2>2. CASE Newly(ack[a]) <= 0
    <3>1. ack' = [ack EXCEPT ![a] = NoCall]
      BY <1>7, <2>2, Zenon DEF AckLoadSent
    <3>. QED
      BY <1>2, <1>3, <1>5, <2>1, <3>1, CallsOneStep, Zenon DEF AckedWereRendered
  <2>3. CASE ~(Newly(ack[a]) <= 0)
    <3> DEFINE c == [ack[a] EXCEPT !.pc = "cas", !.newly = Newly(ack[a])]
    <3>1. ack' = [ack EXCEPT ![a] = c]
      BY <1>3, <1>7, <2>3, Zenon DEF AckLoadSent
    <3>2. c.pc = "cas" /\ c.incoming = ack[a].incoming /\ c.cur = ack[a].cur /\ c.newly = Newly(ack[a])
      BY <1>3, Zenon DEF AckCall
    <3>3. ack[a].cur + Newly(ack[a]) <= ack[a].incoming
      BY <1>3 DEF Newly
    <3>4. Newly(ack[a]) \in Int
      BY <1>3 DEF Newly
    <3> HIDE DEF c
    <3>5. c.cur + c.newly <= rendered
      BY <1>3, <1>4, <2>1, <3>2, <3>3, <3>4
    <3>. QED
      BY <1>2, <1>3, <1>4, <2>1, <3>1, <3>2, <3>5, CallsOneStep, Zenon DEF AckedWereRendered
  <2>. QED
    BY <2>2, <2>3, Zenon
<1>8. CASE AckCas(a)
  <2>1. ack[a].pc = "cas" /\ ack[a].cur + ack[a].newly <= rendered
    BY <1>8, Zenon DEF AckCas, CallsOK
  <2>2. CASE acked_total = ack[a].cur
    <3> DEFINE c == [ack[a] EXCEPT !.pc = "add_permits"]
    <3>1. ack' = [ack EXCEPT ![a] = c] /\ acked_total' = ack[a].cur + ack[a].newly
      BY <1>3, <1>8, <2>2, Zenon DEF AckCas
    <3>2. c.pc = "add_permits" /\ c.incoming = ack[a].incoming
      BY <1>3, Zenon DEF AckCall
    <3> HIDE DEF c
    <3>. QED
      BY <1>2, <1>3, <1>4, <2>1, <3>1, <3>2, CallsOneStep, Zenon DEF AckedWereRendered
  <2>3. CASE acked_total # ack[a].cur
    <3> DEFINE c == [ack[a] EXCEPT !.pc = "load_sent", !.cur = acked_total]
    <3>1. ack' = [ack EXCEPT ![a] = c] /\ UNCHANGED acked_total
      BY <1>3, <1>8, <2>3, Zenon DEF AckCas
    <3>2. c.pc = "load_sent" /\ c.incoming = ack[a].incoming
      BY <1>3, Zenon DEF AckCall
    <3> HIDE DEF c
    <3>. QED
      BY <1>2, <1>3, <1>4, <2>1, <3>1, <3>2, CallsOneStep, Zenon DEF AckedWereRendered
  <2>. QED
    BY <2>2, <2>3, Zenon
<1>9. CASE AckAddPermits(a)
  <2>1. UNCHANGED acked_total /\ ack' = [ack EXCEPT ![a] = NoCall]
    BY <1>9, Zenon DEF AckAddPermits
  <2>. QED
    BY <1>2, <1>3, <1>5, <2>1, CallsOneStep, Zenon DEF AckedWereRendered
<1>. QED
  BY <1>1, <1>6, <1>7, <1>8, <1>9, SMTT(30) DEF AckStep

-----------------------------------------------------------------------------
LEMMA TermStep == TermInv /\ [Next]_vars => TermInv'
<1> SUFFICES ASSUME TermInv, [Next]_vars PROVE TermInv'
  BY Zenon
<1>1. CreditInv'
  BY ProtocolStep, CreditStep, Zenon DEF TermInv
<1>2. ReaderOK /\ FrontOK /\ AckedWereRendered /\ CallsOK /\ StreamTypeOK /\ sent_total \in Nat
  BY DEF TermInv, ReaderOK, CreditInv, StreamTypeOK
<1> DEFINE Good == ReaderOK' /\ FrontOK' /\ AckedWereRendered' /\ CallsOK'
<1>3. ASSUME ReaderOK', UNCHANGED <<sent_total, acked_total, broken, ack, chan, uiVars>> PROVE Good
  BY <1>2, <1>3, FrontAside, CallsAside, SMTT(30) DEF uiVars
<1>4. ASSUME LoopTop \/ DrainRing \/ WindowElapsed \/ Supervise \/ Eof
      PROVE  ReaderOK' /\ UNCHANGED <<sent_total, acked_total, broken, ack, chan, uiVars>>
  <2>1. ReaderOK'
    BY <1>2, <1>4, LoopTopReads, DrainReads, TurnReads, SMTT(30)
  <2>. QED
    BY <1>4, <2>1, Zenon DEF LoopTop, DrainRing, WindowElapsed, Supervise, Eof, streamVars
<1>5. ASSUME NEW n \in 1 .. MaxChunk, NextData(n)
      PROVE  ReaderOK' /\ UNCHANGED <<sent_total, acked_total, broken, ack, chan, uiVars>>
  BY <1>2, <1>5, NextDataReads, SMTT(30) DEF NextData, streamVars
<1>6. ASSUME AwaitCredit \/ Flush
      PROVE  ReaderOK' /\ UNCHANGED <<sent_total, acked_total, broken, ack, chan, uiVars>>
  <2>1. ReaderOK'
    BY <1>2, <1>6, AwaitReads, FlushReads, Zenon
  <2>. QED
    BY <1>6, <2>1, Zenon DEF AwaitCredit, Flush, TakeCredit, streamVars
<1>7. ASSUME NEW delivered \in BOOLEAN, Send(delivered) PROVE Good
  <2>1. ReaderOK' /\ FrontOK'
    BY <1>2, <1>7, SendReads, SendFront, Zenon
  <2>2. UNCHANGED <<acked_total, ack, lastEnd, taken, rendered>>
    BY <1>7, Zenon DEF Send, SendFrame, uiVars
  <2>. QED
    BY <1>2, <2>1, <2>2, CallsAside, Zenon
<1>8. ASSUME Push PROVE Good
  <2>1. UNCHANGED <<streamVars, readerVars, wire, taken, rendered>>
    BY <1>8, Zenon DEF Push
  <2>2. UNCHANGED <<sent_total, acked_total, held, ack>>
    BY <2>1, Zenon DEF streamVars
  <2>3. ReaderOK'
    BY <1>2, <2>1, <2>2, ReaderAside, Zenon
  <2>4. FrontOK' /\ lastEnd' >= lastEnd
    BY <1>2, <1>8, PushFront, SMTT(30)
  <2>5. AckedWereRendered'
    BY <1>2, <2>1, <2>2, <2>4, SMTT(30) DEF AckedWereRendered, FrontOK
  <2>6. CallsOK'
    BY <1>2, <2>1, <2>2, Zenon DEF CallsOK
  <2>. QED
    BY <2>3, <2>4, <2>5, <2>6, Zenon
<1>9. ASSUME FlushOnce PROVE Good
  <2>1. /\ UNCHANGED <<streamVars, readerVars, wire, chan, lastEnd, rendered>>
        /\ taken' = lastEnd /\ taken < lastEnd
    BY <1>9, Zenon DEF FlushOnce
  <2>2. UNCHANGED <<sent_total, acked_total, broken, held, ack>>
    BY <2>1, Zenon DEF streamVars
  <2>3. ReaderOK'
    BY <1>2, <2>1, <2>2, ReaderAside, SMTT(30)
  <2>4. FrontOK' /\ AckedWereRendered'
    BY <1>2, <2>1, <2>2, SMTT(30) DEF FrontOK, FramesContiguous, AckedWereRendered
  <2>5. CallsOK'
    BY <1>2, <2>1, <2>2, Zenon DEF CallsOK
  <2>. QED
    BY <2>3, <2>4, <2>5, Zenon
<1>10. ASSUME WriteDone PROVE Good
  <2>1. UNCHANGED <<readerVars, wire, held, sent_total>>
    BY <1>10, Zenon DEF WriteDone, AckCalled, streamVars
  <2>. QED
    BY <1>2, <1>10, <2>1, ReaderAside, WriteDoneFront, Zenon
<1>11. ASSUME NEW a \in AckIds, TermCredit(a) PROVE Good
  <2>1. UNCHANGED <<readerVars, wire, held, sent_total>>
    BY <1>11, Zenon DEF TermCredit, AckStep, AckCheck, AckLoadSent, AckCas, AckAddPermits
  <2>. QED
    BY <1>2, <1>11, <2>1, ReaderAside, TermCreditFront, SMTT(30)
<1>12. ASSUME UNCHANGED <<streamVars, readerVars, wire, chan, uiVars>> PROVE Good
  <2>1. UNCHANGED <<sent_total, acked_total, broken, held, ack>>
    BY <1>12, Zenon DEF streamVars
  <2>2. ReaderOK'
    BY <1>2, <1>12, <2>1, ReaderAside, Zenon
  <2>. QED
    BY <1>3, <1>12, <2>1, <2>2, Zenon
<1>13. ASSUME \/ TermOpened \/ UNCHANGED vars
              \/ \E f \in BOOLEAN : SetFocused(f)
              \/ \E i \in DOMAIN focusCmds : TermFocus(i)
       PROVE  UNCHANGED <<streamVars, readerVars, wire, chan, uiVars>>
  BY <1>13, Zenon DEF TermOpened, SetFocused, TermFocus, vars
<1>14. Good
  <2> HIDE DEF Good
  <2>1. CASE \/ LoopTop \/ DrainRing \/ WindowElapsed \/ Supervise \/ Eof
             \/ AwaitCredit \/ Flush \/ \E n \in 1 .. MaxChunk : NextData(n)
    BY <1>3, <1>4, <1>5, <1>6, <2>1
  <2>. QED
    BY <1>7, <1>8, <1>9, <1>10, <1>11, <1>12, <1>13, <2>1, ZenonT(30) DEF Next, ReaderStep
<1>. QED
  BY <1>1, <1>14, Zenon DEF TermInv, ReaderOK

\* The read loop, the frontend and the commands it sends back implement the credit
\* protocol: whatever stream.rs does with its ring, its batches and its notices is a step
\* of CreditState or none, so all that StreamProtocol promises holds of the tab.
THEOREM TerminalImplementsProtocol == Spec => StreamSpec
<1>1. Init => StreamInit
  BY Zenon DEF Init
<1>. QED
  BY <1>1, TermInit, TermStep, ProtocolStep, PTL DEF Spec, StreamSpec

\* A truncation count is never left behind by an emptied ring.
THEOREM TerminalTruncation == Spec => []TruncationPending
<1>1. TermInv => TruncationPending
  BY Zenon DEF TermInv, RingOK
<1>. QED
  BY <1>1, TermInit, TermStep, PTL DEF Spec

\* The frontend sees a gapless stream and gives credit back only for what it has rendered.
THEOREM TerminalFrontend == Spec => []FrontendInStep
<1>1. TermInv => FrontendInStep
  BY Zenon DEF TermInv, FrontOK, FrontendInStep
<1>. QED
  BY <1>1, TermInit, TermStep, PTL DEF Spec

\* The credit of a tab is conserved and its window is kept.
THEOREM TerminalCredit == Spec => []CreditSound
BY TerminalImplementsProtocol, CreditSoundness, PTL

\* The flags, and the term_focus commands that set them.
FlagTypes ==
    /\ opened \in BOOLEAN /\ focused \in BOOLEAN /\ uiFocused \in BOOLEAN
    /\ focusCmds \in Seq(BOOLEAN)

LEMMA RemoveIsSeq ==
    ASSUME NEW s \in Seq(BOOLEAN), NEW i \in 1 .. Len(s)
    PROVE  Without(s, i) \in Seq(BOOLEAN)
<1>1. Len(s) \in Nat /\ i - 1 \in Int /\ i + 1 \in Int /\ 1 \in Int
  OBVIOUS
<1>2. \A k \in 1 .. Len(s) : s[k] \in BOOLEAN
  BY ElementOfSeq, Zenon
<1>3. 1 .. i - 1 \subseteq 1 .. Len(s) /\ i + 1 .. Len(s) \subseteq 1 .. Len(s)
  BY <1>1
<1>4. /\ \A k \in 1 .. i - 1 : s[k] \in BOOLEAN
      /\ \A k \in i + 1 .. Len(s) : s[k] \in BOOLEAN
  BY <1>2, <1>3, Zenon
<1>5. SubSeq(s, 1, i - 1) \in Seq(BOOLEAN)
  BY <1>1, <1>4, SubSeqProperties, Zenon
<1>6. SubSeq(s, i + 1, Len(s)) \in Seq(BOOLEAN)
  BY <1>1, <1>4, SubSeqProperties
<1>. QED
  BY <1>5, <1>6, ConcatProperties, Zenon DEF Without

LEMMA FlagStep == FlagTypes /\ [Next]_vars => FlagTypes'
<1> SUFFICES ASSUME FlagTypes, [Next]_vars PROVE FlagTypes'
  BY Zenon
<1>1. CASE UNCHANGED focusVars
  BY <1>1, Zenon DEF FlagTypes, focusVars
<1>2. CASE TermOpened
  <2>1. Append(focusCmds, FALSE) \in Seq(BOOLEAN)
    BY AppendProperties, Zenon DEF FlagTypes
  <2>2. opened' = TRUE /\ UNCHANGED <<focused, uiFocused>>
    BY <1>2, Zenon DEF TermOpened
  <2>3. focusCmds' = focusCmds \/ focusCmds' = Append(focusCmds, FALSE)
    BY <1>2, Zenon DEF TermOpened
  <2>. QED
    BY <2>1, <2>2, <2>3, Zenon DEF FlagTypes
<1>3. ASSUME NEW f \in BOOLEAN, SetFocused(f) PROVE FlagTypes'
  <2>1. Append(focusCmds, f) \in Seq(BOOLEAN)
    BY AppendProperties, Zenon DEF FlagTypes
  <2>2. uiFocused' = f /\ UNCHANGED <<focused, opened>>
    BY <1>3, Zenon DEF SetFocused
  <2>3. focusCmds' = focusCmds \/ focusCmds' = Append(focusCmds, f)
    BY <1>3, Zenon DEF SetFocused
  <2>. QED
    BY <2>1, <2>2, <2>3, Zenon DEF FlagTypes
<1>4. ASSUME NEW i \in DOMAIN focusCmds, TermFocus(i) PROVE FlagTypes'
  <2>1. focusCmds \in Seq(BOOLEAN) /\ i \in 1 .. Len(focusCmds)
    BY LenProperties, Zenon DEF FlagTypes
  <2>2. Without(focusCmds, i) \in Seq(BOOLEAN) /\ focusCmds[i] \in BOOLEAN
    BY <2>1, RemoveIsSeq, ElementOfSeq, Zenon
  <2>3. /\ focused' = focusCmds[i] /\ focusCmds' = Without(focusCmds, i)
        /\ UNCHANGED <<opened, uiFocused>>
    BY <1>4, Zenon DEF TermFocus
  <2>. QED
    BY <2>2, <2>3, Zenon DEF FlagTypes
<1>5. ASSUME ReaderStep \/ Eof \/ Push \/ FlushOnce \/ WriteDone \/ UNCHANGED vars
      PROVE  UNCHANGED focusVars
  BY <1>5, Zenon DEF ReaderStep, LoopTop, DrainRing, AwaitCredit, WindowElapsed, Flush, Supervise, Send,
              Eof, Push, FlushOnce, WriteDone, vars
<1>6. ASSUME \/ \E n \in 1 .. MaxChunk : NextData(n)
             \/ \E a \in AckIds : TermCredit(a)
      PROVE  UNCHANGED focusVars
  BY <1>6, Zenon DEF NextData, TermCredit
<1>. QED
  BY <1>1, <1>2, <1>3, <1>4, <1>5, <1>6, Zenon DEF Next

\* The variables keep their types, the ring and the aggregation buffer their bounds, and
\* every registered offset has its byte.
THEOREM TerminalTypes == Spec => []TypeOK
<1>1. Init => FlagTypes
  BY EmptySeq, Zenon DEF Init, FlagTypes
<1>2. ASSUME TermInv, FlagTypes PROVE TypeOK
  <2>1. StreamTypeOK /\ rd \in ReaderAt /\ ret \in {"top", "drain", "ended"}
    BY <1>2, Zenon DEF TermInv, CreditInv, ReaderTypes
  <2>2. read \in 0 .. MaxBytes /\ truncated \in 0 .. MaxBytes
    BY <1>2, EmptyLen, Sizes DEF TermInv, ReaderTypes, RingOK
  <2>3. /\ Len(agg) < AggCap + MaxChunk /\ Len(ring) <= RingCap
        /\ sent_total = Len(wire)
    BY <1>2, EmptyLen, Sizes DEF TermInv, ReaderTypes, RingOK, LoopOK
  <2>. QED
    BY <1>2, <2>1, <2>2, <2>3, Zenon DEF TypeOK, FlagTypes
<1>. QED
  BY <1>1, <1>2, FlagStep, TermInit, TermStep, PTL DEF Spec

=============================================================================
