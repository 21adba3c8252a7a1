-------------------------- MODULE DownloadProofs ----------------------------
(***************************************************************************)
(* A download puts its file together right, for every size of the file, of *)
(* the chunks and of the window of reads, every order of the answers and   *)
(* any number of attempts.                                                 *)
(***************************************************************************)
EXTENDS DownloadPipeline, FiniteSetTheorems, WellFoundedInduction, TLAPS

\* A read, an answer that waits and what is missing are ranges of bytes.
Ranges == [at : Nat, len : Nat \ {0}]
Within(x, p) == x.at <= p /\ p < x.at + x.len
Apart(x, y) == x.at + x.len <= y.at \/ y.at + y.len <= x.at
Missing(a) == {a.missing[j] : j \in DOMAIN a.missing}

\* Where an attempt is, and what it holds.
Pcs == {"begin", "open", "check", "join", "serial", "flush", "ended", "paused", "failed", "done"}
Attempts == [pc : Pcs, offset : Nat, next : Nat, at : Nat, fly : SUBSET Ranges, reorder : SUBSET Ranges,
             missing : Seq(Ranges), eof : BOOLEAN]

\* The reads of an attempt: apart, between the cursor and next.
Bounded(a) ==
  /\ a.at <= a.next /\ a.next <= Total
  /\ IsFiniteSet(a.fly) /\ Cardinality(a.fly) <= ReadAhead
  /\ \A x \in a.fly \cup a.reorder : a.at <= x.at /\ x.at + x.len <= a.next
  /\ \A j \in DOMAIN a.missing : a.at <= a.missing[j].at /\ a.missing[j].at + a.missing[j].len <= a.next
\* No byte is asked for twice.
Disjoint(a) ==
  /\ \A x, y \in a.fly : x = y \/ Apart(x, y)
  /\ \A x \in a.fly, y \in a.reorder : Apart(x, y)
  /\ \A x \in a.fly \cup a.reorder, j \in DOMAIN a.missing : Apart(x, a.missing[j])
  /\ \A i, j \in DOMAIN a.missing : i = j \/ Apart(a.missing[i], a.missing[j])
\* And until the end of the file was met, every byte between the cursor and next is
\* asked for, has come, or is known to be missing.
Covers(a) ==
  ~a.eof => \A p \in a.at..(a.next - 1) :
              \/ \E x \in a.fly \cup a.reorder : Within(x, p)
              \/ \E j \in DOMAIN a.missing : Within(a.missing[j], p)
Window(a) == Bounded(a) /\ Disjoint(a) /\ Covers(a)
\* What waits to be put in order is beyond the cursor; the window is empty only when
\* there is nothing left to ask for.
Waits(a) == \A x \in a.reorder : a.at < x.at
Filled(a) == a.fly = {} => a.eof \/ (a.missing = <<>> /\ a.next = Total)

\* The pipeline: its window while it reads; nothing in flight when it does not; and
\* at the end, unless the file has shrunk, the cursor at the end of it.
PipeInv ==
  /\ att \in Attempts /\ remote \in 0..Total /\ retries \in 0..MaxRetries
  /\ att.pc \in {"check", "join"} => Window(att) /\ Waits(att) /\ Filled(att) /\ (att.eof => remote # Total)
  /\ att.pc \in {"begin", "open", "serial", "ended", "paused", "failed", "done"} =>
        att.fly = {} /\ att.reorder = {} /\ att.missing = <<>> /\ att.eof = FALSE /\ att.next <= Total /\ att.at <= Total
  /\ att.pc = "open" => att.at = att.offset /\ att.next = att.offset
  /\ att.pc = "flush" =>
        /\ att.fly = {} /\ att.next <= Total /\ (remote = Total => att.at = Total)
        /\ \A x \in att.reorder : att.at <= x.at /\ x.at + x.len <= att.next

\* An open file with the write under way, which follows what is on disk.
Handles == [append : BOOLEAN, pos : Nat, buf : Seq(Nat)]
Prefix(f) == \A i \in 1..Len(f) : f[i] = i
Follows(h) == h.pos = Len(local) /\ \A i \in 1..Len(h.buf) : h.buf[i] = Len(local) + i
Active == att.pc \in {"check", "join", "serial", "flush"}

\* The types of the file, which only an attempt that is active has open.
FileTyped ==
  /\ local \in Seq(Nat) /\ dst \in Handles /\ late \in SUBSET Handles /\ bytesDone \in Nat
  /\ mode \in {"resume", "overwrite"}
  /\ ~Active => dst = Closed
\* The file, unless a write outlived its attempt: a prefix of the remote one, up to
\* the cursor with the write under way, and whole when the transfer is done.
FileInv ==
  ~outlived =>
    /\ Prefix(local)
    /\ Active => late = {} /\ Follows(dst) /\ att.at = Len(local) + Len(dst.buf) /\ bytesDone = att.at
    /\ att.pc = "open" => late = {} /\ bytesDone = att.offset /\ (att.offset = 0 \/ att.offset = Len(local))
    /\ att.pc = "done" => late = {} /\ (remote = Total => Len(local) = Total)
    /\ att.pc \in {"begin", "ended", "paused", "failed"} => \A h \in late : late = {h} /\ Follows(h)
\* The inductive invariant. PrefixWritten needs the cursor, the cursor the window: a
\* byte that is asked for twice or never would be written twice or never.
DownloadInv == PipeInv /\ FileTyped /\ FileInv

(***************************************************************************)
(* Numbers.                                                                *)
(***************************************************************************)
LEMMA DivBounds ==
  ASSUME NEW a \in Nat, NEW n \in Nat \ {0}
  PROVE  (a \div n) \in Nat /\ (a \div n) * n <= a /\ a < (a \div n) * n + n
  OBVIOUS
\* Multiples grow,
LEMMA TimesMono ==
  ASSUME NEW i \in Nat, NEW k \in Nat, NEW n \in Nat, i <= k
  PROVE  i * n <= k * n /\ i * n \in Nat
  OBVIOUS
\* by one step at a time.
LEMMA TimesNext ==
  ASSUME NEW i \in Nat, NEW n \in Nat
  PROVE  (i + 1) * n = i * n + n
  OBVIOUS

\* A bounded set of numbers has a greatest.
Below == {ss \in Nat \X Nat : ss[1] < ss[2]}
LEMMA BelowWF == IsWellFoundedOn(Below, Nat)
<1>1. Below = OpToRel(<, Nat)
  BY Zenon DEF Below, OpToRel
<1>2. QED BY <1>1, NatLessThanWellFounded, Zenon
LEMMA Greatest ==
  ASSUME NEW S \in SUBSET Nat, S # {}, NEW n \in Nat, \A x \in S : x <= n
  PROVE  Max(S) \in S /\ \A y \in S : y <= Max(S)
<1> DEFINE T == {k \in Nat : \E x \in S : k = n - x}
<1>1. T \subseteq Nat 
  BY Zenon
<1>0. T # {}
  <2>1. PICK x \in S : TRUE
    BY Zenon
  <2>2. n - x \in T
    OBVIOUS
  <2>3. QED BY <2>2, Zenon
<1>2. PICK m \in T : \A y \in T : ~(<<y, m>> \in Below)
  <2> HIDE DEF T
  <2>1. QED BY <1>0, <1>1, WFMin, BelowWF, Zenon
<1>3. \A y \in T : m <= y
  <2>1. ASSUME NEW y \in T PROVE m <= y
    <3>1. y \in Nat /\ m \in Nat
      BY <1>1
    <3>2. y < m => <<y, m>> \in Below
      BY <3>1, Zenon DEF Below
    <3> HIDE DEF T
    <3>3. ~(y < m)
      BY <1>2, <3>2, Zenon
    <3>4. QED BY <3>1, <3>3
  <2>2. QED BY <2>1, Zenon
<1>4. PICK x \in S : m = n - x
  BY Zenon
<1>5. ASSUME NEW y \in S PROVE x >= y
  <2>1. n - y \in T
    OBVIOUS
  <2>2. m <= n - y
    BY <1>3, <2>1, Zenon
  <2>3. QED BY <1>4, <2>2
<1>6. QED BY <1>4, <1>5, Zenon DEF Max

\* A function on n numbers has at most n values.
LEMMA Images ==
  ASSUME NEW n \in Nat, NEW T, NEW f \in [1..n -> T]
  PROVE  IsFiniteSet({f[j] : j \in 1..n}) /\ Cardinality({f[j] : j \in 1..n}) <= n
<1>1. f \in Surjection(1..n, {f[j] : j \in 1..n})
  BY Zenon DEF Surjection
<1>2. IsFiniteSet(1..n) /\ Cardinality(1..n) = n
  BY FS_Interval
<1>3. QED BY <1>1, <1>2, FS_Surjection

(***************************************************************************)
(* The window.                                                             *)
(***************************************************************************)
\* InOrder is the end of the bytes that have come without a gap.
LEMMA InOrderEnd ==
  ASSUME DownloadConstants, NEW a \in Attempts, Bounded(a)
  PROVE  /\ InOrder(a) \in a.at..a.next
         /\ \A p \in a.at..(InOrder(a) - 1) : \E d \in a.reorder : Within(d, p)
         /\ \A d \in a.reorder : ~Within(d, InOrder(a))
<1> DEFINE E == {e \in a.at..Total : \A p \in a.at..(e - 1) : \E d \in a.reorder : p \in d.at..(d.at + d.len - 1)}
           end == Max(E)
<1>0. a.at \in Nat /\ a.next \in Nat /\ a.reorder \in SUBSET Ranges /\ Total \in Nat /\ a.at <= a.next /\ a.next <= Total
  BY Zenon DEF DownloadConstants, Attempts, Bounded
<1>1. E \in SUBSET Nat /\ \A x \in E : x <= Total
  BY <1>0
<1>2. a.at \in E
  BY <1>0
<1>3. end \in E /\ \A y \in E : y <= end
  <2> HIDE DEF E
  <2>1. QED BY <1>0, <1>1, <1>2, Greatest, Zenon
<1>4. InOrder(a) = end
  BY Zenon DEF InOrder
<1>5. ASSUME NEW d \in a.reorder PROVE d.at \in Nat /\ d.len \in Nat \ {0} /\ a.at <= d.at /\ d.at + d.len <= a.next
  BY <1>0, Zenon DEF Ranges, Bounded
<1>6. end \in a.at..Total /\ \A p \in a.at..(end - 1) : \E d \in a.reorder : p \in d.at..(d.at + d.len - 1)
  BY <1>3, Zenon
<1>7. ASSUME NEW e \in a.at..Total, \A p \in a.at..(e - 1) : \E d \in a.reorder : p \in d.at..(d.at + d.len - 1) PROVE e <= end
  BY <1>3, <1>7, Zenon
<1> HIDE DEF E, end
<1>8. \A p \in a.at..(end - 1) : \E d \in a.reorder : Within(d, p)
  <2>1. ASSUME NEW p \in a.at..(end - 1) PROVE \E d \in a.reorder : Within(d, p)
    <3>1. PICK d \in a.reorder : p \in d.at..(d.at + d.len - 1)
      BY <1>6, Zenon
    <3>2. QED BY <1>0, <1>5, <1>6, <3>1 DEF Within
  <2>2. QED BY <2>1
<1>9. end <= a.next
  <2>1. SUFFICES ASSUME end > a.next PROVE FALSE
    BY <1>0, <1>6
  <2>2. a.next \in a.at..(end - 1)
    BY <1>0, <1>6, <2>1
  <2>3. PICK d \in a.reorder : Within(d, a.next)
    BY <1>8, <2>2, Zenon
  <2>4. QED BY <1>0, <1>5, <2>3 DEF Within
<1>10. ASSUME NEW d \in a.reorder, Within(d, end) PROVE FALSE
  <2>1. end < a.next
    BY <1>0, <1>5, <1>6, <1>10 DEF Within
  <2>2. end + 1 \in a.at..Total
    BY <1>0, <1>6, <2>1
  <2>3. ASSUME NEW p \in a.at..((end + 1) - 1) PROVE \E x \in a.reorder : p \in x.at..(x.at + x.len - 1)
    <3>1. CASE p = end
      <4>1. end \in d.at..(d.at + d.len - 1)
        BY <1>0, <1>5, <1>6, <1>10 DEF Within
      <4>2. QED BY <3>1, <4>1
    <3>2. CASE p # end
      <4>1. p \in a.at..(end - 1)
        BY <1>0, <1>6, <3>2
      <4>2. QED BY <1>6, <4>1, Zenon
    <3>3. QED BY <3>1, <3>2, Zenon
  <2>4. end + 1 <= end
    BY <1>7, <2>2, <2>3, Zenon
  <2>5. QED BY <1>0, <1>6, <2>4
<1>11. QED BY <1>0, <1>4, <1>6, <1>8, <1>9, <1>10

\* What is in order goes, and what stays is beyond it.
Ready(a) == {d \in a.reorder : d.at < InOrder(a)}
Ordered(a) == [a EXCEPT !.pc = "check", !.at = InOrder(a), !.reorder = @ \ Ready(a)]

\* Putting in order keeps the window, and moves the cursor to the first gap.
LEMMA OrderedWindow ==
  ASSUME DownloadConstants, NEW a \in Attempts, Window(a), NEW b, b = Ordered(a)
  PROVE  /\ b \in Attempts /\ Window(b) /\ Waits(b) /\ b.at = InOrder(a) /\ b.pc = "check" /\ b.eof = a.eof
         /\ InOrder(a) \in a.at..a.next
         /\ Ready(a) = {} => InOrder(a) = a.at
         /\ Ready(a) # {} => Max({d.at : d \in Ready(a)}) \in a.at..InOrder(a)
<1> DEFINE end == InOrder(a)
           ready == Ready(a)
<1>a. end = InOrder(a) /\ ready = {d \in a.reorder : d.at < end} /\ b = [a EXCEPT !.pc = "check", !.at = end, !.reorder = @ \ ready]
  BY DEF Ordered, Ready
<1> HIDE DEF end, ready
<1>0. /\ a.at \in Nat /\ a.next \in Nat /\ a.reorder \in SUBSET Ranges /\ a.fly \in SUBSET Ranges /\ a.missing \in Seq(Ranges)
      /\ Bounded(a) /\ Disjoint(a) /\ Covers(a)
  BY Zenon DEF Attempts, Window
<1>1. /\ end \in a.at..a.next
      /\ \A p \in a.at..(end - 1) : \E d \in a.reorder : Within(d, p)
      /\ \A d \in a.reorder : ~Within(d, end)
  BY <1>0, <1>a, InOrderEnd, Zenon
<1>2. end \in Nat /\ a.at <= end /\ end <= a.next
  BY <1>0, <1>1
<1>3. /\ b.at = end /\ b.reorder = a.reorder \ ready /\ b.next = a.next /\ b.fly = a.fly /\ b.missing = a.missing /\ b.eof = a.eof
      /\ b \in Attempts /\ b.pc = "check"
  <2>1. a.reorder \ ready \in SUBSET Ranges
    BY <1>0, Zenon
  <2>2. b = [pc |-> "check", offset |-> a.offset, next |-> a.next, at |-> end, fly |-> a.fly, reorder |-> a.reorder \ ready,
             missing |-> a.missing, eof |-> a.eof]
    BY <1>a, Zenon DEF Attempts
  <2>3. a.offset \in Nat /\ a.eof \in BOOLEAN
    BY Zenon DEF Attempts
  <2>4. QED BY <1>0, <1>2, <2>1, <2>2, <2>3 DEF Attempts, Pcs
<1>4. \A x \in a.fly \cup a.reorder : x.at \in Nat /\ x.len \in Nat \ {0} /\ a.at <= x.at /\ x.at + x.len <= a.next
  BY <1>0, Zenon DEF Ranges, Bounded
<1>5. \A j \in DOMAIN a.missing : a.missing[j] \in Ranges
  BY <1>0
<1>6. \A j \in DOMAIN a.missing : a.missing[j].at \in Nat /\ a.missing[j].len \in Nat \ {0} /\ a.at <= a.missing[j].at /\ a.missing[j].at + a.missing[j].len <= a.next
  BY <1>0, <1>5 DEF Ranges, Bounded
<1>7. ASSUME NEW x \in a.fly PROVE end <= x.at
  <2>1. SUFFICES ASSUME x.at < end PROVE FALSE
    BY <1>2, <1>4, <1>7
  <2>2. x.at \in a.at..(end - 1)
    BY <1>0, <1>2, <1>4, <2>1
  <2>3. PICK d \in a.reorder : Within(d, x.at)
    BY <1>1, <2>2
  <2>4. Apart(x, d)
    BY <1>0, Zenon DEF Disjoint
  <2>5. QED BY <1>4, <2>3, <2>4 DEF Apart, Within
<1>8. ASSUME NEW j \in DOMAIN a.missing PROVE end <= a.missing[j].at
  <2>1. SUFFICES ASSUME a.missing[j].at < end PROVE FALSE
    BY <1>2, <1>6, <1>8
  <2>2. a.missing[j].at \in a.at..(end - 1)
    BY <1>0, <1>2, <1>6, <2>1
  <2>3. PICK d \in a.reorder : Within(d, a.missing[j].at)
    BY <1>1, <2>2
  <2>4. Apart(d, a.missing[j])
    BY <1>0, Zenon DEF Disjoint
  <2>5. QED BY <1>4, <1>6, <2>3, <2>4 DEF Apart, Within
<1>9. ASSUME NEW x \in a.reorder, x \notin ready PROVE end < x.at
  <2>1. end <= x.at
    BY <1>2, <1>4, <1>9, <1>a
  <2>2. ~Within(x, end)
    BY <1>1, Zenon
  <2>3. QED BY <1>2, <1>4, <2>1, <2>2 DEF Within
<1>10. ASSUME NEW x \in ready PROVE x.at + x.len <= end
  <2>1. x \in a.reorder /\ x.at < end /\ ~Within(x, end)
    BY <1>1, <1>a, Zenon
  <2>2. QED BY <1>2, <1>4, <2>1 DEF Within
<1>11. Bounded(b)
  <2>1. \A x \in b.fly \cup b.reorder : b.at <= x.at /\ x.at + x.len <= b.next
    BY <1>2, <1>3, <1>4, <1>7, <1>9
  <2>2. \A j \in DOMAIN b.missing : b.at <= b.missing[j].at /\ b.missing[j].at + b.missing[j].len <= b.next
    BY <1>3, <1>6, <1>8, Zenon
  <2>3. IsFiniteSet(b.fly) /\ Cardinality(b.fly) <= ReadAhead /\ b.at <= b.next /\ b.next <= Total
    BY <1>0, <1>2, <1>3, Zenon DEF Bounded
  <2>4. QED BY <2>1, <2>2, <2>3 DEF Bounded
<1>12. Disjoint(b)
  BY <1>0, <1>3, Zenon DEF Disjoint
<1>13. Covers(b)
  <2>1. SUFFICES ASSUME ~b.eof, NEW p \in b.at..(b.next - 1)
                 PROVE  (\E x \in b.fly \cup b.reorder : Within(x, p)) \/ (\E j \in DOMAIN b.missing : Within(b.missing[j], p))
    BY DEF Covers
  <2>2. p \in a.at..(a.next - 1) /\ ~(p < end) /\ p \in Nat
    BY <1>0, <1>2, <1>3, <2>1
  <2>3. (\E x \in a.fly \cup a.reorder : Within(x, p)) \/ (\E j \in DOMAIN a.missing : Within(a.missing[j], p))
    BY <1>0, <1>3, <2>1, <2>2 DEF Covers
  <2>4. ASSUME NEW x \in ready, Within(x, p) PROVE FALSE
    BY <1>2, <1>4, <1>10, <1>a, <2>2, <2>4 DEF Within
  <2>5. QED BY <1>3, <2>3, <2>4
<1>14. Waits(b)
  BY <1>3, <1>9, Zenon DEF Waits
<1>15. ASSUME ready = {} PROVE end = a.at
  <2>1. SUFFICES ASSUME a.at < end PROVE FALSE
    BY <1>0, <1>2
  <2>2. a.at \in a.at..(end - 1)
    BY <1>0, <1>2, <2>1
  <2>3. PICK d \in a.reorder : Within(d, a.at)
    BY <1>1, <2>2, Zenon
  <2>4. d.at < end
    BY <1>0, <1>2, <1>4, <2>1, <2>3 DEF Within
  <2>5. QED BY <1>15, <1>a, <2>4, Zenon
<1>16. ASSUME ready # {} PROVE Max({d.at : d \in ready}) \in a.at..end
  <2> DEFINE S == {d.at : d \in ready}
  <2>1. \A d \in ready : d.at \in Nat /\ a.at <= d.at /\ d.at <= end
    BY <1>2, <1>4, <1>a
  <2>2. S \in SUBSET Nat /\ S # {} /\ \A x \in S : x <= end /\ a.at <= x
    BY <1>16, <2>1, Zenon
  <2> HIDE DEF S
  <2>3. Max(S) \in S
    BY <1>2, <2>2, Greatest, Zenon
  <2>4. QED BY <1>0, <1>2, <2>2, <2>3 DEF S
<1>17. QED BY <1>1, <1>3, <1>a, <1>11, <1>12, <1>13, <1>14, <1>15, <1>16 DEF Window, end, ready

\* A read that is answered: what it brought is kept, the rest is missing.
LEMMA ReceivedWindow ==
  ASSUME DownloadConstants, att \in Attempts, Window(att), NEW r \in att.fly, NEW got \in 1..r.len,
         NEW a, a = Received(r, got)
  PROVE  a \in Attempts /\ Window(a) /\ a.at = att.at /\ a.eof = att.eof
<1> DEFINE d == [at |-> r.at, len |-> got]
           m == [at |-> r.at + got, len |-> r.len - got]
<1>0. /\ att.at \in Nat /\ att.next \in Nat /\ att.reorder \in SUBSET Ranges /\ att.fly \in SUBSET Ranges /\ att.missing \in Seq(Ranges)
      /\ Bounded(att) /\ Disjoint(att) /\ Covers(att)
  BY Zenon DEF Attempts, Window
<1>1. r \in Ranges /\ r.at \in Nat /\ r.len \in Nat \ {0} /\ got \in Nat \ {0} /\ got <= r.len /\ att.at <= r.at /\ r.at + r.len <= att.next
  <2>1. r \in Ranges /\ att.at <= r.at /\ r.at + r.len <= att.next
    BY <1>0, Zenon DEF Bounded
  <2>2. r.at \in Nat /\ r.len \in Nat \ {0}
    BY <2>1, Zenon DEF Ranges
  <2>3. QED BY <2>1, <2>2
<1>2. d \in Ranges /\ d.at = r.at /\ d.len = got
  BY <1>1, Zenon DEF Ranges
<1>3. got < r.len => m \in Ranges
  BY <1>1 DEF Ranges
<1>3a. m.at = r.at + got /\ m.len = r.len - got
  BY Zenon
<1> HIDE DEF d, m
<1>4. a = [att EXCEPT !.fly = @ \ {r}, !.reorder = @ \cup {d}, !.missing = IF got < r.len THEN Append(@, m) ELSE @]
  BY Zenon DEF Received, d, m
<1>5. /\ a.fly = att.fly \ {r} /\ a.reorder = att.reorder \cup {d}
      /\ a.missing = IF got < r.len THEN Append(att.missing, m) ELSE att.missing
      /\ a.at = att.at /\ a.next = att.next /\ a.eof = att.eof /\ a.pc = att.pc /\ a.offset = att.offset
  BY <1>4 DEF Attempts
<1>6. a.missing \in Seq(Ranges)
  <2> HIDE DEF Ranges
  <2>1. CASE got < r.len
    BY <1>0, <1>3, <1>5, <2>1
  <2>2. CASE ~(got < r.len)
    BY <1>0, <1>5, <2>2, Zenon
  <2>3. QED BY <2>1, <2>2, Zenon
<1>7. a \in Attempts
  <2>1. a.fly \in SUBSET Ranges /\ a.reorder \in SUBSET Ranges
    BY <1>0, <1>2, <1>5, Zenon
  <2>2. a = [att EXCEPT !.fly = a.fly, !.reorder = a.reorder, !.missing = a.missing]
    BY <1>4, <1>5, Zenon
  <2>3. QED BY <1>6, <2>1, <2>2, Zenon DEF Attempts
<1>8. ASSUME NEW j \in DOMAIN a.missing
      PROVE  (j \in DOMAIN att.missing /\ a.missing[j] = att.missing[j]) \/ (got < r.len /\ j = Len(att.missing) + 1 /\ a.missing[j] = m)
  <2> HIDE DEF Ranges
  <2>1. CASE got < r.len
    BY <1>0, <1>3, <1>5, <1>8, <2>1
  <2>2. CASE ~(got < r.len)
    BY <1>5, <1>8, <2>2, Zenon
  <2>3. QED BY <2>1, <2>2
<1>9. ASSUME NEW j \in DOMAIN att.missing PROVE j \in DOMAIN a.missing /\ a.missing[j] = att.missing[j]
  <2> HIDE DEF Ranges
  <2>1. CASE got < r.len
    BY <1>0, <1>3, <1>5, <1>9, <2>1
  <2>2. CASE ~(got < r.len)
    BY <1>5, <1>9, <2>2, Zenon
  <2>3. QED BY <2>1, <2>2
<1>10. ASSUME got < r.len PROVE \E j \in DOMAIN a.missing : a.missing[j] = m
  <2> HIDE DEF Ranges
  <2>1. Len(att.missing) + 1 \in DOMAIN a.missing /\ a.missing[Len(att.missing) + 1] = m
    BY <1>0, <1>3, <1>5, <1>10
  <2>2. QED BY <2>1, SMTT(30)
<1>11. \A x \in att.fly \cup att.reorder : x.at \in Nat /\ x.len \in Nat \ {0} /\ att.at <= x.at /\ x.at + x.len <= att.next
  BY <1>0, Zenon DEF Ranges, Bounded
<1>12. \A j \in DOMAIN att.missing : att.missing[j] \in Ranges
  BY <1>0
<1>13. \A j \in DOMAIN att.missing : att.missing[j].at \in Nat /\ att.missing[j].len \in Nat \ {0} /\ att.at <= att.missing[j].at /\ att.missing[j].at + att.missing[j].len <= att.next
  BY <1>0, <1>12, Zenon DEF Ranges, Bounded
<1>14. Bounded(a)
  <2>1. IsFiniteSet(a.fly) /\ Cardinality(a.fly) <= ReadAhead
    <3>1. IsFiniteSet(att.fly) /\ Cardinality(att.fly) <= ReadAhead
      BY <1>0, Zenon DEF Bounded
    <3>2. Cardinality(att.fly) \in Nat
      BY <3>1, FS_CardinalityType, Zenon
    <3>3. IsFiniteSet(a.fly) /\ Cardinality(a.fly) = Cardinality(att.fly) - 1
      BY <1>5, <3>1, FS_RemoveElement, Zenon
    <3>4. QED BY <3>1, <3>2, <3>3 DEF DownloadConstants
  <2>2. \A x \in a.fly \cup a.reorder : a.at <= x.at /\ x.at + x.len <= a.next
    <3>1. d.at + d.len <= att.next
      BY <1>0, <1>1, <1>2
    <3>2. QED BY <1>1, <1>2, <1>5, <1>11, <3>1
  <2>3. ASSUME NEW j \in DOMAIN a.missing PROVE a.at <= a.missing[j].at /\ a.missing[j].at + a.missing[j].len <= a.next
    <3>1. CASE j \in DOMAIN att.missing /\ a.missing[j] = att.missing[j]
      BY <1>5, <1>13, <3>1, Zenon
    <3>2. CASE a.missing[j] = m
      <4>1. att.at <= m.at /\ m.at + m.len <= att.next
        BY <1>0, <1>1, <1>3a
      <4>2. QED BY <1>5, <3>2, <4>1
    <3>3. QED BY <1>8, <3>1, <3>2, Zenon
  <2>4. a.at <= a.next /\ a.next <= Total
    BY <1>0, <1>5, Zenon DEF Bounded
  <2>5. QED BY <2>1, <2>2, <2>3, <2>4, Zenon DEF Bounded
<1>15. ASSUME NEW y, y.at \in Nat, y.len \in Nat \ {0}, Apart(r, y) \/ Apart(y, r)
       PROVE  Apart(d, y) /\ Apart(y, d) /\ Apart(m, y) /\ Apart(y, m)
  BY <1>1, <1>2, <1>3a, <1>15 DEF Apart
<1>16. Apart(d, m)
  BY <1>1, <1>2, <1>3a, SMTT(30) DEF Apart
<1>17. Disjoint(a)
  <2>1. \A x, y \in a.fly : x = y \/ Apart(x, y)
    BY <1>0, <1>5 DEF Disjoint
  <2>2. ASSUME NEW x \in a.fly, NEW y \in a.reorder PROVE Apart(x, y)
    <3>1. x \in att.fly /\ x # r /\ x.at \in Nat /\ x.len \in Nat \ {0}
      BY <1>5, <1>11, Zenon
    <3>2. CASE y \in att.reorder
      BY <1>0, <3>1, <3>2 DEF Disjoint
    <3>3. CASE y = d
      <4>1. Apart(x, r)
        BY <1>0, <3>1, Zenon DEF Disjoint
      <4>2. QED BY <1>15, <3>1, <3>3, <4>1
    <3>4. QED BY <1>5, <3>2, <3>3, Zenon
  <2>3. ASSUME NEW x \in a.fly \cup a.reorder, NEW j \in DOMAIN a.missing PROVE Apart(x, a.missing[j])
    <3>1. CASE j \in DOMAIN att.missing /\ a.missing[j] = att.missing[j]
      <4>1. CASE x \in att.fly \cup att.reorder
        BY <1>0, <3>1, <4>1, SMTT(30) DEF Disjoint
      <4>2. CASE x = d
        <5>1. Apart(r, att.missing[j])
          BY <1>0, <3>1, Zenon DEF Disjoint
        <5>2. QED BY <1>13, <1>15, <3>1, <4>2, <5>1
      <4>3. QED BY <1>5, <4>1, <4>2
    <3>2. CASE a.missing[j] = m
      <4>1. CASE x = d
        BY <1>16, <3>2, <4>1
      <4>2. CASE x # d
        <5>1. x \in att.fly \cup att.reorder /\ x.at \in Nat /\ x.len \in Nat \ {0} /\ (x \in att.fly => x # r \/ x \in att.reorder)
          BY <1>5, <1>11, <4>2, SMTT(30)
        <5>2. Apart(x, r) \/ Apart(r, x)
          BY <1>0, <1>5, <2>3, <4>2, <5>1 DEF Disjoint
        <5>3. QED BY <1>15, <3>2, <5>1, <5>2
      <4>3. QED BY <4>1, <4>2, Zenon
    <3>3. QED BY <1>8, <3>1, <3>2
  <2>4. ASSUME NEW i \in DOMAIN a.missing, NEW j \in DOMAIN a.missing, i # j PROVE Apart(a.missing[i], a.missing[j])
    <3>1. ASSUME NEW k \in DOMAIN att.missing PROVE Apart(m, att.missing[k]) /\ Apart(att.missing[k], m)
      <4>1. Apart(r, att.missing[k])
        BY <1>0 DEF Disjoint
      <4>2. QED BY <1>13, <1>15, <4>1, Zenon
    <3>2. CASE i \in DOMAIN att.missing /\ a.missing[i] = att.missing[i] /\ j \in DOMAIN att.missing /\ a.missing[j] = att.missing[j]
      BY <1>0, <2>4, <3>2 DEF Disjoint
    <3>3. CASE i \in DOMAIN att.missing /\ a.missing[i] = att.missing[i] /\ a.missing[j] = m
      BY <3>1, <3>3, Zenon
    <3>4. CASE a.missing[i] = m /\ j \in DOMAIN att.missing /\ a.missing[j] = att.missing[j]
      BY <3>1, <3>4
    <3>5. QED BY <1>8, <2>4, <3>2, <3>3, <3>4
  <2>5. QED BY <2>1, <2>2, <2>3, <2>4, Zenon DEF Disjoint
<1>18. Covers(a)
  <2>1. SUFFICES ASSUME ~a.eof, NEW p \in a.at..(a.next - 1)
                 PROVE  (\E x \in a.fly \cup a.reorder : Within(x, p)) \/ (\E j \in DOMAIN a.missing : Within(a.missing[j], p))
    BY Zenon DEF Covers
  <2>2. (\E x \in att.fly \cup att.reorder : Within(x, p)) \/ (\E j \in DOMAIN att.missing : Within(att.missing[j], p))
    BY <1>0, <1>5, <2>1 DEF Covers
  <2>3. p \in Nat
    BY <1>0, <1>5
  <2>4. ASSUME Within(r, p) PROVE Within(d, p) \/ (got < r.len /\ Within(m, p))
    BY <1>1, <1>2, <1>3a, <2>3, <2>4 DEF Within
  <2>5. QED BY <1>5, <1>9, <1>10, <2>2, <2>4, SMTT(30)
<1>19. QED BY <1>5, <1>7, <1>14, <1>17, <1>18 DEF Window

\* The window is filled with what is missing, and then with what is new.
LEMMA IssuedWindow ==
  ASSUME DownloadConstants, NEW a \in Attempts, Window(a), NEW b, b = Issued(a)
  PROVE  /\ b \in Attempts /\ Window(b) /\ Filled(b)
         /\ b.at = a.at /\ b.pc = a.pc /\ b.eof = a.eof /\ b.reorder = a.reorder
<1> DEFINE free == ReadAhead - Cardinality(a.fly)
           again == Least(free, Len(a.missing))
           chunks == (Total - a.next + Chunk - 1) \div Chunk
           fresh == Least(free - again, chunks)
           Fresh(j) == [at |-> a.next + j * Chunk, len |-> Least(Chunk, Total - (a.next + j * Chunk))]
           Again(j) == [at |-> a.missing[j].at, len |-> a.missing[j].len]
           A == {Again(j) : j \in 1..again}
           F == {Fresh(j) : j \in 0..(fresh - 1)}
           top == Least(Total, a.next + fresh * Chunk)
<1>0. /\ a.at \in Nat /\ a.next \in Nat /\ a.reorder \in SUBSET Ranges /\ a.fly \in SUBSET Ranges /\ a.missing \in Seq(Ranges)
      /\ Bounded(a) /\ Disjoint(a) /\ Covers(a) /\ a.eof \in BOOLEAN
  BY Zenon DEF Attempts, Window
<1>1. CASE a.eof
  <2>1. b = a
    BY <1>1 DEF Issued
  <2>2. QED BY <1>1, <2>1, Zenon DEF Filled
<1>2. CASE ~a.eof
  <2>1. b = [a EXCEPT !.next = top, !.missing = SubSeq(@, again + 1, Len(@)), !.fly = (@ \cup A) \cup F]
    BY <1>2, Zenon DEF Issued
  <2>2. IsFiniteSet(a.fly) /\ Cardinality(a.fly) \in Nat /\ Cardinality(a.fly) <= ReadAhead /\ a.at <= a.next /\ a.next <= Total
    BY <1>0, FS_CardinalityType DEF Bounded
  <2>3. free \in Nat /\ Len(a.missing) \in Nat
    BY <1>0, <2>2 DEF DownloadConstants
  <2>4. again \in Nat /\ again <= free /\ again <= Len(a.missing) /\ (again = free \/ again = Len(a.missing))
    BY <2>3 DEF Least
  <2>5. chunks \in Nat /\ chunks * Chunk <= Total - a.next + Chunk - 1 /\ (chunks = 0 => a.next = Total)
    <3>1. Total - a.next + Chunk - 1 \in Nat
      BY <1>0, <2>2 DEF DownloadConstants
    <3>2. chunks \in Nat /\ chunks * Chunk <= Total - a.next + Chunk - 1 /\ Total - a.next + Chunk - 1 < chunks * Chunk + Chunk
      BY <3>1, DivBounds, Zenon DEF DownloadConstants
    <3> HIDE DEF chunks
    <3>3. chunks = 0 => a.next = Total
      BY <1>0, <2>2, <3>2 DEF DownloadConstants
    <3>4. QED BY <3>2, <3>3, Zenon
  <2> HIDE DEF chunks
  <2>6. fresh \in Nat /\ fresh <= free - again /\ fresh <= chunks /\ (fresh = free - again \/ fresh = chunks)
    BY <2>3, <2>4, <2>5 DEF Least
  <2> HIDE DEF free, again, fresh
  <2>7. ASSUME NEW j \in 0..(fresh - 1)
        PROVE  /\ j \in Nat /\ j + 1 <= fresh /\ j * Chunk \in Nat /\ (j + 1) * Chunk = j * Chunk + Chunk
               /\ a.next + j * Chunk < Total /\ (j + 1) * Chunk <= fresh * Chunk
    <3>1. j \in Nat /\ j + 1 \in Nat /\ j + 1 <= fresh /\ j + 1 <= chunks /\ Chunk \in Nat /\ Total \in Nat
      BY <2>5, <2>6 DEF DownloadConstants
    <3>2. j * Chunk \in Nat /\ (j + 1) * Chunk = j * Chunk + Chunk
      BY <3>1, TimesNext, TimesMono
    <3>3. (j + 1) * Chunk <= chunks * Chunk
      BY <2>5, <3>1, TimesMono, Zenon
    <3>4. (j + 1) * Chunk <= fresh * Chunk
      BY <2>6, <3>1, TimesMono, Zenon
    <3>5. chunks * Chunk \in Nat
      BY <2>5, <3>1
    <3>6. a.next + j * Chunk < Total
      <4> DEFINE x == j * Chunk
                 y == chunks * Chunk
                 z == (j + 1) * Chunk
      <4>1. x \in Nat /\ y \in Nat /\ z = x + Chunk /\ z <= y /\ y <= Total - a.next + Chunk - 1
        BY <2>5, <3>2, <3>3, <3>5
      <4> HIDE DEF x, y, z
      <4>2. a.next + x < Total
        BY <1>0, <2>2, <3>1, <4>1
      <4>3. QED BY <4>2, Zenon DEF x
    <3>7. QED BY <3>1, <3>2, <3>4, <3>6
  <2>8. fresh * Chunk \in Nat /\ Chunk \in Nat \ {0} /\ Total \in Nat
    BY <2>6, TimesMono, Zenon DEF DownloadConstants
  <2>9. top \in Nat /\ a.next <= top /\ top <= Total /\ top <= a.next + fresh * Chunk
    BY <1>0, <2>2, <2>8 DEF Least
  <2>10. ASSUME NEW j \in 0..(fresh - 1)
         PROVE  /\ Fresh(j) \in Ranges /\ Fresh(j).at = a.next + j * Chunk
                /\ Fresh(j).at + Fresh(j).len <= a.next + (j + 1) * Chunk
                /\ Fresh(j).at + Fresh(j).len <= top
                /\ \A p \in Nat : p < Total /\ a.next + j * Chunk <= p /\ p < a.next + (j + 1) * Chunk => Within(Fresh(j), p)
    <3>1. /\ j \in Nat /\ j * Chunk \in Nat /\ (j + 1) * Chunk = j * Chunk + Chunk
          /\ a.next + j * Chunk < Total /\ (j + 1) * Chunk <= fresh * Chunk
      BY <2>7, Zenon
    <3> DEFINE at == a.next + j * Chunk
               len == Least(Chunk, Total - at)
    <3>2. at \in Nat /\ at < Total /\ a.next + (j + 1) * Chunk = at + Chunk /\ at + Chunk <= a.next + fresh * Chunk
      <4> DEFINE x == j * Chunk
                 y == fresh * Chunk
                 z == (j + 1) * Chunk
      <4>1. x \in Nat /\ y \in Nat /\ z = x + Chunk /\ z <= y /\ a.next + x < Total
        BY <2>8, <3>1
      <4> HIDE DEF x, y, z
      <4>2. a.next + x \in Nat /\ a.next + x < Total /\ a.next + z = (a.next + x) + Chunk /\ (a.next + x) + Chunk <= a.next + y
        BY <1>0, <2>8, <4>1, SMTT(30)
      <4>3. QED BY <4>2, Zenon DEF x, y, z
    <3>3. len \in Nat \ {0} /\ len <= Chunk /\ len <= Total - at /\ (len = Chunk \/ len = Total - at)
      BY <2>8, <3>2 DEF Least
    <3>5. Fresh(j) = [at |-> at, len |-> len]
      BY Zenon
    <3> HIDE DEF at, len, Fresh
    <3>4. at + len <= top
      <4> DEFINE y == fresh * Chunk
      <4>1. y \in Nat /\ at + Chunk <= a.next + y /\ top = Least(Total, a.next + y)
        BY <2>8, <3>2, Zenon
      <4> HIDE DEF y, top
      <4>2. QED BY <1>0, <2>8, <3>2, <3>3, <4>1, SMTT(30) DEF Least
    <3>6. Fresh(j) \in Ranges /\ Fresh(j).at = at /\ Fresh(j).len = len
      BY <3>2, <3>3, <3>5 DEF Ranges
    <3> HIDE DEF top
    <3>7. ASSUME NEW p \in Nat, p < Total, at <= p, p < at + Chunk PROVE Within(Fresh(j), p)
      BY <2>8, <3>2, <3>3, <3>6, <3>7 DEF Within
    <3>8. at + len <= at + Chunk
      BY <2>8, <3>2, <3>3
    <3>9. at = a.next + j * Chunk
      BY Zenon DEF at
    <3>10. QED BY <3>2, <3>4, <3>6, <3>7, <3>8, <3>9, Zenon
  <2> HIDE DEF top, Fresh
  <2>11. ASSUME NEW j \in 1..again
         PROVE  j \in DOMAIN a.missing /\ a.missing[j] \in Ranges /\ Again(j) = a.missing[j]
    <3>1. j \in DOMAIN a.missing
      BY <1>0, <2>3, <2>4, <2>11
    <3>2. a.missing[j] \in Ranges
      BY <1>0, <3>1
    <3>3. QED BY <3>1, <3>2, Zenon DEF Ranges
  <2>12. IsFiniteSet(A) /\ Cardinality(A) <= again
    <3> DEFINE f == [j \in 1..again |-> Again(j)]
    <3>1. f \in [1..again -> Ranges] /\ A = {f[j] : j \in 1..again}
      BY <2>11, Zenon
    <3> HIDE DEF f, A
    <3>2. QED BY <2>4, <3>1, Images, Zenon
  <2>13. IsFiniteSet(F) /\ Cardinality(F) <= fresh
    <3> DEFINE f == [j \in 1..fresh |-> Fresh(j - 1)]
    <3>1. ASSUME NEW j \in 1..fresh PROVE j - 1 \in 0..(fresh - 1)
      BY <2>6
    <3>2. f \in [1..fresh -> Ranges]
      BY <2>10, <3>1
    <3>3. ASSUME NEW j \in 0..(fresh - 1) PROVE j + 1 \in 1..fresh /\ (j + 1) - 1 = j
      BY <2>6
    <3>4. F = {f[j] : j \in 1..fresh}
      <4>1. ASSUME NEW x \in F PROVE x \in {f[j] : j \in 1..fresh}
        <5>1. PICK j \in 0..(fresh - 1) : x = Fresh(j)
          BY Zenon
        <5>2. f[j + 1] = x
          BY <3>3, <5>1, Zenon
        <5>3. QED BY <3>3, <5>2
      <4>2. ASSUME NEW j \in 1..fresh PROVE f[j] \in F
        BY <3>1
      <4>3. QED BY <4>1, <4>2, Zenon
    <3> HIDE DEF f, F
    <3>5. QED BY <2>6, <3>2, <3>4, Images, Zenon
  <2>14. A \subseteq Ranges /\ F \subseteq Ranges
    BY <2>10, <2>11, SMTT(30)
  <2>15. ASSUME NEW x \in A PROVE \E j \in DOMAIN a.missing : j <= again /\ x = a.missing[j]
    <3>1. PICK j \in 1..again : x = Again(j)
      OBVIOUS
    <3>2. QED BY <2>4, <2>11, <3>1
  <2>16. ASSUME NEW j \in DOMAIN a.missing, j <= again PROVE a.missing[j] \in A
    <3>1. j \in 1..again
      BY <1>0, <2>4, <2>16
    <3>2. QED BY <2>11, <3>1, Zenon
  <2>17. ASSUME NEW x \in F PROVE x \in Ranges /\ x.at \in Nat /\ x.len \in Nat \ {0} /\ a.next <= x.at /\ x.at + x.len <= top
    <3>1. PICK j \in 0..(fresh - 1) : x = Fresh(j)
      BY Zenon
    <3>2. x \in Ranges /\ x.at = a.next + j * Chunk /\ x.at + x.len <= top /\ j * Chunk \in Nat
      BY <2>7, <2>10, <3>1, Zenon
    <3>3. x.at \in Nat /\ x.len \in Nat \ {0}
      BY <3>2 DEF Ranges
    <3>4. QED BY <1>0, <3>2, <3>3
  <2>18. ASSUME NEW x \in F, NEW y \in F PROVE x = y \/ Apart(x, y)
    <3>1. PICK i \in 0..(fresh - 1) : x = Fresh(i)
      BY Zenon
    <3>2. PICK j \in 0..(fresh - 1) : y = Fresh(j)
      OBVIOUS
    <3>3. ASSUME NEW k \in 0..(fresh - 1), NEW l \in 0..(fresh - 1), k < l
          PROVE  Fresh(k).at + Fresh(k).len <= Fresh(l).at
      <4>1. Fresh(k).at + Fresh(k).len <= a.next + (k + 1) * Chunk /\ Fresh(l).at = a.next + l * Chunk
        BY <2>10, Zenon
      <4>2. k \in Nat /\ l \in Nat /\ k + 1 \in Nat /\ k + 1 <= l
        BY <2>6, <3>3
      <4>3. (k + 1) * Chunk <= l * Chunk /\ (k + 1) * Chunk \in Nat /\ l * Chunk \in Nat
        BY <2>8, <4>2, TimesMono
      <4>4. Fresh(k) \in F /\ Fresh(l) \in F
        BY Zenon
      <4>5. Fresh(k).at \in Nat /\ Fresh(k).len \in Nat
        BY <2>17, <4>4, Zenon
      <4> DEFINE u == (k + 1) * Chunk
                 v == l * Chunk
                 g == Fresh(k).at
                 h == Fresh(k).len
      <4>6. u \in Nat /\ v \in Nat /\ u <= v /\ g + h <= a.next + u /\ g \in Nat /\ h \in Nat
        BY <4>1, <4>3, <4>5
      <4> HIDE DEF u, v, g, h
      <4>7. g + h <= a.next + v
        BY <1>0, <4>6, SMTT(30)
      <4>8. QED BY <4>1, <4>7 DEF g, h, v
    <3>4. CASE i = j
      BY <3>1, <3>2, <3>4, Zenon
    <3>5. CASE i < j
      BY <3>1, <3>2, <3>3, <3>5, Zenon DEF Apart
    <3>6. CASE j < i
      BY <3>1, <3>2, <3>3, <3>6 DEF Apart
    <3>7. i = j \/ i < j \/ j < i
      BY <2>6
    <3>8. QED BY <3>4, <3>5, <3>6, <3>7
  <2>19. ASSUME NEW p \in a.next..(top - 1) PROVE \E x \in F : Within(x, p)
    <3> DEFINE j == (p - a.next) \div Chunk
    <3>1. p - a.next \in Nat /\ p \in Nat /\ p < Total /\ a.next <= p /\ p - a.next < fresh * Chunk
      <4> DEFINE y == fresh * Chunk
      <4>1. y \in Nat /\ top <= a.next + y
        BY <2>8, <2>9, SMTT(30)
      <4> HIDE DEF y
      <4>2. p - a.next \in Nat /\ p \in Nat /\ p < Total /\ a.next <= p /\ p - a.next < y
        BY <1>0, <2>8, <2>9, <2>19, <4>1, SMTT(30)
      <4>3. QED BY <4>2 DEF y
    <3>2. j \in Nat /\ j * Chunk <= p - a.next /\ p - a.next < j * Chunk + Chunk
      BY <2>8, <3>1, DivBounds, Zenon
    <3> HIDE DEF j
    <3>3. j < fresh
      <4>1. SUFFICES ASSUME fresh <= j PROVE FALSE
        BY <2>6, <3>2
      <4>2. fresh * Chunk <= j * Chunk /\ j * Chunk \in Nat
        BY <2>6, <2>8, <3>2, <4>1, TimesMono
      <4> DEFINE x == j * Chunk
                 y == fresh * Chunk
      <4>3. x \in Nat /\ y \in Nat /\ y <= x /\ x <= p - a.next /\ p - a.next < y
        BY <2>8, <3>1, <3>2, <4>2, Zenon
      <4> HIDE DEF x, y
      <4>4. QED BY <3>1, <4>3
    <3>4. j \in 0..(fresh - 1)
      BY <2>6, <3>2, <3>3
    <3>5. a.next + j * Chunk <= p /\ p < a.next + (j + 1) * Chunk
      <4> DEFINE x == j * Chunk
                 z == (j + 1) * Chunk
      <4>1. x \in Nat /\ z = x + Chunk /\ x <= p - a.next /\ p - a.next < x + Chunk
        BY <2>7, <3>2, <3>4, SMTT(30)
      <4> HIDE DEF x, z
      <4>2. a.next + x <= p /\ p < a.next + z
        BY <1>0, <2>8, <3>1, <4>1
      <4>3. QED BY <4>2 DEF x, z
    <3>6. Within(Fresh(j), p) /\ Fresh(j) \in F
      BY <2>10, <3>1, <3>4, <3>5, SMTT(30)
    <3>7. QED BY <3>6, Zenon
  <2> DEFINE rest == SubSeq(a.missing, again + 1, Len(a.missing))
  <2>20. /\ rest \in Seq(Ranges)
         /\ \A i \in DOMAIN rest : i + again \in DOMAIN a.missing /\ i + again > again /\ rest[i] = a.missing[i + again]
         /\ \A j \in DOMAIN a.missing : j > again => j - again \in DOMAIN rest /\ rest[j - again] = a.missing[j]
         /\ (again = Len(a.missing) => rest = <<>>)
    <3> HIDE DEF Ranges
    <3>1. rest \in Seq(Ranges) /\ Len(rest) = Len(a.missing) - again
      BY <1>0, <2>3, <2>4
    <3>2. \A i \in 1..Len(rest) : rest[i] = a.missing[i + again]
      BY <1>0, <2>3, <2>4, <3>1
    <3> HIDE DEF rest
    <3>3. DOMAIN rest = 1..Len(rest) /\ DOMAIN a.missing = 1..Len(a.missing)
      BY <1>0, <3>1
    <3>4. \A i \in DOMAIN rest : i + again \in DOMAIN a.missing /\ i + again > again /\ rest[i] = a.missing[i + again]
      BY <2>3, <2>4, <3>1, <3>2, <3>3, SMTT(30)
    <3>5. ASSUME NEW j \in DOMAIN a.missing, j > again PROVE j - again \in DOMAIN rest /\ rest[j - again] = a.missing[j]
      <4>1. j - again \in 1..Len(rest) /\ (j - again) + again = j
        BY <2>3, <2>4, <3>1, <3>3, <3>5
      <4>2. QED BY <3>2, <3>3, <4>1, Zenon
    <3>6. again = Len(a.missing) => rest = <<>>
      BY <2>3, <3>1
    <3>7. QED BY <3>1, <3>4, <3>5, <3>6
  <2> HIDE DEF rest, A, F
  <2>21. /\ b.next = top /\ b.missing = rest /\ b.fly = (a.fly \cup A) \cup F
         /\ b.at = a.at /\ b.pc = a.pc /\ b.eof = a.eof /\ b.reorder = a.reorder /\ b.offset = a.offset
    BY <2>1, Zenon DEF Attempts, rest
  <2>22. b \in Attempts
    <3>1. b = [a EXCEPT !.next = b.next, !.missing = b.missing, !.fly = b.fly]
      BY <2>1, <2>21 DEF rest
    <3>2. b.next \in Nat /\ b.missing \in Seq(Ranges) /\ b.fly \in SUBSET Ranges
      BY <1>0, <2>9, <2>14, <2>20, <2>21, Zenon
    <3>3. QED BY <3>1, <3>2, ZenonT(30) DEF Attempts
  <2>23. IsFiniteSet(b.fly) /\ Cardinality(b.fly) <= ReadAhead
    <3>1. /\ IsFiniteSet(a.fly \cup A) /\ Cardinality(a.fly \cup A) = Cardinality(a.fly) + Cardinality(A) - Cardinality(a.fly \cap A)
          /\ Cardinality(a.fly \cap A) \in Nat /\ Cardinality(A) \in Nat
      BY <2>2, <2>12, FS_Union, FS_CardinalityType, FS_Intersection, Zenon
    <3>2. /\ IsFiniteSet((a.fly \cup A) \cup F)
          /\ Cardinality((a.fly \cup A) \cup F) = Cardinality(a.fly \cup A) + Cardinality(F) - Cardinality((a.fly \cup A) \cap F)
          /\ Cardinality((a.fly \cup A) \cap F) \in Nat /\ Cardinality(F) \in Nat /\ Cardinality(a.fly \cup A) \in Nat
      BY <2>13, <3>1, FS_Union, FS_CardinalityType, FS_Intersection, Zenon
    <3>3. free = ReadAhead - Cardinality(a.fly)
      BY DEF free
    <3>4. again + fresh <= free
      BY <2>3, <2>4, <2>6
    <3>5. again + fresh <= ReadAhead - Cardinality(a.fly) /\ ReadAhead \in Nat
      BY <3>3, <3>4, Zenon DEF DownloadConstants
    <3>6. Cardinality(a.fly \cup A) <= Cardinality(a.fly) + again
      BY <2>2, <2>4, <2>12, <3>1
    <3>7. Cardinality((a.fly \cup A) \cup F) <= Cardinality(a.fly \cup A) + fresh
      BY <2>6, <2>13, <3>2, SMTT(30)
    <3>8. Cardinality((a.fly \cup A) \cup F) \in Nat
      BY <3>2, FS_CardinalityType, Zenon
    <3>9. Cardinality((a.fly \cup A) \cup F) <= ReadAhead
      BY <2>2, <2>4, <2>6, <3>2, <3>5, <3>6, <3>7, <3>8, SMTT(30)
    <3>10. QED BY <2>21, <3>2, <3>9
  <2>24. Filled(b)
    <3>1. SUFFICES ASSUME b.fly = {} PROVE b.missing = <<>> /\ b.next = Total
      BY Zenon DEF Filled
    <3>2. a.fly = {} /\ A = {} /\ F = {}
      BY <2>21, <3>1, Zenon
    <3>3. free = ReadAhead
      BY <2>3, <3>2, FS_EmptySet DEF free, DownloadConstants
    <3>4. again = 0
      <4>1. SUFFICES ASSUME again > 0 PROVE FALSE
        BY <2>4
      <4>2. 1 \in 1..again
        BY <2>4, <4>1
      <4>3. Again(1) \in A
        BY <4>2 DEF A
      <4>4. QED BY <3>2, <4>3, Zenon
    <3>5. fresh = 0
      <4>1. SUFFICES ASSUME fresh > 0 PROVE FALSE
        BY <2>6
      <4>2. 0 \in 0..(fresh - 1)
        BY <2>6, <4>1
      <4>3. Fresh(0) \in F
        BY <4>2, Zenon DEF F
      <4>4. QED BY <3>2, <4>3, Zenon
    <3>6. again = Len(a.missing) /\ chunks = 0
      BY <2>3, <2>4, <2>5, <2>6, <3>3, <3>4, <3>5 DEF DownloadConstants
    <3>7. a.next = Total
      BY <2>5, <3>6, Zenon
    <3>8. QED BY <1>0, <2>8, <2>9, <2>20, <2>21, <3>6, <3>7
  <2>25. \A x \in a.fly \cup a.reorder : x.at \in Nat /\ x.len \in Nat \ {0} /\ a.at <= x.at /\ x.at + x.len <= a.next
    BY <1>0, Zenon DEF Ranges, Bounded
  <2>26. \A j \in DOMAIN a.missing : a.missing[j] \in Ranges
    BY <1>0, SMTT(30)
  <2>27. \A j \in DOMAIN a.missing : a.missing[j].at \in Nat /\ a.missing[j].len \in Nat \ {0} /\ a.at <= a.missing[j].at /\ a.missing[j].at + a.missing[j].len <= a.next
    BY <1>0, <2>26 DEF Ranges, Bounded
  <2>28. ASSUME NEW x \in b.fly \cup b.reorder
         PROVE  x \in a.fly \cup a.reorder \/ (\E j \in DOMAIN a.missing : j <= again /\ x = a.missing[j]) \/ x \in F
    BY <2>15, <2>21, <2>28, SMTT(30)
  <2>29. Bounded(b)
    <3>1. ASSUME NEW x \in b.fly \cup b.reorder PROVE a.at <= x.at /\ x.at + x.len <= top
      <4>1. CASE x \in a.fly \cup a.reorder
        BY <1>0, <2>9, <2>25, <4>1
      <4>2. CASE \E j \in DOMAIN a.missing : j <= again /\ x = a.missing[j]
        BY <1>0, <2>9, <2>27, <4>2, SMTT(30)
      <4>3. CASE x \in F
        BY <1>0, <2>2, <2>17, <4>3
      <4>4. QED BY <2>28, <3>1, <4>1, <4>2, <4>3, SMTT(30)
    <3>2. ASSUME NEW i \in DOMAIN rest PROVE a.at <= rest[i].at /\ rest[i].at + rest[i].len <= top
      <4>1. i + again \in DOMAIN a.missing /\ rest[i] = a.missing[i + again]
        BY <2>20
      <4> DEFINE x == a.missing[i + again]
      <4>2. x.at \in Nat /\ x.len \in Nat /\ a.at <= x.at /\ x.at + x.len <= a.next
        BY <2>27, <4>1, SMTT(30)
      <4> HIDE DEF x
      <4>3. a.at <= x.at /\ x.at + x.len <= top
        BY <1>0, <2>9, <4>2
      <4>4. QED BY <4>1, <4>3, SMTT(30) DEF x
    <3>3. a.at <= top /\ top <= Total
      BY <1>0, <2>2, <2>9, SMTT(30)
    <3>4. QED BY <2>21, <2>23, <3>1, <3>2, <3>3 DEF Bounded
  <2>30. ASSUME NEW x, x.at \in Nat, x.len \in Nat \ {0}, x.at + x.len <= a.next, NEW y \in F PROVE Apart(x, y) /\ Apart(y, x)
    BY <1>0, <2>17, <2>30, SMTT(30) DEF Apart
  <2>31. ASSUME NEW x \in a.fly \cup a.reorder, NEW j \in DOMAIN a.missing PROVE Apart(x, a.missing[j]) /\ Apart(a.missing[j], x)
    BY <1>0, <2>31, SMTT(30) DEF Disjoint, Apart
  <2>32. Disjoint(b)
    <3>1. ASSUME NEW x \in b.fly, NEW y \in b.fly, x # y PROVE Apart(x, y)
      <4>1. CASE x \in F
        <5>1. CASE y \in F
          BY <2>18, <3>1, <4>1, <5>1, SMTT(30)
        <5>2. CASE y \in a.fly
          BY <2>25, <2>30, <4>1, <5>2, Zenon
        <5>3. CASE y \in A
          BY <2>15, <2>27, <2>30, <4>1, <5>3, SMTT(30)
        <5>4. QED BY <2>21, <3>1, <5>1, <5>2, <5>3
      <4>2. CASE x \in a.fly
        <5>1. CASE y \in F
          BY <2>25, <2>30, <4>2, <5>1, SMTT(30)
        <5>2. CASE y \in a.fly
          BY <1>0, <3>1, <4>2, <5>2 DEF Disjoint
        <5>3. CASE y \in A
          BY <2>15, <2>31, <4>2, <5>3, SMTT(30)
        <5>4. QED BY <2>21, <3>1, <5>1, <5>2, <5>3, Zenon
      <4>3. CASE x \in A
        <5>1. CASE y \in F
          BY <2>15, <2>27, <2>30, <4>3, <5>1, SMTT(30)
        <5>2. CASE y \in a.fly
          BY <2>15, <2>31, <4>3, <5>2
        <5>3. CASE y \in A
          BY <1>0, <2>15, <3>1, <4>3, <5>3, SMTT(30) DEF Disjoint
        <5>4. QED BY <2>21, <3>1, <5>1, <5>2, <5>3, Zenon
      <4>4. QED BY <2>21, <3>1, <4>1, <4>2, <4>3, SMTT(30)
    <3>2. ASSUME NEW x \in b.fly, NEW y \in b.reorder PROVE Apart(x, y)
      <4>0. y \in a.reorder
        BY <2>21, SMTT(30)
      <4>1. CASE x \in F
        BY <2>25, <2>30, <4>0, <4>1
      <4>2. CASE x \in a.fly
        BY <1>0, <4>0, <4>2, SMTT(30) DEF Disjoint
      <4>3. CASE x \in A
        BY <2>15, <2>31, <4>0, <4>3
      <4>4. QED BY <2>21, <3>2, <4>1, <4>2, <4>3
    <3>3. ASSUME NEW x \in b.fly \cup b.reorder, NEW i \in DOMAIN rest PROVE Apart(x, rest[i])
      <4>0. i + again \in DOMAIN a.missing /\ i + again > again /\ rest[i] = a.missing[i + again]
        BY <2>20
      <4>1. CASE x \in F
        BY <2>27, <2>30, <4>0, <4>1, SMTT(30)
      <4>2. CASE x \in a.fly \cup a.reorder
        BY <2>31, <4>0, <4>2, Zenon
      <4>3. CASE \E j \in DOMAIN a.missing : j <= again /\ x = a.missing[j]
        <5>1. PICK j \in DOMAIN a.missing : j <= again /\ x = a.missing[j]
          BY <4>3
        <5>2. j # i + again
          BY <1>0, <2>4, <4>0, <5>1, SMTT(30)
        <5>3. QED BY <1>0, <4>0, <5>1, <5>2, SMTT(30) DEF Disjoint
      <4>4. QED BY <2>28, <3>3, <4>1, <4>2, <4>3, SMTT(30)
    <3>4. ASSUME NEW i \in DOMAIN rest, NEW j \in DOMAIN rest, i # j PROVE Apart(rest[i], rest[j])
      <4>1. i + again \in DOMAIN a.missing /\ rest[i] = a.missing[i + again] /\ j + again \in DOMAIN a.missing /\ rest[j] = a.missing[j + again]
        BY <2>20, Zenon
      <4>2. i \in Nat /\ j \in Nat
        BY <2>20
      <4>3. i + again # j + again
        BY <2>4, <3>4, <4>2
      <4>4. QED BY <1>0, <4>1, <4>3 DEF Disjoint
    <3>5. QED BY <2>21, <3>1, <3>2, <3>3, <3>4 DEF Disjoint
  <2>33. Covers(b)
    <3>1. SUFFICES ASSUME NEW p \in a.at..(top - 1)
                   PROVE  (\E x \in b.fly \cup b.reorder : Within(x, p)) \/ (\E i \in DOMAIN rest : Within(rest[i], p))
      BY <2>21 DEF Covers
    <3>2. CASE p < a.next
      <4>1. p \in a.at..(a.next - 1)
        BY <1>0, <2>9, <3>1, <3>2
      <4>2. (\E x \in a.fly \cup a.reorder : Within(x, p)) \/ (\E j \in DOMAIN a.missing : Within(a.missing[j], p))
        BY <1>0, <1>2, <4>1, SMTT(30) DEF Covers
      <4>3. CASE \E x \in a.fly \cup a.reorder : Within(x, p)
        BY <2>21, <4>3, Zenon
      <4>4. ASSUME NEW j \in DOMAIN a.missing, Within(a.missing[j], p)
            PROVE  (\E x \in b.fly : Within(x, p)) \/ (\E i \in DOMAIN rest : Within(rest[i], p))
        <5>1. CASE j <= again
          BY <2>16, <2>21, <4>4, <5>1, Zenon
        <5>2. CASE j > again
          BY <2>20, <4>4, <5>2, SMTT(30)
        <5>3. j \in Nat
          BY <1>0
        <5>4. QED BY <2>4, <5>1, <5>2, <5>3, SMTT(30)
      <4>5. QED BY <4>2, <4>3, <4>4, SMTT(30)
    <3>3. CASE ~(p < a.next)
      <4>1. p \in a.next..(top - 1)
        BY <1>0, <2>9, <3>1, <3>3
      <4>2. QED BY <2>19, <2>21, <4>1, SMTT(30)
    <3>4. QED BY <3>2, <3>3, SMTT(30)
  <2>34. QED BY <2>21, <2>22, <2>24, <2>29, <2>32, <2>33 DEF Window
<1>3. QED BY <1>0, <1>1, <1>2, Zenon

(***************************************************************************)
(* The steps of the pipeline.                                              *)
(***************************************************************************)
\* At first nothing is asked for.
LEMMA PipeInit ==
  ASSUME DownloadConstants, Init PROVE PipeInv
<1>1. att = NoAttempt /\ remote = Total /\ retries = 0 /\ Total \in Nat /\ MaxRetries \in Nat
  BY Zenon DEF Init, DownloadConstants
<1>2. att \in Attempts
  BY <1>1, SMTT(30) DEF NoAttempt, Attempts, Pcs
<1>3. QED BY <1>1, <1>2, SMTT(30) DEF PipeInv, NoAttempt

\* An attempt begins with an empty window.
LEMMA OpenedWindow ==
  ASSUME DownloadConstants, NEW a \in Attempts, a.fly = {}, a.reorder = {}, a.missing = <<>>, a.eof = FALSE, a.next <= Total, a.at = a.next
  PROVE  Window(a)
<1>0. a.at \in Nat /\ a.next \in Nat /\ Total \in Nat /\ ReadAhead \in Nat
  BY DEF Attempts, DownloadConstants
<1>1. IsFiniteSet(a.fly) /\ Cardinality(a.fly) <= ReadAhead
  BY <1>0, FS_EmptySet
<1>2. Bounded(a)
  BY <1>0, <1>1 DEF Bounded
<1>3. Disjoint(a)
  BY DEF Disjoint
<1>4. Covers(a)
  BY <1>0 DEF Covers
<1>5. QED BY <1>2, <1>3, <1>4 DEF Window

\* An empty answer is the end of the file.
LEMMA EmptiedWindow ==
  ASSUME DownloadConstants, att \in Attempts, Window(att), Waits(att), NEW r \in att.fly,
         NEW b, b = [att EXCEPT !.pc = "check", !.fly = @ \ {r}, !.eof = TRUE]
  PROVE  b \in Attempts /\ Window(b) /\ Waits(b) /\ Filled(b)
<1>0. att.fly \in SUBSET Ranges /\ Bounded(att) /\ Disjoint(att)
  BY DEF Attempts, Window
<1>1. /\ b.pc = "check" /\ b.fly = att.fly \ {r} /\ b.eof = TRUE
      /\ b.at = att.at /\ b.next = att.next /\ b.reorder = att.reorder /\ b.missing = att.missing
  BY Zenon DEF Attempts
<1>2. b \in Attempts
  BY <1>0, Zenon DEF Attempts, Pcs
<1>3. IsFiniteSet(b.fly) /\ Cardinality(b.fly) <= ReadAhead
  <2>1. IsFiniteSet(att.fly) /\ Cardinality(att.fly) <= ReadAhead /\ Cardinality(att.fly) \in Nat
    BY <1>0, FS_CardinalityType, Zenon DEF Bounded
  <2>2. IsFiniteSet(att.fly \ {r}) /\ Cardinality(att.fly \ {r}) = Cardinality(att.fly) - 1
    BY <2>1, FS_RemoveElement, Zenon
  <2>3. QED BY <1>1, <2>1, <2>2 DEF DownloadConstants
<1>4. Bounded(b)
  BY <1>0, <1>1, <1>3, Zenon DEF Bounded
<1>5. Disjoint(b)
  BY <1>0, <1>1 DEF Disjoint
<1>6. Covers(b)
  BY <1>1 DEF Covers
<1>7. QED BY <1>1, <1>2, <1>4, <1>5, <1>6, Zenon DEF Window, Waits, Filled

\* A window with nothing in flight that has not met the end has reached it.
LEMMA WindowEnds ==
  ASSUME DownloadConstants, att \in Attempts, Window(att), Waits(att), Filled(att), att.fly = {}, ~att.eof
  PROVE  att.at = Total
<1>1. att.at \in Nat /\ att.next = Total /\ att.at <= att.next /\ att.missing = <<>> /\ Total \in Nat /\ att.reorder \in SUBSET Ranges
  BY Zenon DEF Attempts, Window, Bounded, Filled, DownloadConstants
<1>2. SUFFICES ASSUME att.at < Total PROVE FALSE
  BY <1>1
<1>3. att.at \in att.at..(att.next - 1)
  BY <1>1, <1>2
<1>4. PICK x \in att.reorder : Within(x, att.at)
  BY <1>1, <1>3 DEF Window, Covers
<1>5. x.at \in Nat /\ x.at <= att.at /\ att.at < x.at
  BY <1>1, <1>4 DEF Within, Waits, Ranges
<1>6. QED BY <1>1, <1>5

\* An attempt that fails drops its window.
LEMMA PipeFails ==
  ASSUME DownloadConstants, PipeInv, Fail, UNCHANGED <<remote, retries>> PROVE PipeInv'
<1>1. att' = [NoAttempt EXCEPT !.pc = "ended"] /\ remote' = remote /\ retries' = retries /\ Total \in Nat
  BY DEF Fail, DownloadConstants
<1>2. att' = [pc |-> "ended", offset |-> 0, next |-> 0, at |-> 0, fly |-> {}, reorder |-> {}, missing |-> <<>>, eof |-> FALSE]
  BY <1>1, ZenonT(30) DEF NoAttempt
<1>3. att' \in Attempts
  BY <1>2, SMTT(30) DEF Attempts, Pcs
<1>4. QED BY <1>1, <1>2, <1>3 DEF PipeInv

\* An answer is taken: the window stays one, and what is in order goes to the file.
LEMMA JoinAttempt ==
  ASSUME DownloadConstants, PipeInv, NEW r \in att.fly, NEW got \in 1..Chunk, Join(r, got)
  PROVE  /\ att.pc = "join" /\ UNCHANGED <<remote, mode, late, retries, outlived>>
         /\ att' \in Attempts /\ Window(att') /\ Waits(att') /\ Filled(att') /\ att'.pc = "check" /\ (att'.eof => remote # Total)
         /\ bytesDone' = att'.at
         /\ \/ UNCHANGED <<local, dst>> /\ att'.at = att.at
            \/ \E to \in att.at..att'.at : WriteAll(att.at, to, att'.at)
<1>0. att \in Attempts /\ att.at \in Nat
  BY Zenon DEF PipeInv, Attempts
<1>1. PICK a : a = Received(r, got)
  OBVIOUS
<1>2. PICK b : b = Ordered(a)
  OBVIOUS
<1>3. /\ att.pc = "join" /\ got \in 1..r.len /\ bytesDone' = InOrder(a) /\ UNCHANGED <<remote, mode, late, retries, outlived>>
      /\ att' = Issued(b)
      /\ IF Ready(a) = {} THEN UNCHANGED <<local, dst>> ELSE WriteAll(a.at, Max({d.at : d \in Ready(a)}), InOrder(a))
  BY <1>1, <1>2, SMTT(30) DEF Join, Ordered, Ready
<1>4. Window(att) /\ Waits(att) /\ (att.eof => remote # Total)
  BY <1>3, SMTT(30) DEF PipeInv
<1>5. a \in Attempts /\ Window(a) /\ a.eof = att.eof /\ a.at = att.at
  BY <1>0, <1>1, <1>3, <1>4, ReceivedWindow, SMTT(30)
<1>6. /\ b \in Attempts /\ Window(b) /\ Waits(b) /\ b.at = InOrder(a) /\ b.pc = "check" /\ b.eof = a.eof
      /\ Ready(a) = {} => InOrder(a) = a.at
      /\ Ready(a) # {} => Max({d.at : d \in Ready(a)}) \in a.at..InOrder(a)
  BY <1>2, <1>5, OrderedWindow, SMTT(30)
<1>7. /\ att' \in Attempts /\ Window(att') /\ Filled(att')
      /\ att'.at = b.at /\ att'.pc = b.pc /\ att'.eof = b.eof /\ att'.reorder = b.reorder
  BY <1>3, <1>6, IssuedWindow, SMTT(30)
<1>8. Waits(att')
  BY <1>6, <1>7, SMTT(30) DEF Waits
<1>9. \/ UNCHANGED <<local, dst>> /\ att'.at = att.at
      \/ \E to \in att.at..att'.at : WriteAll(att.at, to, att'.at)
  BY <1>3, <1>5, <1>6, <1>7, ZenonT(30)
<1>10. QED BY <1>3, <1>4, <1>5, <1>6, <1>7, <1>8, <1>9

\* Every step keeps the invariant of the pipeline.
LEMMA PipeStep ==
  ASSUME DownloadConstants, PipeInv, local \in Seq(Nat), Next PROVE PipeInv'
<1>0. /\ att \in Attempts /\ remote \in 0..Total /\ retries \in 0..MaxRetries /\ Total \in Nat /\ MaxRetries \in Nat /\ Chunk \in Nat \ {0}
      /\ att.at \in Nat /\ att.next \in Nat /\ att.offset \in Nat
  BY SMTT(30) DEF PipeInv, DownloadConstants, Attempts
<1> DEFINE Idle(a) == a.fly = {} /\ a.reorder = {} /\ a.missing = <<>> /\ a.eof = FALSE /\ a.next <= Total /\ a.at <= Total
<1>1. att.pc \in {"begin", "open", "serial", "ended", "paused", "failed", "done"} => Idle(att)
  BY DEF PipeInv
<1>2. att.pc \in {"check", "join"} => Window(att) /\ Waits(att) /\ Filled(att) /\ (att.eof => remote # Total)
  BY Zenon DEF PipeInv
<1>3. ASSUME att' \in Attempts, Idle(att'), remote' = remote, retries' \in 0..MaxRetries, att'.pc \in {"begin", "serial", "ended", "paused", "failed", "done"}
      PROVE  PipeInv'
  BY <1>0, <1>3, SMTT(30) DEF PipeInv
<1>4. ASSUME att' \in Attempts, remote' = remote, retries' = retries, att'.pc \in {"check", "join"},
             Window(att'), Waits(att'), Filled(att'), att'.eof => remote # Total
      PROVE  PipeInv'
  BY <1>0, <1>4, ZenonT(30) DEF PipeInv, Window, Bounded, Disjoint, Covers, Waits, Filled
<1>5. CASE Begin
  <2> DEFINE o == resume_offset(Len(local), Total)
  <2>1. o \in Nat /\ o <= Total
    BY <1>0 DEF resume_offset
  <2>2. att' = [NoAttempt EXCEPT !.pc = "open", !.offset = o, !.next = o, !.at = o] /\ remote' = remote /\ retries' = retries
    BY <1>5, Zenon DEF Begin
  <2> HIDE DEF o
  <2>3. att' = [pc |-> "open", offset |-> o, next |-> o, at |-> o, fly |-> {}, reorder |-> {}, missing |-> <<>>, eof |-> FALSE]
    BY <2>2, Zenon DEF NoAttempt
  <2>4. att' \in Attempts
    BY <2>1, <2>3 DEF Attempts, Pcs
  <2>5. att'.pc = "open" /\ Idle(att') /\ att'.at = att'.offset /\ att'.next = att'.offset
    BY <1>0, <2>1, <2>3
  <2>6. remote' \in 0..Total /\ retries' \in 0..MaxRetries
    BY <1>0, <2>2, Zenon
  <2> HIDE DEF Attempts
  <2>7. QED BY <2>4, <2>5, <2>6, Zenon DEF PipeInv
<1>6. CASE Open
  <2>0. att.pc = "open" /\ Idle(att) /\ att.at = att.offset /\ att.next = att.offset /\ remote' = remote /\ retries' = retries
    BY <1>1, <1>6 DEF Open, PipeInv
  <2>1. CASE Fail
    BY <2>0, <2>1, PipeFails, SMTT(30)
  <2>2. CASE att' = IF Total - att.offset > Chunk THEN Issued([att EXCEPT !.pc = "check"]) ELSE [att EXCEPT !.pc = "serial"]
    <3>1. CASE Total - att.offset > Chunk
      <4>1. PICK a : a = [att EXCEPT !.pc = "check"]
        BY Zenon
      <4>2. a \in Attempts /\ a.pc = "check" /\ Idle(a) /\ a.at = a.next
        BY <1>0, <2>0, <4>1, Zenon DEF Attempts, Pcs
      <4>3. Window(a)
        BY <4>2, OpenedWindow, ZenonT(30)
      <4>4. att' = Issued(a)
        BY <2>2, <3>1, <4>1, Zenon
      <4>5. /\ att' \in Attempts /\ Window(att') /\ Filled(att')
            /\ att'.pc = a.pc /\ att'.eof = a.eof /\ att'.reorder = a.reorder
        BY <4>2, <4>3, <4>4, IssuedWindow
      <4>6. Waits(att')
        BY <4>2, <4>5, SMTT(30) DEF Waits
      <4>7. QED BY <1>4, <2>0, <4>2, <4>5, <4>6
    <3>2. CASE ~(Total - att.offset > Chunk)
      <4>1. att' = [att EXCEPT !.pc = "serial"]
        BY <2>2, <3>2
      <4>2. att' \in Attempts /\ att'.pc = "serial" /\ Idle(att')
        BY <1>0, <2>0, <4>1, ZenonT(30) DEF Attempts, Pcs
      <4>3. QED BY <1>0, <1>3, <2>0, <4>2, Zenon
    <3>3. QED BY <3>1, <3>2, SMTT(30)
  <2>3. QED BY <1>6, <2>1, <2>2 DEF Open
<1>7. CASE Check
  <2>0. att.pc = "check" /\ Window(att) /\ Waits(att) /\ Filled(att) /\ (att.eof => remote # Total) /\ remote' = remote /\ retries' = retries
    BY <1>2, <1>7 DEF Check
  <2>1. CASE att.fly # {} /\ pause
    <3>1. Fail
      BY <1>7, <2>1, Zenon DEF Check
    <3>2. QED BY <2>0, <3>1, PipeFails
  <2>2. CASE ~(att.fly # {} /\ pause)
    <3>0. att' = [att EXCEPT !.pc = IF att.fly = {} THEN "flush" ELSE "join"]
      BY <1>7, <2>2, SMTT(30) DEF Check
    <3>1. CASE att.fly = {}
      <4>1. att' = [att EXCEPT !.pc = "flush"]
        BY <3>0, <3>1
      <4>2. /\ att' \in Attempts /\ att'.pc = "flush" /\ att'.fly = {} /\ att'.next = att.next /\ att'.at = att.at /\ att'.reorder = att.reorder
        BY <1>0, <3>1, <4>1, SMTT(30) DEF Attempts, Pcs
      <4>3. att.next <= Total /\ \A x \in att.reorder : att.at <= x.at /\ x.at + x.len <= att.next
        BY <2>0, SMTT(30) DEF Window, Bounded
      <4>4. remote = Total => att.at = Total
        BY <1>0, <2>0, <3>1, WindowEnds
      <4>5. QED BY <1>0, <2>0, <4>2, <4>3, <4>4, Zenon DEF PipeInv
    <3>2. CASE att.fly # {}
      <4>1. att' = [att EXCEPT !.pc = "join"]
        BY <3>0, <3>2, SMTT(30)
      <4>2. /\ att' \in Attempts /\ att'.pc = "join" /\ att'.fly = att.fly /\ att'.next = att.next /\ att'.at = att.at
            /\ att'.reorder = att.reorder /\ att'.missing = att.missing /\ att'.eof = att.eof
        BY <1>0, <4>1, ZenonT(30) DEF Attempts, Pcs
      <4>3. Window(att') /\ Waits(att') /\ Filled(att')
        <5>1. Bounded(att')
          BY <2>0, <4>2 DEF Window, Bounded
        <5>2. Disjoint(att')
          BY <2>0, <4>2 DEF Window, Disjoint
        <5>3. Covers(att')
          BY <2>0, <4>2, Zenon DEF Window, Covers
        <5>4. QED BY <2>0, <4>2, <5>1, <5>2, <5>3, SMTT(30) DEF Window, Waits, Filled
      <4>4. QED BY <1>4, <2>0, <4>2, <4>3
    <3>3. QED BY <3>1, <3>2
  <2>3. QED BY <2>1, <2>2, Zenon
<1>8. CASE Flush
  <2>1. att' = [NoAttempt EXCEPT !.pc = "done"] /\ remote' = remote /\ retries' = retries
    BY <1>8, Zenon DEF Flush
  <2>2. att' = [pc |-> "done", offset |-> 0, next |-> 0, at |-> 0, fly |-> {}, reorder |-> {}, missing |-> <<>>, eof |-> FALSE]
    BY <2>1, Zenon DEF NoAttempt
  <2>3. att' \in Attempts
    BY <2>2 DEF Attempts, Pcs
  <2>4. att'.pc = "done" /\ Idle(att')
    BY <1>0, <2>2
  <2>5. QED BY <1>0, <1>3, <2>1, <2>3, <2>4, Zenon
<1>9. CASE Classify
  <2>1. /\ att' = [att EXCEPT !.pc = IF pause THEN "paused" ELSE IF retries = MaxRetries THEN "failed" ELSE "begin"] /\ remote' = remote
        /\ att.pc = "ended" /\ Idle(att)
    BY <1>1, <1>9, Zenon DEF Classify
  <2>2. retries' \in 0..MaxRetries
    BY <1>0, <1>9 DEF Classify
  <2>3. att'.pc \in {"paused", "failed", "begin"}
    BY <1>0, <2>1 DEF Attempts
  <2>4. att' \in Attempts /\ Idle(att')
    BY <1>0, <2>1, Zenon DEF Attempts, Pcs
  <2>5. QED BY <1>3, <2>1, <2>2, <2>3, <2>4, Zenon
<1>10. CASE Unpause
  <2>1. att' = [att EXCEPT !.pc = "begin"] /\ att.pc = "paused" /\ Idle(att) /\ remote' = remote /\ retries' = retries
    BY <1>1, <1>10, Zenon DEF Unpause
  <2>2. att' \in Attempts /\ Idle(att') /\ att'.pc = "begin"
    BY <1>0, <2>1, Zenon DEF Attempts, Pcs
  <2>3. QED BY <1>0, <1>3, <2>1, <2>2, Zenon
<1>11. CASE SerialFails
  BY <1>11, PipeFails DEF SerialFails
<1>12. CASE SerialNothing
  <2>1. att' = [att EXCEPT !.pc = "flush"] /\ att.pc = "serial" /\ Idle(att) /\ remote' = remote /\ retries' = retries /\ att.at >= remote
    BY <1>1, <1>12, Zenon DEF SerialNothing
  <2>2. att' \in Attempts /\ Idle(att') /\ att'.pc = "flush" /\ att'.at = att.at
    BY <1>0, <2>1, Zenon DEF Attempts, Pcs
  <2>3. remote = Total => att.at = Total
    BY <1>0, <2>1, SMTT(30)
  <2>4. QED BY <1>0, <2>1, <2>2, <2>3 DEF PipeInv
<1>13. CASE UNCHANGED <<remote, att, retries>>
  BY <1>13, Zenon DEF PipeInv, Window, Bounded, Disjoint, Covers, Waits, Filled
<1>14. ASSUME NEW r \in att.fly, JoinError(r) PROVE PipeInv'
  BY <1>14, PipeFails DEF JoinError
<1>15. ASSUME NEW r \in att.fly, JoinNothing(r) PROVE PipeInv'
  <2>1. /\ att.pc = "join" /\ r.at >= remote /\ att' = [att EXCEPT !.pc = "check", !.fly = @ \ {r}, !.eof = TRUE]
        /\ remote' = remote /\ retries' = retries
    BY <1>15, SMTT(30) DEF JoinNothing
  <2>2. Window(att) /\ Waits(att)
    BY <1>2, <2>1, SMTT(30)
  <2>3. att' \in Attempts /\ Window(att') /\ Waits(att') /\ Filled(att')
    BY <1>0, <2>1, <2>2, EmptiedWindow, ZenonT(30), Zenon
  <2>4. r.at \in Nat /\ r.len \in Nat \ {0} /\ r.at + r.len <= att.next /\ att.next <= Total
    BY <1>0, <2>2 DEF Window, Bounded, Attempts, Ranges
  <2>5. remote # Total
    BY <1>0, <2>1, <2>4
  <2>6. att'.pc = "check"
    BY <1>0, <2>1, Zenon DEF Attempts
  <2>7. QED BY <1>4, <2>1, <2>3, <2>5, <2>6, Zenon
<1>16. ASSUME NEW r \in att.fly, NEW got \in 1..Chunk, Join(r, got) PROVE PipeInv'
  <2>1. /\ UNCHANGED <<remote, retries>> /\ att' \in Attempts /\ Window(att') /\ Waits(att') /\ Filled(att')
        /\ att'.pc = "check" /\ (att'.eof => remote # Total)
    BY <1>16, JoinAttempt
  <2>2. QED BY <1>4, <2>1, SMTT(30)
<1>17. ASSUME NEW got \in 1..Chunk, Serial(got) PROVE PipeInv'
  <2>1. att' = [att EXCEPT !.at = @ + got] /\ att.pc = "serial" /\ Idle(att) /\ remote' = remote /\ retries' = retries /\ att.at + got <= remote
    BY <1>1, <1>17, Zenon DEF Serial
  <2>2. att.at + got \in Nat /\ att.at + got <= Total
    BY <1>0, <2>1, SMTT(30)
  <2>3. att' \in Attempts /\ Idle(att') /\ att'.pc = "serial"
    BY <1>0, <2>1, <2>2, Zenon DEF Attempts, Pcs
  <2>4. QED BY <1>0, <1>3, <2>1, <2>3, Zenon
<1>18. ASSUME NEW n \in 0..(Total - 1), Shrink(n) PROVE PipeInv'
  <2>1. remote' = n /\ n \in 0..Total /\ n # Total /\ att' = att /\ retries' = retries
    BY <1>0, <1>18 DEF Shrink
  <2>2. QED BY <2>1, Zenon DEF PipeInv, Window, Bounded, Disjoint, Covers, Waits, Filled
<1>19. CASE Land
  BY <1>13, <1>19, Zenon DEF Land
<1>20. ASSUME NEW h \in late, LandLate(h) PROVE PipeInv'
  BY <1>13, <1>20, Zenon DEF LandLate
<1>21. CASE TogglePause
  BY <1>13, <1>21, Zenon DEF TogglePause
<1>22. QED
  BY <1>5, <1>6, <1>7, <1>8, <1>9, <1>10, <1>11, <1>12, <1>14, <1>15, <1>16, <1>17, <1>18, <1>19, <1>20, <1>21, Zenon DEF Next, Progress

(***************************************************************************)
(* The file.                                                               *)
(***************************************************************************)
\* The greater of two numbers.
LEMMA MaxPair ==
  ASSUME NEW m \in Nat, NEW n \in Nat
  PROVE  Max({m, n}) \in {m, n} /\ Max({m, n}) >= m /\ Max({m, n}) >= n
<1>1. CASE m <= n
  <2>1. n \in {m, n} /\ \A y \in {m, n} : n >= y
    BY <1>1
  <2>2. QED BY <2>1 DEF Max
<1>2. CASE n < m
  <2>1. m \in {m, n} /\ \A y \in {m, n} : m >= y
    BY <1>2
  <2>2. QED BY <2>1 DEF Max
<1>3. QED BY <1>1, <1>2

\* What is written at the end of a file makes it longer by its length,
LEMMA PutLength ==
  ASSUME NEW file \in Seq(Nat), NEW append \in BOOLEAN, NEW pos \in Nat, NEW data \in Seq(Nat)
  PROVE  /\ Put(file, append, pos, data) \in Seq(Nat)
         /\ append \/ pos = Len(file) => Len(Put(file, append, pos, data)) = Len(file) + Len(data)
<1> DEFINE n == Max({Len(file), pos + Len(data)})
           g == [i \in 1..n |-> IF i \in (pos + 1)..(pos + Len(data)) THEN data[i - pos] ELSE IF i <= Len(file) THEN file[i] ELSE 0]
<1>0. Len(file) \in Nat /\ Len(data) \in Nat /\ pos + Len(data) \in Nat
  OBVIOUS
<1>1. CASE append
  BY <1>1 DEF Put
<1>2. CASE ~append
  <2>1. Put(file, append, pos, data) = g
    BY <1>2 DEF Put
  <2>2. n \in Nat /\ n >= Len(file) /\ n >= pos + Len(data) /\ (n = Len(file) \/ n = pos + Len(data))
    BY <1>0, MaxPair, Zenon
  <2> HIDE DEF n
  <2>3. ASSUME NEW i \in 1..n PROVE g[i] \in Nat
    <3>1. i \in Nat /\ i >= 1
      BY <2>2
    <3>2. CASE i \in (pos + 1)..(pos + Len(data))
      <4>1. i - pos \in 1..Len(data)
        BY <1>0, <3>2
      <4>2. data[i - pos] \in Nat
        BY <4>1
      <4>3. QED BY <3>2, <4>2
    <3>3. CASE i \notin (pos + 1)..(pos + Len(data)) /\ i <= Len(file)
      <4>1. file[i] \in Nat
        BY <1>0, <3>1, <3>3
      <4>2. QED BY <3>3, <4>1
    <3>4. CASE i \notin (pos + 1)..(pos + Len(data)) /\ ~(i <= Len(file))
      BY <3>4, Zenon
    <3>5. QED BY <3>2, <3>3, <3>4, Zenon
  <2>4. g \in [1..n -> Nat]
    BY <2>3
  <2>5. DOMAIN g = 1..n
    BY Zenon
  <2> HIDE DEF g
  <2>6. g \in Seq(Nat) /\ Len(g) = n
    BY <2>2, <2>4, <2>5
  <2>7. pos = Len(file) => n = Len(file) + Len(data)
    BY <1>0, <2>2
  <2>8. QED BY <1>2, <2>1, <2>6, <2>7, Zenon
<1>3. QED BY <1>1, <1>2, Zenon

\* and continues the prefix, in append mode or at the position of the end.
LEMMA PutFollows ==
  ASSUME NEW file \in Seq(Nat), Prefix(file), NEW append \in BOOLEAN, NEW data \in Seq(Nat),
         \A i \in 1..Len(data) : data[i] = Len(file) + i
  PROVE  /\ Prefix(Put(file, append, Len(file), data))
         /\ Len(Put(file, append, Len(file), data)) = Len(file) + Len(data)
<1> DEFINE g == Put(file, append, Len(file), data)
<1>0. Len(file) \in Nat /\ Len(data) \in Nat
  OBVIOUS
<1>1. g \in Seq(Nat) /\ Len(g) = Len(file) + Len(data)
  BY <1>0, PutLength
<1>2. ASSUME NEW i \in 1..Len(g) PROVE g[i] = i
  <2>0. i \in Nat /\ i >= 1 /\ i <= Len(file) + Len(data)
    BY <1>0, <1>1, <1>2
  <2>1. CASE append
    <3>1. g = file \o data
      BY <2>1, Zenon DEF Put
    <3> HIDE DEF g
    <3>2. CASE i <= Len(file)
      BY <1>0, <2>0, <3>1, <3>2 DEF Prefix
    <3>3. CASE i > Len(file)
      <4>1. i - Len(file) \in 1..Len(data)
        BY <1>0, <2>0, <3>3
      <4>2. g[i] = data[i - Len(file)]
        BY <1>0, <2>0, <3>1, <3>3, SMTT(30)
      <4>3. data[i - Len(file)] = Len(file) + (i - Len(file))
        BY <4>1, SMTT(30)
      <4>4. QED BY <1>0, <2>0, <4>2, <4>3
    <3>4. QED BY <1>0, <2>0, <3>2, <3>3
  <2>2. CASE ~append
    <3> DEFINE n == Max({Len(file), Len(file) + Len(data)})
    <3>1. n = Len(file) + Len(data)
      BY <1>0, MaxPair, SMTT(30)
    <3>2. g = [k \in 1..n |-> IF k \in (Len(file) + 1)..(Len(file) + Len(data)) THEN data[k - Len(file)] ELSE IF k <= Len(file) THEN file[k] ELSE 0]
      BY <2>2, Zenon DEF Put
    <3>3. i \in 1..n
      BY <1>0, <2>0, <3>1
    <3> HIDE DEF g, n
    <3>4. g[i] = IF i \in (Len(file) + 1)..(Len(file) + Len(data)) THEN data[i - Len(file)] ELSE IF i <= Len(file) THEN file[i] ELSE 0
      BY <3>2, <3>3, Zenon
    <3>5. CASE i <= Len(file)
      <4>1. g[i] = file[i]
        BY <1>0, <2>0, <3>4, <3>5, SMTT(30)
      <4>2. QED BY <1>0, <2>0, <3>5, <4>1 DEF Prefix
    <3>6. CASE i > Len(file)
      <4>1. i - Len(file) \in 1..Len(data) /\ i \in (Len(file) + 1)..(Len(file) + Len(data))
        BY <1>0, <2>0, <3>6
      <4>2. g[i] = data[i - Len(file)]
        BY <3>4, <4>1
      <4>3. data[i - Len(file)] = Len(file) + (i - Len(file))
        BY <4>1, SMTT(30)
      <4>4. QED BY <1>0, <2>0, <4>2, <4>3
    <3>7. QED BY <1>0, <2>0, <3>5, <3>6
  <2>3. QED BY <2>1, <2>2, Zenon
<1> HIDE DEF g
<1>3. Prefix(g)
  BY <1>2, Zenon DEF Prefix
<1>4. QED BY <1>1, <1>3, Zenon DEF g

\* The bytes at a position of the remote file.
LEMMA DataRange ==
  ASSUME NEW at \in Nat, NEW n \in Nat
  PROVE  Data(at, n) \in Seq(Nat) /\ Len(Data(at, n)) = n /\ \A i \in 1..n : Data(at, n)[i] = at + i
<1>1. Data(at, n) \in [1..n -> Nat] /\ DOMAIN Data(at, n) = 1..n
  BY DEF Data
<1>2. Data(at, n) \in Seq(Nat) /\ Len(Data(at, n)) = n
  BY <1>1
<1>3. \A i \in 1..n : Data(at, n)[i] = at + i
  BY Zenon DEF Data
<1>4. QED BY <1>2, <1>3, Zenon

\* A write that was under way reaches the disk.
LEMMA LandedFile ==
  ASSUME local \in Seq(Nat), NEW h \in Handles
  PROVE  /\ Landed(h) \in Seq(Nat)
         /\ Prefix(local) /\ Follows(h) => Prefix(Landed(h)) /\ Len(Landed(h)) = Len(local) + Len(h.buf)
<1>1. h.append \in BOOLEAN /\ h.pos \in Nat /\ h.buf \in Seq(Nat)
  BY DEF Handles
<1>2. Landed(h) \in Seq(Nat)
  BY <1>1, PutLength, Zenon DEF Landed
<1>3. ASSUME Prefix(local), Follows(h) PROVE Prefix(Landed(h)) /\ Len(Landed(h)) = Len(local) + Len(h.buf)
  <2>1. h.pos = Len(local) /\ \A i \in 1..Len(h.buf) : h.buf[i] = Len(local) + i
    BY <1>3 DEF Follows
  <2>2. QED BY <1>1, <1>3, <2>1, PutFollows DEF Landed
<1>4. QED BY <1>2, <1>3, Zenon

\* write_all: the write before reaches the disk, the last is under way.
LEMMA WrittenAll ==
  ASSUME local \in Seq(Nat), dst \in Handles, NEW from \in Nat, NEW to \in Nat, NEW end \in Nat, from <= to, to <= end, WriteAll(from, to, end)
  PROVE  /\ local' \in Seq(Nat) /\ dst' \in Handles
         /\ Prefix(local) /\ Follows(dst) /\ from = Len(local) + Len(dst.buf) =>
              Prefix(local') /\ Follows(dst)' /\ end = Len(local') + Len(dst'.buf)
<1> DEFINE f == Landed(dst)
           d == Data(from, to - from)
           e == Data(to, end - to)
           p == dst.pos + Len(dst.buf)
           g == Put(f, dst.append, p, d)
<1>0. dst.append \in BOOLEAN /\ dst.pos \in Nat /\ dst.buf \in Seq(Nat) /\ Len(dst.buf) \in Nat /\ Len(local) \in Nat
  BY DEF Handles
<1>1. to - from \in Nat /\ end - to \in Nat /\ p \in Nat
  BY <1>0
<1>2. f \in Seq(Nat)
  BY LandedFile, Zenon
<1>3. /\ d \in Seq(Nat) /\ Len(d) = to - from /\ (\A i \in 1..(to - from) : d[i] = from + i)
      /\ e \in Seq(Nat) /\ Len(e) = end - to /\ (\A i \in 1..(end - to) : e[i] = to + i)
  BY <1>1, DataRange, Zenon
<1>4. local' = g /\ dst' = [dst EXCEPT !.pos = @ + Len(dst.buf) + (to - from), !.buf = e]
  BY Zenon DEF WriteAll
<1> HIDE DEF f, d, e
<1>5. g \in Seq(Nat)
  BY <1>0, <1>1, <1>2, <1>3, PutLength, Zenon
<1>6. dst'.pos = p + (to - from) /\ dst'.buf = e /\ dst' \in Handles
  <2> HIDE DEF g
  <2>1. dst' = [append |-> dst.append, pos |-> dst.pos + Len(dst.buf) + (to - from), buf |-> e]
    BY <1>4, Zenon DEF Handles
  <2>2. dst.pos + Len(dst.buf) + (to - from) = p + (to - from) /\ p + (to - from) \in Nat
    BY <1>0, <1>1
  <2> HIDE DEF p
  <2>3. QED BY <1>0, <1>3, <2>1, <2>2 DEF Handles
<1>7. ASSUME Prefix(local), Follows(dst), from = Len(local) + Len(dst.buf)
      PROVE  Prefix(local') /\ Follows(dst)' /\ end = Len(local') + Len(dst'.buf)
  <2>1. Prefix(f) /\ Len(f) = from /\ p = from
    BY <1>0, <1>7, LandedFile, Zenon DEF f, Follows
  <2>2. Prefix(g) /\ Len(g) = Len(f) + Len(d)
    <3>1. \A i \in 1..Len(d) : d[i] = Len(f) + i
      BY <1>3, <2>1, Zenon
    <3>2. g = Put(f, dst.append, Len(f), d)
      BY <2>1, Zenon
    <3> HIDE DEF g, p
    <3>3. QED BY <1>0, <1>2, <1>3, <2>1, <3>1, <3>2, PutFollows, Zenon
  <2>3. Len(g) = to
    BY <1>3, <2>1, <2>2
  <2> HIDE DEF g, p
  <2>4. Len(local') = to /\ dst'.pos = to /\ Len(dst'.buf) = end - to /\ \A i \in 1..Len(dst'.buf) : dst'.buf[i] = to + i
    BY <1>1, <1>3, <1>4, <1>6, <2>1, <2>3
  <2>5. Prefix(local') /\ Follows(dst)'
    BY <1>4, <2>2, <2>4, Zenon DEF Follows
  <2>6. end = Len(local') + Len(dst'.buf)
    BY <1>1, <2>4
  <2>7. QED BY <2>5, <2>6
<1>8. QED BY <1>4, <1>5, <1>6, <1>7, Zenon

\* At first there is a prefix, or nothing.
LEMMA FileInit ==
  ASSUME DownloadConstants, Init PROVE FileTyped /\ FileInv
<1>1. PICK n \in Sizes : local = Data(0, n)
  BY Zenon DEF Init
<1>2. n \in Nat
  BY Zenon DEF DownloadConstants
<1>3. local \in Seq(Nat) /\ Len(local) = n /\ \A i \in 1..n : local[i] = 0 + i
  BY <1>1, <1>2, DataRange, Zenon
<1>4. Prefix(local)
  BY <1>2, <1>3 DEF Prefix
<1>5. Closed \in Handles
  BY DEF Closed, Handles
<1>6. att.pc = "begin"
  BY Zenon DEF Init, NoAttempt
<1>7. late = {} /\ dst = Closed /\ bytesDone = 0 /\ mode \in {"resume", "overwrite"}
  BY DEF Init
<1>8. FileTyped
  BY <1>3, <1>5, <1>6, <1>7 DEF FileTyped, Active
<1>9. QED BY <1>4, <1>6, <1>7, <1>8 DEF FileInv, Active

\* An attempt that fails leaves at most one write under way.
LEMMA FileFails ==
  ASSUME FileTyped, FileInv, Active, Fail, UNCHANGED <<local, mode, bytesDone, outlived>>
  PROVE  FileTyped' /\ FileInv'
<1>1. att'.pc = "ended"
  BY Zenon DEF Fail, NoAttempt
<1>2. dst' = Closed /\ Closed \in Handles
  BY DEF Fail, Closed, Handles
<1>3. late' = late \/ late' = late \cup {dst}
  BY Zenon DEF Fail
<1>4. late' \in SUBSET Handles
  BY <1>3, Zenon DEF FileTyped
<1>5. FileTyped'
  BY <1>1, <1>2, <1>4, Zenon DEF FileTyped, Active
<1>6. ASSUME ~outlived PROVE Prefix(local) /\ \A h \in late' : late' = {h} /\ Follows(h)
  <2>1. Prefix(local) /\ late = {} /\ Follows(dst)
    BY <1>6, SMTT(30) DEF FileInv
  <2>2. QED BY <1>3, <2>1
<1>7. QED BY <1>1, <1>5, <1>6, Zenon DEF FileInv, Active, Prefix, Follows

\* Steps that write nothing, while active
LEMMA FileKept ==
  ASSUME FileTyped, FileInv, Active, Active', att'.at = att.at, UNCHANGED <<local, dst, late, mode, bytesDone, outlived>>
  PROVE  FileTyped' /\ FileInv'
<1>1. FileTyped'
  BY SMTT(30) DEF FileTyped
<1>2. att'.pc \in {"check", "join", "serial", "flush"}
  BY Zenon DEF Active
<1>3. QED BY <1>1, <1>2, Zenon DEF FileInv, Prefix, Follows

\* and while no attempt runs.
LEMMA FileIdle ==
  ASSUME FileTyped, FileInv, UNCHANGED <<local, dst, late, mode, bytesDone, outlived>>,
         att.pc \in {"begin", "ended", "paused", "failed"}, att'.pc \in {"begin", "ended", "paused", "failed"}
  PROVE  FileTyped' /\ FileInv'
<1>1. ~Active /\ ~Active'
  BY DEF Active
<1>2. FileTyped'
  BY <1>1, SMTT(30) DEF FileTyped
<1>3. QED BY <1>1, <1>2, Zenon DEF FileInv, Prefix, Follows

\* Steps that write.
LEMMA FileWritten ==
  ASSUME FileTyped, FileInv, Active, Active', att.at \in Nat, att'.at \in Nat, bytesDone' \in Nat, ~outlived => bytesDone' = att'.at,
         UNCHANGED <<late, mode, outlived>>, NEW to \in att.at..att'.at, WriteAll(att.at, to, att'.at)
  PROVE  FileTyped' /\ FileInv'
<1>1. local \in Seq(Nat) /\ dst \in Handles /\ to \in Nat /\ att.at <= to /\ to <= att'.at
  BY DEF FileTyped
<1>2. /\ local' \in Seq(Nat) /\ dst' \in Handles
      /\ Prefix(local) /\ Follows(dst) /\ att.at = Len(local) + Len(dst.buf) =>
           Prefix(local') /\ Follows(dst)' /\ att'.at = Len(local') + Len(dst'.buf)
  BY <1>1, WrittenAll, Zenon
<1>3. FileTyped'
  BY <1>2, Zenon DEF FileTyped
<1>4. ASSUME ~outlived PROVE Prefix(local') /\ late' = {} /\ Follows(dst)' /\ att'.at = Len(local') + Len(dst'.buf) /\ bytesDone' = att'.at
  <2>1. Prefix(local) /\ late = {} /\ Follows(dst) /\ att.at = Len(local) + Len(dst.buf)
    BY <1>4, SMTT(30) DEF FileInv
  <2>2. QED BY <1>2, <1>4, <2>1, Zenon
<1>5. att'.pc \in {"check", "join", "serial", "flush"}
  BY SMTT(30) DEF Active
<1>6. QED BY <1>3, <1>4, <1>5, Zenon DEF FileInv

\* Every step keeps the invariant of the file.
LEMMA FileStep ==
  ASSUME DownloadConstants, PipeInv, PipeInv', FileTyped, FileInv, Next
  PROVE  FileTyped' /\ FileInv'
<1>0. /\ att \in Attempts /\ att' \in Attempts /\ att.at \in Nat /\ att'.at \in Nat /\ att.offset \in Nat /\ att.pc \in Pcs
      /\ Total \in Nat /\ Chunk \in Nat /\ Closed \in Handles
  BY DEF PipeInv, DownloadConstants, Attempts, Closed, Handles
<1>1. local \in Seq(Nat) /\ dst \in Handles /\ late \in SUBSET Handles /\ bytesDone \in Nat /\ Len(local) \in Nat /\ mode \in {"resume", "overwrite"}
  BY DEF FileTyped
<1>2. CASE Begin
  <2> DEFINE o == resume_offset(Len(local), Total)
  <2>1. o \in Nat /\ (o = 0 \/ o = Len(local))
    BY <1>0, <1>1, Zenon DEF resume_offset
  <2>2. /\ att.pc = "begin" /\ bytesDone' = o /\ outlived' = (outlived \/ late # {}) /\ UNCHANGED <<local, mode, dst, late>>
        /\ att' = [NoAttempt EXCEPT !.pc = "open", !.offset = o, !.next = o, !.at = o]
    BY <1>2, Zenon DEF Begin
  <2> HIDE DEF o
  <2>3. att'.pc = "open" /\ att'.offset = o
    BY <2>2 DEF NoAttempt
  <2>4. FileTyped'
    BY <2>1, <2>2, <2>3 DEF FileTyped, Active
  <2>5. ASSUME ~outlived' PROVE Prefix(local') /\ late' = {} /\ bytesDone' = att'.offset /\ (att'.offset = 0 \/ att'.offset = Len(local'))
    <3>1. ~outlived /\ late = {}
      BY <2>2, <2>5, Zenon
    <3>2. Prefix(local)
      BY <3>1 DEF FileInv
    <3>3. QED BY <2>1, <2>2, <2>3, <3>1, <3>2, Zenon
  <2>6. QED BY <2>3, <2>4, <2>5, Zenon DEF FileInv, Active
<1>3. CASE Open
  <2>0. /\ att.pc = "open" /\ local' = (IF att.offset = 0 THEN <<>> ELSE local) /\ UNCHANGED <<mode, bytesDone, outlived>>
        /\ dst = Closed /\ att.at = att.offset /\ att.fly = {} /\ att.reorder = {} /\ att.missing = <<>> /\ att.eof = FALSE
        /\ att.next = att.offset /\ att.next <= Total
    BY <1>3 DEF Open, FileTyped, Active, PipeInv
  <2>1. local' \in Seq(Nat)
    BY <1>1, <2>0
  <2>2. ASSUME ~outlived PROVE Prefix(local') /\ late = {} /\ bytesDone = att.offset /\ Len(local') = att.offset
    <3>1. Prefix(local) /\ late = {} /\ bytesDone = att.offset /\ (att.offset = 0 \/ att.offset = Len(local))
      BY <2>0, <2>2, SMTT(30) DEF FileInv
    <3>2. CASE att.offset = 0
      BY <2>0, <3>1, <3>2 DEF Prefix
    <3>3. CASE att.offset # 0
      BY <2>0, <3>1, <3>3, SMTT(30)
    <3>4. QED BY <3>2, <3>3, Zenon
  <2>3. CASE Fail
    <3>1. att'.pc = "ended" /\ dst' = Closed /\ late' = late
      BY <2>0, <2>3, SMTT(30) DEF Fail, NoAttempt, Closed
    <3>2. FileTyped'
      BY <1>0, <1>1, <2>0, <2>1, <3>1 DEF FileTyped, Active
    <3>3. QED BY <2>0, <2>2, <3>1, <3>2, Zenon DEF FileInv, Active
  <2>4. CASE /\ att' = IF Total - att.offset > Chunk THEN Issued([att EXCEPT !.pc = "check"]) ELSE [att EXCEPT !.pc = "serial"]
             /\ dst' = [append |-> att.offset > 0, pos |-> att.offset, buf |-> <<>>] /\ UNCHANGED late
    <3>1. att'.pc \in {"check", "serial"} /\ att'.at = att.at
      <4>1. CASE Total - att.offset > Chunk
        <5>1. PICK a : a = [att EXCEPT !.pc = "check"]
          BY Zenon
        <5>2. a \in Attempts /\ a.pc = "check" /\ a.at = att.at /\ a.at = a.next /\ a.next <= Total /\ a.fly = {} /\ a.reorder = {} /\ a.missing = <<>> /\ a.eof = FALSE
          BY <1>0, <2>0, <5>1, Zenon DEF Attempts, Pcs
        <5>3. Window(a) /\ att' = Issued(a)
          BY <2>4, <4>1, <5>1, <5>2, OpenedWindow, Zenon
        <5>4. att'.pc = a.pc /\ att'.at = a.at
          BY <5>2, <5>3, IssuedWindow, Zenon
        <5>5. QED BY <5>2, <5>4, Zenon
      <4>2. CASE ~(Total - att.offset > Chunk)
        <5>1. att' = [att EXCEPT !.pc = "serial"]
          BY <2>4, <4>2
        <5>2. QED BY <1>0, <5>1 DEF Attempts
      <4>3. QED BY <4>1, <4>2
    <3>2. dst' \in Handles /\ dst'.pos = att.offset /\ dst'.buf = <<>>
      <4>1. (att.offset > 0) \in BOOLEAN
        BY <1>0
      <4>2. QED BY <1>0, <2>4, <4>1 DEF Handles
    <3>3. FileTyped'
      BY <1>1, <2>0, <2>1, <2>4, <3>1, <3>2, Zenon DEF FileTyped, Active
    <3>4. ASSUME ~outlived PROVE Prefix(local') /\ late' = {} /\ Follows(dst)' /\ att'.at = Len(local') + Len(dst'.buf) /\ bytesDone' = att'.at
      <4>1. Prefix(local') /\ late = {} /\ bytesDone = att.offset /\ Len(local') = att.offset
        BY <2>2, <3>4, Zenon
      <4>2. Len(dst'.buf) = 0
        BY <3>2
      <4>3. QED BY <1>0, <2>0, <2>4, <3>1, <3>2, <4>1, <4>2 DEF Follows
    <3>5. QED BY <2>0, <3>1, <3>3, <3>4, Zenon DEF FileInv, Active
  <2>5. QED BY <1>3, <2>3, <2>4, Zenon DEF Open
<1>4. CASE Check
  <2>1. att.pc = "check" /\ Active /\ UNCHANGED <<local, mode, bytesDone, outlived>>
    BY <1>4 DEF Check, Active
  <2>2. CASE Fail
    BY <2>1, <2>2, FileFails, Zenon
  <2>3. CASE att' = [att EXCEPT !.pc = IF att.fly = {} THEN "flush" ELSE "join"] /\ UNCHANGED <<dst, late>>
    <3>1. att'.pc \in {"flush", "join"} /\ att'.at = att.at
      BY <1>0, <2>3, Zenon DEF Attempts
    <3>2. Active'
      BY <3>1, Zenon DEF Active
    <3>3. QED BY <2>1, <2>3, <3>1, <3>2, FileKept
  <2>4. QED BY <1>4, <2>2, <2>3 DEF Check
<1>5. CASE Flush
  <2>1. /\ att.pc = "flush" /\ dst.buf = <<>> /\ dst' = Closed /\ UNCHANGED <<remote, local, mode, late, bytesDone, outlived>>
        /\ att'.pc = "done"
    BY <1>5, Zenon DEF Flush, NoAttempt
  <2>2. FileTyped'
    BY <1>0, <2>1, Zenon DEF FileTyped, Active
  <2>3. ASSUME ~outlived PROVE Prefix(local) /\ late = {} /\ (remote = Total => Len(local) = Total)
    <3>1. Prefix(local) /\ late = {} /\ att.at = Len(local) + Len(dst.buf)
      BY <2>1, <2>3, Zenon DEF FileInv, Active
    <3>2. Len(dst.buf) = 0
      BY <2>1
    <3>3. remote = Total => att.at = Total
      BY <2>1, Zenon DEF PipeInv
    <3>4. QED BY <1>1, <3>1, <3>2, <3>3
  <2>4. QED BY <2>1, <2>2, <2>3 DEF FileInv, Active, Prefix
<1>6. CASE Classify
  <2>1. att.pc = "ended" /\ UNCHANGED <<local, dst, late, mode, bytesDone, outlived>>
    BY <1>6 DEF Classify
  <2>2. att'.pc \in {"begin", "paused", "failed"}
    BY <1>0, <1>6, Zenon DEF Classify, Attempts
  <2>3. QED BY <2>1, <2>2, FileIdle
<1>7. CASE Unpause
  <2>1. att.pc = "paused" /\ UNCHANGED <<local, dst, late, mode, bytesDone, outlived>>
    BY <1>7, Zenon DEF Unpause
  <2>2. att'.pc = "begin"
    BY <1>0, <1>7, Zenon DEF Unpause, Attempts
  <2>3. QED BY <2>1, <2>2, FileIdle
<1>8. CASE SerialFails
  BY <1>8, FileFails DEF SerialFails, Active
<1>9. CASE SerialNothing
  <2>1. Active /\ UNCHANGED <<local, dst, late, mode, bytesDone, outlived>>
    BY <1>9, Zenon DEF SerialNothing, Active
  <2>2. att'.pc = "flush" /\ att'.at = att.at
    BY <1>0, <1>9 DEF SerialNothing, Attempts
  <2>3. Active'
    BY <2>2 DEF Active
  <2>4. QED BY <2>1, <2>2, <2>3, FileKept
<1>10. CASE Land
  <2>1. dst.buf # <<>> /\ local' = Landed(dst) /\ dst' = [dst EXCEPT !.pos = @ + Len(dst.buf), !.buf = <<>>] /\ UNCHANGED <<att, late, mode, bytesDone, outlived>>
    BY <1>10 DEF Land
  <2>2. Active
    BY <2>1 DEF FileTyped, Closed
  <2>3. dst.pos \in Nat /\ dst.buf \in Seq(Nat) /\ Len(dst.buf) \in Nat /\ dst.append \in BOOLEAN
    BY <1>1 DEF Handles
  <2>4. dst' = [append |-> dst.append, pos |-> dst.pos + Len(dst.buf), buf |-> <<>>]
    BY <1>1, <2>1, Zenon DEF Handles
  <2>5. dst' \in Handles /\ dst'.pos = dst.pos + Len(dst.buf) /\ dst'.buf = <<>>
    BY <2>3, <2>4 DEF Handles
  <2>6. local' \in Seq(Nat)
    BY <1>1, <2>1, LandedFile
  <2>7. FileTyped'
    BY <1>1, <2>1, <2>2, <2>5, <2>6, Zenon DEF FileTyped, Active
  <2>8. ASSUME ~outlived PROVE Prefix(local') /\ late' = {} /\ Follows(dst)' /\ att'.at = Len(local') + Len(dst'.buf) /\ bytesDone' = att'.at
    <3>1. Prefix(local) /\ late = {} /\ Follows(dst) /\ att.at = Len(local) + Len(dst.buf) /\ bytesDone = att.at
      BY <2>2, <2>8 DEF FileInv
    <3>2. Prefix(local') /\ Len(local') = Len(local) + Len(dst.buf)
      BY <1>1, <2>1, <3>1, LandedFile, Zenon
    <3>3. dst.pos = Len(local) /\ Len(dst'.buf) = 0
      BY <2>5, <3>1 DEF Follows
    <3>4. Follows(dst)'
      BY <2>5, <3>2, <3>3 DEF Follows
    <3>5. att.at = Len(local') + Len(dst'.buf)
      BY <1>0, <3>1, <3>2, <3>3
    <3>6. QED BY <2>1, <3>1, <3>2, <3>4, <3>5
  <2>9. QED BY <2>1, <2>2, <2>7, <2>8, Zenon DEF FileInv, Active
<1>11. ASSUME NEW h \in late, LandLate(h) PROVE FileTyped' /\ FileInv'
  <2>1. late' = late \ {h} /\ local' = Landed(h) /\ UNCHANGED <<remote, mode, att, dst, bytesDone, outlived>>
    BY <1>11 DEF LandLate
  <2>2. h \in Handles
    BY <1>1
  <2>3. local' \in Seq(Nat)
    BY <1>1, <2>1, <2>2, LandedFile, Zenon
  <2>4. late' \in SUBSET Handles
    BY <1>1, <2>1
  <2>5. FileTyped'
    BY <1>1, <2>1, <2>3, <2>4 DEF FileTyped, Active
  <2>6. ASSUME ~outlived PROVE Prefix(local') /\ late' = {} /\ att.pc \in {"begin", "ended", "paused", "failed"}
    <3>1. att.pc \in {"begin", "ended", "paused", "failed"}
      BY <1>0, <1>11, <2>6 DEF FileInv, Active, Pcs
    <3>2. Prefix(local) /\ late = {h} /\ Follows(h)
      BY <2>6, <3>1 DEF FileInv
    <3>3. Prefix(local')
      BY <1>1, <2>1, <2>2, <3>2, LandedFile, Zenon
    <3>4. QED BY <2>1, <3>1, <3>2, <3>3, Zenon
  <2>7. QED BY <2>1, <2>5, <2>6, Zenon DEF FileInv, Active
<1>12. ASSUME NEW r \in att.fly, JoinError(r) PROVE FileTyped' /\ FileInv'
  BY <1>12, FileFails DEF JoinError, Active
<1>13. ASSUME NEW r \in att.fly, JoinNothing(r) PROVE FileTyped' /\ FileInv'
  <2>1. Active /\ UNCHANGED <<local, dst, late, mode, bytesDone, outlived>>
    BY <1>13, Zenon DEF JoinNothing, Active
  <2>2. att'.pc = "check" /\ att'.at = att.at
    BY <1>0, <1>13 DEF JoinNothing, Attempts
  <2>3. Active'
    BY <2>2 DEF Active
  <2>4. QED BY <2>1, <2>2, <2>3, FileKept
<1>14. ASSUME NEW r \in att.fly, NEW got \in 1..Chunk, Join(r, got) PROVE FileTyped' /\ FileInv'
  <2>1. /\ att.pc = "join" /\ att'.pc = "check" /\ UNCHANGED <<mode, late, outlived>> /\ bytesDone' = att'.at
        /\ \/ UNCHANGED <<local, dst>> /\ att'.at = att.at
           \/ \E to \in att.at..att'.at : WriteAll(att.at, to, att'.at)
    BY <1>14, JoinAttempt
  <2>2. Active /\ Active'
    BY <2>1, SMTT(30) DEF Active
  <2>3. CASE UNCHANGED <<local, dst>> /\ att'.at = att.at
    <3>1. FileTyped'
      BY <1>0, <2>1, <2>2, <2>3, SMTT(30) DEF FileTyped
    <3>2. QED BY <2>1, <2>2, <2>3, <3>1, SMTT(30) DEF FileInv, Prefix, Follows
  <2>4. CASE \E to \in att.at..att'.at : WriteAll(att.at, to, att'.at)
    <3>1. PICK to \in att.at..att'.at : WriteAll(att.at, to, att'.at)
      BY <2>4
    <3>2. bytesDone' \in Nat
      BY <1>0, <2>1
    <3>3. QED BY <1>0, <2>1, <2>2, <3>1, <3>2, FileWritten, SMTT(30)
  <2>5. QED BY <2>1, <2>3, <2>4, Zenon
<1>15. ASSUME NEW got \in 1..Chunk, Serial(got) PROVE FileTyped' /\ FileInv'
  <2>1. att.pc = "serial" /\ WriteAll(att.at, att.at, att.at + got) /\ att' = [att EXCEPT !.at = @ + got] /\ bytesDone' = bytesDone + got /\ UNCHANGED <<mode, late, outlived>>
    BY <1>15 DEF Serial
  <2>2. att'.pc = "serial" /\ att'.at = att.at + got
    BY <1>0, <2>1 DEF Attempts
  <2>3. Active /\ Active'
    BY <2>1, <2>2, Zenon DEF Active
  <2>4. bytesDone' \in Nat /\ att.at \in att.at..att'.at
    BY <1>0, <1>1, <2>1, <2>2, SMTT(30)
  <2>5. ~outlived => bytesDone' = att'.at
    BY <2>1, <2>2, <2>3 DEF FileInv
  <2>6. WriteAll(att.at, att.at, att'.at)
    BY <2>1, <2>2, Zenon
  <2>7. QED BY <1>0, <2>1, <2>3, <2>4, <2>5, <2>6, FileWritten
<1>16. CASE TogglePause
  <2>1. UNCHANGED <<remote, local, dst, late, mode, bytesDone, outlived, att>>
    BY <1>16 DEF TogglePause
  <2>2. QED BY <2>1 DEF FileTyped, FileInv, Active, Prefix, Follows
<1>17. ASSUME NEW n \in 0..(Total - 1), Shrink(n) PROVE FileTyped' /\ FileInv'
  <2>1. UNCHANGED <<local, dst, late, mode, bytesDone, outlived, att>> /\ att.pc # "done"
    BY <1>17 DEF Shrink
  <2>2. QED BY <2>1, Zenon DEF FileTyped, FileInv, Active, Prefix, Follows
<1>18. QED
  BY <1>2, <1>3, <1>4, <1>5, <1>6, <1>7, <1>8, <1>9, <1>10, <1>11, <1>12, <1>13, <1>14, <1>15, <1>16, <1>17, SMTT(30) DEF Next, Progress

\* What the invariant says of a download.
LEMMA InvFaithful ==
  ASSUME DownloadConstants, DownloadInv PROVE DownloadFaithful
<1>0. /\ att \in Attempts /\ retries \in 0..MaxRetries /\ att.pc \in Pcs /\ att.at \in Nat /\ att.next \in Nat /\ ReadAhead \in Nat /\ MaxRetries \in Nat /\ Total \in Nat
      /\ local \in Seq(Nat) /\ Len(local) \in Nat
  BY DEF DownloadInv, PipeInv, Attempts, FileTyped, DownloadConstants
<1>1. DownloadTypeOK
  <2>1. CASE att.pc \in {"check", "join"}
    <3>1. Bounded(att)
      BY <2>1, Zenon DEF DownloadInv, PipeInv, Window
    <3>2. \A d \in att.reorder : d.at \in Nat /\ d.at >= att.at /\ d.at + d.len <= att.next
      BY <1>0, <3>1 DEF Bounded, Attempts, Ranges
    <3>3. QED BY <1>0, <3>1, <3>2 DEF Bounded, DownloadTypeOK
  <2>2. CASE att.pc = "flush"
    <3>1. att.fly = {} /\ att.next <= Total /\ \A x \in att.reorder : att.at <= x.at /\ x.at + x.len <= att.next
      BY <2>2, Zenon DEF DownloadInv, PipeInv
    <3>2. Cardinality(att.fly) = 0
      BY <3>1, FS_EmptySet, Zenon
    <3>3. \A d \in att.reorder : d.at \in Nat
      BY <1>0, Zenon DEF Attempts, Ranges
    <3>4. QED BY <1>0, <2>2, <3>1, <3>2, <3>3 DEF DownloadTypeOK
  <2>3. CASE att.pc \in {"begin", "open", "serial", "ended", "paused", "failed", "done"}
    <3>1. att.fly = {} /\ att.next <= Total /\ att.reorder = {}
      BY <2>3, Zenon DEF DownloadInv, PipeInv
    <3>2. Cardinality(att.fly) = 0
      BY <3>1, FS_EmptySet, Zenon
    <3>3. QED BY <1>0, <2>3, <3>1, <3>2 DEF DownloadTypeOK
  <2>4. QED BY <1>0, <2>1, <2>2, <2>3 DEF Pcs
<1>2. PrefixWritten
  BY Zenon DEF DownloadInv, FileInv, Active, Prefix, PrefixWritten
<1>3. DoneIsWhole
  <2>1. SUFFICES ASSUME att.pc = "done", remote = Total, ~outlived PROVE local = Data(0, Total)
    BY Zenon DEF DoneIsWhole
  <2>2. Prefix(local) /\ Len(local) = Total
    BY <2>1, Zenon DEF DownloadInv, FileInv
  <2>3. DOMAIN local = 1..Total /\ local = [i \in 1..Total |-> local[i]]
    BY <1>0, <2>2
  <2>4. \A i \in 1..Total : local[i] = 0 + i
    BY <1>0, <2>2 DEF Prefix
  <2>5. QED BY <2>3, <2>4 DEF Data
<1>4. QED BY <1>1, <1>2, <1>3, Zenon DEF DownloadFaithful

\* For every size of the file, of the chunks and of the window, whatever the order
\* and the length of the answers, the pauses and the retries: what is on disk is a
\* prefix of the remote file, bytes_done is its length with the write under way, and
\* a transfer that is done has the whole file; unless the remote file shrank or a
\* write outlived its attempt (transfer.rs, download_once).
THEOREM DownloadsAreFaithful ==
  ASSUME DownloadConstants PROVE Spec => []DownloadFaithful
<1>1. Init => DownloadInv
  BY PipeInit, FileInit, Zenon DEF DownloadInv
<1>2. DownloadInv /\ [Next]_vars => DownloadInv'
  <2>1. ASSUME DownloadInv, Next PROVE DownloadInv'
    <3>1. PipeInv /\ FileTyped /\ FileInv /\ local \in Seq(Nat)
      BY <2>1, Zenon DEF DownloadInv, FileTyped
    <3>2. PipeInv'
      BY <2>1, <3>1, PipeStep, Zenon
    <3>3. FileTyped' /\ FileInv'
      BY <2>1, <3>1, <3>2, FileStep
    <3>4. QED BY <3>2, <3>3 DEF DownloadInv
  <2>2. ASSUME DownloadInv, UNCHANGED vars PROVE DownloadInv'
    <3>1. UNCHANGED <<remote, local, mode, att, dst, late, bytesDone, retries, outlived>>
      BY <2>2, Zenon DEF vars
    <3>2. PipeInv'
      BY <2>2, <3>1, Zenon DEF DownloadInv, PipeInv, Window, Bounded, Disjoint, Covers, Waits, Filled
    <3>3. FileTyped'
      BY <2>2, <3>1 DEF DownloadInv, FileTyped, Active
    <3>4. FileInv'
      BY <2>2, <3>1, Zenon DEF DownloadInv, FileInv, Active, Prefix, Follows
    <3>5. QED BY <3>2, <3>3, <3>4 DEF DownloadInv
  <2>3. QED BY <2>1, <2>2, Zenon
<1>3. DownloadInv => DownloadFaithful
  BY InvFaithful, Zenon
<1>4. QED BY <1>1, <1>2, <1>3, PTL DEF Spec
=============================================================================
