--------------------------- MODULE StreamProtocol ---------------------------
(***************************************************************************)
(* The cumulative-ACK credit protocol of one terminal stream epoch:        *)
(* CreditState in crates/app/src/stream_protocol.rs.                       *)
(*                                                                         *)
(* The read loop is the only writer: it takes credit for n bytes, then     *)
(* allocates a frame of n bytes and sends it.  Every term_credit command   *)
(* is a task of its own on the runtime, so any number of ack() calls run   *)
(* concurrently, interleaved at their atomic accesses.                     *)
(***************************************************************************)
EXTENDS Integers, FiniteSets

CONSTANTS
    CreditHigh,   \* CREDIT_HIGH: bytes the frontend may leave unacknowledged
    MaxOffset,    \* u64::MAX, the last offset a frame may end at
    AckIds        \* the term_credit commands that can be in flight at once

ASSUME StreamConstants ==
    /\ CreditHigh \in Nat \ {0}
    /\ MaxOffset \in Nat

VARIABLES
    sent_total,   \* bytes registered as sent
    acked_total,  \* bytes acknowledged
    broken,       \* a send failed (or the offset overflowed): the epoch is over
    credits,      \* permits left in the semaphore
    held,         \* credit the read loop has taken and not yet framed
    ack           \* the ack() call each command is in

streamVars == <<sent_total, acked_total, broken, credits, held, ack>>

Offsets == 0 .. MaxOffset + 1

AckCall == [pc : {"idle", "check", "load_sent", "cas", "add_permits"},
            incoming : Offsets, cur : Nat, newly : Nat]

NoCall == [pc |-> "idle", incoming |-> 0, cur |-> 0, newly |-> 0]

\* The counters and permits of CreditState never leave their types: no subtraction goes
\* below zero and no frame ends beyond u64::MAX.
StreamTypeOK ==
    /\ sent_total \in 0 .. MaxOffset
    /\ acked_total \in Nat
    /\ broken \in BOOLEAN
    /\ credits \in Nat
    /\ held \in Nat
    /\ ack \in [AckIds -> AckCall]

StreamInit ==
    /\ sent_total = 0
    /\ acked_total = 0
    /\ broken = FALSE
    /\ credits = CreditHigh
    /\ held = 0
    /\ ack = [a \in AckIds |-> NoCall]

-----------------------------------------------------------------------------
(***************************************************************************)
(* The read loop's side.                                                   *)
(***************************************************************************)

\* acquire_credit / try_acquire_credit: n permits are taken and forgotten.
TakeCredit(n) ==
    /\ credits >= n
    /\ credits' = credits - n
    /\ held' = n
    /\ UNCHANGED <<sent_total, acked_total, broken, ack>>

\* Mutant: alloc_frame forgets to look at broken.
CanAllocBroken == sent_total + held <= MaxOffset

\* alloc_frame returns a frame: not broken, and the end offset fits.
CanAlloc == ~broken /\ sent_total + held <= MaxOffset

\* Mutant: a failed send gives its credit back though its range is registered.
SendFrameRefund(delivered) ==
    /\ sent_total' = IF CanAlloc THEN sent_total + held ELSE sent_total
    /\ broken' = (broken \/ ~CanAlloc \/ ~delivered)
    /\ credits' = IF delivered THEN credits ELSE credits + held
    /\ held' = 0
    /\ UNCHANGED <<acked_total, ack>>

\* send_frame: the range is registered before the frame is handed to the sink
\* (delivered says whether the sink took it); a failed send breaks the epoch, an
\* offset overflow breaks it too, and the credit is never given back.
SendFrame(delivered) ==
    /\ sent_total' = IF CanAlloc THEN sent_total + held ELSE sent_total
    /\ broken' = (broken \/ ~CanAlloc \/ ~delivered)
    /\ held' = 0
    /\ UNCHANGED <<acked_total, credits, ack>>

-----------------------------------------------------------------------------
(***************************************************************************)
(* ack(epoch, incoming), one action per atomic access.                     *)
(***************************************************************************)

\* term_credit arrives; an ACK of another epoch is dropped before it has any effect.
AckCalled(a, incoming) ==
    /\ ack[a].pc = "idle"
    /\ ack' = [ack EXCEPT ![a] = [NoCall EXCEPT !.pc = "check", !.incoming = incoming]]
    /\ UNCHANGED <<sent_total, acked_total, broken, credits, held>>

\* The broken check and the first load of acked_total.
AckCheck(a) ==
    /\ ack[a].pc = "check"
    /\ ack' = IF broken
              THEN [ack EXCEPT ![a] = NoCall]
              ELSE [ack EXCEPT ![a].pc = "load_sent", ![a].cur = acked_total]
    /\ UNCHANGED <<sent_total, acked_total, broken, credits, held>>

\* What the call may acknowledge: never beyond incoming, never beyond sent_total.
Newly(c) == (IF c.incoming < sent_total THEN c.incoming ELSE sent_total) - c.cur

\* Mutant: off by one, a one-byte ACK counts as stale.
AckLoadSentOffByOne(a) ==
    /\ ack[a].pc = "load_sent"
    /\ ack' = IF Newly(ack[a]) <= 1
              THEN [ack EXCEPT ![a] = NoCall]
              ELSE [ack EXCEPT ![a].pc = "cas", ![a].newly = Newly(ack[a])]
    /\ UNCHANGED <<sent_total, acked_total, broken, credits, held>>

\* Head of the CAS loop: a repeated or stale ACK is dropped.
AckLoadSent(a) ==
    /\ ack[a].pc = "load_sent"
    /\ ack' = IF Newly(ack[a]) <= 0
              THEN [ack EXCEPT ![a] = NoCall]
              ELSE [ack EXCEPT ![a].pc = "cas", ![a].newly = Newly(ack[a])]
    /\ UNCHANGED <<sent_total, acked_total, broken, credits, held>>

\* Mutant: fetch_add in place of compare_exchange.
AckFetchAdd(a) ==
    /\ ack[a].pc = "cas"
    /\ acked_total' = acked_total + ack[a].newly
    /\ ack' = [ack EXCEPT ![a].pc = "add_permits"]
    /\ UNCHANGED <<sent_total, broken, credits, held>>

\* compare_exchange_weak: on failure the loop starts again from the value found.  (A
\* spurious failure finds the value it expected: the call has only been slower.)
AckCas(a) ==
    /\ ack[a].pc = "cas"
    /\ \/ /\ acked_total = ack[a].cur
          /\ acked_total' = acked_total + ack[a].newly
          /\ ack' = [ack EXCEPT ![a].pc = "add_permits"]
       \/ /\ acked_total # ack[a].cur
          /\ ack' = [ack EXCEPT ![a].pc = "load_sent", ![a].cur = acked_total]
          /\ UNCHANGED acked_total
    /\ UNCHANGED <<sent_total, broken, credits, held>>

AckAddPermits(a) ==
    /\ ack[a].pc = "add_permits"
    /\ credits' = credits + ack[a].newly
    /\ ack' = [ack EXCEPT ![a] = NoCall]
    /\ UNCHANGED <<sent_total, acked_total, broken, held>>

AckStep(a) == AckCheck(a) \/ AckLoadSent(a) \/ AckCas(a) \/ AckAddPermits(a)

-----------------------------------------------------------------------------
StreamNext ==
    \/ held = 0 /\ \E n \in 1 .. CreditHigh : TakeCredit(n)
    \/ held > 0 /\ \E delivered \in BOOLEAN : SendFrame(delivered)
    \/ \E a \in AckIds, incoming \in Offsets : AckCalled(a, incoming)
    \/ \E a \in AckIds : AckStep(a)

StreamSpec == StreamInit /\ [][StreamNext]_streamVars

-----------------------------------------------------------------------------
\* Byte x was acknowledged by a call that has not yet put its permit back.
BeingRefunded(a, x) ==
    /\ ack[a].pc = "add_permits"
    /\ ack[a].cur < x
    /\ x <= ack[a].cur + ack[a].newly

Refunding == {x \in 1 .. acked_total : \E a \in AckIds : BeingRefunded(a, x)}

\* Credit conservation: permits in the semaphore, credit held by the read loop, bytes
\* sent and unacknowledged, and refunds under way add up to CREDIT_HIGH; a broken epoch
\* only ever loses credit ("不回补信用"), so no interleaving of ACKs mints a permit.
CreditConserved ==
    LET total == credits + held + (sent_total - acked_total) + Cardinality(Refunding)
    IN  total <= CreditHigh /\ (~broken => total = CreditHigh)

\* The gate works: the frontend never has more than CREDIT_HIGH unacknowledged bytes,
\* and outstanding() never saturates because acked_total stays within sent_total.
WindowBounded ==
    /\ acked_total <= sent_total
    /\ sent_total - acked_total <= CreditHigh

\* Both: the credit is what it should be, and so is the window it stands for.
CreditSound == CreditConserved /\ WindowBounded

\* Within an epoch sent_total and acked_total only grow, and once the epoch is broken
\* no offset is allocated again (module invariants of stream_protocol.rs).
EpochMonotone ==
    [][/\ sent_total' >= sent_total
       /\ acked_total' >= acked_total
       /\ broken => broken' /\ sent_total' = sent_total]_streamVars
=============================================================================
