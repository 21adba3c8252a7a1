------------------------------- MODULE Budget -------------------------------
(***************************************************************************)
(* crates/core-policy/src/budget.rs: a counter with a hard cap taken by    *)
(* compare-and-swap, RAII permits, and a tokio Notify that wakes waiters.  *)
(*                                                                         *)
(* Every await and every atomic operation is a step of its own.  A client  *)
(* is one task calling acquire, acquire_timeout or try_acquire.  Its pc:   *)
(*   "idle"      no call in progress                                       *)
(*   "take"      about to run cas_take                                     *)
(*   "register"  cas_take found the budget full; about to poll notified()  *)
(*   "asleep"    registered in the Notify's queue                          *)
(*   "woken"     notified, not scheduled yet                               *)
(*   "held"      owns a Permit                                             *)
(*   "notify"    the Permit's drop has given the unit back and has still   *)
(*               to call notify_one                                        *)
(***************************************************************************)
EXTENDS Lists, Functions, FiniteSets

CONSTANTS Clients, Cap, MaxRejected

ASSUME BudgetConstants == /\ IsFiniteSet(Clients)
                          /\ Cap \in Nat
                          /\ MaxRejected \in Nat

VARIABLES used,      \* Budget.used
          rejected,  \* Budget.rejected, counted up to MaxRejected
          stored,    \* the Notify holds a permit for a waiter yet to come
          queue,     \* the Notify's registered waiters, first in first out
          pc,
          mode       \* the call in progress: "acquire", "timeout" or "try"

vars == <<used, rejected, stored, queue, pc, mode>>

PCs == {"idle", "take", "register", "asleep", "woken", "held", "notify"}
Modes == {"acquire", "timeout", "try"}

\* Every variable of the budget has its type: the counter of budget.rs never
\* wraps below zero, and the Notify's queue holds each sleeping call once.
BudgetTypeOK == /\ used \in Nat
                /\ rejected \in 0..MaxRejected
                /\ stored \in BOOLEAN
                /\ queue \in Seq(Clients)
                /\ pc \in [Clients -> PCs]
                /\ mode \in [Clients -> Modes]

Init == /\ used = 0
        /\ rejected = 0
        /\ stored = FALSE
        /\ queue = <<>>
        /\ pc = [c \in Clients |-> "idle"]
        /\ mode = [c \in Clients |-> "acquire"]

Goto(c, l) == pc' = [pc EXCEPT ![c] = l]

\* A task calls acquire, acquire_timeout or try_acquire.
Call(c, m) == /\ pc[c] = "idle"
              /\ Goto(c, "take")
              /\ mode' = [mode EXCEPT ![c] = m]
              /\ UNCHANGED <<used, rejected, stored, queue>>

\* rejected.fetch_add: the statistics of refused calls.
CountRejected == rejected' = IF rejected < MaxRejected THEN rejected + 1 ELSE rejected

\* Mutant: the comparison with the cap is off by one.
CasTakeOffByOne(c) == /\ pc[c] = "take"
                      /\ used <= Cap
                      /\ used' = used + 1
                      /\ Goto(c, "held")
                      /\ UNCHANGED <<rejected, stored, queue, mode>>

\* cas_take inside the loop of acquire and acquire_timeout, or in try_acquire.
CasTake(c) == /\ pc[c] = "take"
              /\ \/ /\ used < Cap
                    /\ used' = used + 1
                    /\ Goto(c, "held")
                    /\ UNCHANGED rejected
                 \/ /\ used >= Cap
                    /\ mode[c] = "try"
                    /\ Goto(c, "idle")
                    /\ CountRejected
                    /\ UNCHANGED used
                 \/ /\ used >= Cap
                    /\ mode[c] # "try"
                    /\ Goto(c, "register")
                    /\ UNCHANGED <<used, rejected>>
              /\ UNCHANGED <<stored, queue, mode>>

\* notified().await, first poll: a stored permit is consumed at once, else
\* the task joins the queue.
Notified(c) == /\ pc[c] = "register"
               /\ IF stored
                    THEN /\ stored' = FALSE
                         /\ Goto(c, "take")
                         /\ UNCHANGED queue
                    ELSE /\ queue' = Append(queue, c)
                         /\ Goto(c, "asleep")
                         /\ UNCHANGED stored
               /\ UNCHANGED <<used, rejected, mode>>

\* The woken task runs again and goes back to the top of its loop.
Resumed(c) == /\ pc[c] = "woken"
              /\ Goto(c, "take")
              /\ UNCHANGED <<used, rejected, stored, queue, mode>>

\* Notify::notify_one, called by a task whose own next label is l: the first
\* registered waiter is woken; with none, one permit (never two) is stored.
NotifyOne(q, c, l) ==
  IF q = <<>>
    THEN /\ stored' = TRUE
         /\ queue' = q
         /\ Goto(c, l)
    ELSE /\ queue' = Tail(q)
         /\ pc' = [pc EXCEPT ![Head(q)] = "woken", ![c] = l]
         /\ UNCHANGED stored

\* Permit::drop, first statement: the unit is given back.
DropPermit(c) == /\ pc[c] = "held"
                 /\ used' = used - 1
                 /\ Goto(c, "notify")
                 /\ UNCHANGED <<rejected, stored, queue, mode>>

\* Mutant: the permit gives its unit back and wakes nobody.
DropSilently(c) == /\ pc[c] = "notify"
                   /\ Goto(c, "idle")
                   /\ UNCHANGED <<used, rejected, stored, queue, mode>>

\* Permit::drop, second statement: notify_one.
DropNotify(c) == /\ pc[c] = "notify"
                 /\ NotifyOne(queue, c, "idle")
                 /\ UNCHANGED <<used, rejected, mode>>

\* The timeout of acquire_timeout fires while the task waits.  Dropping the
\* Notified future takes it off the queue; a wake-up it had already been
\* given is handed on (tokio's Notified::drop).
TimedOut(c) == /\ mode[c] = "timeout"
               /\ \/ /\ pc[c] = "asleep"
                     /\ \E i \in DOMAIN queue : queue[i] = c /\ queue' = Without(queue, i)
                     /\ Goto(c, "idle")
                     /\ UNCHANGED stored
                  \/ /\ pc[c] = "woken"
                     /\ NotifyOne(queue, c, "idle")
               /\ CountRejected
               /\ UNCHANGED <<used, mode>>

WaiterStep(c) == CasTake(c) \/ Notified(c) \/ Resumed(c) \/ DropNotify(c)

Next == \E c \in Clients : \/ \E m \in Modes : Call(c, m)
                           \/ WaiterStep(c)
                           \/ DropPermit(c)
                           \/ TimedOut(c)

Spec == Init /\ [][Next]_vars

(***************************************************************************)
(* Scheduling.  The runtime polls every task that is ready, so a step that *)
(* needs no one else is taken.  How long a permit is held is its owner's   *)
(* choice: HoldersReturn adds that every owner gives it back eventually,   *)
(* as a file transfer does and an open terminal need not.                  *)
(***************************************************************************)
Fairness == \A c \in Clients : WF_vars(WaiterStep(c))
HoldersReturn == \A c \in Clients : WF_vars(DropPermit(c))

FairSpec == Spec /\ Fairness /\ HoldersReturn

-----------------------------------------------------------------------------
Holders == {c \in Clients : pc[c] = "held"}

\* The budget counts what is out: used is the number of live Permits, whatever
\* order drops, takes, timeouts and wake-ups come in, and so never exceeds cap.
UsedCountsPermits == used = Cardinality(Holders) /\ used <= Cap

\* A call sleeps in the Notify's queue exactly while it is registered there,
\* once: no timed-out call is left behind to swallow another call's wake-up.
QueueIsSleepers == /\ \A i, j \in DOMAIN queue : queue[i] = queue[j] => i = j
                   /\ Range(queue) = {c \in Clients : pc[c] = "asleep"}

\* The missed wake-up that Permit::drop's comment rules out: when a call sleeps
\* with a unit free, some wake-up is still on its way, or a stored one was
\* collapsed and then an owner that will notify holds a unit.
SleepersHaveAWaker ==
  queue # <<>> => \E c \in Clients : pc[c] \in {"held", "notify", "woken", "take"}

\* What the budget promises (module Semaphore).
Sem == INSTANCE Semaphore WITH holders <- Holders
SemSpec == Sem!SemSpec

\* Permit::drop, "a waiter that registers late is still woken": no call sleeps
\* for ever, whichever way drops, failed takes and registrations interleave,
\* although the Notify stores one wake-up only.  (A woken call may find the unit
\* gone and sleep again.)
SleeperServed ==
  \A c \in Clients : pc[c] = "asleep" ~> (pc[c] # "asleep")
=============================================================================
