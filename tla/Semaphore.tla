----------------------------- MODULE Semaphore -----------------------------
(***************************************************************************)
(* What a resource budget promises its users: at most Cap permits are out  *)
(* at any time, and a permit is handed out only when one is free.  Budget  *)
(* is shown to implement this module; TransferQueue is built on it.        *)
(***************************************************************************)
EXTENDS Naturals, FiniteSets

CONSTANTS Clients, \* the tasks that ask for permits
          Cap      \* the number of permits (a cap of Caps)

ASSUME SemaphoreConstants == IsFiniteSet(Clients) /\ Cap \in Nat

VARIABLE holders   \* the tasks that hold a Permit

SemInit == holders = {}

CanTake == Cardinality(holders) < Cap

Take(c) == /\ c \notin holders
           /\ CanTake
           /\ holders' = holders \cup {c}

Give(c) == /\ c \in holders
           /\ holders' = holders \ {c}

SemNext == \E c \in Clients : Take(c) \/ Give(c)

SemSpec == SemInit /\ [][SemNext]_holders
=============================================================================
