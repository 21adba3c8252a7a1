----------------------------- MODULE Followers ------------------------------
(*****************************************************************************)
(* Those who follow the session table (SessionLifecycle), with what is       *)
(* promised of them.                                                         *)
(*****************************************************************************)
EXTENDS Naturals

CONSTANTS Stored, Tunnels, Commands, Owner, AdHoc, Capacity, MaxVersion, MaxOps

VARIABLES row, next, grouped, defs, followed, pool, queue, work, cmd, ops, silent, lateStarts, passed

Lifecycle == INSTANCE SessionLifecycle WITH Sessions <- Stored, run <- followed, late <- lateStarts

\* What the proofs need of the constants.
LifecycleConstants ==
  /\ Capacity \in Nat \ {0} /\ MaxVersion \in Nat \ {0}
  /\ Owner \in [Tunnels -> Stored] /\ "none" \notin Tunnels

\* Of the session table's followers: types; a pooled connection or a tunnel that is out of date
\* has its event on the way.
FollowersTold ==
  /\ Lifecycle!LifecycleTypeOK
  /\ Lifecycle!ConnectionsFollow
  /\ Lifecycle!TunnelsFollow
=============================================================================
