----------------------------- MODULE JumpChain ------------------------------
(***************************************************************************)
(* The jump hosts of a session (resolve_spec_inner of                      *)
(* crates/app/src/sessions.rs): a session names its hops, a hop may have   *)
(* hops of its own, and one set of visited sessions guards the recursion.  *)
(* Sessions are edited and deleted without regard to who names them.       *)
(***************************************************************************)
EXTENDS Naturals, Sequences, FiniteSets, SequencesExt

CONSTANTS
  Sessions,
  MAX_JUMP_DEPTH,
  MaxHops             \* bound: hops a session names

VARIABLES
  kind,               \* ssh, local or none (no row)
  jump_chain

vars == <<kind, jump_chain>>

Chains == UNION {[1..n -> Sessions] : n \in 0..MaxHops}

Init ==
  /\ kind = [s \in Sessions |-> "none"]
  /\ jump_chain = [s \in Sessions |-> <<>>]

Upsert(s, k, c) ==
  /\ kind' = [kind EXCEPT ![s] = k] /\ jump_chain' = [jump_chain EXCEPT ![s] = c]
Delete(s) ==
  /\ kind[s] # "none"
  /\ kind' = [kind EXCEPT ![s] = "none"] /\ jump_chain' = [jump_chain EXCEPT ![s] = <<>>]

\* An answer: the hops from this machine on, and the sessions visited so far.
Err(visited) == [ok |-> FALSE, hops |-> <<>>, visited |-> visited]

RECURSIVE resolve_spec_inner(_, _)
\* Mutant: a hop's own hops are put behind it.
HopAfter(acc, h) ==
  IF ~acc.ok THEN acc
  ELSE LET r == resolve_spec_inner(h, acc.visited)
       IN  IF r.ok THEN [r EXCEPT !.hops = acc.hops \o <<h>> \o r.hops] ELSE r
\* One turn of the loop over the hops.
Hop(acc, h) ==
  IF ~acc.ok THEN acc
  ELSE LET r == resolve_spec_inner(h, acc.visited)
       IN  IF r.ok THEN [r EXCEPT !.hops = acc.hops \o r.hops \o <<h>>] ELSE r
\* Mutant: the depth is not counted.
RefusedDeep(s, visited) == s \in visited \/ kind[s] # "ssh"
\* What ends the recursion.
Refused(s, visited) ==
  s \in visited \/ Cardinality(visited \cup {s}) > MAX_JUMP_DEPTH \/ kind[s] # "ssh"
resolve_spec_inner(s, visited) ==
  IF Refused(s, visited) THEN Err(visited \cup {s})
  ELSE FoldLeft(Hop, [ok |-> TRUE, hops |-> <<>>, visited |-> visited \cup {s}], jump_chain[s])

resolve_spec(s) == resolve_spec_inner(s, {})

Next ==
  \E s \in Sessions :
    Delete(s) \/ \E k \in {"ssh", "local"}, c \in Chains : Upsert(s, k, c)

Spec == Init /\ [][Next]_vars

(***************************************************************************)
(* Properties.                                                             *)
(***************************************************************************)
Hops(s) == {jump_chain[s][i] : i \in DOMAIN jump_chain[s]}
\* The sessions a connection to s involves.
Involved(s) ==
  LET step(S) == S \cup UNION {Hops(t) : t \in S}
      reach[n \in 0..Cardinality(Sessions)] == IF n = 0 THEN {s} ELSE step(reach[n - 1])
  IN  reach[Cardinality(Sessions)]
\* How often they name t.
Named(s, t) == Cardinality({<<u, i>> \in Involved(s) \X (1..MaxHops) : i <= Len(jump_chain[u]) /\ jump_chain[u][i] = t})

\* A session resolves just when its hops form a tree of SSH sessions no larger
\* than the limit: no cycle, and no host that two of them share either.
ResolvesTrees ==
  \A s \in Sessions :
    resolve_spec(s).ok
      <=> /\ \A t \in Involved(s) : kind[t] = "ssh"
          /\ Named(s, s) = 0 /\ \A t \in Involved(s) \ {s} : Named(s, t) = 1
          /\ Cardinality(Involved(s)) <= MAX_JUMP_DEPTH

\* The hops that come out are those sessions, each once, and each behind the
\* hops it is itself reached through.
HopsInOrder ==
  \A s \in Sessions :
    LET hops == resolve_spec(s).hops
    IN  resolve_spec(s).ok =>
          /\ ToSet(hops) = Involved(s) \ {s} /\ Len(hops) = Cardinality(Involved(s)) - 1
          /\ \A i \in DOMAIN hops : \A t \in Hops(hops[i]) : \E j \in 1..(i - 1) : hops[j] = t
=============================================================================
