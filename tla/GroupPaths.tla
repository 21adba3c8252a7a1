----------------------------- MODULE GroupPaths -----------------------------
(***************************************************************************)
(* The session groups (crates/core-store/src/session.rs): a group is a     *)
(* string, the group of a session a column, and the operations on a group  *)
(* are SQL on prefixes of it.  A string is the sequence of its characters, *)
(* of which only the separator differs from the others.                    *)
(***************************************************************************)
EXTENDS Naturals, Sequences, FiniteSets, SequencesExt

CONSTANTS
  Sessions,
  Gone,               \* a session without a row
  MaxArg,             \* bound: characters of a path that is entered
  MaxLen              \* bound: characters of a path in the table

VARIABLE group_path

Paths == UNION {[1..n -> {"a", "/"}] : n \in 0..MaxArg}

Init == group_path = [s \in Sessions |-> Gone]

\* split('/').
Segments(p) ==
  FoldLeft(LAMBDA segs, c : IF c = "/" THEN Append(segs, <<>>) ELSE [segs EXCEPT ![Len(segs)] = Append(@, c)],
           << <<>> >>, p)
validate_group_path(p) == p = <<>> \/ \A k \in DOMAIN Segments(p) : Segments(p)[k] # <<>>

\* SQLite's substr, to the end; and its prefix of n characters.
substr(p, from) == SubSeq(p, from, Len(p))
prefix(p, n) == SubSeq(p, 1, n)

\* Mutant: the prefix is compared without the separator behind it.
UnderAny(p, g) == Len(p) > Len(g) /\ prefix(p, Len(g)) = g
\* The WHERE of the subtree, without the group itself.
Under(p, g) == Len(p) > Len(g) /\ prefix(p, Len(g)) = g /\ p[Len(g) + 1] = "/"

Rows == {s \in Sessions : group_path[s] # Gone}
\* The rows the WHERE of a group finds, and an UPDATE of some rows.
Subtree(g) == {s \in Rows : group_path[s] = g \/ Under(group_path[s], g)}
Update(found, to) == group_path' = [s \in Sessions |-> IF s \in found THEN to[s] ELSE group_path[s]]

\* upsert_row, which takes the path as it is.
upsert(s, p) == group_path' = [group_path EXCEPT ![s] = p]
\* move_to_group.
move_to_group(ids, p) ==
  /\ validate_group_path(p) /\ ids # {}
  /\ Update(ids \cap Rows, [s \in ids |-> p])
delete(s) == s \in Rows /\ group_path' = [group_path EXCEPT ![s] = Gone]

\* Mutant: a group that becomes none leaves its separator.
group_renameSlash(old, new) ==
  /\ validate_group_path(old) /\ validate_group_path(new) /\ old # <<>> /\ old # new /\ ~Under(new, old)
  /\ Update(Subtree(old), [s \in Subtree(old) |-> new \o substr(group_path[s], Len(old) + 1)])
group_rename(old, new) ==
  /\ validate_group_path(old) /\ validate_group_path(new) /\ old # <<>> /\ old # new /\ ~Under(new, old)
  /\ Update(Subtree(old),
            [s \in Subtree(old) |-> IF new = <<>> THEN substr(group_path[s], Len(old) + 2)
                                   ELSE new \o substr(group_path[s], Len(old) + 1)])

Parent(g) ==
  LET at == {i \in DOMAIN g : g[i] = "/"}
  IN  IF at = {} THEN <<>> ELSE SubSeq(g, 1, (CHOOSE i \in at : \A j \in at : j <= i) - 1)
\* group_delete without its sessions: two statements in one transaction.
group_dissolve(g) ==
  /\ validate_group_path(g) /\ g # <<>>
  /\ Update(Subtree(g),
            [s \in Subtree(g) |-> IF group_path[s] = g THEN <<>>
                                 ELSE IF Parent(g) = <<>> THEN substr(group_path[s], Len(g) + 2)
                                 ELSE Parent(g) \o <<"/">> \o substr(group_path[s], Len(g) + 2)])
\* group_delete with them.
group_delete(g) ==
  /\ validate_group_path(g) /\ g # <<>>
  /\ Update(Subtree(g), [s \in Subtree(g) |-> Gone])

Bounded == \A s \in Sessions : IF group_path'[s] = Gone THEN TRUE ELSE Len(group_path'[s]) <= MaxLen
OfGroups ==
  \/ \E ids \in SUBSET Sessions, p \in Paths : move_to_group(ids, p)
  \/ \E old, new \in Paths : group_rename(old, new)
  \/ \E g \in Paths : group_dissolve(g) \/ group_delete(g)
Next ==
  /\ \/ \E s \in Sessions : delete(s) \/ \E p \in Paths : upsert(s, p)
     \/ OfGroups
  /\ Bounded

Spec == Init /\ [][Next]_group_path

(***************************************************************************)
(* Properties.                                                             *)
(***************************************************************************)
Group(p) == IF p = <<>> THEN <<>> ELSE Segments(p)
Tree == INSTANCE GroupTree WITH
  where <- [s \in Sessions |-> IF group_path[s] = Gone THEN Gone ELSE Group(group_path[s])]

OnTheTree ==
  \A g \in Paths :
    /\ group_dissolve(g) => Tree!Dissolve(Group(g))
    /\ group_delete(g) => Tree!DeleteGroup(Group(g))
    /\ \A ids \in SUBSET Sessions : move_to_group(ids, g) => Tree!Put(ids, Group(g))
    /\ \A new \in Paths : group_rename(g, new) => Tree!Rename(Group(g), Group(new))
KeepsWellFormed ==
  OfGroups => \A s \in Rows : group_path'[s] # Gone /\ validate_group_path(group_path[s])
                                => validate_group_path(group_path'[s])
GroupStep == OnTheTree /\ KeepsWellFormed
\* The SQL on prefixes is the tree's operations: a rename, a move or a deletion
\* reaches the group, the groups in it and no other whose name begins alike; and
\* none makes a malformed path of a well-formed one.
GroupsAreATree == [][GroupStep]_group_path
=============================================================================
