---------------------------- MODULE TransferFeed ----------------------------
(***************************************************************************)
(* The list of transfers the user sees: transfer_subscribe                 *)
(* (crates/app/src/sftp.rs), a task per subscription that sends a snapshot *)
(* and then, tick by tick, what changed; and the store of the UI that      *)
(* applies the frames, checks their numbers and subscribes anew when one   *)
(* is missing (app/ui/src/state/transfer-store.ts).                        *)
(*                                                                         *)
(* An entity is a transfer or a directory job; its payload is the number   *)
(* of its last change.                                                     *)
(***************************************************************************)
EXTENDS Naturals, Sequences, SequencesExt

CONSTANTS
  Entities,
  FrameMax,           \* MAX_EVENTS_PER_FRAME
  MaxChange,          \* bound: changes of an entity
  MaxSubs,            \* bound: subscriptions
  MaxFlight           \* bound: a tick finds fewer frames than this on the way

Absent == 0
Gone == MaxChange + 1  \* it was removed; identifiers are not used again
Subs == 1..MaxSubs

VARIABLES
  table,              \* the entities of the session's context, as collect finds them
  feed,               \* of each subscription: its state, generation, prev and seqs
  chan,               \* its frames on the way to the UI
  gens,               \* GENERATION_SEQ
  sub,                \* the UI's subscription: number, generation and seqs
  view,               \* what the UI shows
  listing,            \* the answer to transfer_list: asked for, or on its way
  split,              \* history: the subscriptions whose snapshot took several frames
  ghosts              \* history: entities shown again by a listing that was out of date

vars == <<table, feed, chan, gens, sub, view, listing, split, ghosts>>

Nothing == [e \in Entities |-> Absent]
Live(t) == {e \in Entities : t[e] \notin {Absent, Gone}}
Shown(t) == [e \in Entities |-> IF e \in Live(t) THEN t[e] ELSE Absent]
NoFeed == [st |-> "new", gen |-> 0, prev |-> Nothing, seqs |-> Nothing]
NoSub == [open |-> FALSE, id |-> 0, gen |-> 0, seqs |-> Nothing]
NoRows == [st |-> "none", rows |-> Nothing]

Init ==
  /\ table = Nothing /\ gens = 1 /\ view = Nothing /\ listing = NoRows
  /\ feed = [s \in Subs |-> NoFeed] /\ chan = [s \in Subs |-> <<>>]
  /\ sub = NoSub /\ split = {} /\ ghosts = {}

(***************************************************************************)
(* The context: transfers change and are removed; one that is reclaimed    *)
(* takes all with it.                                                      *)
(***************************************************************************)
Change(e) ==
  /\ table[e] < MaxChange /\ table' = [table EXCEPT ![e] = @ + 1]
  /\ UNCHANGED <<feed, chan, gens, sub, view, listing, split, ghosts>>
Vanish(gone) ==
  /\ gone # {} /\ gone \subseteq Live(table)
  /\ table' = [e \in Entities |-> IF e \in gone THEN Gone ELSE table[e]]
  /\ UNCHANGED <<feed, chan, gens, sub, view, listing, split, ghosts>>

(***************************************************************************)
(* A subscription.                                                         *)
(***************************************************************************)
Event(e, seq, payload) == [id |-> e, seq |-> seq, payload |-> payload]
\* chunk_frames: at most FrameMax events in a frame.
chunk_frames(kind, gen, events) ==
  [i \in 1..((Len(events) + FrameMax - 1) \div FrameMax) |->
     [kind |-> kind, gen |-> gen,
      events |-> SubSeq(events, (i - 1) * FrameMax + 1, IF i * FrameMax < Len(events) THEN i * FrameMax ELSE Len(events))]]
\* Mutant: an empty snapshot is no frame.
snapshot_framesSome(gen, events) == chunk_frames("snapshot", gen, events)
\* snapshot_frames: an empty snapshot is a frame too.
snapshot_frames(gen, events) ==
  IF events = <<>> THEN <<[kind |-> "snapshot", gen |-> gen, events |-> <<>>]>> ELSE chunk_frames("snapshot", gen, events)

\* The task begins: its generation, and a snapshot with number 1 of every entity.
Start(s) ==
  LET all == SetToSeq(Live(table))
  IN  /\ s <= sub.id /\ feed[s].st = "new"
      /\ gens' = gens + 1
      /\ feed' = [feed EXCEPT ![s] =
                    [st |-> "on", gen |-> gens, prev |-> Shown(table),
                     seqs |-> [e \in Entities |-> IF e \in Live(table) THEN 1 ELSE 0]]]
      /\ chan' = [chan EXCEPT ![s] = snapshot_frames(gens, [i \in DOMAIN all |-> Event(all[i], 1, table[all[i]])])]
      /\ split' = IF Len(all) > FrameMax THEN split \cup {s} ELSE split
      /\ UNCHANGED <<table, sub, view, listing, ghosts>>

\* A tick: what changed since the last is sent, an entity that disappeared as
\* removed.
Tick(s) ==
  LET f == feed[s]
      changed == {e \in Entities : Shown(table)[e] # f.prev[e]}
      all == SetToSeq(changed)
  IN  /\ f.st = "on" /\ Len(chan[s]) < MaxFlight /\ changed # {}
      /\ feed' = [feed EXCEPT ![s].prev = Shown(table),
                    ![s].seqs = [e \in Entities |-> IF e \in changed THEN f.seqs[e] + 1 ELSE f.seqs[e]]]
      /\ chan' = [chan EXCEPT ![s] = @ \o chunk_frames("events", f.gen,
                    [i \in DOMAIN all |-> Event(all[i], f.seqs[all[i]] + 1, Shown(table)[all[i]])])]
      /\ UNCHANGED <<table, gens, sub, view, listing, split, ghosts>>

(***************************************************************************)
(* The UI.                                                                 *)
(***************************************************************************)
\* ensureSession: a new channel, and transfer_list with it.  rebuildSession
\* forgets the channel before, whose frames still come.
Subscribed ==
  IF sub.id < MaxSubs
  THEN /\ sub' = [open |-> TRUE, id |-> sub.id + 1, gen |-> 0, seqs |-> Nothing]
       /\ listing' = [listing EXCEPT !.st = IF @ = "none" THEN "asked" ELSE @]
  ELSE sub' = [sub EXCEPT !.open = FALSE] /\ UNCHANGED listing
ensureSession ==
  /\ ~sub.open /\ sub.id < MaxSubs /\ Subscribed
  /\ UNCHANGED <<table, feed, chan, gens, view, split, ghosts>>
\* The watchdog: no frame came for too long, because the context takes long.
Watchdog ==
  /\ sub.open /\ sub.id < MaxSubs /\ feed[sub.id].st = "new" /\ Subscribed
  /\ UNCHANGED <<table, feed, chan, gens, view, split, ghosts>>
\* The context of a subscription cannot be made: whatever the session has by
\* now is forgotten.
SubscribeFails(s) ==
  /\ s <= sub.id /\ feed[s].st = "new"
  /\ feed' = [feed EXCEPT ![s].st = "failed"] /\ sub' = [sub EXCEPT !.open = FALSE]
  /\ UNCHANGED <<table, chan, gens, view, listing, split, ghosts>>

\* transfer_list is answered on a way of its own; entities that are not shown
\* are added.
ListReads ==
  /\ listing.st = "asked" /\ listing' = [st |-> "way", rows |-> Shown(table)]
  /\ UNCHANGED <<table, feed, chan, gens, sub, view, split, ghosts>>
ListArrives ==
  LET added == {e \in Entities : listing.rows[e] # Absent /\ view[e] = Absent}
  IN  /\ listing.st = "way" /\ listing' = NoRows
      /\ view' = [e \in Entities |-> IF e \in added THEN listing.rows[e] ELSE view[e]]
      /\ ghosts' = ghosts \cup added
      /\ UNCHANGED <<table, feed, chan, gens, sub, split>>

Number(seqs, ev) == IF ev.seq > seqs[ev.id] THEN ev.seq ELSE seqs[ev.id]
New(seqs, events) == {i \in DOMAIN events : events[i].seq > seqs[events[i].id]}
Gap(seqs, events) == \E i \in DOMAIN events : events[i].seq > seqs[events[i].id] + 1
\* The seqs and the view after some of the events of a frame (one per entity).
Numbered(seqs, events) ==
  [e \in Entities |-> IF \E i \in DOMAIN events : events[i].id = e
                      THEN Number(seqs, events[CHOOSE i \in DOMAIN events : events[i].id = e]) ELSE seqs[e]]
Applied(v, seqs, events) ==
  [e \in Entities |-> IF \E i \in New(seqs, events) : events[i].id = e
                      THEN events[CHOOSE i \in New(seqs, events) : events[i].id = e].payload ELSE v[e]]

\* Mutant: the numbers of the snapshot are not taken.
SnapshotUnnumbered(s) ==
  LET f == Head(chan[s])
  IN  /\ chan[s] # <<>> /\ sub.open /\ f.kind = "snapshot"
      /\ sub' = [sub EXCEPT !.gen = f.gen, !.seqs = Nothing]
      /\ view' = Applied(Nothing, Nothing, f.events) /\ ghosts' = {}
      /\ chan' = [chan EXCEPT ![s] = Tail(@)]
      /\ UNCHANGED <<table, feed, gens, listing, split>>
\* A snapshot replaces everything.
Snapshot(s) ==
  LET f == Head(chan[s])
  IN  /\ chan[s] # <<>> /\ sub.open /\ f.kind = "snapshot"
      /\ sub' = [sub EXCEPT !.gen = f.gen, !.seqs = Numbered(Nothing, f.events)]
      /\ view' = Applied(Nothing, Nothing, f.events) /\ ghosts' = {}
      /\ chan' = [chan EXCEPT ![s] = Tail(@)]
      /\ UNCHANGED <<table, feed, gens, listing, split>>
\* Mutant: the generation of a frame is not looked at.
EventsAnyGeneration(s) ==
  LET f == Head(chan[s])
  IN  /\ chan[s] # <<>> /\ sub.open /\ f.kind = "events"
      /\ IF Gap(sub.seqs, f.events) THEN Subscribed /\ UNCHANGED <<view, ghosts>>
         ELSE /\ sub' = [sub EXCEPT !.seqs = Numbered(@, f.events)] /\ UNCHANGED listing
              /\ view' = Applied(view, sub.seqs, f.events)
              /\ ghosts' = ghosts \ {f.events[i].id : i \in New(sub.seqs, f.events)}
      /\ chan' = [chan EXCEPT ![s] = Tail(@)]
      /\ UNCHANGED <<table, feed, gens, split>>
\* applyTransferEvents: a frame of another generation is dropped, a number that
\* is too high subscribes anew, one that is not new is passed over.
Events(s) ==
  LET f == Head(chan[s])
  IN  /\ chan[s] # <<>> /\ sub.open /\ f.kind = "events"
      /\ IF f.gen # sub.gen THEN UNCHANGED <<sub, view, ghosts, listing>>
         ELSE IF Gap(sub.seqs, f.events) THEN Subscribed /\ UNCHANGED <<view, ghosts>>
         ELSE /\ sub' = [sub EXCEPT !.seqs = Numbered(@, f.events)] /\ UNCHANGED listing
              /\ view' = Applied(view, sub.seqs, f.events)
              /\ ghosts' = ghosts \ {f.events[i].id : i \in New(sub.seqs, f.events)}
      /\ chan' = [chan EXCEPT ![s] = Tail(@)]
      /\ UNCHANGED <<table, feed, gens, split>>

\* A frame for a session that has no subscription is ignored.
Ignored(s) ==
  /\ chan[s] # <<>> /\ ~sub.open /\ chan' = [chan EXCEPT ![s] = Tail(@)]
  /\ UNCHANGED <<table, feed, gens, sub, view, listing, split, ghosts>>

Progress ==
  ListReads \/ ListArrives \/ \E s \in Subs : Ignored(s) \/ Snapshot(s) \/ Events(s) \/ Start(s) \/ Tick(s)
Next ==
  \/ Progress \/ ensureSession \/ Watchdog
  \/ \E s \in Subs : SubscribeFails(s)
  \/ \E e \in Entities : Change(e)
  \/ \E gone \in SUBSET Entities : Vanish(gone)

Spec == Init /\ [][Next]_vars
\* The tasks are polled, their ticks come, the UI handles what arrives.
FairSpec == Spec /\ WF_vars(Progress)

(***************************************************************************)
(* Properties.                                                             *)
(***************************************************************************)
\* Types; frames are not empty unless they are snapshots, nor larger than allowed.
FeedTypeOK ==
  /\ \A e \in Entities : table[e] \in 0..Gone /\ view[e] \in 0..MaxChange
  /\ \A s \in Subs : \A i \in DOMAIN chan[s] :
        /\ Len(chan[s][i].events) <= FrameMax
        /\ chan[s][i].kind = "events" => chan[s][i].events # <<>>

Followed == {s \in Subs : sub.open /\ feed[s].st = "on" /\ feed[s].gen = sub.gen}

\* The UI shows what the subscription it follows has sent: whatever was rebuilt,
\* whichever frames of subscriptions given up still come, and however frames,
\* snapshots and listings interleave.  Except for what a listing out of date
\* brought back, and after a snapshot of several frames, of which each replaces
\* the one before.
ViewIsTheFeed ==
  \A s \in Followed : chan[s] = <<>> /\ s \notin split =>
     \A e \in Entities : view[e] = feed[s].prev[e] \/ e \in ghosts

\* The numbers the UI expects are the ones that come: it has no reason to
\* subscribe anew, except after a snapshot of several frames.
NoGaps ==
  \A s \in Followed : s \notin split /\ chan[s] # <<>> /\ Head(chan[s]).kind = "events" => ~Gap(sub.seqs, Head(chan[s]).events)

UpToDate ==
  split # {} \/ ~sub.open \/ \A e \in Entities : view[e] = Shown(table)[e] \/ e \in ghosts
\* What is shown becomes what there is.
FeedConverges == []<>UpToDate
=============================================================================
