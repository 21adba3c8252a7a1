--------------------------- MODULE TransferHistory ---------------------------
(***************************************************************************)
(* The transfer history of a session: the ledger of crates/app/src/        *)
(* transfer_ledger.rs over the transfers table of crates/core-store/src/   *)
(* transfer.rs, and the commands of crates/app/src/sftp.rs that join it    *)
(* with the queue in memory and with the files on disk (transfer_remove,   *)
(* transfer_clear, transfer_resume and resume_from_stored).                *)
(*                                                                         *)
(* Every transfer is a download; how it runs is TransferQueue's matter:    *)
(* here it is active, paused or over.  Its state is set first and reported *)
(* to the ledger after that, as QueueFlow does.  The application may exit  *)
(* at any point: the table and the files survive, the rest does not.       *)
(***************************************************************************)
EXTENDS Naturals, Sequences, SequencesExt, FiniteSetsExt

CONSTANTS
  MaxTransfers,       \* bound: transfers enqueued
  Files,              \* local target paths
  QueueCap, Batch,    \* QUEUE_CAP and BATCH of the ledger
  MaxCommands,        \* bound: commands given
  MaxExits            \* bound: exits of the application and drops of the context

Ids == 1..MaxTransfers
None == "none"
Settled == {"Paused", "Done", "Failed"}       \* Failed stands for Canceled, too

VARIABLES
  next,               \* the next transfer id
  reg,                \* the registry TransferQueue.transfers
  st, file,           \* TransferInfo.state and .local
  run,                \* run_transfer: running, paused, about to emit, over
  disk,               \* a target path: nothing, a partial file, the whole file
  lq,                 \* the ledger's channel
  upserts,            \* consume's batch
  rows,               \* the transfers table: the state stored for an id
  cmd, commands,      \* the command in progress; commands given
  exits,
  want,               \* history: the table, had each mutation been applied when accepted
  gone                \* history: ids whose removal has been acknowledged

mem == <<next, reg, st, file, run>>
ledger == <<lq, upserts, rows>>
user == <<cmd, commands>>
history == <<want, gone>>
vars == <<mem, disk, ledger, user, exits, history>>

\* A command: what it asks of the ledger, the ids it took from the registry,
\* the files it will delete, the rows the ledger answered with, and (history)
\* the transfers that had nothing left to report when it looked at the registry.
Idle == [op |-> None, pc |-> "idle", id |-> 0, scope |-> {}, taken |-> {}, files |-> {}, hit |-> {},
         quiet |-> {}]
Unseen == {i \in (1..(next - 1)) \ reg : run[i] = "over"}
Reported(ids) == {i \in ids : run[i] # "emit"}

Init ==
  /\ next = 1 /\ reg = {}
  /\ st = [i \in Ids |-> None] /\ file = [i \in Ids |-> None] /\ run = [i \in Ids |-> "over"]
  /\ disk = [f \in Files |-> "absent"]
  /\ lq = <<>> /\ upserts = <<>> /\ rows = [i \in Ids |-> None]
  /\ cmd = Idle /\ commands = 0 /\ exits = 0
  /\ want = rows /\ gone = {}

(***************************************************************************)
(* The table.                                                              *)
(***************************************************************************)
InScope(m, i, s) ==
  \/ m.op \in {"remove", "replace"} /\ i = m.id
  \/ m.op = "clear" /\ s \in m.scope

\* What a mutation does to the table; Resumable only reads.
Apply(t, m) ==
  [i \in Ids |-> IF m.op = "upsert" /\ i = m.id THEN m.state
                 ELSE IF InScope(m, i, t[i]) THEN None ELSE t[i]]
ApplyAll(t, ms) == FoldLeft(Apply, t, ms)

\* The rows a reliable mutation answers with: id and stored state.
Answer(t, m) ==
  {<<i, t[i]>> : i \in {j \in Ids : /\ t[j] # None
                                   /\ \/ InScope(m, j, t[j])
                                      \/ m.op = "resumable" /\ j = m.id /\ t[j] = "Paused"}}

\* A mutation enters the channel.
Accept(m) == lq' = Append(lq, m) /\ want' = Apply(want, m)

\* on_terminal: filtered by settled, dropped when the channel is full.
OnTerminal(i) ==
  IF st[i] \in Settled /\ Len(lq) < QueueCap
  THEN Accept([op |-> "upsert", id |-> i, state |-> st[i]])
  ELSE UNCHANGED <<lq, want>>

(***************************************************************************)
(* Transfers.                                                              *)
(***************************************************************************)
\* register and spawn: a fresh id; Overwrite truncates, Resume keeps what is there.
Enqueue(f, overwrite) ==
  /\ next <= MaxTransfers
  /\ next' = next + 1 /\ reg' = reg \cup {next}
  /\ st' = [st EXCEPT ![next] = "Active"] /\ file' = [file EXCEPT ![next] = f]
  /\ run' = [run EXCEPT ![next] = "run"]
  /\ disk' = [disk EXCEPT ![f] = IF overwrite \/ @ = "absent" THEN "partial" ELSE @]

Download(f, overwrite) ==
  /\ Enqueue(f, overwrite)
  /\ UNCHANGED <<ledger, user, exits, history>>

\* The user gives a command.
Given == commands < MaxCommands /\ commands' = commands + 1

\* The end of run_transfer, and a pause at a chunk boundary: the state is set.
Finish(i) ==
  /\ run[i] = "run"
  /\ \/ st' = [st EXCEPT ![i] = "Done"] /\ disk' = [disk EXCEPT ![file[i]] = "whole"]
     \/ st' = [st EXCEPT ![i] = "Failed"] /\ UNCHANGED disk
  /\ run' = [run EXCEPT ![i] = "emit"]
  /\ UNCHANGED <<next, reg, file, ledger, user, exits, history>>

PauseEdge(i) ==
  /\ run[i] = "run" /\ i \in reg /\ Given
  /\ st' = [st EXCEPT ![i] = "Paused"] /\ run' = [run EXCEPT ![i] = "emit_pause"]
  /\ UNCHANGED <<next, reg, file, disk, ledger, cmd, exits, history>>

\* emit: the lifecycle callback takes a snapshot of the state as it is now.
Emit(i) ==
  /\ run[i] \in {"emit", "emit_pause"}
  /\ OnTerminal(i)
  /\ run' = [run EXCEPT ![i] = IF @ = "emit" THEN "over" ELSE "paused"]
  /\ UNCHANGED <<next, reg, st, file, disk, upserts, rows, user, exits, gone>>

\* queue.resume and queue.retry of a transfer in the registry.
ResumeLive(i) ==
  /\ i \in reg /\ Given
  /\ \/ run[i] = "paused"
     \/ run[i] = "over" /\ st[i] = "Failed"
  /\ st' = [st EXCEPT ![i] = "Active"] /\ run' = [run EXCEPT ![i] = "run"]
  /\ UNCHANGED <<next, reg, file, disk, ledger, cmd, exits, history>>

(***************************************************************************)
(* The ledger's consumer.                                                  *)
(***************************************************************************)
\* recv or try_recv of an upsert: it joins the batch.
Collect ==
  /\ lq # <<>> /\ Head(lq).op = "upsert" /\ Len(upserts) < Batch
  /\ upserts' = Append(upserts, Head(lq)) /\ lq' = Tail(lq)
  /\ UNCHANGED <<mem, disk, rows, user, exits, history>>

\* flush, one upsert at a time: before a reliable mutation, or at the end of a
\* batch (there is nothing more to receive, or BATCH is reached).
Flush ==
  /\ upserts # <<>>
  /\ rows' = Apply(rows, Head(upserts)) /\ upserts' = Tail(upserts)
  /\ UNCHANGED <<mem, disk, lq, user, exits, history>>

\* exec of a reliable mutation: the batch has been flushed.
\* Mutant: it has not.
ExecAhead ==
  /\ lq # <<>> /\ Head(lq).op # "upsert"
  /\ rows' = Apply(rows, Head(lq)) /\ lq' = Tail(lq)
  /\ cmd' = [cmd EXCEPT !.pc = "rows", !.hit = Answer(rows, Head(lq))]
  /\ UNCHANGED <<mem, disk, upserts, commands, exits, history>>
Exec ==
  /\ upserts = <<>> /\ lq # <<>> /\ Head(lq).op # "upsert"
  /\ rows' = Apply(rows, Head(lq)) /\ lq' = Tail(lq)
  /\ cmd' = [cmd EXCEPT !.pc = "rows", !.hit = Answer(rows, Head(lq))]
  /\ UNCHANGED <<mem, disk, upserts, commands, exits, history>>

(***************************************************************************)
(* The commands.                                                           *)
(***************************************************************************)
Begin(c) == cmd = Idle /\ Given /\ cmd' = c

\* transfer_remove: the queue is asked first.
RemoveBegin(i) ==
  /\ i < next
  /\ Begin([Idle EXCEPT !.op = "remove", !.id = i,
                        !.pc = IF i \in reg THEN "registry" ELSE "send",
                        !.quiet = Unseen,
                        !.files = IF i \in reg /\ st[i] # "Done" THEN {file[i]} ELSE {}])
  /\ UNCHANGED <<mem, disk, ledger, exits, history>>

\* Mutant: the state is not asked for.
RemoveRegistryAnyState ==
  /\ cmd.op = "remove" /\ cmd.pc = "registry" /\ cmd.id \in reg
  /\ reg' = reg \ {cmd.id} /\ cmd' = [cmd EXCEPT !.pc = "files", !.taken = {cmd.id},
                                            !.quiet = Reported({cmd.id})]
  /\ UNCHANGED <<next, st, file, run, disk, ledger, commands, exits, history>>
\* queue.remove: only what is there and over; an error ends the command.
RemoveRegistry ==
  /\ cmd.op = "remove" /\ cmd.pc = "registry"
  /\ LET i == cmd.id IN
     \/ /\ i \in reg /\ st[i] \in {"Done", "Failed"}
        /\ reg' = reg \ {i} /\ cmd' = [cmd EXCEPT !.pc = "files", !.taken = {i}, !.quiet = Reported({i})]
     \/ /\ ~(i \in reg /\ st[i] \in {"Done", "Failed"})
        /\ cmd' = Idle /\ UNCHANGED reg
  /\ UNCHANGED <<next, st, file, run, disk, ledger, commands, exits, history>>

\* transfer_clear: clear_where, under one lock.
ClearBegin(scope) ==
  LET hit == {i \in reg : st[i] \in scope}
  IN  /\ Begin([Idle EXCEPT !.op = "clear", !.pc = "files", !.scope = scope, !.taken = hit,
                            !.quiet = Unseen \cup Reported(hit),
                            !.files = {file[i] : i \in {j \in hit : st[j] # "Done"}}])
      /\ reg' = reg \ hit
      /\ UNCHANGED <<next, st, file, run, disk, ledger, exits, history>>

\* remove_partial_file.
Delete(fs) == disk' = [f \in Files |-> IF f \in fs THEN "absent" ELSE disk[f]]

RemoveFiles ==
  /\ cmd.pc = "files"
  /\ Delete(cmd.files) /\ cmd' = [cmd EXCEPT !.pc = "send", !.files = {}]
  /\ UNCHANGED <<mem, ledger, commands, exits, history>>

\* transfer_resume of what the registry does not know.
ResumeBegin(i) ==
  /\ i < next /\ i \notin reg
  /\ Begin([Idle EXCEPT !.op = "resumable", !.pc = "send", !.id = i])
  /\ UNCHANGED <<mem, disk, ledger, exits, history>>

Mutation ==
  IF cmd.op = "clear" THEN [op |-> "clear", scope |-> cmd.scope] ELSE [op |-> cmd.op, id |-> cmd.id]

\* send_reliable waits for room.
\* Mutant: it gives up on a full channel and waits for an answer all the same.
SendDropped ==
  /\ cmd.pc = "send"
  /\ \/ Len(lq) < QueueCap /\ Accept(Mutation)
     \/ Len(lq) >= QueueCap /\ UNCHANGED <<lq, want>>
  /\ cmd' = [cmd EXCEPT !.pc = "ack"]
  /\ UNCHANGED <<mem, disk, upserts, rows, commands, exits, gone>>
Send ==
  /\ cmd.pc = "send" /\ Len(lq) < QueueCap
  /\ Accept(Mutation) /\ cmd' = [cmd EXCEPT !.pc = "ack"]
  /\ UNCHANGED <<mem, disk, upserts, rows, commands, exits, gone>>

\* The answer: rows that were not in the registry lose their partial file.
Removed ==
  /\ cmd.op \in {"remove", "clear"} /\ cmd.pc = "rows"
  /\ Delete({file[r[1]] : r \in {q \in cmd.hit : q[1] \notin cmd.taken /\ q[2] # "Done"}})
  /\ gone' = gone \cup (cmd.quiet \cap ({cmd.id} \cup {r[1] : r \in cmd.hit}))
  /\ cmd' = Idle
  /\ UNCHANGED <<mem, ledger, commands, exits, want>>

\* resume_from_stored: the paused row is checked against the remote file and
\* a new transfer takes over; then the old row is removed.
TakeOver ==
  /\ cmd.op = "resumable" /\ cmd.pc = "rows"
  /\ \/ /\ cmd.hit # {}
        /\ Enqueue(file[cmd.id], FALSE)
        /\ cmd' = [Idle EXCEPT !.op = "replace", !.pc = "send", !.id = cmd.id]
     \/ cmd' = Idle /\ UNCHANGED <<mem, disk>>
  /\ UNCHANGED <<ledger, commands, exits, history>>

Replaced ==
  /\ cmd.op = "replace" /\ cmd.pc = "rows"
  /\ cmd' = Idle
  /\ UNCHANGED <<mem, disk, ledger, commands, exits, history>>

(***************************************************************************)
(* Losing the memory.                                                      *)
(***************************************************************************)
\* drop_ctx or a sweep: the registry is gone; what runs, runs on unseen.  A
\* command in progress still has the old context: it comes before the drop.
DropCtx ==
  /\ exits < MaxExits /\ exits' = exits + 1 /\ cmd = Idle
  /\ reg' = {}
  /\ UNCHANGED <<next, st, file, run, disk, ledger, user, history>>

\* The application exits or dies, and starts again.
Exit ==
  /\ exits < MaxExits /\ exits' = exits + 1
  /\ reg' = {} /\ run' = [i \in Ids |-> "over"] /\ lq' = <<>> /\ upserts' = <<>> /\ cmd' = Idle
  /\ want' = rows
  /\ UNCHANGED <<next, st, file, disk, rows, commands, gone>>

Transfer(i) == Finish(i) \/ Emit(i)
Consume == Collect \/ Flush \/ Exec
Command == RemoveRegistry \/ RemoveFiles \/ Send \/ Removed \/ TakeOver \/ Replaced

Next ==
  \/ \E f \in Files, overwrite \in BOOLEAN : Download(f, overwrite)
  \/ \E i \in Ids : Transfer(i) \/ PauseEdge(i) \/ ResumeLive(i) \/ RemoveBegin(i) \/ ResumeBegin(i)
  \/ \E scope \in {{"Done"}, {"Failed"}} : ClearBegin(scope)
  \/ Consume \/ Command \/ DropCtx \/ Exit

\* SQLite and the file system answer, the runtime polls its tasks, and a slot
\* freed in the channel goes to the sender that waits for one (SF).
Spec == Init /\ [][Next]_vars
FairSpec == Spec /\ WF_vars(Consume) /\ SF_vars(Command)

(***************************************************************************)
(* Properties.                                                             *)
(***************************************************************************)
\* Types; the ledger's channel never holds more than QUEUE_CAP mutations.
HistoryTypeOK ==
  /\ reg \subseteq 1..(next - 1) /\ next \in 1..(MaxTransfers + 1)
  /\ \A i \in Ids : st[i] \in {None, "Active"} \cup Settled /\ rows[i] \in {None} \cup Settled
  /\ \A i \in Ids : run[i] \in {"run", "paused", "emit", "emit_pause", "over"}
  /\ \A f \in Files : disk[f] \in {"absent", "partial", "whole"}
  /\ Len(lq) <= QueueCap
  /\ cmd.pc \in {"idle", "registry", "files", "send", "ack", "rows"}

\* Batching never reorders: what the table will be once the channel and the
\* batch are drained is what the accepted mutations make of it one by one, in
\* the order in which they were accepted.
StreamOrdered == ApplyAll(rows, upserts \o lq) = want

\* A transfer that was over, reported and removed (or cleared) does not come
\* back into the table, whatever was still queued, batched or running.
RemovedStaysGone == \A i \in gone : rows[i] = None /\ want[i] = None

\* A completed download is not deleted: "已完成的下载与上传的本地源文件绝不动".
CompletedFileKept == [][\A f \in Files : disk[f] = "whole" => disk'[f] # "absent"]_vars

Answered == cmd.pc = "idle"
\* Every command is answered: the ledger's bounded channel, its batches and
\* an exit of the application never leave one waiting.
CommandsAnswered == []<>Answered
=============================================================================
