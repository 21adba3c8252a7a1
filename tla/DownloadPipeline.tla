-------------------------- MODULE DownloadPipeline --------------------------
(***************************************************************************)
(* The download of one file (core-sftp/src/transfer.rs: download_once and  *)
(* the pipelined reads under it) over all the attempts of its transfer:    *)
(* a window of reads in flight that are answered in any order and may be   *)
(* short, the bytes put back in order, what reaches the disk, and where    *)
(* the next attempt resumes.                                               *)
(*                                                                         *)
(* The byte at position i of the remote file is i, so a local file is      *)
(* right when its byte i is i.                                             *)
(***************************************************************************)
EXTENDS Naturals, Sequences, FiniteSets, FiniteSetsExt

CONSTANTS
  Total,              \* bytes_total: the size the remote file had when the transfer was queued
  Chunk, ReadAhead,   \* CHUNK and READ_AHEAD_DEPTH
  MaxRetries,         \* retries of the transfer
  Sizes,              \* sizes a local file may have at first
  MaxPauses           \* bound: times the user pauses it

VARIABLES
  remote,             \* the size of the remote file now
  local,              \* the local file
  mode,               \* on_exists: "resume" or "overwrite"
  att,                \* the attempt that runs
  dst,                \* the local file it has open, with the write that is under way
  late,               \* the writes still under way of files that were dropped
  bytesDone,          \* t.bytes_done
  pause, pauses, retries,
  outlived            \* history: an attempt began while a write of the one before was under way

\* What the proofs need of the constants.
DownloadConstants ==
  /\ Total \in Nat /\ MaxRetries \in Nat /\ Sizes \in SUBSET Nat
  /\ Chunk \in Nat \ {0} /\ ReadAhead \in Nat \ {0}

vars == <<remote, local, mode, att, dst, late, bytesDone, pause, pauses, retries, outlived>>

Least(m, n) == IF m <= n THEN m ELSE n
Data(at, n) == [i \in 1..n |-> at + i]

NoAttempt == [pc |-> "begin", offset |-> 0, next |-> 0, at |-> 0, fly |-> {}, reorder |-> {}, missing |-> <<>>, eof |-> FALSE]
Closed == [append |-> FALSE, pos |-> 0, buf |-> <<>>]

Init ==
  /\ remote = Total /\ mode \in {"resume", "overwrite"}
  /\ local \in {Data(0, n) : n \in Sizes}
  /\ att = NoAttempt /\ dst = Closed /\ late = {} /\ bytesDone = 0
  /\ pause = FALSE /\ pauses = 0 /\ retries = 0 /\ outlived = FALSE

(***************************************************************************)
(* The local file.  A write of tokio::fs::File is handed to another        *)
(* thread: write_all returns when the one before it is on disk, and a file *)
(* that is dropped does not wait for its last.                             *)
(***************************************************************************)
Put(file, append, pos, data) ==
  IF append THEN file \o data
  ELSE [i \in 1..Max({Len(file), pos + Len(data)}) |->
          IF i \in (pos + 1)..(pos + Len(data)) THEN data[i - pos] ELSE IF i <= Len(file) THEN file[i] ELSE 0]
Landed(h) == Put(local, h.append, h.pos, h.buf)
\* write_all of Data(from, to - from), then of Data(to, end - to).
WriteAll(from, to, end) ==
  /\ local' = Put(Landed(dst), dst.append, dst.pos + Len(dst.buf), Data(from, to - from))
  /\ dst' = [dst EXCEPT !.pos = @ + Len(dst.buf) + (to - from), !.buf = Data(to, end - to)]

\* The write that is under way reaches the disk.
Land ==
  /\ dst.buf # <<>> /\ local' = Landed(dst)
  /\ dst' = [dst EXCEPT !.pos = @ + Len(dst.buf), !.buf = <<>>]
  /\ UNCHANGED <<remote, mode, att, late, bytesDone, pause, pauses, retries, outlived>>
LandLate(h) ==
  /\ h \in late /\ late' = late \ {h} /\ local' = Landed(h)
  /\ UNCHANGED <<remote, mode, att, dst, bytesDone, pause, pauses, retries, outlived>>

(***************************************************************************)
(* An attempt.                                                             *)
(***************************************************************************)
resume_offset(target, source) ==
  IF mode = "overwrite" \/ target > source THEN 0 ELSE target

\* The attempt is over with an error; its file is dropped.
Fail ==
  /\ att' = [NoAttempt EXCEPT !.pc = "ended"]
  /\ late' = IF dst.buf = <<>> THEN late ELSE late \cup {dst}
  /\ dst' = Closed

\* download_once: where to resume, from the length of the local file.
Begin ==
  /\ att.pc = "begin"
  /\ LET offset == resume_offset(Len(local), Total)
     IN  /\ att' = [NoAttempt EXCEPT !.pc = "open", !.offset = offset, !.next = offset, !.at = offset]
         /\ bytesDone' = offset
  /\ outlived' = (outlived \/ late # {})
  /\ UNCHANGED <<remote, local, mode, dst, late, pause, pauses, retries>>

\* The window is filled: what short reads left first, then new ranges.
Issued(a) ==
  LET free == ReadAhead - Cardinality(a.fly)
      again == Least(free, Len(a.missing))
      fresh == Least(free - again, (Total - a.next + Chunk - 1) \div Chunk)
      Fresh(j) == [at |-> a.next + j * Chunk, len |-> Least(Chunk, Total - (a.next + j * Chunk))]
  IN  IF a.eof THEN a
      ELSE [a EXCEPT !.next = Least(Total, @ + fresh * Chunk),
              !.missing = SubSeq(@, again + 1, Len(@)),
              !.fly = @ \cup {[at |-> a.missing[j].at, len |-> a.missing[j].len] : j \in 1..again}
                        \cup {Fresh(j) : j \in 0..(fresh - 1)}]

\* The local file is opened (truncated, or for append), then the remote one:
\* reads go through the pipeline if more than a chunk is left.
Open ==
  /\ att.pc = "open"
  /\ local' = IF att.offset = 0 THEN <<>> ELSE local
  /\ \/ /\ att' = IF Total - att.offset > Chunk THEN Issued([att EXCEPT !.pc = "check"]) ELSE [att EXCEPT !.pc = "serial"]
        /\ dst' = [append |-> att.offset > 0, pos |-> att.offset, buf |-> <<>>] /\ UNCHANGED late
     \/ Fail
  /\ UNCHANGED <<remote, mode, bytesDone, pause, pauses, retries, outlived>>

\* Mutant: a loop with nothing in flight waits for more.
CheckWaits ==
  /\ att.pc = "check"
  /\ IF att.fly # {} /\ pause THEN Fail ELSE att' = [att EXCEPT !.pc = "join"] /\ UNCHANGED <<dst, late>>
  /\ UNCHANGED <<remote, local, mode, bytesDone, pause, pauses, retries, outlived>>
\* The head of the loop: nothing in flight ends it, a pause interrupts it.
Check ==
  /\ att.pc = "check"
  /\ IF att.fly # {} /\ pause THEN Fail
     ELSE att' = [att EXCEPT !.pc = IF att.fly = {} THEN "flush" ELSE "join"] /\ UNCHANGED <<dst, late>>
  /\ UNCHANGED <<remote, local, mode, bytesDone, pause, pauses, retries, outlived>>

\* The end of the bytes that are in order from the cursor on.
InOrder(a) ==
  Max({e \in a.at..Total : \A p \in a.at..(e - 1) : \E d \in a.reorder : p \in d.at..(d.at + d.len - 1)})

\* Mutant: the rest of a short read is not asked for again.
ReceivedShort(r, got) ==
  [att EXCEPT !.fly = @ \ {r}, !.reorder = @ \cup {[at |-> r.at, len |-> got]}]
\* What a read brings is kept, the rest of it is asked for again.
Received(r, got) ==
  [att EXCEPT !.fly = @ \ {r}, !.reorder = @ \cup {[at |-> r.at, len |-> got]},
     !.missing = IF got < r.len THEN Append(@, [at |-> r.at + got, len |-> r.len - got]) ELSE @]

\* An answer is taken, of any of the reads in flight: an error ends the attempt;
\* no bytes mean that the file is shorter now, and no new reads.  (The server
\* reads the file when the answer is taken.)
JoinError(r) ==
  /\ att.pc = "join" /\ r \in att.fly /\ Fail
  /\ UNCHANGED <<remote, local, mode, bytesDone, pause, pauses, retries, outlived>>
JoinNothing(r) ==
  /\ att.pc = "join" /\ r \in att.fly /\ r.at >= remote
  /\ att' = [att EXCEPT !.pc = "check", !.fly = @ \ {r}, !.eof = TRUE]
  /\ UNCHANGED <<remote, local, mode, dst, late, bytesDone, pause, pauses, retries, outlived>>

\* Mutant: what is there is written, in order or not.
JoinUnordered(r, got) ==
  /\ att.pc = "join" /\ r \in att.fly /\ got \in 1..r.len /\ r.at + got <= remote
  /\ WriteAll(r.at, r.at, r.at + got) /\ bytesDone' = att.at + got
  /\ att' = Issued([Received(r, got) EXCEPT !.pc = "check", !.at = att.at + got, !.reorder = {}])
  /\ UNCHANGED <<remote, mode, late, pause, pauses, retries, outlived>>
\* Bytes are put in order, and what is in order is written.
Join(r, got) ==
  LET a == Received(r, got)
      end == InOrder(a)
      ready == {d \in a.reorder : d.at < end}
  IN  /\ att.pc = "join" /\ r \in att.fly /\ got \in 1..r.len /\ r.at + got <= remote
      /\ IF ready = {} THEN UNCHANGED <<local, dst>> ELSE WriteAll(a.at, Max({d.at : d \in ready}), end)
      /\ att' = Issued([a EXCEPT !.pc = "check", !.at = end, !.reorder = @ \ ready])
      /\ bytesDone' = end
      /\ UNCHANGED <<remote, mode, late, pause, pauses, retries, outlived>>

\* The loop without a pipeline: it may be paused or fail, a read of nothing ends
\* it, bytes are written and counted.
SerialFails ==
  /\ att.pc = "serial" /\ Fail
  /\ UNCHANGED <<remote, local, mode, bytesDone, pause, pauses, retries, outlived>>
SerialNothing ==
  /\ att.pc = "serial" /\ ~pause /\ att.at >= remote
  /\ att' = [att EXCEPT !.pc = "flush"]
  /\ UNCHANGED <<remote, local, mode, dst, late, bytesDone, pause, pauses, retries, outlived>>
Serial(got) ==
  /\ att.pc = "serial" /\ ~pause /\ att.at + got <= remote
  /\ WriteAll(att.at, att.at, att.at + got)
  /\ att' = [att EXCEPT !.at = @ + got] /\ bytesDone' = bytesDone + got
  /\ UNCHANGED <<remote, mode, late, pause, pauses, retries, outlived>>

\* dst.flush: the attempt waits for its last write.
Flush ==
  /\ att.pc = "flush" /\ dst.buf = <<>>
  /\ att' = [NoAttempt EXCEPT !.pc = "done"] /\ dst' = Closed
  /\ UNCHANGED <<remote, local, mode, late, bytesDone, pause, pauses, retries, outlived>>

\* The executor: a paused transfer waits and begins again, another error is
\* retried.
Classify ==
  /\ att.pc = "ended"
  /\ att' = [att EXCEPT !.pc = IF pause THEN "paused" ELSE IF retries = MaxRetries THEN "failed" ELSE "begin"]
  /\ retries' = IF pause \/ retries = MaxRetries THEN retries ELSE retries + 1
  /\ UNCHANGED <<remote, local, mode, dst, late, bytesDone, pause, pauses, outlived>>
Unpause ==
  /\ att.pc = "paused" /\ ~pause /\ att' = [att EXCEPT !.pc = "begin"]
  /\ UNCHANGED <<remote, local, mode, dst, late, bytesDone, pause, pauses, retries, outlived>>

\* The user, and the file on the server.
TogglePause ==
  /\ att.pc \notin {"done", "failed"} /\ (pause \/ pauses < MaxPauses)
  /\ pause' = ~pause /\ pauses' = IF pause THEN pauses ELSE pauses + 1
  /\ UNCHANGED <<remote, local, mode, att, dst, late, bytesDone, retries, outlived>>
Shrink(n) ==
  /\ remote = Total /\ n < Total /\ remote' = n /\ att.pc \notin {"done", "failed"}
  /\ UNCHANGED <<local, mode, att, dst, late, bytesDone, pause, pauses, retries, outlived>>

Progress ==
  \/ Begin \/ Check \/ Flush \/ Classify \/ Unpause \/ SerialFails \/ SerialNothing \/ Land \/ Open
  \/ \E h \in late : LandLate(h)
  \/ \E r \in att.fly : JoinError(r) \/ JoinNothing(r) \/ \E got \in 1..Chunk : Join(r, got)
  \/ \E got \in 1..Chunk : Serial(got)
Next == Progress \/ TogglePause \/ \E n \in 0..(Total - 1) : Shrink(n)

Spec == Init /\ [][Next]_vars
\* The runtime polls the attempt, the pool of threads writes, and the server
\* answers (or the connection fails, which answers every read with an error).
FairSpec == Spec /\ WF_vars(Progress)

(***************************************************************************)
(* Properties.                                                             *)
(***************************************************************************)
\* Types; the window and the cursors of the pipeline.
DownloadTypeOK ==
  /\ Cardinality(att.fly) <= ReadAhead /\ att.next <= Total
  /\ att.pc \in {"check", "join"} => att.at <= att.next
  /\ \A d \in att.reorder : d.at >= att.at /\ d.at + d.len <= att.next
  /\ retries <= MaxRetries

\* "bytes_done is the prefix in order that was written": whatever the order of
\* the answers, the short reads and the attempts before, what is on disk is the
\* beginning of the file, and bytes_done of it are written.  Except when an
\* attempt resumed while a write of the one before it was still under way.
PrefixWritten ==
  outlived \/
  /\ \A i \in 1..Len(local) : local[i] = i
  /\ att.pc \in {"check", "join", "serial", "flush"} => bytesDone = Len(local) + Len(dst.buf)

\* A transfer that is done has the whole file, unless the file became shorter
\* while it was being read.
DoneIsWhole ==
  att.pc = "done" /\ remote = Total /\ ~outlived => local = Data(0, Total)

Ended == att.pc \in {"done", "failed", "paused"}
\* A transfer that is not paused for good ends.
DownloadEnds == []<>Ended
\* Of a download: types; what is on disk is a prefix of the file, as long as bytes_done
\* says, and a transfer that is done has the whole file.
DownloadFaithful == DownloadTypeOK /\ PrefixWritten /\ DoneIsWhole
=============================================================================
