------------------------------ MODULE LocalPty ------------------------------
(***************************************************************************)
(* A local terminal (crates/app/src/local_pty.rs): the shell's process and *)
(* the three threads that bridge its pseudo-terminal to the session, one   *)
(* that reads into a bounded channel, one that carries out the session's   *)
(* messages, and one that waits for the process and then closes the        *)
(* pseudo-terminal, without which the reader would see no end.             *)
(***************************************************************************)
EXTENDS Naturals, Sequences

CONSTANTS
  Cap,                \* READ_CHAN_CAP
  PipeCap,            \* chunks the operating system holds
  MaxOutput,          \* bound: chunks the shell writes
  MaxMsgs             \* bound: messages to the writer thread

VARIABLES
  child,              \* the process runs
  produced, pipe,     \* chunks it has written, chunks not yet read
  master,             \* the pseudo-terminal is open
  reader,             \* the thread: reading, sending, ended
  chan, received,     \* chunks in the channel, chunks the session has taken
  rx,                 \* the session's end of it: open, done (it saw the end), dropped
  msgs,               \* the writer thread's messages
  senders,            \* some LocalWriter is left
  writer,             \* the thread: receiving, writing, ended
  sentMsgs            \* messages sent so far

vars == <<child, produced, pipe, master, reader, chan, received, rx, msgs, senders, writer, sentMsgs>>
out == <<produced, pipe, reader, chan, received, rx>>

Init ==
  /\ child = TRUE /\ produced = 0 /\ pipe = 0 /\ master = TRUE
  /\ reader = "read" /\ chan = 0 /\ received = 0 /\ rx = "open"
  /\ msgs = <<>> /\ senders = TRUE /\ writer = "recv" /\ sentMsgs = 0

(***************************************************************************)
(* The shell.                                                              *)
(***************************************************************************)
Produce ==
  /\ child /\ pipe < PipeCap /\ produced < MaxOutput /\ produced' = produced + 1 /\ pipe' = pipe + 1
  /\ UNCHANGED <<child, master, reader, chan, received, rx, msgs, senders, writer, sentMsgs>>
ChildExits ==
  /\ child /\ child' = FALSE
  /\ UNCHANGED <<out, master, msgs, senders, writer, sentMsgs>>

(***************************************************************************)
(* The reader thread and the session.                                      *)
(***************************************************************************)
Read ==
  /\ reader = "read" /\ pipe > 0 /\ pipe' = pipe - 1 /\ reader' = "send"
  /\ UNCHANGED <<child, produced, master, chan, received, rx, msgs, senders, writer, sentMsgs>>
\* Mutant: the end is taken before what is left in the pipe.
ReadEofEarly ==
  /\ reader = "read" /\ ~master /\ reader' = "end"
  /\ UNCHANGED <<child, produced, pipe, master, chan, received, rx, msgs, senders, writer, sentMsgs>>
ReadEof ==
  /\ reader = "read" /\ pipe = 0 /\ ~master /\ reader' = "end"
  /\ UNCHANGED <<child, produced, pipe, master, chan, received, rx, msgs, senders, writer, sentMsgs>>
\* Mutant: the channel is not waited for.
SendDataAnyway ==
  /\ reader = "send"
  /\ IF rx = "dropped" THEN reader' = "end" /\ UNCHANGED chan ELSE reader' = "read" /\ chan' = chan + 1
  /\ UNCHANGED <<child, produced, pipe, master, received, rx, msgs, senders, writer, sentMsgs>>
\* blocking_send.
SendData ==
  /\ reader = "send" /\ (rx = "dropped" \/ chan < Cap)
  /\ IF rx = "dropped" THEN reader' = "end" /\ UNCHANGED chan ELSE reader' = "read" /\ chan' = chan + 1
  /\ UNCHANGED <<child, produced, pipe, master, received, rx, msgs, senders, writer, sentMsgs>>
\* next_data.
Receive ==
  /\ rx = "open" /\ chan > 0 /\ chan' = chan - 1 /\ received' = received + 1
  /\ UNCHANGED <<child, produced, pipe, master, reader, rx, msgs, senders, writer, sentMsgs>>
SeesEnd ==
  /\ rx = "open" /\ chan = 0 /\ reader = "end" /\ rx' = "done"
  /\ UNCHANGED <<child, produced, pipe, master, reader, chan, received, msgs, senders, writer, sentMsgs>>
DropsReader ==
  /\ rx = "open" /\ rx' = "dropped" /\ chan' = 0
  /\ UNCHANGED <<child, produced, pipe, master, reader, received, msgs, senders, writer, sentMsgs>>

(***************************************************************************)
(* The writer thread, and the one that waits.                              *)
(***************************************************************************)
SendMsg(m) ==
  /\ senders /\ writer # "end" /\ sentMsgs < MaxMsgs /\ sentMsgs' = sentMsgs + 1 /\ msgs' = Append(msgs, m)
  /\ UNCHANGED <<child, out, master, senders, writer>>
DropsWriters ==
  /\ senders /\ senders' = FALSE
  /\ UNCHANGED <<child, out, master, msgs, writer, sentMsgs>>
\* Mutant: the process is left alone.
EndsQuietly == writer' = "end" /\ UNCHANGED child /\ msgs' = <<>>
\* The thread ends: the process is killed.
Ends == writer' = "end" /\ child' = FALSE /\ msgs' = <<>>
Data ==
  /\ writer = "recv" /\ msgs # <<>> /\ Head(msgs) = "data" /\ writer' = "write" /\ msgs' = Tail(msgs)
  /\ UNCHANGED <<child, out, master, senders, sentMsgs>>
Resize ==
  /\ writer = "recv" /\ msgs # <<>> /\ Head(msgs) = "resize" /\ msgs' = Tail(msgs)
  /\ UNCHANGED <<child, out, master, senders, writer, sentMsgs>>
CloseMsg ==
  /\ writer = "recv" /\ msgs # <<>> /\ Head(msgs) = "close" /\ Ends
  /\ UNCHANGED <<out, master, senders, sentMsgs>>
NoSenders ==
  /\ writer = "recv" /\ msgs = <<>> /\ ~senders /\ Ends
  /\ UNCHANGED <<out, master, senders, sentMsgs>>
\* write_all returns when the shell takes its input, which it need not.
WriteDone ==
  /\ writer = "write" /\ child /\ writer' = "recv"
  /\ UNCHANGED <<child, out, master, msgs, senders, sentMsgs>>
WriteFails ==
  /\ writer = "write" /\ ~master /\ Ends
  /\ UNCHANGED <<out, master, senders, sentMsgs>>
\* child.wait() returns: the pseudo-terminal is closed.
Waited ==
  /\ ~child /\ master /\ master' = FALSE
  /\ UNCHANGED <<child, out, msgs, senders, writer, sentMsgs>>

Threads == Data \/ Resize \/ CloseMsg \/ NoSenders \/ WriteFails \/ Waited \/ Read \/ ReadEof \/ SendData \/ Receive \/ SeesEnd
Next ==
  \/ Threads \/ Produce \/ ChildExits \/ DropsReader \/ DropsWriters \/ WriteDone
  \/ \E m \in {"data", "resize", "close"} : SendMsg(m)

Spec == Init /\ [][Next]_vars
\* Threads run, and a session that has a terminal reads it.
FairSpec == Spec /\ WF_vars(Threads)

(***************************************************************************)
(* Properties.                                                             *)
(***************************************************************************)
\* A session that sees the end of its terminal has seen all its output, also when
\* the shell ended while the channel was full.
EndIsWhole == rx = "done" => received = produced

\* What is on its way is bounded: a shell that writes faster than the session
\* reads is held up.
OutputBounded == produced - received <= PipeCap + Cap + 1 \/ rx = "dropped"

Closing == ~senders \/ ~child \/ \E i \in DOMAIN msgs : msgs[i] = "close"
Gone == ~Closing \/ writer = "write" \/ (~child /\ ~master /\ reader = "end")
\* A terminal that is closed, whose writers are all gone or whose shell has ended
\* leaves nothing behind: the process, the reader and the pseudo-terminal end.
\* Except while the writer thread cannot get rid of input the shell does not take:
\* the close waits behind it.
NothingLeft == []<>Gone
=============================================================================
