--------------------------- MODULE TerminalBuffer ---------------------------
(***************************************************************************)
(* The output of an agent's terminal (crates/app/src/mcp_terminal.rs): the *)
(* reading task appends to a ring that drops its oldest bytes, and a       *)
(* client follows it by the offset of each answer.  Bytes are their        *)
(* positions in the stream.  Opening and closing the registry's terminals  *)
(* is in McpServer.                                                        *)
(***************************************************************************)
EXTENDS Naturals

CONSTANTS
  BufCap,             \* TERM_BUF_CAP
  MaxTotal,           \* bound: bytes the shell writes
  MaxChunk            \* bound: bytes of one read

VARIABLES
  total, len,         \* TermBuf.total, buf.len()
  truncated, closed,  \* TermBuf.truncated, TermBuf.closed
  task,               \* the reading task: run, aborted (it may be in its loop), done
  known,              \* the terminal is in the registry
  read,               \* a terminal_read waits
  offset,             \* the client's cursor: the last answer's nextOffset
  got, lost,          \* bytes it was given, bytes it was told it lost
  ended               \* the last answer said closed

vars == <<total, len, truncated, closed, task, known, read, offset, got, lost, ended>>
client == <<read, offset, got, lost, ended>>

Init ==
  /\ total = 0 /\ len = 0 /\ truncated = FALSE /\ closed = FALSE /\ task = "run" /\ known = TRUE
  /\ read = FALSE /\ offset = 0 /\ got = 0 /\ lost = 0 /\ ended = FALSE

start == total - len

\* Mutant: the bytes dropped are not noted.
appendSilently(n) ==
  /\ total' = total + n
  /\ len' = IF len + n > BufCap THEN BufCap ELSE len + n
  /\ UNCHANGED truncated
\* TermBuf::append.
append(n) ==
  /\ total' = total + n
  /\ len' = IF len + n > BufCap THEN BufCap ELSE len + n
  /\ truncated' = (truncated \/ len + n > BufCap)

\* One turn of the reading task; an aborted one may be in the middle of it.
NextData(n) ==
  /\ task \in {"run", "aborted"} /\ total + n <= MaxTotal /\ append(n)
  /\ task' = IF task = "aborted" THEN "done" ELSE task
  /\ UNCHANGED <<closed, known, client>>
\* Mutant: the end is noted while the last bytes are still to be appended.
EndOfDataEarly ==
  /\ task = "run" /\ task' = "aborted" /\ closed' = TRUE
  /\ UNCHANGED <<total, len, truncated, known, client>>
EndOfData ==
  /\ task = "run" /\ task' = "done" /\ closed' = TRUE
  /\ UNCHANGED <<total, len, truncated, known, client>>

terminal_read ==
  /\ known /\ ~read /\ ~ended /\ read' = TRUE
  /\ UNCHANGED <<total, len, truncated, closed, task, known, offset, got, lost, ended>>
\* A poll finds something, or the wait is over.
Answer ==
  LET from == IF offset > start THEN offset ELSE start
  IN  /\ read /\ read' = FALSE
      /\ offset' = total /\ got' = got + (total - from)
      /\ lost' = IF truncated /\ offset < start THEN lost + (from - offset) ELSE lost
      /\ ended' = closed
      /\ UNCHANGED <<total, len, truncated, closed, task, known>>
\* terminal_close and close_all: abort does not wait for the task.
terminal_close ==
  /\ known /\ known' = FALSE /\ closed' = TRUE
  /\ task' = IF task = "run" THEN "aborted" ELSE task
  /\ UNCHANGED <<total, len, truncated, client>>

Next ==
  \/ terminal_read \/ Answer \/ EndOfData \/ terminal_close
  \/ \E n \in 1..MaxChunk : NextData(n)

Spec == Init /\ [][Next]_vars

(***************************************************************************)
(* Properties.                                                             *)
(***************************************************************************)
\* A client that follows nextOffset is given every byte once, and is told of
\* those the ring dropped before it came for them.
EveryByteOnce == got + lost = offset

\* A client that is told the terminal has closed has seen the end of it; but
\* for a terminal it, or the server's stop, closed itself.
ClosedIsTheEnd == ended /\ known => offset = total
=============================================================================
