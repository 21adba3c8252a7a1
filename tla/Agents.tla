------------------------------- MODULE Agents -------------------------------
(*****************************************************************************)
(* What serves agents: the MCP server and, beside it, the buffer of one of   *)
(* its terminals, with what each of them promises.                           *)
(*****************************************************************************)
EXTENDS Naturals

CONSTANTS
  MaxRestarts, MaxChanges, Ports, DefaultPort, MaxReqs, Permits,
  BufCap, MaxTotal, MaxChunk

VARIABLES
  settings, changes, inner, rs, srv, tx, cfg, held, terms, req, audit,
  total, len, truncated, closed, task, known, read, offset, got, lost, ended

Mcp == INSTANCE McpServer
Buffer == INSTANCE TerminalBuffer

\* What the proofs need of the constants.
McpConstants == MaxRestarts \in Nat /\ MaxReqs \in Nat /\ Permits \in Nat /\ DefaultPort \in Ports
BufferConstants == BufCap \in Nat /\ MaxChunk \in Nat

\* Of the MCP server: types; one that listens is held by the manager or told to stop, and the
\* audit says what the answer says.
AgentsAccounted == Mcp!McpTypeOK /\ Mcp!ServersOwned /\ Mcp!AuditedAsAnswered
\* Of an agent's terminal: every byte is given once or reported lost, and closed comes with
\* the last.
OutputOnce == Buffer!EveryByteOnce /\ Buffer!ClosedIsTheEnd
=============================================================================
