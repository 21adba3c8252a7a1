------------------------------- MODULE MCApp --------------------------------
(*****************************************************************************)
(* The MCP server, an agent's terminal, those who follow the session table,  *)
(* and its jump hosts and groups,                                            *)
(* each by itself: a behaviour is one of one part, while the others stay     *)
(* in an initial state.                                                      *)
(*****************************************************************************)
EXTENDS Agents, Followers, Sequences

CONSTANTS
  s1, t1, a1,
  Profiles, MaxHops,
  Grouped, Gone, MaxArg, MaxLen

OneSession == {s1}
TwoTunnels == {t1, a1}
OneOwner == [t \in TwoTunnels |-> s1]

VARIABLES
  part,
  kind, jump_chain,
  group_path

Jumps == INSTANCE JumpChain WITH Sessions <- Profiles, MAX_JUMP_DEPTH <- 2
Deeper == INSTANCE JumpChain WITH Sessions <- Profiles, MAX_JUMP_DEPTH <- 3
Groups == INSTANCE GroupPaths WITH Sessions <- Grouped

ASSUME MCAgentsConstants == McpConstants /\ BufferConstants
ASSUME MCLifecycleConstants == LifecycleConstants

mcpVars == <<settings, changes, inner, rs, srv, tx, cfg, held, terms, req, audit>>
bufferVars == <<total, len, truncated, closed, task, known, read, offset, got, lost, ended>>
lifecycleVars == <<row, next, grouped, defs, followed, pool, queue, work, cmd, ops, silent, lateStarts,
  passed>>
jumpVars == <<kind, jump_chain>>
groupsVars == <<group_path>>
allVars == <<part, mcpVars, bufferVars, lifecycleVars, jumpVars, groupsVars>>

MCInit ==
  /\ part \in {"mcp", "buffer", "lifecycle", "jump", "groups"}
  /\ Mcp!Init /\ Buffer!Init /\ Lifecycle!Init /\ Jumps!Init /\ Groups!Init
  /\ settings.enabled
  /\ part = "lifecycle" \/ (grouped = {} /\ defs = {})
  /\ part # "lifecycle" \/ (grouped # {} /\ defs # {})
MCNext ==
  /\ UNCHANGED part
  /\ \/ part = "mcp" /\ Mcp!Next /\ UNCHANGED <<bufferVars, lifecycleVars, jumpVars, groupsVars>>
     \/ part = "buffer" /\ Buffer!Next /\ UNCHANGED <<mcpVars, lifecycleVars, jumpVars, groupsVars>>
     \/ part = "lifecycle" /\ Lifecycle!Next /\ UNCHANGED <<mcpVars, bufferVars, jumpVars, groupsVars>>
     \/ part = "jump" /\ Jumps!Next /\ UNCHANGED <<mcpVars, bufferVars, lifecycleVars, groupsVars>>
     \/ part = "groups" /\ Groups!Next /\ UNCHANGED <<mcpVars, bufferVars, lifecycleVars, jumpVars>>
\* The fairness of each part.
MCFairness ==
  /\ WF_mcpVars(part = "mcp" /\ Mcp!Progress)
  /\ WF_lifecycleVars(part = "lifecycle" /\ Lifecycle!Progress)
MCSpec == MCInit /\ [][MCNext]_allVars /\ MCFairness

(*****************************************************************************)
(* The properties of the parts, under their names.                           *)
(*****************************************************************************)
\* Of the jump hosts, for limits of two and three: a session resolves just when its hops form
\* a tree, and a hop comes behind those it is reached through.
JumpsResolve ==
  /\ Jumps!ResolvesTrees
  /\ Deeper!ResolvesTrees
  /\ Jumps!HopsInOrder
  /\ Deeper!HopsInOrder
\* Of the groups: the SQL on prefixes is the tree's operations, and no operation on groups makes
\* a malformed path of a well-formed one.
GroupsAreATree == [][part = "groups" => Groups!GroupStep]_groupsVars
\* Each part gets where it has to: every restart ends and every server that was
\* replaced gives up its port (RestartsEnd, ReplacedServersEnd), and nothing stays
\* out of date that an event tells of (ChangesFollowed).
AppProgress ==
  []<>CASE part = "mcp" -> Mcp!Restarted /\ Mcp!PortsGivenUp
        [] part = "lifecycle" -> Lifecycle!CaughtUp
        [] OTHER -> TRUE
=============================================================================
