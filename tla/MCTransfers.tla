---------------------------- MODULE MCTransfers -----------------------------
(*****************************************************************************)
(* A download, the history of transfers and the list of them that the UI     *)
(* shows,                                                                    *)
(* each by itself: a behaviour is one of one part, while the others stay     *)
(* in an initial state.                                                      *)
(*****************************************************************************)
EXTENDS DownloadPipeline

CONSTANTS
  MaxTransfers, Files, QueueCap, Batch, MaxCommands, MaxExits,
  Entities, FrameMax, MaxChange, MaxSubs, MaxFlight

VARIABLES
  part,
  next, reg, st, file, run, disk, lq, upserts, rows, cmd, commands, exits, want, gone,
  table, feed, chan, gens, sub, view, listing, split, ghosts

History == INSTANCE TransferHistory
Feed == INSTANCE TransferFeed

ASSUME MCDownloadConstants == DownloadConstants

historyVars == <<next, reg, st, file, run, disk, lq, upserts, rows, cmd, commands, exits, want,
  gone>>
feedVars == <<table, feed, chan, gens, sub, view, listing, split, ghosts>>
allVars == <<part, vars, historyVars, feedVars>>

MCInit ==
  /\ part \in {"download", "history", "feed"}
  /\ Init /\ History!Init /\ Feed!Init
  /\ part = "download" \/ (mode = "resume" /\ local = <<>>)
MCNext ==
  /\ UNCHANGED part
  /\ \/ part = "download" /\ Next /\ UNCHANGED <<historyVars, feedVars>>
     \/ part = "history" /\ History!Next /\ UNCHANGED <<vars, feedVars>>
     \/ part = "feed" /\ Feed!Next /\ UNCHANGED <<vars, historyVars>>
\* The fairness of each part.
MCFairness ==
  /\ WF_vars(part = "download" /\ Progress)
  /\ WF_historyVars(part = "history" /\ History!Consume)
  /\ SF_historyVars(part = "history" /\ History!Command)
  /\ WF_feedVars(part = "feed" /\ Feed!Progress)
MCSpec == MCInit /\ [][MCNext]_allVars /\ MCFairness

(*****************************************************************************)
(* The properties of the parts, under their names.                           *)
(*****************************************************************************)
\* Of the history: types; batching does not reorder, and what was removed does not come back.
HistoryOrdered == History!HistoryTypeOK /\ History!StreamOrdered /\ History!RemovedStaysGone
\* Of the transfer list: types; the UI shows what its subscription has sent, and there is no
\* gap in the numbers of its frames.
ListIsTheFeed == Feed!FeedTypeOK /\ Feed!ViewIsTheFeed /\ Feed!NoGaps
\* Each part gets where it has to: a download that is not paused for good ends
\* (DownloadEnds), every command on the history is answered (CommandsAnswered), the
\* UI shows what there is (FeedConverges).
TransfersProgress ==
  []<>CASE part = "download" -> Ended
        [] part = "history" -> History!Answered
        [] part = "feed" -> Feed!UpToDate
=============================================================================
