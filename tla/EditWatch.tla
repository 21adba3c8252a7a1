----------------------------- MODULE EditWatch ------------------------------
(***************************************************************************)
(* Editing a remote file in place (sftp_edit_open, crates/app/src/sftp.rs):*)
(* the file is downloaded to a directory of its own, and a task looks at   *)
(* it every second and uploads what the editor has saved, until the local  *)
(* file is deleted.                                                        *)
(*                                                                         *)
(* A version of the file stands for its content and for its modification   *)
(* time.                                                                   *)
(***************************************************************************)
EXTENDS Naturals

CONSTANTS MaxSaves    \* bound: saves of the editor

VARIABLES
  local,              \* version of the local file
  deleted,            \* the local file is gone
  locked,             \* the editor holds the file: it cannot be read
  remote,             \* version of the remote file
  alive,              \* the client of the generation the task was started with
  pc,                 \* the task: asleep, about to read, about to write, ended
  last_mtime,
  data,               \* the version it has read
  missed              \* history: versions whose read or whose upload failed

vars == <<local, deleted, locked, remote, alive, pc, last_mtime, data, missed>>

Init ==
  /\ local = 0 /\ deleted = FALSE /\ locked = FALSE /\ remote = 0 /\ alive = TRUE
  /\ pc = "sleep" /\ last_mtime = 0 /\ data = 0 /\ missed = {}

(***************************************************************************)
(* The editor, the user and the connection.                                *)
(***************************************************************************)
Save ==
  /\ ~deleted /\ local < MaxSaves /\ local' = local + 1 /\ locked' \in BOOLEAN
  /\ UNCHANGED <<deleted, remote, alive, pc, last_mtime, data, missed>>
Unlock ==
  /\ locked /\ locked' = FALSE
  /\ UNCHANGED <<local, deleted, remote, alive, pc, last_mtime, data, missed>>
Delete ==
  /\ ~deleted /\ deleted' = TRUE /\ locked' = FALSE
  /\ UNCHANGED <<local, remote, alive, pc, last_mtime, data, missed>>
ClientDies ==
  /\ alive /\ alive' = FALSE
  /\ UNCHANGED <<local, deleted, locked, remote, pc, last_mtime, data, missed>>

(***************************************************************************)
(* The task.                                                               *)
(***************************************************************************)
\* A second later.
Poll ==
  /\ pc = "sleep"
  /\ IF deleted THEN pc' = "ended" /\ UNCHANGED last_mtime
     ELSE local # last_mtime /\ last_mtime' = local /\ pc' = "read"
  /\ UNCHANGED <<local, deleted, locked, remote, alive, data, missed>>

Failed == deleted \/ locked
Missed == missed' = missed \cup {last_mtime}
Read ==
  /\ pc = "read"
  /\ IF Failed THEN Missed /\ pc' = "sleep" /\ UNCHANGED data
     ELSE data' = local /\ pc' = "write" /\ UNCHANGED missed
  /\ UNCHANGED <<local, deleted, locked, remote, alive, last_mtime>>

\* Mutant: the time is taken again after the upload.
WrittenRestat ==
  /\ pc = "write" /\ alive /\ remote' = data /\ pc' = "sleep" /\ last_mtime' = local
  /\ UNCHANGED <<local, deleted, locked, alive, data, missed>>
\* client.overwrite; the upload may fail on a client that lives.
Written ==
  /\ pc = "write" /\ alive /\ remote' = data /\ pc' = "sleep"
  /\ UNCHANGED <<local, deleted, locked, alive, last_mtime, data, missed>>
NotWritten ==
  /\ pc = "write" /\ pc' = "sleep" /\ missed' = missed \cup {last_mtime, data}
  /\ UNCHANGED <<local, deleted, locked, remote, alive, last_mtime, data>>

Task == Poll \/ Read \/ Written \/ NotWritten
Next == Task \/ Save \/ Unlock \/ Delete \/ ClientDies

Spec == Init /\ [][Next]_vars
\* The timer of the task, and an editor that lets go of the file.
FairSpec == Spec /\ WF_vars(Task) /\ WF_vars(Unlock)

(***************************************************************************)
(* Properties.                                                             *)
(***************************************************************************)
Uploaded == deleted \/ remote = local \/ local \in missed
\* What the editor saved last becomes the remote file, also when it saves while
\* an older version is on its way; unless reading or uploading that version
\* failed, which is not tried again.
SavesUploaded == []<>Uploaded
=============================================================================
