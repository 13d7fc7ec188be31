---------------------------- MODULE PendingReplace ----------------------------
(***************************************************************************)
(* The replacement of the media files of an artwork                        *)
(* (pixishelf-job-executors/src/pending-replace and the App's              *)
(* pending-replace-central-service): one item of one batch, its row, its   *)
(* files and the PENDING_REPLACE jobs that work on it one after another.    *)
(*                                                                         *)
(* Files move one rename at a time; the item's status is a checkpoint that *)
(* is written between the loops of renames and refused once the job is no   *)
(* longer RUNNING.  A process may die between any two steps, a step may    *)
(* fail, a shutdown or a command of the user may interrupt the loops.      *)
(*                                                                         *)
(* Only one such job is active at a time (assertNoActivePendingReplace      *)
(* under the enqueue lock), so one job variable stands for the latest one. *)
(* The order within a loop is left open.  Files the manifest ignores,      *)
(* chapters (moved exactly as media) and the counters are left out.        *)
(***************************************************************************)
EXTENDS Naturals, FiniteSets

CONSTANTS
  OldFile,   \* the files of the artwork when the batch was discovered
  NewFile,   \* the files that are to take their place
  Naming     \* the file names they may have in the artwork's directory

File == OldFile \union NewFile

ASSUME ReplaceAssumption ==
  /\ OldFile \intersect NewFile = {}
  /\ \A naming \in Naming, files \in {OldFile, NewFile} :
       \A f, g \in files : naming[f] = naming[g] => f = g

VARIABLES
  nameOf,    \* their names; chosen once
  at,        \* where each file is
  folders,   \* which of the two places of the source directory exist
  media,     \* which files the artwork's rows list
  item,      \* the item's status
  batch,     \* the batch's status
  op,        \* the latest operation: its mode and the status of its job
  run,       \* the execution in progress
  unanswered \* a publication was committed and its answer lost; a history variable

replaceVars == <<nameOf, unanswered, at, folders, media, item, batch, op, run>>

Place == {"target", "backup", "gone", "pending", "source", "normalized", "lost"}

JobState == {"NONE", "QUEUED", "RUNNING", "PAUSING", "CANCELLING", "PAUSED"}

Mode == {"DISCOVER", "BATCH", "RESTORE", "CLEANUP"}

ReplaceActive == {"READY", "FAILED", "STAGING", "BACKING_UP", "SWAPPING", "COMMITTING",
                  "ROLLING_BACK"}

ReplaceResumable == ReplaceActive \union {"ARCHIVING"}

RestoreResumable == {"SUCCESS", "RESTORING", "RESTORE_SWAPPING", "RESTORE_COMMITTED"}

ItemStatus == {"NONE", "RESTORED", "CLEANING_BACKUP", "BACKUP_CLEANED"}
              \union ReplaceResumable \union RestoreResumable

BatchStatus == {"PREVIEWED", "DISCOVERING", "RUNNING", "COMPLETED", "PARTIAL_FAILED", "FAILED",
                "CANCELLED"}

\* cause: what the undoing under way does when it is through, or fails.
Idle == [pc |-> "idle", todo |-> {}, seen |-> "NONE", cause |-> "none", stop |-> FALSE]

ReplaceInit ==
  /\ nameOf \in Naming
  /\ at = [f \in File |-> IF f \in OldFile THEN "target" ELSE "pending"]
  /\ folders = {"pending"}
  /\ media = "old"
  /\ item = "NONE"
  /\ batch = "PREVIEWED"
  /\ op = [mode |-> "DISCOVER", job |-> "QUEUED"]
  /\ run = Idle
  /\ unanswered = FALSE

AllAt(files, place) == \A f \in files : at[f] = place

-----------------------------------------------------------------------------
(* Moving files                                                            *)

\* Some file lies in place under f's name.
Occupied(f, place) == \E g \in File : at[g] = place /\ nameOf[g] = nameOf[f]

\* A move that looks at its source only.
MovableBug(f, from, to) == at[f] \in {from, to}

\* moveCheckpointFile succeeds: f is still at its source and nothing at its
\* destination, or the other way round.
Movable(f, from, to) ==
  \/ at[f] = from /\ ~Occupied(f, to)
  \/ at[f] = to /\ ~Occupied(f, from)

\* rename replaces what it finds at the destination.
Moved(f, to) ==
  [g \in File |-> IF g = f THEN to
                  ELSE IF at[g] = to /\ nameOf[g] = nameOf[f] THEN "lost" ELSE at[g]]

\* moveDirectoryIdempotent.
DirectoryMovable(from, to) == (from \in folders) # (to \in folders)

MoveDirectory(from, to) ==
  /\ folders' = (folders \ {from}) \union {to}
  /\ at' = [f \in File |-> IF at[f] = from THEN to ELSE at[f]]

Goto(pc, todo) == run' = [run EXCEPT !.pc = pc, !.todo = todo]

\* checkpointItem inside a fenced mutation: refused unless the job is RUNNING.
Checkpointable(expected) == op.job = "RUNNING" /\ item \in expected

-----------------------------------------------------------------------------
(* Enqueueing and commanding the jobs                                      *)

Enqueued(mode) ==
  /\ op.job = "NONE"
  /\ op' = [mode |-> mode, job |-> "QUEUED"]
  /\ UNCHANGED <<nameOf, unanswered, at, folders, media, item, batch, run>>

EnqueueBatch ==
  /\ batch \in {"PREVIEWED", "PARTIAL_FAILED", "FAILED"}
  /\ item \in ReplaceResumable
  /\ Enqueued("BATCH")

EnqueueRestore == item \in RestoreResumable /\ Enqueued("RESTORE")

EnqueueCleanup == item \in {"SUCCESS", "CLEANING_BACKUP"} /\ Enqueued("CLEANUP")

\* recoverCentralPendingReplaceBatch: the latest operation once more.
RecoverOperation ==
  /\ item \in CASE op.mode = "DISCOVER" -> {"NONE"}
                [] op.mode = "BATCH" -> ReplaceResumable
                [] op.mode = "RESTORE" -> RestoreResumable
                [] op.mode = "CLEANUP" -> {"CLEANING_BACKUP"}
  /\ Enqueued(op.mode)

Command(before, after) ==
  /\ op.job = before
  /\ op' = [op EXCEPT !.job = after]
  /\ UNCHANGED <<nameOf, unanswered, at, folders, media, item, batch, run>>

\* The commands of the queue, applied to this job.
CommandJob ==
  \/ Command("QUEUED", "PAUSED")
  \/ Command("RUNNING", "PAUSING")
  \/ Command("PAUSED", "QUEUED")
  \/ \E s \in {"QUEUED", "PAUSED"} : Command(s, "NONE")
  \/ \E s \in {"RUNNING", "PAUSING"} : Command(s, "CANCELLING")

\* The lease of a lost execution runs out; attempts may or may not be left.
RecoverLease ==
  /\ run.pc = "idle"
  /\ \/ \E after \in {"QUEUED", "NONE"} : Command("RUNNING", after)
     \/ Command("PAUSING", "PAUSED")
     \/ Command("CANCELLING", "NONE")

Crash ==
  /\ run.pc # "idle"
  /\ run' = Idle
  /\ UNCHANGED <<nameOf, unanswered, at, folders, media, item, batch, op>>

\* The worker is told to stop: the signal the loops look at is aborted.
Shutdown ==
  /\ run.pc # "idle" /\ ~run.stop
  /\ run' = [run EXCEPT !.stop = TRUE]
  /\ UNCHANGED <<nameOf, unanswered, at, folders, media, item, batch, op>>

-----------------------------------------------------------------------------
(* The execution as a whole                                                *)

ReplaceEntry ==
  CASE item \in {"READY", "FAILED", "STAGING"} -> "begin"
    [] item = "BACKING_UP" -> "backup"
    [] item = "SWAPPING" -> "install"
    [] item = "COMMITTING" -> "publish"
    [] item = "ARCHIVING" -> "archive"
    [] item = "ROLLING_BACK" -> "undoInstall"
    [] OTHER -> "finish"

RestoreEntry ==
  CASE item \in {"SUCCESS", "RESTORING"} -> "beginRestore"
    [] item = "RESTORE_SWAPPING" -> "checkBackup"
    [] OTHER -> "restored"

Todo(pc) ==
  CASE pc \in {"backup", "putBack", "unputBack", "unlink", "undoBackup"} -> OldFile
    [] pc \in {"stage", "install", "withdraw", "undoInstall", "undoNormalize", "unwithdraw"} -> NewFile
    [] OTHER -> {}

Enter(pc) == Goto(pc, Todo(pc))

\* The dispatcher starts the executor, which loads the item.
Start ==
  /\ op.job = "QUEUED" /\ run.pc = "idle"
  /\ op' = [op EXCEPT !.job = "RUNNING"]
  /\ LET pc == CASE op.mode = "DISCOVER" -> "discover"
                 [] op.mode = "BATCH" -> "open"
                 [] op.mode = "RESTORE" -> RestoreEntry
                 [] op.mode = "CLEANUP" ->
                      IF item \in {"SUCCESS", "CLEANING_BACKUP"} THEN "beginCleanup" ELSE "finish"
     IN run' = [Idle EXCEPT !.pc = pc, !.todo = Todo(pc), !.seen = item]
  /\ UNCHANGED <<nameOf, unanswered, at, folders, media, item, batch>>

\* checkpointBatch to DISCOVERING, or to RUNNING.
OpenBatch ==
  /\ run.pc \in {"discover", "open"}
  /\ UNCHANGED <<nameOf, unanswered, at, folders, media, item, op>>
  /\ IF op.job = "RUNNING"
        /\ batch \in IF run.pc = "open" THEN {"PREVIEWED", "RUNNING", "PARTIAL_FAILED"}
                                        ELSE {"PREVIEWED", "DISCOVERING"}
     THEN IF run.pc = "open"
          THEN batch' = "RUNNING" /\ Enter("loop")
          ELSE batch' = "DISCOVERING" /\ Enter("finish")
     ELSE UNCHANGED batch /\ Enter("close")

\* The loop over the items of the batch.
BeginItem ==
  /\ run.pc = "loop" /\ ~run.stop
  /\ run' = [run EXCEPT !.pc = ReplaceEntry, !.todo = Todo(ReplaceEntry), !.cause = "resumed"]
  /\ UNCHANGED <<nameOf, unanswered, at, folders, media, item, batch, op>>

Ended(batchStatus, jobState) ==
  /\ batch' = batchStatus
  /\ op' = [op EXCEPT !.job = jobState]
  /\ run' = Idle

\* finalizeRequestedControl.
Controlled ==
  \/ op.job = "CANCELLING" /\ Ended("CANCELLED", "NONE")
  \/ op.job = "PAUSING" /\ Ended("PREVIEWED", "PAUSED")

\* The finalizer of an operation that ran to its end.
Finish ==
  /\ run.pc = "finish"
  /\ UNCHANGED <<nameOf, unanswered, at, folders, media>>
  /\ \/ Controlled /\ UNCHANGED item
     \/ /\ op.job = "RUNNING"
        /\ CASE op.mode = "DISCOVER" -> item' = "READY" /\ Ended("PREVIEWED", "NONE")
             [] op.mode = "CLEANUP" -> UNCHANGED item /\ Ended("COMPLETED", "NONE")
             [] OTHER -> /\ UNCHANGED item
                         /\ Ended(IF item = "FAILED" THEN "PARTIAL_FAILED" ELSE "COMPLETED", "NONE")

\* The outer catch: a control, a release by a stopping worker, or a failure.
Close ==
  /\ run.pc = "close"
  /\ UNCHANGED <<nameOf, unanswered, at, folders, media, item>>
  /\ \/ Controlled
     \/ op.job = "RUNNING" /\ run.stop /\ Ended("PREVIEWED", "QUEUED")
     \/ op.job = "RUNNING" /\ ~run.stop /\ Ended("FAILED", "NONE")

\* The outer catch for PendingReplaceActionRequiredError.  The queue accepts a
\* pause of a RUNNING or PAUSING job; else the execution ends without a word.
PauseForAction ==
  /\ run.pc = "action"
  /\ UNCHANGED <<nameOf, unanswered, at, folders, media, item>>
  /\ IF op.job \in {"RUNNING", "PAUSING"} THEN Ended("PREVIEWED", "PAUSED")
                                         ELSE run' = Idle /\ UNCHANGED <<batch, op>>

-----------------------------------------------------------------------------
(* Errors                                                                  *)

\* The first loop of a rollback.
Undo(pc, cause) == run' = [run EXCEPT !.pc = pc, !.todo = Todo(pc), !.cause = cause]

\* The catch of processReplacementItem before the publication: the checkpoint
\* ROLLING_BACK is tried, its refusal swallowed.
ItemFails ==
  /\ item' = IF Checkpointable(ReplaceActive) THEN "ROLLING_BACK" ELSE item
  /\ Undo("undoInstall", "failed")

\* The rollback of a resumed ROLLING_BACK item runs inside the try block: its
\* failure starts a second one, whose failure needs a person.
RollbackFails == IF run.cause = "resumed" THEN ItemFails ELSE UNCHANGED item /\ Enter("action")

\* The catch of processRestoreItem before the publication.
RestoreFails(cause) ==
  /\ Undo("unputBack", cause)
  /\ UNCHANGED item

ReplaceSteps == {"begin", "stageFolder", "stage", "backup", "install", "publish"}
RollbackSteps == {"undoInstall", "undoBackup", "undoNormalize", "undoFolder"}
RestoreSteps == {"beginRestore", "openPending", "withdraw", "checkBackup", "putBack"}

\* What an error thrown at this step leads to.
Fails ==
  /\ UNCHANGED <<nameOf, unanswered, at, folders, media, batch, op>>
  /\ CASE run.pc \in ReplaceSteps -> ItemFails
       [] run.pc \in RollbackSteps -> RollbackFails
       [] run.pc = "failed" /\ run.cause = "resumed" -> ItemFails
       [] run.pc = "failed" /\ run.cause = "failed" ->
            UNCHANGED item /\ Enter(IF run.stop THEN "close" ELSE "finish")
       [] run.pc \in RestoreSteps -> \E cause \in {"error", "action"} : RestoreFails(cause)
       [] run.pc \in {"unputBack", "unwithdraw"} -> UNCHANGED item /\ Enter("action")
       [] run.pc = "archive" -> UNCHANGED item /\ \E pc \in {"finish", "action"} : Enter(pc)
       [] run.pc = "restored" -> UNCHANGED item /\ Enter("finish")
       [] run.pc \in {"beginCleanup", "unlink"} ->
            UNCHANGED item /\ \E pc \in {"close", "action"} : Enter(pc)
       [] OTHER -> UNCHANGED item /\ Enter("close")

\* A file operation, a verification or a transaction fails.
Fault == run.pc \notin {"idle", "loop", "close", "action"} /\ Fails

\* throwIfAborted, in the loops that look at the signal.  A requested control is
\* noticed at some later heartbeat, a shutdown at once.
Aborted ==
  /\ \/ run.pc = "loop"
     \/ run.pc \in {"stage", "backup", "install", "withdraw", "putBack"} /\ run.todo # {}
  /\ run.stop \/ op.job \in {"PAUSING", "CANCELLING"}
  /\ UNCHANGED <<nameOf, unanswered, at, folders, media, batch, op>>
  /\ CASE run.pc = "loop" -> UNCHANGED item /\ Enter("close")
       [] run.pc \in ReplaceSteps -> ItemFails
       [] run.pc \in RestoreSteps -> RestoreFails("error")

-----------------------------------------------------------------------------
(* The shapes of a step                                                    *)

\* One turn of a loop of renames, each of which makes its directory.
Turn(pc, from, to) ==
  /\ run.pc = pc
  /\ run.stop => pc \in RollbackSteps \union {"unputBack", "unwithdraw"}
  /\ \E f \in run.todo :
       IF Movable(f, from, to)
       THEN /\ at' = Moved(f, to)
            /\ folders' = folders \union ({to} \intersect {"pending", "source"})
            /\ run' = [run EXCEPT !.todo = @ \ {f}]
            /\ UNCHANGED <<nameOf, unanswered, media, item, batch, op>>
       ELSE Fails

\* The step is done; the next one needs no checkpoint.
Through(pc, next) ==
  /\ run.pc = pc /\ run.todo = {}
  /\ Enter(next)
  /\ UNCHANGED <<nameOf, unanswered, at, folders, media, item, batch, op>>

\* The step is done and the checkpoint is written, or refused.
Checkpoint(pc, expected, status, next) ==
  /\ run.pc = pc /\ run.todo = {}
  /\ IF Checkpointable(expected)
     THEN /\ item' = status
          /\ Enter(next)
          /\ UNCHANGED <<nameOf, unanswered, at, folders, media, batch, op>>
     ELSE Fails

\* The checkpoint that publishes other media in the same transaction.  When the
\* answer to its commit is lost, the executor takes it for an error before the
\* publication.  (Any other lost answer is as good as an error of the next step.)
Publication(pc, ready, expected, before, after, status, next, undo) ==
  /\ run.pc = pc /\ run.todo = {}
  /\ IF ready /\ Checkpointable(expected) /\ media = before
     THEN /\ media' = after
          /\ item' = status
          /\ \/ Enter(next) /\ UNCHANGED unanswered
             \/ Undo(undo, "failed") /\ unanswered' = TRUE
          /\ UNCHANGED <<nameOf, at, folders, batch, op>>
     ELSE Fails

Rename(pc, from, to, next) ==
  /\ run.pc = pc
  /\ IF DirectoryMovable(from, to)
     THEN /\ IF from \in folders THEN MoveDirectory(from, to) ELSE UNCHANGED <<at, folders>>
          /\ Enter(next)
          /\ UNCHANGED <<nameOf, unanswered, media, item, batch, op>>
     ELSE Fails

-----------------------------------------------------------------------------
(* Replacing                                                               *)

\* A ready or failed item is first compared with its snapshots.
BeginReplacement ==
  /\ run.pc = "begin"
  /\ IF item \in {"READY", "FAILED"} => AllAt(NewFile, "pending") /\ AllAt(OldFile, "target")
     THEN Checkpoint("begin", {"READY", "FAILED", "STAGING"}, "STAGING", "stageFolder")
     ELSE Fails

StageSource ==
  \/ Rename("stageFolder", "pending", "source", "stage")
  \/ Turn("stage", "source", "normalized")
  \/ Checkpoint("stage", {"STAGING"}, "BACKING_UP", "backup")

BackupTarget ==
  \/ Turn("backup", "target", "backup")
  \/ Checkpoint("backup", {"BACKING_UP"}, "SWAPPING", "install")

InstallReplacement ==
  \/ Turn("install", "normalized", "target")
  \/ Checkpoint("install", {"SWAPPING"}, "COMMITTING", "publish")

\* A publication that does not look at the files.
PublishReplacementBug ==
  Publication("publish", TRUE, {"COMMITTING"}, "old", "new", "ARCHIVING", "archive",
              "undoInstall")

PublishReplacement ==
  Publication("publish", AllAt(NewFile, "target") /\ AllAt(OldFile, "backup"),
              {"COMMITTING"}, "old", "new", "ARCHIVING", "archive", "undoInstall")

ArchiveSource == Checkpoint("archive", {"ARCHIVING", "SUCCESS"}, "SUCCESS", "finish")

RollbackReplacement ==
  \/ Turn("undoInstall", "target", "normalized")
  \/ Through("undoInstall", "undoBackup")
  \/ Turn("undoBackup", "backup", "target")
  \/ Through("undoBackup", "undoNormalize")
  \/ Turn("undoNormalize", "normalized", "source")
  \/ Through("undoNormalize", "undoFolder")
  \/ Rename("undoFolder", "source", "pending", "failed")
  \/ Checkpoint("failed", {"ROLLING_BACK", "STAGING", "BACKING_UP", "SWAPPING", "COMMITTING"},
                "FAILED", "finish")

-----------------------------------------------------------------------------
(* Restoring and cleaning up                                               *)

OpenPending ==
  /\ run.pc = "openPending"
  /\ IF AllAt(OldFile, "backup")
     THEN /\ folders' = folders \union {"pending"}
          /\ Enter("withdraw")
          /\ UNCHANGED <<nameOf, unanswered, at, media, item, batch, op>>
     ELSE Fails

\* assertExactSnapshotDirectory: a resumed swap may have emptied the backup.
CheckBackup ==
  /\ run.pc = "checkBackup"
  /\ IF run.seen = "RESTORE_SWAPPING" \/ AllAt(OldFile, "backup")
     THEN Through("checkBackup", "putBack")
     ELSE Fails

RestoreItem ==
  \/ Checkpoint("beginRestore", {"SUCCESS", "RESTORING"}, "RESTORING", "openPending")
  \/ OpenPending
  \/ Turn("withdraw", "target", "pending")
  \/ Checkpoint("withdraw", {"RESTORING"}, "RESTORE_SWAPPING", "checkBackup")
  \/ CheckBackup
  \/ Turn("putBack", "backup", "target")
  \/ Publication("putBack", AllAt(OldFile, "target"), {"RESTORE_SWAPPING"}, "new", "old",
                 "RESTORE_COMMITTED", "restored", "unputBack")
  \/ Checkpoint("restored", {"RESTORE_COMMITTED", "RESTORED"}, "RESTORED", "finish")

\* A failed restore moves everything back, then passes its error on.
UndoRestore ==
  \/ Turn("unputBack", "target", "backup")
  \/ Through("unputBack", "unwithdraw")
  \/ Turn("unwithdraw", "pending", "target")
  \/ Through("unwithdraw", "unrestored")
  \/ Checkpoint("unrestored", {"RESTORING", "RESTORE_SWAPPING"}, "SUCCESS",
                IF run.cause = "action" THEN "action" ELSE "close")

BeginCleanup ==
  /\ run.pc = "beginCleanup"
  /\ IF /\ ~run.stop /\ AllAt(NewFile, "target") /\ media = "new"
        /\ run.seen = "SUCCESS" => AllAt(OldFile, "backup")
     THEN Checkpoint("beginCleanup", {"SUCCESS", "CLEANING_BACKUP"}, "CLEANING_BACKUP", "unlink")
     ELSE Fails

RemoveBackup ==
  /\ run.pc = "unlink"
  /\ \E f \in run.todo :
       IF at[f] = "backup" \/ run.seen = "CLEANING_BACKUP"
       THEN /\ at' = [at EXCEPT ![f] = "gone"]
            /\ run' = [run EXCEPT !.todo = @ \ {f}]
            /\ UNCHANGED <<nameOf, unanswered, folders, media, item, batch, op>>
       ELSE Fails

Cleanup ==
  \/ BeginCleanup
  \/ RemoveBackup
  \/ Checkpoint("unlink", {"CLEANING_BACKUP"}, "BACKUP_CLEANED", "finish")

-----------------------------------------------------------------------------
ReplaceNext ==
  \/ EnqueueBatch \/ EnqueueRestore \/ EnqueueCleanup \/ RecoverOperation
  \/ CommandJob \/ RecoverLease \/ Crash \/ Shutdown
  \/ Start \/ OpenBatch \/ BeginItem \/ Finish \/ Close \/ PauseForAction
  \/ Fault \/ Aborted
  \/ BeginReplacement \/ StageSource \/ BackupTarget \/ InstallReplacement
  \/ PublishReplacement \/ ArchiveSource \/ RollbackReplacement
  \/ RestoreItem \/ UndoRestore \/ Cleanup

ReplaceSpec == ReplaceInit /\ [][ReplaceNext]_replaceVars

-----------------------------------------------------------------------------
(* Properties                                                              *)

\* Whatever was interrupted, repeated or refused in between, the status an item
\* has come to tells where both versions are and which one the artwork shows:
\* a replacement that was not published can be started afresh, one that was can
\* be restored until its backup is cleaned up.  Only after a lost answer to a
\* publication can the files of the published version be somewhere else.
CheckpointsDescribeFiles ==
  /\ item \in {"NONE", "READY", "FAILED"} =>
       media = "old" /\ AllAt(OldFile, "target") /\ AllAt(NewFile, "pending")
  /\ item \in {"STAGING", "BACKING_UP", "SWAPPING", "COMMITTING", "ROLLING_BACK"} => media = "old"
  /\ item \in {"ARCHIVING", "SUCCESS"} =>
       media = "new" /\ (~unanswered => AllAt(NewFile, "target") /\ AllAt(OldFile, "backup"))
  /\ item \in {"RESTORING", "RESTORE_SWAPPING"} => media = "new"
  /\ item \in {"RESTORE_COMMITTED", "RESTORED"} =>
       media = "old" /\ (~unanswered => AllAt(OldFile, "target"))
  /\ item \in {"CLEANING_BACKUP", "BACKUP_CLEANED"} => media = "new" /\ AllAt(NewFile, "target")

\* No rename ever lands on another file, and an old file is deleted by a
\* cleanup only: each version stays complete somewhere under the scan root,
\* in forward moves, rollbacks and resumed attempts alike.
NoCopyIsLost ==
  /\ \A f \in File : at[f] # "lost"
  /\ \A f \in NewFile : at[f] \in {"pending", "source", "normalized", "target"}
  /\ \A f \in OldFile : at[f] = "gone" => item \in {"CLEANING_BACKUP", "BACKUP_CLEANED"}
=============================================================================
