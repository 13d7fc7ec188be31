---------------------------- MODULE ArchiveImport ----------------------------
(***************************************************************************)
(* The imports of one remote work: the administrator's controls, the        *)
(* ARCHIVE_IMPORT executor with its per-media checkpoints, and publication.  *)
(*                                                                         *)
(* Three places hold what is known of an import: its row, the row of the job *)
(* that carries it out, and the directories on disk.  Controls read the rows, *)
(* and act on them later; the executor works between its transactions; the    *)
(* commands of the job list, lease recovery and the dispatcher know the job   *)
(* and nothing of the import.                                                *)
(*                                                                         *)
(* All the jobs run in the BACKGROUND_WRITER lane.  The queue is taken as     *)
(* JobLifecycle promises it.  An execution that loses its lease is over, its  *)
(* file operations included.  Job rows that nothing reads any more leave the  *)
(* model and their identity is used again.                                   *)
(***************************************************************************)
EXTENDS FiniteSets, Naturals

CONSTANTS
  Job,          \* identities of system_jobs rows
  Import,       \* identities of archive_imports rows, all of one remote work
  Media,        \* the media of the work, one archive_import_items row each per import
  NoJob, NoImport, NoDir,
  MaxControls,  \* controls between their read and their transaction (a bound)
  Listed        \* the commands of the job list that are used, and the kinds of jobs (a bound)

ASSUME ArchiveAssumption == NoJob \notin Job /\ \A files \in SUBSET Media : NoDir # files

VARIABLES
  job,            \* job[j] : status and payload
  archiveImport,  \* archiveImport[i] : status, systemJobId, cleanupRequestedAt # null, errorCode = PARTIAL_FAILURE
  item,           \* item[i][m] : status of the media checkpoint (DOWNLOADING counts as PENDING)
  dir,            \* dir[i] : the staging, archive and trash directory of the import
  artwork,        \* the work's artwork, its revisions, and whether purgeAfter has passed
  controls,       \* controls that have read their import
  exec            \* the execution in the lane, and how far it has come

vars == <<job, archiveImport, item, dir, artwork, controls, exec>>

Jobs == INSTANCE JobLifecycle WITH
  status <- [j \in Job |-> job[j].status],
  Lane <- {"BACKGROUND_WRITER"},
  LaneOf <- [j \in Job |-> "BACKGROUND_WRITER"]

ActiveImportStatus == {"PENDING", "RUNNING", "PAUSED", "CANCELLING"}
ImportStatus == ActiveImportStatus \union {"ABSENT", "COMPLETED", "FAILED", "CANCELLED"}
Action == {"PAUSE", "RESUME", "CANCEL", "RETRY", "RETRY_ITEM"}
MaintenanceKind == {"CLEAN_STAGING", "TRASH_ARCHIVE", "RESTORE_ARCHIVE", "PURGE_ARCHIVE", "RECONCILE"}

AbsentJob == [status |-> "ABSENT", kind |-> "NONE", import |-> NoImport]
AbsentImport == [status |-> "ABSENT", job |-> NoJob, cleanup |-> FALSE, partial |-> FALSE]
NoExec == [job |-> NoJob, at |-> "none", place |-> "none", stored |-> {}, todo |-> {}]
NoArtwork == [state |-> "NONE", revisions |-> {}, expired |-> FALSE]

-----------------------------------------------------------------------------
(* Jobs                                                                    *)

\* A job row no import and no control in flight names can stand for a new one.
Free(j) == job[j] = AbsentJob /\ \A c \in controls : c.job # j

NewJob(kind, i) == [status |-> "PENDING", kind |-> kind, import |-> i]

\* The job table once j has status s: a finished maintenance job is history nothing
\* reads, a finished import job is kept for the import it is bound to.
Moved(j, s) ==
  [job EXCEPT ![j] = IF s \in Jobs!TerminalStatus /\ @.kind # "IMPORT" THEN AbsentJob
                     ELSE [@ EXCEPT !.status = s]]

\* The job that is executed, and the import it is about.
Ours == exec.job
Its == job[exec.job].import

Executes(kind, at) == exec # NoExec /\ job[Ours].kind = kind /\ exec.at = at

\* A checkpoint transaction of the execution: refused once a control has been
\* requested of the job.
Unhindered == job[Ours].status = "RUNNING"

\* QueueRepository.claim for this lane, which holds back the import whose staging is
\* to be cleaned first.
Claim(j) ==
  /\ exec = NoExec
  /\ \A k \in Job : job[k].status \notin Jobs!ExecutingStatus
  /\ job[j].status \in Jobs!WaitingStatus
  /\ job[j].kind = "IMPORT" => ~archiveImport[job[j].import].cleanup
  /\ job' = [job EXCEPT ![j].status = "RUNNING"]
  /\ exec' = [job |-> j, at |-> "claimed", place |-> "none", stored |-> {}, todo |-> {}]
  /\ UNCHANGED <<archiveImport, item, dir, artwork, controls>>

\* The process dies, the lease is lost, or the final transaction fails: whatever the
\* execution has not committed is left as it is.
Lost ==
  /\ exec # NoExec
  /\ exec' = NoExec
  /\ UNCHANGED <<job, archiveImport, item, dir, artwork, controls>>

\* Lease recovery: the import is not touched.
RecoveredStatus(s) ==
  CASE s = "CANCELLING" -> {"CANCELLED"}
    [] s = "PAUSING" -> {"PAUSED"}
    [] s = "RUNNING" -> {"RETRY_WAIT", "FAILED"}

Recover(j) ==
  /\ exec = NoExec
  /\ job[j].status \in Jobs!ExecutingStatus
  /\ \E s \in RecoveredStatus(job[j].status) : job' = Moved(j, s)
  /\ UNCHANGED <<archiveImport, item, dir, artwork, controls, exec>>

\* pauseJobCommand, resumeJobCommand and cancelJobCommand: what the job list offers for
\* a job of any kind.
CommandJob(j, command) ==
  LET from == job[j].status
  IN /\ <<job[j].kind, command>> \in Listed
     /\ \/ command = "PAUSE" /\ from \in Jobs!WaitingStatus /\ job' = Moved(j, "PAUSED")
        \/ command = "PAUSE" /\ from = "RUNNING" /\ job' = Moved(j, "PAUSING")
        \/ command = "RESUME" /\ from = "PAUSED" /\ job' = Moved(j, "PENDING")
        \/ /\ command = "CANCEL" /\ from \in Jobs!WaitingStatus \union {"PAUSED"}
           /\ job' = Moved(j, "CANCELLED")
        \/ command = "CANCEL" /\ from \in {"RUNNING", "PAUSING"} /\ job' = Moved(j, "CANCELLING")
     /\ UNCHANGED <<archiveImport, item, dir, artwork, controls, exec>>

\* The dispatcher settles the execution by itself, and nothing but its job.  A control
\* that was requested goes before the outcome.
SettleAlone ==
  /\ \E s \in CASE job[Ours].status = "CANCELLING" -> {"CANCELLED"}
              [] job[Ours].status = "PAUSING" -> {"PAUSED"}
              [] job[Ours].status = "RUNNING" -> {"PENDING", "FAILED"} : job' = Moved(Ours, s)
  /\ exec' = NoExec
  /\ UNCHANGED <<archiveImport, item, dir, artwork, controls>>

\* A claim that arrives while its dispatcher is being stopped is handed back; a job whose
\* payload or definition version is not understood fails.  The executor never begins.
SettleWithoutImport == Executes("IMPORT", "claimed") /\ SettleAlone

-----------------------------------------------------------------------------
(* Enqueueing                                                              *)

\* enqueueOne checks the identity under the publication lock; the unique index on
\* active imports says the same.
EnqueueImport(i, j) ==
  /\ Free(j)
  /\ archiveImport[i].status = "ABSENT"
  /\ \A k \in Import : archiveImport[k].status \notin ActiveImportStatus
  /\ artwork.state \in {"NONE", "ACTIVE"}
  /\ job' = [job EXCEPT ![j] = NewJob("IMPORT", i)]
  /\ archiveImport' = [archiveImport EXCEPT ![i] = [AbsentImport EXCEPT !.status = "PENDING", !.job = j]]
  /\ UNCHANGED <<item, dir, artwork, controls, exec>>

-----------------------------------------------------------------------------
(* Controls                                                                *)

\* What the first read of a control demands of the import.
Offered(action, i) ==
  LET row == archiveImport[i]
  IN CASE action = "PAUSE" -> ~row.cleanup /\ row.status \in {"PENDING", "RUNNING"}
       [] action = "RESUME" ->
            /\ ~row.cleanup
            /\ \/ row.status = "PAUSED"
               \/ row.status = "RUNNING" /\ job[row.job].status = "PAUSED"
       [] action = "CANCEL" -> ~row.cleanup /\ row.status \in {"PENDING", "RUNNING", "PAUSED"}
       [] action = "RETRY" -> ~row.cleanup /\ row.status \in {"FAILED", "CANCELLED"}
       [] action = "RETRY_ITEM" ->
            row.status = "FAILED" /\ row.partial /\ \E m \in Media : item[i][m] = "FAILED"

\* requestAction and retryTaskItem read the import and its job before the transaction.
ReadForControl(action, i) ==
  /\ Cardinality(controls) < MaxControls
  /\ archiveImport[i].job # NoJob
  /\ Offered(action, i)
  /\ controls' = controls \union {[action |-> action, import |-> i,
                                   seen |-> archiveImport[i].status, job |-> archiveImport[i].job]}
  /\ UNCHANGED <<job, archiveImport, item, dir, artwork, exec>>

Withdraw(c) == controls' = controls \ {c}

\* The control finds the rows changed and does nothing.
Refused(c) ==
  /\ Withdraw(c)
  /\ UNCHANGED <<job, archiveImport, item, dir, artwork, exec>>

ResetItems(i, ms) ==
  [item EXCEPT ![i] = [m \in Media |-> IF m \in ms /\ @[m] # "COMPLETED" THEN "PENDING" ELSE @[m]]]

SameAsSeen(c) ==
  archiveImport[c.import].job = c.job /\ archiveImport[c.import].status = c.seen

\* A control that takes a running job for one that waits.
ExecutedBug(c) == job[c.job].status = "PAUSING"

Executed(c) == job[c.job].status \in {"RUNNING", "PAUSING"}

Pause(c) ==
  /\ c.action = "PAUSE" /\ SameAsSeen(c)
  /\ job[c.job].status \in {"PENDING", "RETRY_WAIT", "RUNNING"}
  /\ job' = [job EXCEPT ![c.job].status = IF Executed(c) THEN "PAUSING" ELSE "PAUSED"]
  /\ archiveImport' = [archiveImport EXCEPT ![c.import].status =
                         IF Executed(c) THEN "RUNNING" ELSE "PAUSED"]
  /\ Withdraw(c)
  /\ UNCHANGED <<item, dir, artwork, exec>>

Resume(c) ==
  /\ c.action = "RESUME" /\ SameAsSeen(c)
  /\ job[c.job].status = "PAUSED"
  /\ job' = [job EXCEPT ![c.job].status = "PENDING"]
  /\ archiveImport' = [archiveImport EXCEPT ![c.import].status = "PENDING"]
  /\ item' = ResetItems(c.import, Media)
  /\ Withdraw(c)
  /\ UNCHANGED <<dir, artwork, exec>>

\* A cancellation that takes the import out while its job still executes.
CancelBug(c) ==
  /\ c.action = "CANCEL" /\ SameAsSeen(c)
  /\ job[c.job].status \in {"PENDING", "RETRY_WAIT", "PAUSED", "RUNNING", "PAUSING"}
  /\ job' = [job EXCEPT ![c.job].status = IF Executed(c) THEN "CANCELLING" ELSE "CANCELLED"]
  /\ archiveImport' = [archiveImport EXCEPT ![c.import].status = "CANCELLED"]
  /\ Withdraw(c)
  /\ UNCHANGED <<item, dir, artwork, exec>>

Cancel(c) ==
  /\ c.action = "CANCEL" /\ SameAsSeen(c)
  /\ job[c.job].status \in {"PENDING", "RETRY_WAIT", "PAUSED", "RUNNING", "PAUSING"}
  /\ job' = [job EXCEPT ![c.job].status = IF Executed(c) THEN "CANCELLING" ELSE "CANCELLED"]
  /\ archiveImport' = [archiveImport EXCEPT ![c.import].status =
                         IF Executed(c) THEN "CANCELLING" ELSE "CANCELLED"]
  /\ Withdraw(c)
  /\ UNCHANGED <<item, dir, artwork, exec>>

\* retryCentralArchiveImport: a new job for the import, refused by the unique index
\* while another import of the work is active.  The old job leaves the model if it is
\* over.
Retry(c, j) ==
  LET i == c.import
  IN /\ c.action \in {"RETRY", "RETRY_ITEM"}
     /\ archiveImport[i].job = c.job
     /\ archiveImport[i].status \in {"FAILED", "CANCELLED", "PAUSED"}
     /\ \A k \in Import \ {i} : archiveImport[k].status \notin ActiveImportStatus
     /\ Free(j)
     /\ \/ c.action = "RETRY" /\ item' = ResetItems(i, Media)
        \/ c.action = "RETRY_ITEM" /\ \E m \in Media : /\ item[i][m] = "FAILED"
                                                      /\ item' = ResetItems(i, {m})
     /\ job' = [job EXCEPT ![j] = NewJob("IMPORT", i),
                           ![c.job] = IF @.status \in Jobs!TerminalStatus THEN AbsentJob ELSE @]
     /\ archiveImport' = [archiveImport EXCEPT ![i] = [@ EXCEPT !.status = "PENDING", !.job = j,
                                                                !.partial = FALSE]]
     /\ Withdraw(c)
     /\ UNCHANGED <<dir, artwork, exec>>

Control(c) ==
  Refused(c) \/ Pause(c) \/ Resume(c) \/ Cancel(c) \/ \E j \in Job : Retry(c, j)

-----------------------------------------------------------------------------
(* The executor                                                            *)

AtWork == {"claimed", "downloading", "validated", "prepared"}

Goto(at) == exec' = [exec EXCEPT !.at = at]

\* A start that looks at the status alone.
StartBug ==
  LET prepared == dir[Its].archive # NoDir
  IN /\ Executes("IMPORT", "claimed") /\ Unhindered
     /\ archiveImport[Its].status \in {"PENDING", "RUNNING"}
     /\ archiveImport' = [archiveImport EXCEPT ![Its].status = "RUNNING", ![Its].partial = FALSE]
     /\ exec' = [exec EXCEPT !.at = "downloading", !.place = IF prepared THEN "archive" ELSE "staging"]
     /\ dir' = [dir EXCEPT ![Its].staging = IF ~prepared /\ @ = NoDir THEN {} ELSE @]
     /\ UNCHANGED <<job, item, artwork, controls>>

\* startArchiveImport, and the directory to download into: the revision's own if an
\* earlier execution had already prepared it, else the staging directory.
Start ==
  LET prepared == dir[Its].archive # NoDir
  IN /\ Executes("IMPORT", "claimed") /\ Unhindered
     /\ ~archiveImport[Its].cleanup
     /\ archiveImport[Its].status \in {"PENDING", "RUNNING"}
     /\ archiveImport' = [archiveImport EXCEPT ![Its].status = "RUNNING", ![Its].partial = FALSE]
     /\ exec' = [exec EXCEPT !.at = "downloading", !.place = IF prepared THEN "archive" ELSE "staging"]
     /\ dir' = [dir EXCEPT ![Its].staging = IF ~prepared /\ @ = NoDir THEN {} ELSE @]
     /\ UNCHANGED <<job, item, artwork, controls>>

\* Cleanup was requested after the claim: the execution gives way.
YieldToCleanup ==
  /\ Executes("IMPORT", "claimed") /\ Unhindered
  /\ archiveImport[Its].cleanup
  /\ Goto("yielding")
  /\ UNCHANGED <<job, archiveImport, item, dir, artwork, controls>>

Here == dir[Its][exec.place]

\* storeArchiveRemoteMedia: a complete file takes its place under its final name.
Store(m) ==
  /\ Executes("IMPORT", "downloading")
  /\ item[Its][m] = "PENDING" /\ m \notin exec.stored
  /\ dir' = [dir EXCEPT ![Its][exec.place] = @ \union {m}]
  /\ exec' = [exec EXCEPT !.stored = @ \union {m}]
  /\ UNCHANGED <<job, archiveImport, item, artwork, controls>>

\* A checkpoint written before the file has its name.
CompleteBug(m) ==
  /\ Executes("IMPORT", "downloading") /\ Unhindered
  /\ item[Its][m] = "PENDING"
  /\ item' = [item EXCEPT ![Its][m] = "COMPLETED"]
  /\ UNCHANGED <<job, archiveImport, dir, artwork, controls, exec>>

\* downloadArchiveItem's last checkpoint.
Complete(m) ==
  /\ Executes("IMPORT", "downloading") /\ Unhindered
  /\ item[Its][m] = "PENDING" /\ m \in exec.stored
  /\ item' = [item EXCEPT ![Its][m] = "COMPLETED"]
  /\ exec' = [exec EXCEPT !.stored = @ \ {m}]
  /\ UNCHANGED <<job, archiveImport, dir, artwork, controls>>

\* The attempts of one item are used up, or its failure is not worth another.
GiveUp(m) ==
  /\ Executes("IMPORT", "downloading") /\ Unhindered
  /\ item[Its][m] = "PENDING" /\ m \notin exec.stored
  /\ item' = [item EXCEPT ![Its][m] = "FAILED"]
  /\ UNCHANGED <<job, archiveImport, dir, artwork, controls, exec>>

\* After the rounds: synchronizeArchiveCounts decides between partial failure and
\* validation of the files (validateArchiveStoredMedia).  Unfinished items are an error.
EndRounds ==
  /\ Executes("IMPORT", "downloading") /\ Unhindered
  /\ exec.stored = {}
  /\ LET in(s) == {m \in Media : item[Its][m] = s}
     IN Goto(CASE in("FAILED") # {} -> "partial"
               [] in("COMPLETED") = Media /\ Here = Media -> "validated"
               [] OTHER -> "failing")
  /\ UNCHANGED <<job, archiveImport, item, dir, artwork, controls>>

\* prepareArchiveRevisionDirectory: the staging directory becomes the revision's.
Prepare ==
  /\ Executes("IMPORT", "validated")
  /\ dir' = [dir EXCEPT ![Its] = IF @.archive = NoDir
                                 THEN [@ EXCEPT !.archive = dir[Its].staging, !.staging = NoDir]
                                 ELSE @]
  /\ Goto("prepared")
  /\ UNCHANGED <<job, archiveImport, item, artwork, controls>>

\* Any failure, abort or refused checkpoint before finalization has started.
Fail ==
  /\ exec # NoExec /\ job[Ours].kind = "IMPORT" /\ exec.at \in AtWork
  /\ Goto("failing")
  /\ UNCHANGED <<job, archiveImport, item, dir, artwork, controls>>

-----------------------------------------------------------------------------
(* Finalization: one transaction settles the import and its job            *)

\* The execution ends, the import with status s in from and the job with status t.
\* Anything else makes the transaction fail, and the job is left to recovery.
Settle(from, s, t, partial) ==
  /\ archiveImport[Its].status \in from
  /\ archiveImport' = [archiveImport EXCEPT ![Its].status = s, ![Its].partial = partial]
  /\ job' = Moved(Ours, t)
  /\ exec' = NoExec
  /\ UNCHANGED <<item, dir, artwork, controls>>

Unfinished == {"PENDING", "RUNNING", "CANCELLING"}
Ending == exec # NoExec /\ job[Ours].kind = "IMPORT" /\ exec.at \in {"prepared", "partial", "failing"}

\* finalizeRequestedArchiveControl goes before everything else.
FinalizeControl ==
  /\ Ending
  /\ \/ job[Ours].status = "CANCELLING" /\ Settle(Unfinished, "CANCELLED", "CANCELLED", FALSE)
     \/ job[Ours].status = "PAUSING" /\ Settle({"PENDING", "RUNNING"}, "PAUSED", "PAUSED", FALSE)

FinalizeFailure ==
  /\ Ending /\ Unhindered
  /\ \/ exec.at = "partial" /\ Settle(Unfinished, "FAILED", "FAILED", TRUE)
     \/ exec.at = "failing" /\ Settle(Unfinished, "FAILED", "FAILED", FALSE)
     \/ exec.at = "failing" /\ Settle({"RUNNING"}, "PAUSED", "PAUSED", FALSE)             \* action required
     \/ exec.at = "failing" /\ Settle({"PENDING", "RUNNING"}, "PENDING", "PENDING", FALSE)   \* shutdown

\* releaseArchiveImportForCleanup.
ReleaseForCleanup ==
  /\ Executes("IMPORT", "yielding") /\ Unhindered
  /\ archiveImport[Its].cleanup
  /\ Settle({"PENDING"}, "PENDING", "PENDING", FALSE)

\* Publication that trusts what the executor saw and looks at neither import nor items.
PublishBug ==
  /\ Executes("IMPORT", "prepared")
  /\ artwork.state \in {"NONE", "ACTIVE"}
  /\ artwork' = [artwork EXCEPT !.state = "ACTIVE", !.revisions = @ \union {Its}]
  /\ archiveImport' = [archiveImport EXCEPT ![Its].status = "COMPLETED", ![Its].job = NoJob]
  /\ job' = [job EXCEPT ![Ours] = AbsentJob]
  /\ exec' = NoExec
  /\ UNCHANGED <<item, dir, controls>>

\* publishArchiveImportInTransaction: the revision joins the artwork.  The job of a
\* completed import is read by nothing any more.
Publish ==
  /\ Executes("IMPORT", "prepared") /\ Unhindered
  /\ archiveImport[Its].status = "RUNNING"
  /\ \A m \in Media : item[Its][m] = "COMPLETED"
  /\ artwork.state \in {"NONE", "ACTIVE"}
  /\ artwork' = [artwork EXCEPT !.state = "ACTIVE", !.revisions = @ \union {Its}]
  /\ archiveImport' = [archiveImport EXCEPT ![Its].status = "COMPLETED", ![Its].job = NoJob]
  /\ job' = [job EXCEPT ![Ours] = AbsentJob]
  /\ exec' = NoExec
  /\ UNCHANGED <<item, dir, controls>>

Finalize == FinalizeControl \/ FinalizeFailure \/ ReleaseForCleanup \/ Publish

ExecuteImport ==
  \/ Start \/ YieldToCleanup
  \/ \E m \in Media : Store(m) \/ Complete(m) \/ GiveUp(m)
  \/ EndRounds \/ Prepare \/ Fail \/ Finalize
  \/ SettleWithoutImport
=============================================================================
