-------------------------- MODULE ArchiveMaintenance --------------------------
(***************************************************************************)
(* ArchiveImport together with the maintenance of what it leaves on disk:    *)
(* cleaning the directories of unfinished imports, moving an artwork to the    *)
(* trash and back, purging it, and the reconciliation that re-creates the jobs  *)
(* of intents that lost theirs.                                             *)
(*                                                                         *)
(* Every operation is an intent recorded in the rows (cleanupRequestedAt,     *)
(* TRASHING, RESTORING, TRASHED with purgeAfter in the past) and a job that    *)
(* carries it out: a transaction that checks the intent, file operations one   *)
(* by one, and a transaction that checks it again and records the outcome.     *)
(***************************************************************************)
EXTENDS ArchiveImport

CleanableStatus == {"PENDING", "PAUSED", "FAILED", "CANCELLED"}
ArtworkKind == {"TRASH_ARCHIVE", "RESTORE_ARCHIVE", "PURGE_ARCHIVE"}

\* findActive...Job.
HasJob(kind, i) ==
  \E j \in Job : job[j].kind = kind /\ job[j].import = i /\ job[j].status \in Jobs!LiveStatus

NoActiveImport == \A i \in Import : archiveImport[i].status \notin ActiveImportStatus

-----------------------------------------------------------------------------
(* Requests                                                                *)

\* requestArchiveStagingCleanup.
RequestCleanup(i, j) ==
  /\ Free(j)
  /\ archiveImport[i].status \in CleanableStatus
  /\ ~HasJob("CLEAN_STAGING", i)
  /\ archiveImport' = [archiveImport EXCEPT ![i].cleanup = TRUE]
  /\ job' = [job EXCEPT ![j] = NewJob("CLEAN_STAGING", i)]
  /\ UNCHANGED <<item, dir, artwork, controls, exec>>

\* requestArchiveArtworkMaintenance, TRASH_ARCHIVE.
RequestTrash(j) ==
  /\ Free(j)
  /\ artwork.state \in {"ACTIVE", "TRASHING"}
  /\ artwork.state = "TRASHING" => ~HasJob("TRASH_ARCHIVE", NoImport)
  /\ NoActiveImport
  /\ artwork' = [artwork EXCEPT !.state = "TRASHING"]
  /\ job' = [job EXCEPT ![j] = NewJob("TRASH_ARCHIVE", NoImport)]
  /\ UNCHANGED <<archiveImport, item, dir, controls, exec>>

\* A restore that looks for a purge job and forgets that the retention is over.
RequestRestoreBug(j) ==
  /\ Free(j)
  /\ ~HasJob("PURGE_ARCHIVE", NoImport)
  /\ artwork.state \in {"TRASHED", "RESTORING"}
  /\ artwork.state = "RESTORING" => ~HasJob("RESTORE_ARCHIVE", NoImport)
  /\ NoActiveImport
  /\ artwork' = [artwork EXCEPT !.state = "RESTORING"]
  /\ job' = [job EXCEPT ![j] = NewJob("RESTORE_ARCHIVE", NoImport)]
  /\ UNCHANGED <<archiveImport, item, dir, controls, exec>>

\* requestArchiveArtworkMaintenance, RESTORE_ARCHIVE.
RequestRestore(j) ==
  /\ Free(j)
  /\ ~HasJob("PURGE_ARCHIVE", NoImport)
  /\ ~artwork.expired
  /\ artwork.state \in {"TRASHED", "RESTORING"}
  /\ artwork.state = "RESTORING" => ~HasJob("RESTORE_ARCHIVE", NoImport)
  /\ NoActiveImport
  /\ artwork' = [artwork EXCEPT !.state = "RESTORING"]
  /\ job' = [job EXCEPT ![j] = NewJob("RESTORE_ARCHIVE", NoImport)]
  /\ UNCHANGED <<archiveImport, item, dir, controls, exec>>

\* requestArchivePurgeMaintenance.
RequestPurge(j) ==
  /\ Free(j)
  /\ artwork.state = "TRASHED" /\ artwork.expired
  /\ ~HasJob("PURGE_ARCHIVE", NoImport)
  /\ job' = [job EXCEPT ![j] = NewJob("PURGE_ARCHIVE", NoImport)]
  /\ UNCHANGED <<archiveImport, item, dir, artwork, controls, exec>>

\* The schedule keeps one reconciliation going.
RequestReconcile(j) ==
  /\ Free(j)
  /\ ~HasJob("RECONCILE", NoImport)
  /\ job' = [job EXCEPT ![j] = NewJob("RECONCILE", NoImport)]
  /\ UNCHANGED <<archiveImport, item, dir, artwork, controls, exec>>

\* purgeAfter passes.
Expire ==
  /\ artwork.state \in {"TRASHING", "TRASHED", "RESTORING"} /\ ~artwork.expired
  /\ artwork' = [artwork EXCEPT !.expired = TRUE]
  /\ UNCHANGED <<job, archiveImport, item, dir, controls, exec>>

-----------------------------------------------------------------------------
(* Execution                                                               *)

Maintaining == exec # NoExec /\ job[Ours].kind \notin {"IMPORT"}

\* An error, a shutdown or a control, before the final transaction.
GiveUpMaintenance == Maintaining /\ SettleAlone

\* The last transaction's part in the job table.
Completed ==
  /\ Unhindered
  /\ job' = [job EXCEPT ![Ours] = AbsentJob]
  /\ exec' = NoExec

\* executeStagingCleanup.
BeginCleanup ==
  /\ Executes("CLEAN_STAGING", "claimed") /\ Unhindered
  /\ archiveImport[Its].cleanup /\ archiveImport[Its].status \in CleanableStatus
  /\ exec' = [exec EXCEPT !.at = "removing", !.place = "staging"]
  /\ UNCHANGED <<job, archiveImport, item, dir, artwork, controls>>

\* rm -r : file by file, then the directory.
RemovePart ==
  /\ Executes("CLEAN_STAGING", "removing")
  /\ Here # NoDir
  /\ \E m \in Here : dir' = [dir EXCEPT ![Its][exec.place] = @ \ {m}]
  /\ UNCHANGED <<job, archiveImport, item, artwork, controls, exec>>

RemoveRest ==
  /\ Executes("CLEAN_STAGING", "removing")
  /\ dir' = [dir EXCEPT ![Its][exec.place] = NoDir]
  /\ exec' = IF exec.place = "staging" THEN [exec EXCEPT !.place = "archive"]
                                       ELSE [exec EXCEPT !.at = "removed"]
  /\ UNCHANGED <<job, archiveImport, item, artwork, controls>>

\* A cleanup that clears the intent and leaves the checkpoints.
FinalizeCleanupBug ==
  /\ Executes("CLEAN_STAGING", "removed")
  /\ archiveImport[Its].cleanup /\ archiveImport[Its].status \in CleanableStatus
  /\ archiveImport' = [archiveImport EXCEPT ![Its].cleanup = FALSE]
  /\ Completed
  /\ UNCHANGED <<item, dir, artwork, controls>>

FinalizeCleanup ==
  /\ Executes("CLEAN_STAGING", "removed")
  /\ archiveImport[Its].cleanup /\ archiveImport[Its].status \in CleanableStatus
  /\ archiveImport' = [archiveImport EXCEPT ![Its].cleanup = FALSE]
  /\ item' = [item EXCEPT ![Its] = [m \in Media |-> "PENDING"]]
  /\ Completed
  /\ UNCHANGED <<dir, artwork, controls>>

\* executeArtworkMaintenance: TRASH_ARCHIVE and RESTORE_ARCHIVE.
Route(kind) ==
  IF kind = "TRASH_ARCHIVE"
  THEN [from |-> "archive", to |-> "trash", during |-> "TRASHING", after |-> "TRASHED"]
  ELSE [from |-> "trash", to |-> "archive", during |-> "RESTORING", after |-> "ACTIVE"]

BeginMove(kind) ==
  /\ Executes(kind, "claimed") /\ Unhindered
  /\ artwork.state = Route(kind).during
  /\ exec' = [exec EXCEPT !.at = "moving", !.todo = artwork.revisions]
  /\ UNCHANGED <<job, archiveImport, item, dir, artwork, controls>>

\* moveRootConfinedDirectory: a directory that has already been moved is passed over,
\* one that is nowhere or in both places is an error.
MoveDirectory(kind, i) ==
  LET from == Route(kind).from  to == Route(kind).to
  IN /\ Executes(kind, "moving") /\ i \in exec.todo
     /\ (dir[i][from] = NoDir) # (dir[i][to] = NoDir)
     /\ dir' = [dir EXCEPT ![i] = IF @[from] = NoDir THEN @
                                  ELSE [@ EXCEPT ![to] = dir[i][from], ![from] = NoDir]]
     /\ exec' = [exec EXCEPT !.todo = @ \ {i}]
     /\ UNCHANGED <<job, archiveImport, item, artwork, controls>>

FinalizeMove(kind) ==
  /\ Executes(kind, "moving") /\ exec.todo = {}
  /\ artwork.state = Route(kind).during
  /\ artwork' = [artwork EXCEPT !.state = Route(kind).after,
                                !.expired = @ /\ kind = "TRASH_ARCHIVE"]
  /\ Completed
  /\ UNCHANGED <<archiveImport, item, dir, controls>>

\* executeArchivePurge: every path of every revision, then the rows.
BeginPurge ==
  /\ Executes("PURGE_ARCHIVE", "claimed") /\ Unhindered
  /\ artwork.state = "TRASHED" /\ artwork.expired
  /\ exec' = [exec EXCEPT !.at = "purging", !.todo = artwork.revisions \X {"trash", "archive"}]
  /\ UNCHANGED <<job, archiveImport, item, dir, artwork, controls>>

RemovePath(i, place) ==
  /\ Executes("PURGE_ARCHIVE", "purging") /\ <<i, place>> \in exec.todo
  /\ \/ /\ dir[i][place] # NoDir
        /\ \E m \in dir[i][place] : dir' = [dir EXCEPT ![i][place] = @ \ {m}]
        /\ UNCHANGED exec
     \/ /\ dir' = [dir EXCEPT ![i][place] = NoDir]
        /\ exec' = [exec EXCEPT !.todo = @ \ {<<i, place>>}]
  /\ UNCHANGED <<job, archiveImport, item, artwork, controls>>

\* The artwork's rows go; the jobs that were still to come for it find nothing.
FinalizePurge ==
  /\ Executes("PURGE_ARCHIVE", "purging") /\ Unhindered /\ exec.todo = {}
  /\ artwork.state = "TRASHED" /\ artwork.expired
  /\ artwork' = NoArtwork
  /\ job' = [j \in Job |-> CASE j = Ours -> AbsentJob
                             [] job[j].kind \in ArtworkKind /\ j # Ours -> [job[j] EXCEPT !.kind = "VOID"]
                             [] OTHER -> job[j]]
  /\ exec' = NoExec
  /\ UNCHANGED <<archiveImport, item, dir, controls>>

\* executeArchiveReconcile: for each candidate a transaction that renews the intent,
\* and the child job in another.  Which candidates its first query lists is open, and
\* so is how many it gets through; retainUntil may have passed or not.
BeginReconcile ==
  /\ Executes("RECONCILE", "claimed") /\ Unhindered
  /\ Goto("reconciling")
  /\ UNCHANGED <<job, archiveImport, item, dir, artwork, controls>>

PrepareCleanup(i) ==
  /\ Executes("RECONCILE", "reconciling") /\ exec.todo = {} /\ Unhindered
  /\ \/ archiveImport[i].cleanup /\ archiveImport[i].status \in CleanableStatus
     \/ archiveImport[i].status \in {"FAILED", "CANCELLED"}
  /\ ~HasJob("CLEAN_STAGING", i)
  /\ archiveImport' = [archiveImport EXCEPT ![i].cleanup = TRUE]
  /\ exec' = [exec EXCEPT !.todo = {NewJob("CLEAN_STAGING", i)}]
  /\ UNCHANGED <<job, item, dir, artwork, controls>>

PrepareArtwork ==
  /\ Executes("RECONCILE", "reconciling") /\ exec.todo = {} /\ Unhindered
  /\ \E kind \in ArtworkKind :
       /\ \/ kind = "TRASH_ARCHIVE" /\ artwork.state = "TRASHING"
          \/ kind = "RESTORE_ARCHIVE" /\ artwork.state = "RESTORING"
          \/ kind = "PURGE_ARCHIVE" /\ artwork.state = "TRASHED" /\ artwork.expired
       /\ ~HasJob(kind, NoImport)
       /\ exec' = [exec EXCEPT !.todo = {NewJob(kind, NoImport)}]
  /\ UNCHANGED <<job, archiveImport, item, dir, artwork, controls>>

EnqueueChild(j) ==
  /\ Executes("RECONCILE", "reconciling")
  /\ Free(j)
  /\ \E child \in exec.todo : job' = [job EXCEPT ![j] = child]
  /\ exec' = [exec EXCEPT !.todo = {}]
  /\ UNCHANGED <<archiveImport, item, dir, artwork, controls>>

FinishReconcile ==
  /\ Executes("RECONCILE", "reconciling") /\ exec.todo = {}
  /\ Completed
  /\ UNCHANGED <<archiveImport, item, dir, artwork, controls>>

Request(j) ==
  \/ \E i \in Import : EnqueueImport(i, j) \/ RequestCleanup(i, j)
  \/ RequestTrash(j) \/ RequestRestore(j) \/ RequestPurge(j) \/ RequestReconcile(j)

ExecuteMaintenance ==
  \/ GiveUpMaintenance
  \/ BeginCleanup \/ RemovePart \/ RemoveRest \/ FinalizeCleanup
  \/ \E kind \in {"TRASH_ARCHIVE", "RESTORE_ARCHIVE"} :
       \/ BeginMove(kind) \/ FinalizeMove(kind)
       \/ \E i \in Import : MoveDirectory(kind, i)
  \/ BeginPurge \/ FinalizePurge \/ \E i \in Import, place \in {"trash", "archive"} : RemovePath(i, place)
  \/ BeginReconcile \/ PrepareArtwork \/ FinishReconcile
  \/ \E i \in Import : PrepareCleanup(i)
  \/ \E j \in Job : EnqueueChild(j)

Init ==
  /\ job = [j \in Job |-> AbsentJob]
  /\ archiveImport = [i \in Import |-> AbsentImport]
  /\ item = [i \in Import |-> [m \in Media |-> "PENDING"]]
  /\ dir = [i \in Import |-> [staging |-> NoDir, archive |-> NoDir, trash |-> NoDir]]
  /\ artwork = NoArtwork
  /\ controls = {}
  /\ exec = NoExec

Next ==
  \/ \E j \in Job : Request(j) \/ Claim(j) \/ Recover(j)
  \/ \E j \in Job, command \in Action : CommandJob(j, command)
  \/ Lost \/ Expire
  \/ \E action \in Action, i \in Import : ReadForControl(action, i)
  \/ \E c \in controls : Control(c)
  \/ ExecuteImport
  \/ ExecuteMaintenance

Spec == Init /\ [][Next]_vars

-----------------------------------------------------------------------------
(* Properties                                                              *)

Directory == (SUBSET Media) \union {NoDir}

ArchiveTypeOK ==
  /\ job \in [Job -> [status : Jobs!Status, kind : MaintenanceKind \union {"IMPORT", "VOID", "NONE"},
                      import : Import \union {NoImport}]]
  /\ archiveImport \in [Import -> [status : ImportStatus, job : Job \union {NoJob},
                                   cleanup : BOOLEAN, partial : BOOLEAN]]
  /\ item \in [Import -> [Media -> {"PENDING", "COMPLETED", "FAILED"}]]
  /\ dir \in [Import -> [staging : Directory, archive : Directory, trash : Directory]]
  /\ artwork \in [state : {"NONE", "ACTIVE", "TRASHING", "TRASHED", "RESTORING"},
                  revisions : SUBSET Import, expired : BOOLEAN]
  /\ \A c \in controls : c.action \in Action /\ c.import \in Import /\ c.job \in Job
  /\ exec # NoExec => exec.job \in Job /\ job[exec.job].status \in Jobs!ExecutingStatus

\* What the reader sees is what is on disk.  Every revision of a shown artwork is
\* complete in its archive directory; of one in the trash that can still be restored,
\* complete in the trash; of one on its way, complete in exactly one of the two.  Imports,
\* cleanups, moves, purges, crashes between their steps and requests in any order are
\* all given the chance to take a file away from under a row.
RevisionsAreComplete ==
  \A i \in artwork.revisions :
    LET here == dir[i].archive  there == dir[i].trash
    IN CASE artwork.state = "ACTIVE" -> here = Media /\ there = NoDir
         [] artwork.state = "TRASHED" -> artwork.expired \/ (here = NoDir /\ there = Media)
         [] OTHER -> {here, there} = {Media, NoDir}

\* A checkpoint that says COMPLETED has its file, in whichever directory the next
\* execution will look, through crashes between download, checkpoint and preparation;
\* unless a cleanup that will reset the checkpoint has been requested.
CheckpointsHaveFiles ==
  \A i \in Import, m \in Media :
    (item[i][m] = "COMPLETED" /\ archiveImport[i].status # "COMPLETED" /\ ~archiveImport[i].cleanup) =>
      IF dir[i].archive # NoDir THEN m \in dir[i].archive
                                ELSE dir[i].staging # NoDir /\ m \in dir[i].staging

\* The import and the job it is bound to tell the same story.
Agrees(i) ==
  LET row == archiveImport[i]
      its == IF row.job = NoJob THEN "NONE" ELSE job[row.job].status
  IN its \in CASE row.status = "PENDING" -> {"PENDING", "RETRY_WAIT", "RUNNING"}
               [] row.status = "RUNNING" -> {"RUNNING", "PAUSING", "RETRY_WAIT"}
               [] row.status = "PAUSED" -> {"PAUSED"}
               [] row.status = "CANCELLING" -> {"CANCELLING"}
               [] row.status = "FAILED" -> {"FAILED"}
               [] row.status = "CANCELLED" -> {"CANCELLED"}
               [] OTHER -> {"NONE"}

\* An import and its job part only where the job is moved by those who know nothing of
\* imports: a command of the job list, lease recovery, or the dispatcher as long as the
\* executor has not begun.  No control, refused or applied late, and no ending that an
\* executor commits parts them.
OnlyQueueSeparates ==
  [][\A i \in Import :
       Agrees(i) /\ ~Agrees(i)' =>
         archiveImport'[i] = archiveImport[i] /\ (exec' = exec \/ exec.at = "claimed")]_vars

\* Nobody downloads into directories that are to be removed: once an execution has
\* started the import no cleanup of it is requested or runs until the execution is over.
DownloadIsUndisturbed ==
  exec # NoExec /\ job[exec.job].kind = "IMPORT" /\ exec.at \in {"downloading", "validated", "prepared"} =>
    ~archiveImport[job[exec.job].import].cleanup

\* A cancellation that was accepted is not overtaken: the import ends CANCELLED, whatever
\* the execution was about to commit.
CancellationHolds ==
  [][\A i \in Import : archiveImport[i].status = "CANCELLING" =>
       archiveImport'[i].status \in {"CANCELLING", "CANCELLED"}]_vars

\* "A crash before the catalog switch leaves a resumable prepared revision"; downloads in
\* the Web process were rejected "because process restarts strand long-running work"
\* (docs/adr/0002-use-a-durable-worker-and-atomic-archive-publication.md, 9 and 13).  So an
\* import that has been started can always go on: its job is live, or the import can be
\* resumed.
NoImportIsStranded ==
  \A i \in Import : archiveImport[i].status = "RUNNING" =>
    job[archiveImport[i].job].status \in Jobs!LiveStatus \ {"PAUSED"} \/ Offered("RESUME", i)
=============================================================================
