----------------------------- MODULE Archive_proofs -----------------------------
(***************************************************************************)
(* What ArchiveMaintenance keeps for any number of jobs, imports, media and   *)
(* controls in flight: the files are what the rows say, nobody downloads into *)
(* directories that are to be removed, a cancellation stands, and an import is  *)
(* parted from its job only by who moves the job alone.                      *)
(*                                                                         *)
(* None of the properties is inductive.  Whether the files of a revision are   *)
(* complete when it is published depends on what the execution had done         *)
(* before it prepared the directory; whether they stay so, on which cleanup,    *)
(* move or purge can be under way.  The invariant AInv says so in two halves.    *)
(* Tables relates the rows to each other: which job may be bound to which        *)
(* import, and in which statuses.  It is kept by every step on its own.  Files     *)
(* relates rows, directories and the execution, one conjunct per kind of job for  *)
(* what a half-done execution of it has achieved (WorkOK).  The steps beside       *)
(* the executor move no file: for them it is enough that they keep what the          *)
(* execution relies on (RowKept, JobKept, ArtworkKept).                           *)
(***************************************************************************)
EXTENDS ArchiveMaintenance, TLAPS

-----------------------------------------------------------------------------
(* The inductive invariant: the rows                                       *)

Kind == MaintenanceKind \union {"IMPORT", "VOID", "NONE"}
JobRow == [status : Jobs!Status, kind : Kind, import : Import \union {NoImport}]
ImportRow == [status : ImportStatus, job : Job \union {NoJob}, cleanup : BOOLEAN, partial : BOOLEAN]
ControlRow == [action : Action, import : Import, seen : ImportStatus, job : Job]
Directories == [staging : Directory, archive : Directory, trash : Directory]
ArtworkRow == [state : {"NONE", "ACTIVE", "TRASHING", "TRASHED", "RESTORING"},
               revisions : SUBSET Import, expired : BOOLEAN]

TablesOK ==
  /\ job \in [Job -> JobRow]
  /\ archiveImport \in [Import -> ImportRow]
  /\ controls \subseteq ControlRow

\* The lane executes one job; an import job that is not over is the one its import is
\* bound to, and an import is bound to an import job of its own.
BindingOK ==
  /\ \A j \in Job : job[j].kind \in {"IMPORT", "CLEAN_STAGING"} => job[j].import \in Import
  /\ \A j, k \in Job : /\ job[j].status \in Jobs!ExecutingStatus
                       /\ job[k].status \in Jobs!ExecutingStatus
                       => j = k
  /\ \A j \in Job : job[j].kind = "IMPORT" /\ job[j].status \notin Jobs!TerminalStatus =>
                      archiveImport[job[j].import].job = j
  /\ \A i \in Import : archiveImport[i].job # NoJob =>
       job[archiveImport[i].job].kind = "IMPORT" /\ job[archiveImport[i].job].import = i

\* A failed or cancelled import has no job left that could still act on it, and one that
\* is being cancelled has a job that can only end cancelled.
StoriesOK ==
  \A i \in Import :
    /\ archiveImport[i].status = "ABSENT" => archiveImport[i].job = NoJob /\ ~archiveImport[i].cleanup
    /\ archiveImport[i].job # NoJob =>
         /\ archiveImport[i].status \in {"FAILED", "CANCELLED"} =>
              job[archiveImport[i].job].status \in Jobs!TerminalStatus
         /\ archiveImport[i].status = "CANCELLING" =>
              job[archiveImport[i].job].status \in {"CANCELLING", "CANCELLED"}

\* A retry that still finds its import bound to the job it has seen finds it as it was.
ControlsOK ==
  \A c \in controls :
    /\ c.action = "PAUSE" => c.seen \in {"PENDING", "RUNNING"}
    /\ c.action = "RESUME" => c.seen \in {"RUNNING", "PAUSED"}
    /\ c.action = "CANCEL" => c.seen \in {"PENDING", "RUNNING", "PAUSED"}
    /\ c.action \in {"RETRY", "RETRY_ITEM"} /\ archiveImport[c.import].job = c.job =>
         archiveImport[c.import].status \in {"FAILED", "CANCELLED"}

-----------------------------------------------------------------------------
(* The inductive invariant: the files and the execution                    *)

DataOK ==
  /\ item \in [Import -> [Media -> {"PENDING", "COMPLETED", "FAILED"}]]
  /\ dir \in [Import -> Directories]
  /\ artwork \in ArtworkRow

\* An execution is of a job that executes, and begins with nothing done.
ExecOK ==
  /\ exec = [job |-> exec.job, at |-> exec.at, place |-> exec.place,
             stored |-> exec.stored, todo |-> exec.todo]
  /\ exec.stored \subseteq Media
  /\ exec # NoExec => exec.job \in Job /\ job[exec.job].status \in Jobs!ExecutingStatus
  /\ exec.at = "claimed" => exec.stored = {} /\ exec.todo = {}

-----------------------------------------------------------------------------
(* The inductive invariant: the work of an execution                       *)

Doing(kind, ats) == exec # NoExec /\ job[exec.job].kind = kind /\ exec.at \in ats

\* The execution stores files in this directory of import i.
Filling(i, place) ==
  /\ dir[i][place] # NoDir
  /\ exec.stored \subseteq dir[i][place]
  /\ exec.at = "validated" => dir[i][place] = Media

\* While media are downloaded the import is not given to anybody else, and everything
\* stored is in the one directory the next execution will look into.
DownloadOK ==
  Doing("IMPORT", {"downloading", "validated", "prepared"}) =>
    /\ archiveImport[Its].status \in {"RUNNING", "CANCELLING"}
    /\ ~archiveImport[Its].cleanup
    /\ exec.at = "prepared" => dir[Its].archive = Media
    /\ exec.at # "prepared" =>
         \/ exec.place = "staging" /\ dir[Its].archive = NoDir /\ Filling(Its, "staging")
         \/ exec.place = "archive" /\ Filling(Its, "archive")

\* While files are removed the request that resets their checkpoints stands.
CleanupOK ==
  Doing("CLEAN_STAGING", {"removing", "removed"}) =>
    /\ archiveImport[Its].cleanup /\ archiveImport[Its].status \in CleanableStatus
    /\ exec.place \in {"staging", "archive"}

\* A move keeps the artwork in its transitional state, and what it has passed over has
\* left the place it leaves.
MoveOK ==
  \A kind \in {"TRASH_ARCHIVE", "RESTORE_ARCHIVE"} : Doing(kind, {"moving"}) =>
    /\ artwork.state = Route(kind).during
    /\ exec.todo \subseteq artwork.revisions
    /\ \A i \in artwork.revisions \ exec.todo : dir[i][Route(kind).from] = NoDir

\* A purge is of an artwork nobody can restore any more.
PurgeOK ==
  Doing("PURGE_ARCHIVE", {"purging"}) =>
    /\ artwork.state = "TRASHED" /\ artwork.expired
    /\ exec.todo \subseteq artwork.revisions \X {"trash", "archive"}

\* The jobs a reconciliation may enqueue.
Children ==
  {NewJob("CLEAN_STAGING", i) : i \in Import} \union {NewJob(kind, NoImport) : kind \in ArtworkKind}

ReconcileOK == Doing("RECONCILE", {"reconciling"}) => exec.todo \subseteq Children

WorkOK == DownloadOK /\ CleanupOK /\ MoveOK /\ PurgeOK /\ ReconcileOK

\* Revisions are completed imports, and only those are ever in the trash.
RevisionsOK ==
  /\ \A i \in Import : archiveImport[i].status # "COMPLETED" => dir[i].trash = NoDir
  /\ \A i \in artwork.revisions : archiveImport[i].status = "COMPLETED"
  /\ artwork.state = "NONE" => artwork.revisions = {}

Tables == TablesOK /\ BindingOK /\ StoriesOK /\ ControlsOK
Files == DataOK /\ ExecOK /\ WorkOK /\ RevisionsOK /\ RevisionsAreComplete /\ CheckpointsHaveFiles

AInv == Tables /\ Files

-----------------------------------------------------------------------------
(* Every step keeps Tables                                                 *)

USE DEF Jobs!WaitingStatus, Jobs!ExecutingStatus, Jobs!LiveStatus, Jobs!TerminalStatus, Jobs!Status

\* No job row changes, and no import becomes failed, cancelled or cancelling.
LEMMA QuietTables ==
  ASSUME Tables, job' = job, archiveImport' \in [Import -> ImportRow], controls' \subseteq controls,
         \A i \in Import :
           /\ archiveImport'[i].job = archiveImport[i].job
           /\ \/ archiveImport'[i].status = archiveImport[i].status
              \/ /\ archiveImport[i].status \notin {"FAILED", "CANCELLED"}
                 /\ archiveImport'[i].status \notin {"ABSENT", "FAILED", "CANCELLED", "CANCELLING"}
           /\ archiveImport[i].status = "ABSENT" => archiveImport'[i] = archiveImport[i]
  PROVE  Tables'
  <1>1. TablesOK'
    BY DEF Tables, TablesOK
  <1>2. BindingOK'
    BY DEF Tables, TablesOK, BindingOK, JobRow
  <1>3. StoriesOK'
    BY DEF Tables, TablesOK, StoriesOK
  <1>4. ControlsOK'
    BY DEF Tables, TablesOK, ControlsOK, ControlRow
  <1> QED BY <1>1, <1>2, <1>3, <1>4 DEF Tables

\* A maintenance job is enqueued.
LEMMA AddedJob ==
  ASSUME Tables, NEW j \in Job, NEW n \in JobRow, Free(j), job' = [job EXCEPT ![j] = n],
         n.status = "PENDING", n.kind # "IMPORT", n.kind = "CLEAN_STAGING" => n.import \in Import,
         archiveImport' \in [Import -> ImportRow], controls' = controls,
         \A i \in Import : /\ archiveImport'[i].job = archiveImport[i].job
                           /\ archiveImport'[i].status = archiveImport[i].status
                           /\ archiveImport[i].status = "ABSENT" => archiveImport'[i] = archiveImport[i]
  PROVE  Tables'
  <1>1. TablesOK'
    BY DEF Tables, TablesOK
  <1>2. job[j].status = "ABSENT" /\ job[j].kind = "NONE"
    BY DEF Free, AbsentJob
  <1>3. \A i \in Import : archiveImport[i].job # NoJob =>
          archiveImport[i].job \in Job \ {j} /\ job'[archiveImport[i].job] = job[archiveImport[i].job]
    BY <1>2 DEF Tables, TablesOK, BindingOK, ImportRow
  <1>4. BindingOK'
    <2>1. \A k \in Job : job'[k] = IF k = j THEN n ELSE job[k]
      BY DEF Tables, TablesOK
    <2>2. \A k \in Job : job'[k].kind \in {"IMPORT", "CLEAN_STAGING"} => job'[k].import \in Import
      BY <2>1 DEF Tables, BindingOK
    <2>3. \A k \in Job : k # j /\ job[k].kind = "IMPORT" /\ job[k].status \notin Jobs!TerminalStatus =>
                           archiveImport'[job[k].import].job = k
      BY <2>2 DEF Tables, BindingOK
    <2> QED BY <1>2, <1>3, <2>1, <2>2, <2>3 DEF Tables, BindingOK
  <1>5. StoriesOK'
    BY <1>3 DEF Tables, TablesOK, StoriesOK
  <1>6. ControlsOK'
    BY DEF Tables, TablesOK, ControlsOK, ControlRow
  <1> QED BY <1>1, <1>4, <1>5, <1>6 DEF Tables

\* The queue moves one job, and nothing else changes.
LEMMA MovedJob ==
  ASSUME Tables, NEW j \in Job, NEW s \in Jobs!Status, job' = [job EXCEPT ![j].status = s],
         archiveImport' = archiveImport, controls' = controls,
         job[j].status \notin Jobs!TerminalStatus,
         job[j].kind = "IMPORT" /\ job[j].status = "CANCELLING" => s \in {"CANCELLING", "CANCELLED"},
         s \in Jobs!ExecutingStatus => \A k \in Job \ {j} : job[k].status \notin Jobs!ExecutingStatus
  PROVE  Tables'
  <1>1. /\ TablesOK'
        /\ \A k \in Job : /\ job'[k].kind = job[k].kind /\ job'[k].import = job[k].import
                          /\ job'[k].status = IF k = j THEN s ELSE job[k].status
    BY DEF Tables, TablesOK, JobRow
  <1>2. BindingOK'
    BY <1>1 DEF Tables, TablesOK, BindingOK, JobRow, ImportRow
  <1>3. StoriesOK'
    BY <1>1 DEF Tables, TablesOK, BindingOK, StoriesOK, ImportRow
  <1>4. ControlsOK'
    BY DEF Tables, ControlsOK
  <1> QED BY <1>1, <1>2, <1>3, <1>4 DEF Tables

\* A maintenance job ends.
LEMMA EndedJob ==
  ASSUME Tables, NEW j \in Job, job' = [job EXCEPT ![j] = AbsentJob], job[j].kind # "IMPORT",
         archiveImport' \in [Import -> ImportRow], controls' = controls,
         \A i \in Import : /\ archiveImport'[i].job = archiveImport[i].job
                           /\ archiveImport'[i].status = archiveImport[i].status
                           /\ archiveImport[i].status = "ABSENT" => archiveImport'[i] = archiveImport[i]
  PROVE  Tables'
  <1>1. AbsentJob \in JobRow /\ AbsentJob.kind = "NONE" /\ AbsentJob.status = "ABSENT"
    BY DEF AbsentJob, JobRow, Kind
  <1>2. /\ TablesOK'
        /\ \A k \in Job : job'[k] = IF k = j THEN AbsentJob ELSE job[k]
    BY <1>1 DEF Tables, TablesOK
  <1>3. \A i \in Import : archiveImport[i].job # NoJob =>
          archiveImport[i].job \in Job /\ job'[archiveImport[i].job] = job[archiveImport[i].job]
    BY <1>2 DEF Tables, TablesOK, BindingOK, ImportRow
  <1>4. BindingOK'
    BY <1>1, <1>2, <1>3 DEF Tables, TablesOK, BindingOK, JobRow
  <1>5. StoriesOK'
    BY <1>3 DEF Tables, TablesOK, StoriesOK
  <1>6. ControlsOK'
    BY DEF Tables, TablesOK, ControlsOK, ControlRow
  <1> QED BY <1>2, <1>4, <1>5, <1>6 DEF Tables

\* One transaction moves an import and the job it is bound to.
LEMMA MovedTogether ==
  ASSUME Tables, NEW i \in Import, NEW s, NEW t \in Jobs!Status, NEW b \in Job,
         archiveImport[i].job = b, job' = [job EXCEPT ![b].status = t],
         archiveImport' \in [Import -> ImportRow],
         archiveImport'[i].job = b, archiveImport'[i].status = s,
         \A k \in Import \ {i} : archiveImport'[k] = archiveImport[k],
         controls' \subseteq controls,
         archiveImport[i].status \notin {"FAILED", "CANCELLED"}, s # "ABSENT",
         t \in Jobs!ExecutingStatus => job[b].status \in Jobs!ExecutingStatus,
         s \in {"FAILED", "CANCELLED"} => t \in Jobs!TerminalStatus,
         s = "CANCELLING" => t \in {"CANCELLING", "CANCELLED"}
  PROVE  Tables'
  <1>1. /\ TablesOK'
        /\ \A k \in Job : /\ job'[k].kind = job[k].kind /\ job'[k].import = job[k].import
                          /\ job'[k].status = IF k = b THEN t ELSE job[k].status
    BY DEF Tables, TablesOK, JobRow
  <1>2. \A k \in Import : archiveImport'[k].job = archiveImport[k].job
    OBVIOUS
  <1>3. b # NoJob /\ job[b].import = i /\ job[b].kind = "IMPORT"
    BY ArchiveAssumption DEF Tables, BindingOK
  <1>4. BindingOK'
    BY <1>1, <1>2, <1>3 DEF Tables, TablesOK, BindingOK, JobRow, ImportRow
  <1>5. \A k \in Import \ {i} : archiveImport[k].job # b
    BY <1>3 DEF Tables, BindingOK
  <1>6. StoriesOK'
    BY <1>1, <1>5 DEF Tables, TablesOK, StoriesOK, ImportRow
  <1>7. ControlsOK'
    <2> SUFFICES ASSUME NEW c \in controls', c.action \in {"RETRY", "RETRY_ITEM"},
                        archiveImport'[c.import].job = c.job
                 PROVE  archiveImport'[c.import].status \in {"FAILED", "CANCELLED"}
      BY DEF Tables, ControlsOK
    <2>1. c \in controls /\ c.import \in Import
      BY DEF Tables, TablesOK, ControlRow
    <2>2. archiveImport[c.import].status \in {"FAILED", "CANCELLED"}
      BY <1>2, <2>1 DEF Tables, ControlsOK
    <2> QED BY <2>1, <2>2
  <1> QED BY <1>1, <1>4, <1>6, <1>7 DEF Tables

\* A new import and its job.
LEMMA EnqueuedTables ==
  ASSUME Tables, NEW i \in Import, NEW j \in Job, EnqueueImport(i, j)
  PROVE  Tables'
  <1> DEFINE n == NewJob("IMPORT", i)
             row == [AbsentImport EXCEPT !.status = "PENDING", !.job = j]
  <1>1. n \in JobRow /\ n.status = "PENDING" /\ n.kind = "IMPORT" /\ n.import = i
    BY DEF NewJob, JobRow, Kind
  <1>2. row \in ImportRow /\ row.status = "PENDING" /\ row.job = j
    BY DEF AbsentImport, ImportRow, ImportStatus, ActiveImportStatus
  <1>3. /\ job' = [job EXCEPT ![j] = n] /\ archiveImport' = [archiveImport EXCEPT ![i] = row]
        /\ controls' = controls /\ Free(j) /\ archiveImport[i].status = "ABSENT"
    BY DEF EnqueueImport
  <1> HIDE DEF n, row
  <1>4. /\ TablesOK'
        /\ \A k \in Job : job'[k] = IF k = j THEN n ELSE job[k]
        /\ \A k \in Import : archiveImport'[k] = IF k = i THEN row ELSE archiveImport[k]
    BY <1>1, <1>2, <1>3 DEF Tables, TablesOK
  <1>5. job[j].kind = "NONE" /\ job[j].status = "ABSENT" /\ \A c \in controls : c.job # j
    BY <1>3 DEF Free, AbsentJob
  <1>6. \A k \in Import : archiveImport[k].job # NoJob => archiveImport[k].job \in Job \ {j}
    BY <1>5 DEF Tables, TablesOK, BindingOK, ImportRow
  <1>7. archiveImport[i].job = NoJob
    BY <1>3 DEF Tables, StoriesOK
  <1>8. BindingOK'
    <2>1. \A k \in Job : job'[k].kind \in {"IMPORT", "CLEAN_STAGING"} => job'[k].import \in Import
      BY <1>1, <1>4 DEF Tables, BindingOK
    <2>2. \A k \in Job : k # j /\ job[k].kind = "IMPORT" /\ job[k].status \notin Jobs!TerminalStatus =>
                           archiveImport'[job[k].import].job = k
      BY <1>4, <1>7, <2>1, ArchiveAssumption DEF Tables, BindingOK
    <2> QED BY <1>1, <1>2, <1>4, <1>5, <1>6, <2>1, <2>2 DEF Tables, BindingOK
  <1>9. StoriesOK'
    BY <1>1, <1>2, <1>4, <1>6 DEF Tables, StoriesOK
  <1>10. ControlsOK'
    BY <1>2, <1>3, <1>4, <1>5 DEF Tables, TablesOK, ControlsOK, ControlRow
  <1> QED BY <1>4, <1>8, <1>9, <1>10 DEF Tables

\* A retry leaves a job behind only if it is over: no control finds a failed or cancelled
\* import whose job still lives.
LEMMA RetriedTables ==
  ASSUME Tables, NEW c \in controls, NEW j \in Job, Retry(c, j)
  PROVE  Tables'
  <1> DEFINE i == c.import
             n == NewJob("IMPORT", i)
             row == [archiveImport[i] EXCEPT !.status = "PENDING", !.job = j, !.partial = FALSE]
  <1>1. i \in Import /\ c.job \in Job /\ c.action \in {"RETRY", "RETRY_ITEM"}
    BY DEF Tables, TablesOK, ControlRow, Retry
  <1>2. n \in JobRow /\ n.status = "PENDING" /\ n.kind = "IMPORT" /\ n.import = i
    BY <1>1 DEF NewJob, JobRow, Kind
  <1>3. row \in ImportRow /\ row.status = "PENDING" /\ row.job = j
    <2>1. archiveImport[i] \in ImportRow
      BY <1>1 DEF Tables, TablesOK
    <2>2. "PENDING" \in ImportStatus
      BY DEF ImportStatus, ActiveImportStatus
    <2> QED BY <2>1, <2>2 DEF ImportRow
  <1>4. /\ Free(j) /\ archiveImport[i].job = c.job /\ controls' \subseteq controls
        /\ c.job # j /\ job[j].kind = "NONE" /\ job[j].status = "ABSENT"
    BY <1>1 DEF Retry, Free, AbsentJob, Withdraw
  <1>5. /\ c.job # NoJob /\ job[c.job].kind = "IMPORT" /\ job[c.job].import = i
        /\ job[c.job].status \in Jobs!TerminalStatus
    BY <1>1, <1>4, ArchiveAssumption DEF Tables, BindingOK, StoriesOK, ControlsOK
  <1>6. job' = [job EXCEPT ![j] = n, ![c.job] = AbsentJob]
    BY <1>4, <1>5 DEF Retry, Tables, TablesOK
  <1>7. archiveImport' = [archiveImport EXCEPT ![i] = row]
    BY DEF Retry
  <1>8. AbsentJob \in JobRow /\ AbsentJob.kind = "NONE" /\ AbsentJob.status = "ABSENT"
    BY DEF AbsentJob, JobRow, Kind
  <1> HIDE DEF i, n, row
  <1>9. /\ TablesOK'
        /\ \A k \in Job : job'[k] = IF k = c.job THEN AbsentJob ELSE IF k = j THEN n ELSE job[k]
        /\ \A k \in Import : archiveImport'[k] = IF k = i THEN row ELSE archiveImport[k]
    BY <1>1, <1>2, <1>3, <1>4, <1>6, <1>7, <1>8 DEF Tables, TablesOK
  <1>10. \A k \in Import \ {i} : archiveImport[k].job # NoJob => archiveImport[k].job \in Job \ {j, c.job}
    BY <1>4, <1>5 DEF Tables, TablesOK, BindingOK, ImportRow
  <1>11. BindingOK'
    <2>1. \A k \in Job : job'[k].kind \in {"IMPORT", "CLEAN_STAGING"} => job'[k].import \in Import
      BY <1>1, <1>2, <1>8, <1>9 DEF Tables, BindingOK
    <2>2. \A k \in Job \ {j, c.job} : job[k].kind = "IMPORT" /\ job[k].status \notin Jobs!TerminalStatus =>
                           archiveImport'[job[k].import].job = k
      BY <1>4, <1>9, <2>1 DEF Tables, BindingOK
    <2>3. \A k \in Job : job'[k].kind = "IMPORT" /\ job'[k].status \notin Jobs!TerminalStatus =>
                           archiveImport'[job'[k].import].job = k
      BY <1>1, <1>2, <1>3, <1>8, <1>9, <2>2
    <2>4. \A k \in Import : archiveImport'[k].job # NoJob =>
            job'[archiveImport'[k].job].kind = "IMPORT" /\ job'[archiveImport'[k].job].import = k
      BY <1>2, <1>3, <1>4, <1>9, <1>10 DEF Tables, BindingOK
    <2>5. \A k \in Job : job'[k].status \in Jobs!ExecutingStatus => job[k].status \in Jobs!ExecutingStatus
      BY <1>2, <1>8, <1>9
    <2> QED BY <2>1, <2>3, <2>4, <2>5 DEF Tables, BindingOK
  <1>12. StoriesOK'
    BY <1>2, <1>3, <1>9, <1>10 DEF Tables, StoriesOK
  <1>13. ControlsOK'
    BY <1>1, <1>3, <1>4, <1>9 DEF Tables, TablesOK, ControlsOK, ControlRow, Free
  <1> QED BY <1>9, <1>11, <1>12, <1>13 DEF Tables

\* A completed import is bound to nothing, and its job is gone.
LEMMA PublishedTables ==
  ASSUME Tables, ExecOK, Publish
  PROVE  Tables'
  <1> DEFINE i == Its
             row == [archiveImport[i] EXCEPT !.status = "COMPLETED", !.job = NoJob]
  <1>1. /\ Ours \in Job /\ job[Ours].kind = "IMPORT" /\ i \in Import
        /\ archiveImport[i].job = Ours /\ archiveImport[i].status = "RUNNING"
    BY DEF Publish, Executes, Unhindered, ExecOK, Tables, BindingOK, Ours, Its
  <1>2. row \in ImportRow /\ row.status = "COMPLETED" /\ row.job = NoJob
    BY <1>1 DEF Tables, TablesOK, ImportRow, ImportStatus
  <1>3. /\ job' = [job EXCEPT ![Ours] = AbsentJob] /\ controls' = controls
        /\ archiveImport' = [archiveImport EXCEPT ![i] = row]
    BY <1>1 DEF Publish, Tables, TablesOK, ImportRow
  <1>4. AbsentJob \in JobRow /\ AbsentJob.kind = "NONE" /\ AbsentJob.status = "ABSENT"
    BY DEF AbsentJob, JobRow, Kind
  <1> HIDE DEF i, row
  <1>5. /\ TablesOK'
        /\ \A k \in Job : job'[k] = IF k = Ours THEN AbsentJob ELSE job[k]
        /\ \A k \in Import : archiveImport'[k] = IF k = i THEN row ELSE archiveImport[k]
    BY <1>1, <1>2, <1>3, <1>4 DEF Tables, TablesOK
  <1>6. Ours # NoJob /\ job[Ours].import = i
    BY <1>1, ArchiveAssumption DEF Tables, BindingOK
  <1>7. \A k \in Import \ {i} : archiveImport[k].job # NoJob => archiveImport[k].job \in Job \ {Ours}
    BY <1>6 DEF Tables, TablesOK, BindingOK, ImportRow
  <1>8. BindingOK'
    <2>1. \A k \in Job : job'[k].kind \in {"IMPORT", "CLEAN_STAGING"} =>
                           k # Ours /\ job'[k] = job[k] /\ job[k].import \in Import
      BY <1>4, <1>5 DEF Tables, BindingOK
    <2>2. \A k \in Job \ {Ours} : job[k].kind = "IMPORT" /\ job[k].status \notin Jobs!TerminalStatus =>
                           archiveImport'[job[k].import].job = k
      BY <1>1, <1>5, <2>1 DEF Tables, BindingOK
    <2>3. \A k \in Import : archiveImport'[k].job # NoJob =>
            job'[archiveImport'[k].job].kind = "IMPORT" /\ job'[archiveImport'[k].job].import = k
      BY <1>2, <1>5, <1>7 DEF Tables, BindingOK
    <2> QED BY <1>4, <1>5, <2>1, <2>2, <2>3 DEF Tables, BindingOK
  <1>9. StoriesOK'
    BY <1>2, <1>5, <1>7 DEF Tables, StoriesOK
  <1>10. ControlsOK'
    BY <1>2, <1>3, <1>5, ArchiveAssumption DEF Tables, TablesOK, ControlsOK, ControlRow
  <1> QED BY <1>5, <1>8, <1>9, <1>10 DEF Tables

\* The jobs that were still to come for a purged artwork are void.
LEMMA PurgedTables ==
  ASSUME Tables, ExecOK, FinalizePurge
  PROVE  Tables'
  <1>1. Ours \in Job /\ job[Ours].kind = "PURGE_ARCHIVE"
    BY DEF FinalizePurge, Executes, ExecOK, Ours
  <1>2. AbsentJob \in JobRow /\ AbsentJob.kind = "NONE" /\ AbsentJob.status = "ABSENT"
    BY DEF AbsentJob, JobRow, Kind
  <1>3. /\ TablesOK'
        /\ \A k \in Job : job[k].kind \in {"IMPORT", "CLEAN_STAGING"} => job'[k] = job[k]
        /\ \A k \in Job : job'[k].kind \in {"IMPORT", "CLEAN_STAGING"} => job'[k] = job[k]
        /\ \A k \in Job : job'[k].status \in Jobs!ExecutingStatus => job[k].status \in Jobs!ExecutingStatus
    <2>1. \A k \in Job : LET v == [job[k] EXCEPT !.kind = "VOID"]
                         IN v \in JobRow /\ v.kind = "VOID" /\ v.status = job[k].status
      BY DEF Tables, TablesOK, JobRow, Kind
    <2>2. /\ job' = [k \in Job |-> CASE k = Ours -> AbsentJob
                                     [] job[k].kind \in ArtworkKind /\ k # Ours -> [job[k] EXCEPT !.kind = "VOID"]
                                     [] OTHER -> job[k]]
          /\ archiveImport' = archiveImport /\ controls' = controls
      BY DEF FinalizePurge
    <2>3. \A k \in Job : \/ k = Ours /\ job'[k] = AbsentJob
                         \/ job[k].kind \in ArtworkKind /\ job'[k] = [job[k] EXCEPT !.kind = "VOID"]
                         \/ job'[k] = job[k]
      BY <2>2
    <2>4. job' \in [Job -> JobRow]
      BY <1>2, <2>1, <2>2 DEF Tables, TablesOK
    <2> QED BY <1>1, <1>2, <2>1, <2>2, <2>3, <2>4 DEF Tables, TablesOK, ArtworkKind
  <1>4. archiveImport' = archiveImport /\ controls' = controls
    BY DEF FinalizePurge
  <1>5. \A i \in Import : archiveImport[i].job # NoJob =>
          archiveImport[i].job \in Job /\ job'[archiveImport[i].job] = job[archiveImport[i].job]
    BY <1>3 DEF Tables, TablesOK, BindingOK, ImportRow
  <1>6. BindingOK'
    BY <1>3, <1>4, <1>5 DEF Tables, BindingOK
  <1>7. StoriesOK'
    BY <1>4, <1>5 DEF Tables, StoriesOK
  <1>8. ControlsOK'
    BY <1>4 DEF Tables, ControlsOK
  <1> QED BY <1>3, <1>6, <1>7, <1>8 DEF Tables

\* A control remembers what its first read has found.
LEMMA ReadTables ==
  ASSUME Tables, NEW action \in Action, NEW i \in Import, ReadForControl(action, i)
  PROVE  Tables'
  <1> DEFINE c == [action |-> action, import |-> i, seen |-> archiveImport[i].status,
                   job |-> archiveImport[i].job]
  <1>1. c \in ControlRow
    BY DEF Tables, TablesOK, ImportRow, ControlRow, ReadForControl
  <1>2. job' = job /\ archiveImport' = archiveImport /\ controls' = controls \union {c} /\ Offered(action, i)
    BY DEF ReadForControl
  <1>3. /\ c.action = "PAUSE" => c.seen \in {"PENDING", "RUNNING"}
        /\ c.action = "RESUME" => c.seen \in {"RUNNING", "PAUSED"}
        /\ c.action = "CANCEL" => c.seen \in {"PENDING", "RUNNING", "PAUSED"}
        /\ c.action \in {"RETRY", "RETRY_ITEM"} => archiveImport[c.import].status \in {"FAILED", "CANCELLED"}
    BY <1>2 DEF Offered, Action
  <1> HIDE DEF c
  <1>4. TablesOK' /\ ControlsOK'
    BY <1>1, <1>2, <1>3 DEF Tables, TablesOK, ControlsOK
  <1>5. BindingOK' /\ StoriesOK'
    BY <1>2 DEF Tables, BindingOK, StoriesOK
  <1> QED BY <1>4, <1>5 DEF Tables

LEMMA MovedOrEnded ==
  ASSUME Tables, NEW j \in Job, NEW s \in Jobs!Status, job' = Moved(j, s),
         archiveImport' = archiveImport, controls' = controls,
         job[j].status \notin Jobs!TerminalStatus, s \notin Jobs!ExecutingStatus,
         job[j].status = "CANCELLING" => s = "CANCELLED"
  PROVE  Tables'
  <1>1. CASE s \in Jobs!TerminalStatus /\ job[j].kind # "IMPORT"
    <2>1. job' = [job EXCEPT ![j] = AbsentJob]
      BY <1>1 DEF Moved, Tables, TablesOK
    <2> QED BY <1>1, <2>1, EndedJob DEF Tables, TablesOK
  <1>2. CASE ~(s \in Jobs!TerminalStatus /\ job[j].kind # "IMPORT")
    <2>1. job' = [job EXCEPT ![j].status = s]
      BY <1>2 DEF Moved, Tables, TablesOK
    <2> QED BY <2>1, MovedJob
  <1> QED BY <1>1, <1>2

\* An execution is bound to its import until it is settled.
LEMMA Bound ==
  ASSUME Tables, ExecOK, exec # NoExec, job[Ours].kind = "IMPORT"
  PROVE  Ours \in Job /\ Its \in Import /\ archiveImport[Its].job = Ours
  BY DEF Tables, BindingOK, ExecOK, Ours, Its

\* The dispatcher settles the job and leaves its import alone.
LEMMA AloneTables ==
  ASSUME Tables, ExecOK, exec # NoExec, SettleAlone
  PROVE  Tables'
  <1>1. Ours \in Job /\ job[Ours].status \in Jobs!ExecutingStatus
    BY DEF ExecOK, Ours
  <1>2. PICK s \in {"CANCELLED", "PAUSED", "PENDING", "FAILED"} :
          job' = Moved(Ours, s) /\ (job[Ours].status = "CANCELLING" => s = "CANCELLED")
    <2>1. CASE job[Ours].status = "CANCELLING"
      BY <2>1 DEF SettleAlone
    <2>2. CASE job[Ours].status = "PAUSING"
      BY <2>2 DEF SettleAlone
    <2>3. CASE job[Ours].status = "RUNNING"
      BY <2>3 DEF SettleAlone
    <2> QED BY <1>1, <2>1, <2>2, <2>3
  <1>3. archiveImport' = archiveImport /\ controls' = controls
    BY DEF SettleAlone
  <1> HIDE DEF Ours
  <1> QED BY <1>1, <1>2, <1>3, MovedOrEnded

\* One ending of an execution.
LEMMA SettledTables ==
  ASSUME Tables, ExecOK, exec # NoExec, job[Ours].kind = "IMPORT",
         NEW from, NEW s \in ImportStatus, NEW t \in Jobs!Status, NEW partial \in BOOLEAN,
         Settle(from, s, t, partial), "FAILED" \notin from, "CANCELLED" \notin from,
         s # "ABSENT", s # "CANCELLING", t \notin Jobs!ExecutingStatus,
         s \in {"FAILED", "CANCELLED"} => t \in Jobs!TerminalStatus
  PROVE  Tables'
  <1>1. Ours \in Job /\ Its \in Import /\ archiveImport[Its].job = Ours
    BY Bound
  <1>2. job' = [job EXCEPT ![Ours].status = t] /\ controls' = controls
    BY <1>1 DEF Settle, Moved, Tables, TablesOK
  <1>3. archiveImport' = [archiveImport EXCEPT ![Its] = [archiveImport[Its] EXCEPT !.status = s, !.partial = partial]]
    BY <1>1 DEF Settle, Tables, TablesOK
  <1>4. archiveImport[Its] \in ImportRow
    BY <1>1 DEF Tables, TablesOK
  <1>5. LET row == [archiveImport[Its] EXCEPT !.status = s, !.partial = partial]
        IN row \in ImportRow /\ row.status = s /\ row.job = Ours
    BY <1>1, <1>4 DEF ImportRow
  <1>6. /\ archiveImport' \in [Import -> ImportRow]
        /\ archiveImport'[Its].job = Ours /\ archiveImport'[Its].status = s
        /\ \A k \in Import \ {Its} : archiveImport'[k] = archiveImport[k]
    BY <1>1, <1>3, <1>5 DEF Tables, TablesOK
  <1>7. archiveImport[Its].status \notin {"FAILED", "CANCELLED"}
    BY DEF Settle
  <1> HIDE DEF Its, Ours
  <1> QED BY <1>1, <1>2, <1>6, <1>7, MovedTogether

LEMMA FinalizedTables ==
  ASSUME Tables, ExecOK, FinalizeControl \/ FinalizeFailure \/ ReleaseForCleanup
  PROVE  Tables'
  <1>1. exec # NoExec /\ job[Ours].kind = "IMPORT"
    BY DEF FinalizeControl, FinalizeFailure, ReleaseForCleanup, Ending, Executes
  <1>2. \/ Settle(Unfinished, "CANCELLED", "CANCELLED", FALSE)
        \/ Settle({"PENDING", "RUNNING"}, "PAUSED", "PAUSED", FALSE)
        \/ Settle(Unfinished, "FAILED", "FAILED", TRUE)
        \/ Settle(Unfinished, "FAILED", "FAILED", FALSE)
        \/ Settle({"RUNNING"}, "PAUSED", "PAUSED", FALSE)
        \/ Settle({"PENDING", "RUNNING"}, "PENDING", "PENDING", FALSE)
        \/ Settle({"PENDING"}, "PENDING", "PENDING", FALSE)
    BY DEF FinalizeControl, FinalizeFailure, ReleaseForCleanup
  <1>3. \A s \in {"CANCELLED", "PAUSED", "FAILED", "PENDING"} : s \in ImportStatus
    BY DEF ImportStatus, ActiveImportStatus
  <1>4. "FAILED" \notin Unfinished /\ "CANCELLED" \notin Unfinished
    BY DEF Unfinished
  <1>12. /\ "PAUSED" \in Jobs!Status /\ "PAUSED" \notin Jobs!ExecutingStatus
         /\ "PAUSED" # "ABSENT" /\ "PAUSED" # "CANCELLING" /\ "PAUSED" \notin {"FAILED", "CANCELLED"}
    OBVIOUS
  <1>5. CASE Settle(Unfinished, "CANCELLED", "CANCELLED", FALSE)
    BY <1>1, <1>3, <1>4, <1>5, SettledTables
  <1>6. CASE Settle({"PENDING", "RUNNING"}, "PAUSED", "PAUSED", FALSE)
    BY <1>1, <1>3, <1>6, <1>12, SettledTables
  <1>7. CASE Settle(Unfinished, "FAILED", "FAILED", TRUE)
    BY <1>1, <1>3, <1>4, <1>7, SettledTables
  <1>8. CASE Settle(Unfinished, "FAILED", "FAILED", FALSE)
    BY <1>1, <1>3, <1>4, <1>8, SettledTables
  <1>9. CASE Settle({"RUNNING"}, "PAUSED", "PAUSED", FALSE)
    BY <1>1, <1>3, <1>9, <1>12, SettledTables
  <1>10. CASE Settle({"PENDING", "RUNNING"}, "PENDING", "PENDING", FALSE)
    BY <1>1, <1>3, <1>10, SettledTables
  <1>11. CASE Settle({"PENDING"}, "PENDING", "PENDING", FALSE)
    BY <1>1, <1>3, <1>11, SettledTables
  <1> QED BY <1>2, <1>5, <1>6, <1>7, <1>8, <1>9, <1>10, <1>11

LEMMA ControlledTables ==
  ASSUME Tables, NEW c \in controls, Pause(c) \/ Resume(c) \/ Cancel(c)
  PROVE  Tables'
  <1>1. /\ c.import \in Import /\ c.job \in Job
        /\ archiveImport[c.import].job = c.job /\ archiveImport[c.import].status = c.seen
        /\ c.seen \in {"PENDING", "RUNNING", "PAUSED"}
        /\ controls' \subseteq controls
    BY DEF Pause, Resume, Cancel, SameAsSeen, Withdraw, Tables, TablesOK, ControlsOK, ControlRow
  <1>2. PICK s \in ImportStatus, t \in Jobs!Status :
          /\ job' = [job EXCEPT ![c.job].status = t]
          /\ archiveImport' = [archiveImport EXCEPT ![c.import].status = s]
          /\ s \notin {"ABSENT", "FAILED"}
          /\ t \in Jobs!ExecutingStatus => job[c.job].status \in Jobs!ExecutingStatus
          /\ s = "CANCELLED" => t = "CANCELLED"
          /\ s = "CANCELLING" => t = "CANCELLING"
    <2>1. \A s \in {"PENDING", "RUNNING", "PAUSED", "CANCELLING", "CANCELLED"} : s \in ImportStatus
      BY DEF ImportStatus, ActiveImportStatus
    <2>2. \A t \in {"PENDING", "PAUSED", "PAUSING", "CANCELLING", "CANCELLED"} : t \in Jobs!Status
      OBVIOUS
    <2>3. CASE Pause(c) /\ Executed(c)
      BY <2>1, <2>2, <2>3 DEF Pause, Executed
    <2>4. CASE Pause(c) /\ ~Executed(c)
      BY <2>1, <2>2, <2>4 DEF Pause
    <2>5. CASE Resume(c)
      BY <2>1, <2>2, <2>5 DEF Resume
    <2>6. CASE Cancel(c) /\ Executed(c)
      BY <2>1, <2>2, <2>6 DEF Cancel, Executed
    <2>7. CASE Cancel(c) /\ ~Executed(c)
      BY <2>1, <2>2, <2>7 DEF Cancel
    <2> QED BY <2>3, <2>4, <2>5, <2>6, <2>7
  <1>3. LET row == [archiveImport[c.import] EXCEPT !.status = s]
        IN row \in ImportRow /\ row.status = s /\ row.job = c.job
    BY <1>1 DEF Tables, TablesOK, ImportRow
  <1>4. /\ archiveImport' \in [Import -> ImportRow]
        /\ archiveImport'[c.import].job = c.job /\ archiveImport'[c.import].status = s
        /\ \A k \in Import \ {c.import} : archiveImport'[k] = archiveImport[k]
    BY <1>1, <1>2, <1>3 DEF Tables, TablesOK
  <1> QED BY <1>1, <1>2, <1>4, MovedTogether

LEMMA RequestTables ==
  ASSUME Tables, NEW j \in Job, Request(j)
  PROVE  Tables'
  <1>1. CASE \E i \in Import : EnqueueImport(i, j)
    BY <1>1, EnqueuedTables
  <1>2. CASE \E i \in Import : RequestCleanup(i, j)
    <2>1. PICK i \in Import : RequestCleanup(i, j)
      BY <1>2
    <2> DEFINE n == NewJob("CLEAN_STAGING", i)
    <2>2. n \in JobRow /\ n.status = "PENDING" /\ n.kind = "CLEAN_STAGING" /\ n.import = i
      BY DEF NewJob, JobRow, Kind, MaintenanceKind
    <2>3. /\ Free(j) /\ job' = [job EXCEPT ![j] = n] /\ controls' = controls
          /\ archiveImport' = [archiveImport EXCEPT ![i].cleanup = TRUE]
          /\ archiveImport[i].status # "ABSENT"
      BY <2>1 DEF RequestCleanup, CleanableStatus
    <2>4. /\ archiveImport' \in [Import -> ImportRow]
          /\ \A k \in Import : /\ archiveImport'[k].job = archiveImport[k].job
                               /\ archiveImport'[k].status = archiveImport[k].status
                               /\ k # i => archiveImport'[k] = archiveImport[k]
      BY <2>3 DEF Tables, TablesOK, ImportRow
    <2> HIDE DEF n
    <2> QED BY <2>2, <2>3, <2>4, AddedJob
  <1>3. CASE RequestTrash(j) \/ RequestRestore(j) \/ RequestPurge(j) \/ RequestReconcile(j)
    <2>1. PICK kind \in {"TRASH_ARCHIVE", "RESTORE_ARCHIVE", "PURGE_ARCHIVE", "RECONCILE"} :
            job' = [job EXCEPT ![j] = NewJob(kind, NoImport)]
      BY <1>3 DEF RequestTrash, RequestRestore, RequestPurge, RequestReconcile
    <2>2. Free(j) /\ archiveImport' = archiveImport /\ controls' = controls
      BY <1>3 DEF RequestTrash, RequestRestore, RequestPurge, RequestReconcile
    <2> DEFINE n == NewJob(kind, NoImport)
    <2>3. n \in JobRow /\ n.status = "PENDING" /\ n.kind = kind
      BY DEF NewJob, JobRow, Kind, MaintenanceKind
    <2> HIDE DEF n
    <2>4. job' = [job EXCEPT ![j] = n]
      BY <2>1 DEF n
    <2> QED BY <2>2, <2>3, <2>4, AddedJob DEF Tables, TablesOK
  <1> QED BY <1>1, <1>2, <1>3 DEF Request

LEMMA QueueTables ==
  ASSUME Tables, NEW j \in Job, Claim(j) \/ Recover(j)
  PROVE  Tables'
  <1>1. CASE Claim(j)
    <2>1. /\ job' = [job EXCEPT ![j].status = "RUNNING"] /\ archiveImport' = archiveImport
          /\ controls' = controls /\ job[j].status \in Jobs!WaitingStatus
          /\ \A k \in Job : job[k].status \notin Jobs!ExecutingStatus
      BY <1>1 DEF Claim
    <2> QED BY <2>1, MovedJob
  <1>2. CASE Recover(j)
    <2>1. PICK s \in RecoveredStatus(job[j].status) : job' = Moved(j, s)
      BY <1>2 DEF Recover
    <2>2. /\ s \in {"CANCELLED", "PAUSED", "RETRY_WAIT", "FAILED"}
          /\ job[j].status = "CANCELLING" => s = "CANCELLED"
          /\ job[j].status \in Jobs!ExecutingStatus
          /\ archiveImport' = archiveImport /\ controls' = controls
      BY <1>2 DEF Recover, RecoveredStatus
    <2> QED BY <2>1, <2>2, MovedOrEnded
  <1> QED BY <1>1, <1>2

\* A command of the job list either stops a job that does not execute or asks one that
\* does to stop.
LEMMA CommandTables ==
  ASSUME Tables, NEW j \in Job, NEW command, CommandJob(j, command)
  PROVE  Tables'
  <1>1. archiveImport' = archiveImport /\ controls' = controls
    BY DEF CommandJob
  <1>2. CASE /\ job[j].status \in Jobs!WaitingStatus \union {"PAUSED"}
             /\ \E s \in {"PAUSED", "PENDING", "CANCELLED"} : job' = Moved(j, s)
    <2>1. PICK s \in {"PAUSED", "PENDING", "CANCELLED"} : job' = Moved(j, s)
      BY <1>2
    <2> QED BY <1>1, <1>2, <2>1, MovedOrEnded
  <1>3. CASE /\ job[j].status \in {"RUNNING", "PAUSING"}
             /\ \E s \in {"PAUSING", "CANCELLING"} : job' = Moved(j, s)
    <2>1. PICK s \in {"PAUSING", "CANCELLING"} : job' = Moved(j, s)
      BY <1>3
    <2>2. job' = [job EXCEPT ![j].status = s]
      BY <2>1 DEF Moved, Tables, TablesOK
    <2>3. \A k \in Job \ {j} : job[k].status \notin Jobs!ExecutingStatus
      BY <1>3 DEF Tables, BindingOK
    <2> QED BY <1>1, <1>3, <2>1, <2>2, <2>3, MovedJob
  <1> QED BY <1>2, <1>3 DEF CommandJob

\* Maintenance that changes job rows: the execution's own, or a child's.
LEMMA MaintainedTables ==
  ASSUME Tables, ExecOK, ReconcileOK,
         \/ GiveUpMaintenance \/ FinalizeCleanup \/ FinalizePurge \/ FinishReconcile
         \/ \E kind \in {"TRASH_ARCHIVE", "RESTORE_ARCHIVE"} : FinalizeMove(kind)
         \/ \E j \in Job : EnqueueChild(j)
  PROVE  Tables'
  <1>1. CASE GiveUpMaintenance
    BY <1>1, AloneTables DEF GiveUpMaintenance, Maintaining
  <1>2. CASE FinalizeCleanup \/ FinishReconcile \/ \E kind \in {"TRASH_ARCHIVE", "RESTORE_ARCHIVE"} : FinalizeMove(kind)
    <2>1. /\ Ours \in Job /\ job[Ours].kind # "IMPORT" /\ controls' = controls
          /\ job' = [job EXCEPT ![Ours] = AbsentJob]
      BY <1>2 DEF FinalizeCleanup, FinishReconcile, FinalizeMove, Completed, Executes, ExecOK, Ours
    <2>2. /\ archiveImport' \in [Import -> ImportRow]
          /\ \A i \in Import : /\ archiveImport'[i].job = archiveImport[i].job
                               /\ archiveImport'[i].status = archiveImport[i].status
                               /\ archiveImport[i].status = "ABSENT" => archiveImport'[i] = archiveImport[i]
      <3>1. CASE FinalizeCleanup
        <4>1. /\ archiveImport' = [archiveImport EXCEPT ![Its].cleanup = FALSE]
              /\ archiveImport[Its].status \in CleanableStatus
          BY <3>1 DEF FinalizeCleanup
        <4> HIDE DEF Its
        <4> QED BY <4>1 DEF CleanableStatus, Tables, TablesOK, ImportRow
      <3>2. CASE ~FinalizeCleanup
        <4>1. archiveImport' = archiveImport
          BY <1>2, <3>2 DEF FinishReconcile, FinalizeMove
        <4> QED BY <4>1 DEF Tables, TablesOK
      <3> QED BY <3>1, <3>2
    <2> QED BY <2>1, <2>2, EndedJob
  <1>3. CASE FinalizePurge
    BY <1>3, PurgedTables
  <1>4. CASE \E j \in Job : EnqueueChild(j)
    <2>1. PICK j \in Job : EnqueueChild(j)
      BY <1>4
    <2>2. PICK n \in exec.todo : job' = [job EXCEPT ![j] = n]
      BY <2>1 DEF EnqueueChild
    <2>3. n \in Children /\ Free(j) /\ archiveImport' = archiveImport /\ controls' = controls
      BY <2>1 DEF EnqueueChild, ReconcileOK, Doing, Executes, Ours
    <2>4. /\ n \in JobRow /\ n.status = "PENDING" /\ n.kind # "IMPORT"
          /\ n.kind = "CLEAN_STAGING" => n.import \in Import
      BY <2>3 DEF Children, NewJob, JobRow, Kind, MaintenanceKind, ArtworkKind
    <2> QED BY <2>2, <2>3, <2>4, AddedJob DEF Tables, TablesOK
  <1> QED BY <1>1, <1>2, <1>3, <1>4

\* The executor's steps between its transactions leave the tables alone; starting sets an
\* import RUNNING and reconciliation renews a cleanup request, neither touches a job.
LEMMA QuietSteps ==
  ASSUME Tables, ExecOK,
         \/ Lost \/ Expire \/ \E c \in controls : Refused(c)
         \/ Start \/ YieldToCleanup \/ EndRounds \/ Prepare \/ Fail
         \/ \E m \in Media : Store(m) \/ Complete(m) \/ GiveUp(m)
         \/ BeginCleanup \/ RemovePart \/ RemoveRest \/ BeginPurge \/ BeginReconcile \/ PrepareArtwork
         \/ \E kind \in {"TRASH_ARCHIVE", "RESTORE_ARCHIVE"} :
              BeginMove(kind) \/ \E i \in Import : MoveDirectory(kind, i)
         \/ \E i \in Import, place \in {"trash", "archive"} : RemovePath(i, place)
         \/ \E i \in Import : PrepareCleanup(i)
  PROVE  Tables' /\ job' = job
  <1>1. CASE Start
    <2>1. /\ job' = job /\ controls' = controls /\ Its \in Import
          /\ archiveImport[Its].status \in {"PENDING", "RUNNING"}
          /\ archiveImport' = [archiveImport EXCEPT ![Its].status = "RUNNING", ![Its].partial = FALSE]
      BY <1>1, Bound DEF Start, Executes
    <2> DEFINE row == [archiveImport[Its] EXCEPT !.status = "RUNNING", !.partial = FALSE]
    <2>2. row \in ImportRow /\ row.status = "RUNNING" /\ row.job = archiveImport[Its].job
      BY <2>1 DEF Tables, TablesOK, ImportRow, ImportStatus, ActiveImportStatus
    <2>3. archiveImport' = [archiveImport EXCEPT ![Its] = row]
      BY <2>1 DEF Tables, TablesOK
    <2> HIDE DEF row, Its
    <2>4. /\ archiveImport' \in [Import -> ImportRow]
          /\ \A k \in Import : archiveImport'[k] = IF k = Its THEN row ELSE archiveImport[k]
      BY <2>1, <2>2, <2>3 DEF Tables, TablesOK
    <2> QED BY <2>1, <2>2, <2>4, QuietTables
  <1>2. CASE \E i \in Import : PrepareCleanup(i)
    <2>1. PICK i \in Import : PrepareCleanup(i)
      BY <1>2
    <2>2. /\ job' = job /\ controls' = controls /\ archiveImport[i].status # "ABSENT"
          /\ archiveImport' = [archiveImport EXCEPT ![i].cleanup = TRUE]
      BY <2>1 DEF PrepareCleanup, CleanableStatus
    <2>3. /\ archiveImport' \in [Import -> ImportRow]
          /\ \A k \in Import : /\ archiveImport'[k].job = archiveImport[k].job
                               /\ archiveImport'[k].status = archiveImport[k].status
                               /\ k # i => archiveImport'[k] = archiveImport[k]
      BY <2>2 DEF Tables, TablesOK, ImportRow
    <2> QED BY <2>2, <2>3, QuietTables
  <1>3. CASE ~Start /\ ~\E i \in Import : PrepareCleanup(i)
    <2>1. job' = job /\ archiveImport' = archiveImport /\ controls' \subseteq controls
      BY <1>3 DEF Lost, Expire, Refused, Withdraw, YieldToCleanup, EndRounds, Prepare, Fail,
         Store, Complete, GiveUp, BeginCleanup, RemovePart, RemoveRest, BeginPurge, BeginReconcile,
         PrepareArtwork, BeginMove, MoveDirectory, RemovePath
    <2> QED BY <2>1, QuietTables DEF Tables, TablesOK
  <1> QED BY <1>1, <1>2, <1>3

LEMMA NextTables ==
  ASSUME Tables, ExecOK, ReconcileOK, [Next]_vars
  PROVE  Tables'
  <1>1. CASE \/ \E j \in Job : Request(j) \/ Claim(j) \/ Recover(j)
             \/ \E j \in Job, command \in Action : CommandJob(j, command)
    BY <1>1, RequestTables, QueueTables, CommandTables
  <1>2. CASE Lost \/ Expire
    BY <1>2, QuietSteps
  <1>3. CASE \E action \in Action, i \in Import : ReadForControl(action, i)
    BY <1>3, ReadTables
  <1>4. CASE \E c \in controls : Control(c)
    <2>1. PICK c \in controls : Control(c)
      BY <1>4
    <2>2. CASE Refused(c)
      BY <2>2, QuietSteps
    <2>3. CASE Pause(c) \/ Resume(c) \/ Cancel(c)
      BY <2>3, ControlledTables
    <2>4. CASE \E j \in Job : Retry(c, j)
      BY <2>4, RetriedTables
    <2> QED BY <2>1, <2>2, <2>3, <2>4 DEF Control
  <1>5. CASE ExecuteImport
    <2>1. CASE Finalize
      BY <2>1, FinalizedTables, PublishedTables DEF Finalize
    <2>2. CASE SettleWithoutImport
      BY <2>2, AloneTables DEF SettleWithoutImport, Executes
    <2>3. CASE ~Finalize /\ ~SettleWithoutImport
      BY <1>5, <2>3, QuietSteps DEF ExecuteImport
    <2> QED BY <2>1, <2>2, <2>3
  <1>6. CASE ExecuteMaintenance
    BY <1>6, QuietSteps, MaintainedTables DEF ExecuteMaintenance
  <1>7. CASE UNCHANGED vars
    BY <1>7 DEF vars, Tables, TablesOK, BindingOK, StoriesOK, ControlsOK
  <1> QED BY <1>1, <1>2, <1>3, <1>4, <1>5, <1>6, <1>7 DEF Next

-----------------------------------------------------------------------------
(* The steps beside the executor keep what its work relies on              *)

\* The import is bound to a job that executes.
Held(i) == archiveImport[i].job # NoJob /\ job[archiveImport[i].job].status \in Jobs!ExecutingStatus

\* What the steps beside the executor leave of an import that something works on.
RowKept(i) ==
  /\ (archiveImport'[i].status = "COMPLETED") <=> (archiveImport[i].status = "COMPLETED")
  /\ archiveImport[i].cleanup => archiveImport'[i].cleanup
  /\ Held(i) /\ archiveImport[i].status \in {"RUNNING", "CANCELLING"} =>
       /\ archiveImport'[i].status \in {"RUNNING", "CANCELLING"}
       /\ archiveImport'[i].cleanup = archiveImport[i].cleanup
  /\ ~Held(i) /\ archiveImport[i].status \in CleanableStatus => archiveImport'[i].status \in CleanableStatus

ItemsKept ==
  /\ item' \in [Import -> [Media -> {"PENDING", "COMPLETED", "FAILED"}]]
  /\ \A i \in Import, m \in Media : item'[i][m] = "COMPLETED" => item[i][m] = "COMPLETED"

JobKept(j) ==
  /\ job'[j].kind = job[j].kind /\ job'[j].import = job[j].import
  /\ job'[j].status \in Jobs!ExecutingStatus

ArtworkKept ==
  /\ artwork' \in ArtworkRow
  /\ artwork'.revisions = artwork.revisions
  /\ artwork.expired => artwork'.expired
  /\ artwork'.state = "NONE" => artwork.state = "NONE"
  /\ artwork.state \in {"TRASHING", "RESTORING"} => artwork'.state = artwork.state
  /\ artwork.state = "TRASHED" /\ artwork.expired => artwork'.state = "TRASHED"

LEMMA ControlKeeps ==
  ASSUME Tables, DataOK, NEW c \in controls, Control(c)
  PROVE  /\ \A i \in Import : RowKept(i)
         /\ \A j \in Job : job[j].status \in Jobs!ExecutingStatus => JobKept(j)
         /\ ItemsKept
  <1>1. CASE Refused(c)
    BY <1>1 DEF Refused, RowKept, JobKept, ItemsKept, DataOK
  <1>2. CASE Pause(c) \/ Resume(c) \/ Cancel(c)
    <2>1. /\ c.import \in Import /\ c.job \in Job
          /\ archiveImport[c.import].job = c.job /\ archiveImport[c.import].status = c.seen
          /\ c.seen \in {"PENDING", "RUNNING", "PAUSED"}
      BY <1>2 DEF Pause, Resume, Cancel, SameAsSeen, Tables, TablesOK, ControlsOK, ControlRow
    <2>2. c.job # NoJob
      BY <2>1, ArchiveAssumption
    <2>3. ItemsKept
      <3>1. CASE Resume(c)
        BY <2>1, <3>1 DEF Resume, ResetItems, ItemsKept, DataOK
      <3>2. CASE Pause(c) \/ Cancel(c)
        BY <3>2 DEF Pause, Cancel, ItemsKept, DataOK
      <3> QED BY <1>2, <3>1, <3>2
    <2>4. ASSUME NEW i \in Import PROVE RowKept(i)
      <3>1. i # c.import => archiveImport'[i] = archiveImport[i]
        BY <1>2, <2>1 DEF Pause, Resume, Cancel, Tables, TablesOK
      <3>2. CASE i = c.import
        <4>1. Held(i) <=> Executed(c) \/ job[c.job].status = "CANCELLING"
          BY <2>1, <2>2, <3>2 DEF Held, Executed
        <4>2. archiveImport[i] \in ImportRow
          BY DEF Tables, TablesOK
        <4>3. CASE Pause(c)
          BY <2>1, <3>2, <4>1, <4>2, <4>3 DEF Pause, RowKept, Executed, CleanableStatus, Tables, TablesOK, ImportRow
        <4>4. CASE Resume(c)
          BY <2>1, <3>2, <4>1, <4>2, <4>4 DEF Resume, RowKept, Executed, CleanableStatus, Tables, TablesOK, ImportRow
        <4>5. CASE Cancel(c)
          BY <2>1, <3>2, <4>1, <4>2, <4>5 DEF Cancel, RowKept, Executed, CleanableStatus, Tables, TablesOK, ImportRow
        <4> QED BY <1>2, <4>3, <4>4, <4>5
      <3> QED BY <3>1, <3>2 DEF RowKept
    <2>5. \A j \in Job : job[j].status \in Jobs!ExecutingStatus => JobKept(j)
      BY <1>2, <2>1 DEF Pause, Resume, Cancel, Executed, JobKept, Tables, TablesOK, JobRow
    <2> QED BY <2>3, <2>4, <2>5
  <1>3. CASE \E j \in Job : Retry(c, j)
    <2>1. PICK j \in Job : Retry(c, j)
      BY <1>3
    <2>2. /\ c.import \in Import /\ c.job \in Job /\ archiveImport[c.import].job = c.job /\ c.job # NoJob
          /\ archiveImport[c.import].status \in {"FAILED", "CANCELLED"}
          /\ job[c.job].status \in Jobs!TerminalStatus
      BY <2>1, ArchiveAssumption DEF Retry, Tables, TablesOK, StoriesOK, ControlsOK, ControlRow
    <2>3. ItemsKept
      <3>1. PICK ms \in SUBSET Media : item' = ResetItems(c.import, ms)
        BY <2>1 DEF Retry
      <3> QED BY <2>2, <3>1 DEF ResetItems, ItemsKept, DataOK
    <2>4. ASSUME NEW i \in Import PROVE RowKept(i)
      <3>1. i # c.import => archiveImport'[i] = archiveImport[i]
        BY <2>1, <2>2 DEF Retry, Tables, TablesOK
      <3>2. CASE i = c.import
        <4>1. archiveImport[i] \in ImportRow
          BY DEF Tables, TablesOK
        <4>2. archiveImport'[i] = [archiveImport[i] EXCEPT !.status = "PENDING", !.job = j, !.partial = FALSE]
          BY <2>1, <3>2 DEF Retry, Tables, TablesOK
        <4>3. archiveImport'[i].status = "PENDING" /\ archiveImport'[i].cleanup = archiveImport[i].cleanup
          BY <4>1, <4>2 DEF ImportRow
        <4> QED BY <2>2, <3>2, <4>3 DEF RowKept, CleanableStatus, Held
      <3> QED BY <3>1, <3>2 DEF RowKept
    <2>5. \A k \in Job : job[k].status \in Jobs!ExecutingStatus => JobKept(k)
      <3>1. job[j].status = "ABSENT"
        BY <2>1 DEF Retry, Free, AbsentJob
      <3>2. \A k \in Job \ {j, c.job} : job'[k] = job[k]
        BY <2>1, <2>2 DEF Retry, Tables, TablesOK
      <3> QED BY <2>2, <3>1, <3>2 DEF JobKept
    <2> QED BY <2>3, <2>4, <2>5
  <1> QED BY <1>1, <1>2, <1>3 DEF Control

LEMMA RequestKeeps ==
  ASSUME Tables, DataOK, NEW j \in Job, Request(j)
  PROVE  /\ \A i \in Import : RowKept(i)
         /\ \A k \in Job : job[k].status \in Jobs!ExecutingStatus => JobKept(k)
         /\ ItemsKept /\ dir' = dir /\ exec' = exec
  <1>1. /\ Free(j) /\ item' = item /\ dir' = dir /\ exec' = exec
        /\ \A k \in Job \ {j} : job'[k] = job[k]
    BY DEF Request, EnqueueImport, RequestCleanup, RequestTrash, RequestRestore, RequestPurge,
           RequestReconcile, Tables, TablesOK
  <1>2. \A k \in Job : job[k].status \in Jobs!ExecutingStatus => JobKept(k)
    BY <1>1 DEF JobKept, Free, AbsentJob
  <1>3. ASSUME NEW i \in Import PROVE RowKept(i)
    <2>1. CASE archiveImport'[i] = archiveImport[i]
      BY <2>1 DEF RowKept
    <2>2. CASE EnqueueImport(i, j)
      <3>1. archiveImport[i].status = "ABSENT" /\ archiveImport[i].job = NoJob /\ ~archiveImport[i].cleanup
        BY <2>2 DEF EnqueueImport, Tables, StoriesOK
      <3>2. archiveImport'[i].status = "PENDING"
        BY <2>2 DEF EnqueueImport, AbsentImport, Tables, TablesOK
      <3> QED BY <3>1, <3>2 DEF RowKept, Held, CleanableStatus
    <2>3. CASE RequestCleanup(i, j)
      <3>1. archiveImport'[i] = [archiveImport[i] EXCEPT !.cleanup = TRUE] /\ archiveImport[i].status \in CleanableStatus
        BY <2>3 DEF RequestCleanup, Tables, TablesOK
      <3>2. archiveImport[i] \in ImportRow
        BY DEF Tables, TablesOK
      <3> QED BY <3>1, <3>2 DEF RowKept, CleanableStatus, ImportRow
    <2>4. CASE \E k \in Import \ {i} : EnqueueImport(k, j) \/ RequestCleanup(k, j)
      BY <2>1, <2>4 DEF EnqueueImport, RequestCleanup, Tables, TablesOK
    <2>5. CASE RequestTrash(j) \/ RequestRestore(j) \/ RequestPurge(j) \/ RequestReconcile(j)
      BY <2>1, <2>5 DEF RequestTrash, RequestRestore, RequestPurge, RequestReconcile
    <2> QED BY <2>2, <2>3, <2>4, <2>5 DEF Request
  <1> QED BY <1>1, <1>2, <1>3 DEF ItemsKept, DataOK

\* A request takes a shown artwork to the trash, or one that can be restored back: its
\* files are where the new state expects them.  Nothing else moves the state beside a move.
LEMMA ArtworkRequests ==
  ASSUME DataOK, RevisionsAreComplete, dir' = dir,
         \/ Expire \/ artwork' = artwork
         \/ \E j \in Job : RequestTrash(j) \/ RequestRestore(j)
  PROVE  ArtworkKept /\ RevisionsAreComplete'
  <1>1. CASE artwork' = artwork
    BY <1>1 DEF ArtworkKept, RevisionsAreComplete, DataOK
  <1>2. CASE Expire
    <2>1. artwork' = [artwork EXCEPT !.expired = TRUE]
      BY <1>2 DEF Expire
    <2> QED BY <2>1 DEF ArtworkKept, RevisionsAreComplete, DataOK, ArtworkRow
  <1>3. CASE \E j \in Job : RequestTrash(j)
    <2>1. artwork' = [artwork EXCEPT !.state = "TRASHING"] /\ artwork.state \in {"ACTIVE", "TRASHING"}
      BY <1>3 DEF RequestTrash
    <2> QED BY <2>1 DEF ArtworkKept, RevisionsAreComplete, DataOK, ArtworkRow
  <1>4. CASE \E j \in Job : RequestRestore(j)
    <2>1. /\ artwork' = [artwork EXCEPT !.state = "RESTORING"]
          /\ artwork.state \in {"TRASHED", "RESTORING"} /\ ~artwork.expired
      BY <1>4 DEF RequestRestore
    <2> QED BY <2>1 DEF ArtworkKept, RevisionsAreComplete, DataOK, ArtworkRow
  <1> QED BY <1>1, <1>2, <1>3, <1>4

\* The files as the rows describe them, after a step that moves no file and completes no
\* checkpoint.
LEMMA RowsDescribe ==
  ASSUME Tables, DataOK, RevisionsOK, CheckpointsHaveFiles,
         dir' = dir, ItemsKept, \A i \in Import : RowKept(i), ArtworkKept
  PROVE  DataOK' /\ RevisionsOK' /\ CheckpointsHaveFiles'
  <1>1. DataOK'
    BY DEF DataOK, ItemsKept, ArtworkKept
  <1>2. RevisionsOK'
    BY DEF RevisionsOK, RowKept, ArtworkKept, DataOK, ArtworkRow
  <1>3. CheckpointsHaveFiles'
    BY DEF CheckpointsHaveFiles, ItemsKept, RowKept
  <1> QED BY <1>1, <1>2, <1>3

\* The work of an execution is not disturbed by such a step.
LEMMA WorkGoesOn ==
  ASSUME Tables, ExecOK, WorkOK, DataOK,
         exec' = exec, dir' = dir, \A i \in Import : RowKept(i), ArtworkKept,
         \A j \in Job : job[j].status \in Jobs!ExecutingStatus => JobKept(j)
  PROVE  ExecOK' /\ WorkOK'
  <1>1. exec # NoExec => /\ exec.job \in Job /\ job[exec.job].status \in Jobs!ExecutingStatus
                         /\ JobKept(exec.job)
    BY DEF ExecOK
  <1>2. ExecOK'
    BY <1>1 DEF ExecOK, JobKept
  <1>3. \A kind, ats : Doing(kind, ats)' <=> Doing(kind, ats)
    BY <1>1 DEF Doing, JobKept
  <1>4. DownloadOK'
    <2> SUFFICES ASSUME Doing("IMPORT", {"downloading", "validated", "prepared"}), DownloadOK
                 PROVE  DownloadOK'
      BY <1>3 DEF DownloadOK, WorkOK
    <2>1. /\ exec # NoExec /\ job[Ours].kind = "IMPORT" /\ Its' = Its
      BY <1>1 DEF Doing, Ours, Its, JobKept
    <2>2. Its \in Import /\ Held(Its)
      BY <1>1, <2>1, Bound, ArchiveAssumption DEF Held, Ours
    <2>3. RowKept(Its)
      BY <2>2
    <2> QED BY <2>1, <2>2, <2>3 DEF DownloadOK, Filling, RowKept
  <1>5. CleanupOK'
    <2> SUFFICES ASSUME Doing("CLEAN_STAGING", {"removing", "removed"}), CleanupOK
                 PROVE  CleanupOK'
      BY <1>3 DEF CleanupOK, WorkOK
    <2>1. exec.job \in Job /\ job[exec.job].kind = "CLEAN_STAGING" /\ Its' = Its
      BY <1>1 DEF Doing, Its, JobKept
    <2>2. Its \in Import
      BY <2>1 DEF Tables, BindingOK, Its
    <2>3. ~Held(Its)
      BY <1>1, <2>1, <2>2 DEF Held, Tables, TablesOK, BindingOK, ImportRow, Doing
    <2>4. RowKept(Its)
      BY <2>2
    <2> QED BY <2>1, <2>3, <2>4 DEF CleanupOK, RowKept
  <1>6. MoveOK'
    BY <1>3 DEF MoveOK, WorkOK, Route, ArtworkKept
  <1>7. PurgeOK'
    BY <1>3 DEF PurgeOK, WorkOK, ArtworkKept, DataOK, ArtworkRow
  <1>8. ReconcileOK'
    BY <1>3 DEF ReconcileOK, WorkOK, Children
  <1> QED BY <1>2, <1>4, <1>5, <1>6, <1>7, <1>8 DEF WorkOK

\* An execution that is over or has only begun has promised nothing.
LEMMA NoWork ==
  ASSUME exec' = NoExec \/ exec'.at \in {"claimed", "yielding", "partial", "failing"}
  PROVE  WorkOK'
  BY DEF WorkOK, DownloadOK, CleanupOK, MoveOK, PurgeOK, ReconcileOK, Doing, NoExec

LEMMA BesideStep ==
  ASSUME Tables, Files,
         \/ \E j \in Job : Request(j) \/ Claim(j) \/ Recover(j)
         \/ \E j \in Job, command \in Action : CommandJob(j, command)
         \/ Lost \/ Expire
         \/ \E action \in Action, i \in Import : ReadForControl(action, i)
         \/ \E c \in controls : Control(c)
         \/ UNCHANGED vars
  PROVE  Files'
  <1>1. CASE \E j \in Job : Request(j)
    <2>1. PICK j \in Job : Request(j)
      BY <1>1
    <2>2. dir' = dir /\ exec' = exec /\ ItemsKept /\ \A i \in Import : RowKept(i)
      BY <2>1, RequestKeeps DEF Files
    <2>3. \A k \in Job : job[k].status \in Jobs!ExecutingStatus => JobKept(k)
      BY <2>1, RequestKeeps DEF Files
    <2>4. ArtworkKept /\ RevisionsAreComplete'
      BY <2>1, <2>2, ArtworkRequests
         DEF Files, Request, EnqueueImport, RequestCleanup, RequestPurge, RequestReconcile
    <2> QED BY <2>2, <2>3, <2>4, RowsDescribe, WorkGoesOn DEF Files
  <1>2. CASE \E c \in controls : Control(c)
    <2>1. PICK c \in controls : Control(c)
      BY <1>2
    <2>2. dir' = dir /\ exec' = exec /\ artwork' = artwork
      BY <2>1 DEF Control, Refused, Pause, Resume, Cancel, Retry
    <2>3. ItemsKept /\ \A i \in Import : RowKept(i)
      BY <2>1, ControlKeeps DEF Files
    <2>4. \A k \in Job : job[k].status \in Jobs!ExecutingStatus => JobKept(k)
      BY <2>1, ControlKeeps DEF Files
    <2>5. ArtworkKept /\ RevisionsAreComplete'
      BY <2>2, ArtworkRequests DEF Files
    <2> QED BY <2>2, <2>3, <2>4, <2>5, RowsDescribe, WorkGoesOn DEF Files
  <1>3. CASE \/ Expire \/ UNCHANGED vars
             \/ \E action \in Action, i \in Import : ReadForControl(action, i)
    <2>1. /\ job' = job /\ archiveImport' = archiveImport /\ item' = item /\ dir' = dir /\ exec' = exec
          /\ Expire \/ artwork' = artwork
      BY <1>3 DEF Expire, ReadForControl, vars
    <2>2. ItemsKept /\ \A i \in Import : RowKept(i)
      BY <2>1 DEF ItemsKept, RowKept, Files, DataOK
    <2>3. \A k \in Job : job[k].status \in Jobs!ExecutingStatus => JobKept(k)
      BY <2>1 DEF JobKept
    <2>4. ArtworkKept /\ RevisionsAreComplete'
      BY <2>1, ArtworkRequests DEF Files
    <2> QED BY <2>1, <2>2, <2>3, <2>4, RowsDescribe, WorkGoesOn DEF Files
  <1>4. CASE Lost \/ \E j \in Job : Claim(j) \/ Recover(j)
    <2>1. /\ archiveImport' = archiveImport /\ item' = item /\ dir' = dir /\ artwork' = artwork
          /\ exec' = NoExec \/ exec'.at = "claimed"
      BY <1>4 DEF Lost, Claim, Recover
    <2>2. ItemsKept /\ \A i \in Import : RowKept(i)
      BY <2>1 DEF ItemsKept, RowKept, Files, DataOK
    <2>3. ArtworkKept /\ RevisionsAreComplete'
      BY <2>1, ArtworkRequests DEF Files
    <2>4. ExecOK'
      <3>1. CASE Lost \/ \E j \in Job : Recover(j)
        BY <3>1 DEF Lost, Recover, ExecOK, NoExec
      <3>2. CASE \E j \in Job : Claim(j)
        BY <3>2 DEF Claim, ExecOK, NoExec, Tables, TablesOK, JobRow
      <3> QED BY <1>4, <3>1, <3>2
    <2> QED BY <2>1, <2>2, <2>3, <2>4, RowsDescribe, NoWork DEF Files
  <1>5. CASE \E j \in Job, command \in Action : CommandJob(j, command)
    <2>1. PICK j \in Job, command \in Action : CommandJob(j, command)
      BY <1>5
    <2>2. /\ archiveImport' = archiveImport /\ item' = item /\ dir' = dir /\ exec' = exec
          /\ artwork' = artwork
      BY <2>1 DEF CommandJob
    <2>3. ItemsKept /\ \A i \in Import : RowKept(i)
      BY <2>2 DEF ItemsKept, RowKept, Files, DataOK
    <2>4. \A k \in Job : job[k].status \in Jobs!ExecutingStatus => JobKept(k)
      <3>1. \A k \in Job \ {j} : job'[k] = job[k]
        BY <2>1 DEF CommandJob, Moved, Tables, TablesOK
      <3>2. job[j].status \in Jobs!ExecutingStatus => JobKept(j)
        BY <2>1 DEF CommandJob, Moved, JobKept, Tables, TablesOK, JobRow
      <3> QED BY <3>1, <3>2 DEF JobKept
    <2>5. ArtworkKept /\ RevisionsAreComplete'
      BY <2>2, ArtworkRequests DEF Files
    <2> QED BY <2>2, <2>3, <2>4, <2>5, RowsDescribe, WorkGoesOn DEF Files
  <1> QED BY <1>1, <1>2, <1>3, <1>4, <1>5

-----------------------------------------------------------------------------
(* The import executor keeps Files                                         *)

ExecShape == exec = [job |-> exec.job, at |-> exec.at, place |-> exec.place,
                     stored |-> exec.stored, todo |-> exec.todo]

\* The execution comes further with the same job.
LEMMA ExecMoves ==
  ASSUME ExecOK, exec # NoExec, ExecShape', exec'.job = exec.job, exec'.at # "claimed",
         exec'.stored \subseteq Media, job' = job
  PROVE  ExecOK' /\ exec' # NoExec /\ Its' = Its /\ job'[exec'.job] = job[exec.job]
  BY ArchiveAssumption DEF ExecOK, ExecShape, NoExec, Its

\* Work in the directories of an import that is not completed touches no revision.
LEMMA OwnDirectories ==
  ASSUME Tables, Files, NEW i \in Import, archiveImport[i].status # "COMPLETED",
         dir' \in [Import -> Directories], \A k \in Import \ {i} : dir'[k] = dir[k],
         dir'[i].trash = dir[i].trash, artwork' = artwork,
         \A k \in Import : (archiveImport'[k].status = "COMPLETED") <=> (archiveImport[k].status = "COMPLETED")
  PROVE  RevisionsOK' /\ RevisionsAreComplete'
  <1>1. i \notin artwork.revisions /\ artwork.revisions \subseteq Import
    BY DEF Files, RevisionsOK, DataOK, ArtworkRow
  <1>2. RevisionsOK'
    BY <1>1 DEF Files, RevisionsOK
  <1>3. RevisionsAreComplete'
    BY <1>1 DEF Files, RevisionsAreComplete
  <1> QED BY <1>2, <1>3

\* Where an execution that fills a directory stands.
LEMMA FillingFacts ==
  ASSUME Tables, Files, NEW at \in {"downloading", "validated"}, Executes("IMPORT", at)
  PROVE  /\ exec # NoExec /\ Ours \in Job /\ Its \in Import /\ exec.at = at /\ job[exec.job].kind = "IMPORT"
         /\ archiveImport[Its].job = Ours
         /\ archiveImport[Its].status \in {"RUNNING", "CANCELLING"} /\ ~archiveImport[Its].cleanup
         /\ \/ exec.place = "staging" /\ dir[Its].archive = NoDir /\ Filling(Its, "staging")
            \/ exec.place = "archive" /\ Filling(Its, "archive")
         /\ dir[Its] \in Directories
  <1>1. exec # NoExec /\ job[Ours].kind = "IMPORT" /\ exec.at = at /\ job[exec.job].kind = "IMPORT"
    BY DEF Executes, Ours
  <1>2. Ours \in Job /\ Its \in Import /\ archiveImport[Its].job = Ours
    BY <1>1, Bound DEF Files
  <1>3. Doing("IMPORT", {"downloading", "validated", "prepared"}) /\ exec.at # "prepared"
    BY <1>1 DEF Doing
  <1> QED BY <1>1, <1>2, <1>3 DEF Files, WorkOK, DownloadOK, DataOK

\* Only one kind of work is done at a time; so for the other kinds below.
LEMMA DownloadAlone ==
  ASSUME exec' # NoExec, job'[exec'.job].kind = "IMPORT", DownloadOK'
  PROVE  WorkOK'
  BY DEF WorkOK, CleanupOK, MoveOK, PurgeOK, ReconcileOK, Doing

\* A start goes on where an earlier execution stopped: completed checkpoints have their
\* files in the directory it chooses.
LEMMA StartStep ==
  ASSUME Tables, Files, Start
  PROVE  Files'
  <1> DEFINE i == Its
             prepared == dir[i].archive # NoDir
             place == IF prepared THEN "archive" ELSE "staging"
  <1>1. /\ exec # NoExec /\ job[Ours].kind = "IMPORT" /\ exec.at = "claimed" /\ job[exec.job].kind = "IMPORT"
        /\ ~archiveImport[i].cleanup /\ archiveImport[i].status \in {"PENDING", "RUNNING"}
        /\ archiveImport' = [archiveImport EXCEPT ![i].status = "RUNNING", ![i].partial = FALSE]
        /\ exec' = [exec EXCEPT !.at = "downloading", !.place = place]
        /\ dir' = [dir EXCEPT ![i].staging = IF ~prepared /\ @ = NoDir THEN {} ELSE @]
        /\ job' = job /\ item' = item /\ artwork' = artwork
    BY DEF Start, Executes, Ours
  <1>2. i \in Import
    BY <1>1, Bound DEF Files
  <1>3. exec.stored = {}
    BY <1>1 DEF Files, ExecOK
  <1>4. ExecOK' /\ exec' # NoExec /\ i' = i /\ exec'.at = "downloading" /\ exec'.place = place
        /\ exec'.stored = {} /\ exec'.job = exec.job
    <2> HIDE DEF place
    <2>1. /\ ExecShape' /\ exec'.job = exec.job /\ exec'.at = "downloading" /\ exec'.place = place
          /\ exec'.stored = {}
      BY <1>1, <1>3 DEF Files, ExecOK, ExecShape
    <2>2. ExecOK' /\ exec' # NoExec /\ Its' = Its
      BY <1>1, <2>1, ExecMoves DEF Files
    <2> QED BY <2>1, <2>2
  <1> HIDE DEF i, prepared, place
  <1>5. /\ dir[i] \in Directories
        /\ dir'[i] = [dir[i] EXCEPT !.staging = IF ~prepared /\ dir[i].staging = NoDir THEN {} ELSE dir[i].staging]
        /\ \A k \in Import \ {i} : dir'[k] = dir[k]
    BY <1>1, <1>2 DEF Files, DataOK
  <1>6. /\ dir'[i].archive = dir[i].archive /\ dir'[i].trash = dir[i].trash
        /\ dir'[i].staging = IF ~prepared /\ dir[i].staging = NoDir THEN {} ELSE dir[i].staging
        /\ dir'[i] \in Directories
    BY <1>5 DEF Directories, Directory
  <1>7. dir' \in [Import -> Directories]
    BY <1>1, <1>2, <1>5, <1>6 DEF Files, DataOK
  <1>8. /\ archiveImport'[i].status = "RUNNING" /\ archiveImport'[i].cleanup = FALSE
        /\ \A k \in Import \ {i} : archiveImport'[k] = archiveImport[k]
    BY <1>1, <1>2 DEF Tables, TablesOK, ImportRow
  <1>9. RevisionsOK' /\ RevisionsAreComplete'
    <2>1. archiveImport[i].status # "COMPLETED"
      BY <1>1
    <2>2. \A k \in Import : (archiveImport'[k].status = "COMPLETED") <=> (archiveImport[k].status = "COMPLETED")
      BY <1>8, <2>1
    <2>3. dir'[i].trash = dir[i].trash
      BY <1>6
    <2> QED BY <1>1, <1>2, <1>5, <1>7, <2>1, <2>2, <2>3, OwnDirectories
  <1>10. CheckpointsHaveFiles'
    <2>1. ASSUME NEW m \in Media, item[i][m] = "COMPLETED"
          PROVE  IF dir'[i].archive # NoDir THEN m \in dir'[i].archive
                                            ELSE dir'[i].staging # NoDir /\ m \in dir'[i].staging
      BY <1>1, <1>2, <1>6, <2>1 DEF Files, CheckpointsHaveFiles, prepared
    <2> QED BY <1>1, <1>2, <1>5, <1>8, <2>1 DEF Files, CheckpointsHaveFiles
  <1>11. DataOK'
    BY <1>1, <1>7 DEF Files, DataOK
  <1>12. WorkOK'
    <2>1. DownloadOK'
      <3>1. \A files \in SUBSET Media : NoDir # files
        BY ArchiveAssumption
      <3>2. Its' = i
        BY <1>4 DEF i
      <3>3. place = "archive" => dir'[i].archive # NoDir
        BY <1>6 DEF place, prepared
      <3>4. place = "staging" => dir'[i].archive = NoDir /\ dir'[i].staging # NoDir
        BY <1>6, <3>1 DEF place, prepared
      <3>5. place \in {"archive", "staging"}
        BY DEF place
      <3> QED BY <1>4, <1>8, <3>2, <3>3, <3>4, <3>5 DEF DownloadOK, Filling
    <2> QED BY <1>1, <1>4, <2>1, DownloadAlone
  <1> QED BY <1>4, <1>9, <1>10, <1>11, <1>12 DEF Files

\* Steps that touch nothing but job rows and the execution.
LEMMA OnlyExec ==
  ASSUME Files, archiveImport' = archiveImport, item' = item, dir' = dir, artwork' = artwork
  PROVE  DataOK' /\ RevisionsOK' /\ RevisionsAreComplete' /\ CheckpointsHaveFiles'
  BY DEF Files, DataOK, RevisionsOK, RevisionsAreComplete, CheckpointsHaveFiles

\* Steps that only say how far the execution has come.
LEMMA GoStep ==
  ASSUME Files, exec # NoExec, NEW at, Goto(at), at # "claimed", UNCHANGED <<job, archiveImport, item, dir, artwork>>
  PROVE  /\ ExecOK' /\ exec' # NoExec /\ Its' = Its /\ job'[exec'.job] = job[exec.job]
         /\ exec'.at = at /\ exec'.place = exec.place /\ exec'.stored = exec.stored /\ exec'.todo = exec.todo
         /\ DataOK' /\ RevisionsOK' /\ RevisionsAreComplete' /\ CheckpointsHaveFiles'
  <1>1. /\ ExecShape' /\ exec'.job = exec.job /\ exec'.at = at /\ exec'.place = exec.place
        /\ exec'.stored = exec.stored /\ exec'.todo = exec.todo
    BY DEF Goto, Files, ExecOK, ExecShape
  <1>2. exec'.stored \subseteq Media
    BY <1>1 DEF Files, ExecOK
  <1>3. ExecOK' /\ exec' # NoExec /\ Its' = Its /\ job'[exec'.job] = job[exec.job]
    BY <1>1, <1>2, ExecMoves DEF Files
  <1> QED BY <1>1, <1>3, OnlyExec

LEMMA WaitingStep ==
  ASSUME Tables, Files, YieldToCleanup \/ EndRounds \/ Fail
  PROVE  Files'
  <1>1. CASE YieldToCleanup
    <2>1. exec # NoExec /\ Goto("yielding") /\ UNCHANGED <<job, archiveImport, item, dir, artwork>>
      BY <1>1 DEF YieldToCleanup, Executes
    <2> QED BY <2>1, GoStep, NoWork DEF Files
  <1>2. CASE Fail
    <2>1. exec # NoExec /\ Goto("failing") /\ UNCHANGED <<job, archiveImport, item, dir, artwork>>
      BY <1>2 DEF Fail
    <2> QED BY <2>1, GoStep, NoWork DEF Files
  <1>3. CASE EndRounds
    <2>1. PICK at \in {"partial", "validated", "failing"} :
            Goto(at) /\ (at = "validated" => Here = Media)
      BY <1>3 DEF EndRounds
    <2>2. Executes("IMPORT", "downloading") /\ exec # NoExec /\ UNCHANGED <<job, archiveImport, item, dir, artwork>>
      BY <1>3 DEF EndRounds, Executes
    <2>3. CASE at # "validated"
      BY <2>1, <2>2, <2>3, GoStep, NoWork DEF Files
    <2>4. CASE at = "validated"
      <3>1. /\ ExecOK' /\ exec' # NoExec /\ Its' = Its /\ job'[exec'.job] = job[exec.job]
            /\ exec'.at = at /\ exec'.place = exec.place /\ exec'.stored = exec.stored
            /\ DataOK' /\ RevisionsOK' /\ RevisionsAreComplete' /\ CheckpointsHaveFiles'
        BY <2>1, <2>2, GoStep
      <3>2. /\ archiveImport[Its].status \in {"RUNNING", "CANCELLING"} /\ ~archiveImport[Its].cleanup
            /\ job[exec.job].kind = "IMPORT"
            /\ \/ exec.place = "staging" /\ dir[Its].archive = NoDir /\ Filling(Its, "staging")
               \/ exec.place = "archive" /\ Filling(Its, "archive")
        BY <2>2, FillingFacts
      <3>3. CASE exec.place = "staging" /\ dir[Its].archive = NoDir /\ Filling(Its, "staging")
        <4>1. dir[Its].staging = Media
          BY <2>1, <2>4, <3>3 DEF Here
        <4>2. dir'[Its] = dir[Its] /\ archiveImport'[Its] = archiveImport[Its]
          BY <2>2
        <4>3. DownloadOK'
          BY <2>4, <3>1, <3>2, <3>3, <4>1, <4>2 DEF DownloadOK, Filling
        <4>4. WorkOK'
          BY <3>1, <3>2, <4>3, DownloadAlone
        <4> QED BY <3>1, <4>4 DEF Files
      <3>4. CASE exec.place = "archive" /\ Filling(Its, "archive")
        <4>1. dir[Its].archive = Media
          BY <2>1, <2>4, <3>4 DEF Here
        <4>2. dir'[Its] = dir[Its] /\ archiveImport'[Its] = archiveImport[Its]
          BY <2>2
        <4>3. DownloadOK'
          BY <2>4, <3>1, <3>2, <3>4, <4>1, <4>2 DEF DownloadOK, Filling
        <4>4. WorkOK'
          BY <3>1, <3>2, <4>3, DownloadAlone
        <4> QED BY <3>1, <4>4 DEF Files
      <3> QED BY <3>2, <3>3, <3>4
    <2> QED BY <2>3, <2>4
  <1> QED BY <1>1, <1>2, <1>3

LEMMA StoreStep ==
  ASSUME Tables, Files, NEW m \in Media, Store(m)
  PROVE  Files'
  <1> DEFINE i == Its
  <1>1. /\ exec # NoExec /\ i \in Import /\ exec.at = "downloading" /\ job[exec.job].kind = "IMPORT"
        /\ archiveImport[i].status \in {"RUNNING", "CANCELLING"} /\ ~archiveImport[i].cleanup
        /\ \/ exec.place = "staging" /\ dir[i].archive = NoDir /\ Filling(i, "staging")
           \/ exec.place = "archive" /\ Filling(i, "archive")
        /\ dir[i] \in Directories
    BY FillingFacts DEF Store
  <1>2. /\ dir' = [dir EXCEPT ![i][exec.place] = @ \union {m}]
        /\ exec' = [exec EXCEPT !.stored = @ \union {m}]
        /\ job' = job /\ archiveImport' = archiveImport /\ item' = item /\ artwork' = artwork
    BY DEF Store
  <1>3. /\ ExecShape' /\ exec'.job = exec.job /\ exec'.at = "downloading" /\ exec'.place = exec.place
        /\ exec'.stored = exec.stored \union {m}
    BY <1>1, <1>2 DEF Files, ExecOK, ExecShape
  <1>4. exec'.stored \subseteq Media
    BY <1>3 DEF Files, ExecOK
  <1>5. ExecOK' /\ exec' # NoExec /\ i' = i /\ job'[exec'.job] = job[exec.job]
    BY <1>1, <1>2, <1>3, <1>4, ExecMoves DEF Files
  <1> HIDE DEF i
  <1>6. \A k \in Import \ {i} : dir'[k] = dir[k]
    BY <1>1, <1>2 DEF Files, DataOK
  <1>7. /\ dir'[i].trash = dir[i].trash /\ dir'[i] \in Directories
        /\ dir[i].staging # NoDir => dir'[i].staging # NoDir /\ dir[i].staging \subseteq dir'[i].staging
        /\ dir[i].archive # NoDir => dir'[i].archive # NoDir /\ dir[i].archive \subseteq dir'[i].archive
        /\ dir[i].archive = NoDir => dir'[i].archive = NoDir
        /\ m \in dir'[i][exec.place]
        /\ exec.place = "staging" => dir'[i].staging # NoDir
    <2>1. CASE exec.place = "staging" /\ dir[i].staging # NoDir
      <3>1. dir'[i] = [dir[i] EXCEPT !.staging = dir[i].staging \union {m}]
        BY <1>1, <1>2, <2>1 DEF Files, DataOK
      <3> QED BY <1>1, <2>1, <3>1, ArchiveAssumption DEF Directories, Directory
    <2>2. CASE exec.place = "archive" /\ dir[i].archive # NoDir
      <3>1. dir'[i] = [dir[i] EXCEPT !.archive = dir[i].archive \union {m}]
        BY <1>1, <1>2, <2>2 DEF Files, DataOK
      <3> QED BY <1>1, <2>2, <3>1, ArchiveAssumption DEF Directories, Directory
    <2> QED BY <1>1, <2>1, <2>2 DEF Filling
  <1>8. dir' \in [Import -> Directories]
    <2>1. \A k \in Import : dir'[k] \in Directories
      BY <1>6, <1>7 DEF Files, DataOK
    <2> QED BY <1>2, <2>1 DEF Files, DataOK
  <1>9. RevisionsOK' /\ RevisionsAreComplete'
    BY <1>1, <1>2, <1>6, <1>7, <1>8, OwnDirectories
  <1>10. DataOK'
    BY <1>2, <1>8 DEF Files, DataOK
  <1>11. CheckpointsHaveFiles'
    <2>1. ASSUME NEW n \in Media, item[i][n] = "COMPLETED"
          PROVE  IF dir'[i].archive # NoDir THEN n \in dir'[i].archive
                                            ELSE dir'[i].staging # NoDir /\ n \in dir'[i].staging
      BY <1>1, <1>7, <2>1 DEF Files, CheckpointsHaveFiles
    <2> QED BY <1>1, <1>2, <1>6, <2>1 DEF Files, CheckpointsHaveFiles
  <1>12. WorkOK'
    <2>1. DownloadOK'
      <3>1. Its' = i
        BY <1>5 DEF i
      <3> QED BY <1>1, <1>2, <1>3, <1>5, <1>7, <3>1 DEF DownloadOK, Filling
    <2> QED BY <1>1, <1>5, <2>1, DownloadAlone
  <1> QED BY <1>5, <1>9, <1>10, <1>11, <1>12 DEF Files

\* A checkpoint is completed after its file is stored.
LEMMA CheckpointStep ==
  ASSUME Tables, Files, NEW m \in Media, Complete(m) \/ GiveUp(m)
  PROVE  Files'
  <1> DEFINE i == Its
  <1>1. /\ exec # NoExec /\ i \in Import /\ exec.at = "downloading" /\ job[exec.job].kind = "IMPORT"
        /\ archiveImport[i].status \in {"RUNNING", "CANCELLING"} /\ ~archiveImport[i].cleanup
        /\ \/ exec.place = "staging" /\ dir[i].archive = NoDir /\ Filling(i, "staging")
           \/ exec.place = "archive" /\ Filling(i, "archive")
    BY FillingFacts DEF Complete, GiveUp
  <1>2. job' = job /\ archiveImport' = archiveImport /\ dir' = dir /\ artwork' = artwork
    BY DEF Complete, GiveUp
  <1>3. /\ ExecShape' /\ exec'.job = exec.job /\ exec'.at = "downloading" /\ exec'.place = exec.place
        /\ exec'.stored \subseteq exec.stored
    <2>1. CASE Complete(m)
      <3>1. exec' = [exec EXCEPT !.stored = @ \ {m}]
        BY <2>1 DEF Complete
      <3> QED BY <1>1, <3>1 DEF Files, ExecOK, ExecShape
    <2>2. CASE GiveUp(m)
      <3>1. exec' = exec
        BY <2>2 DEF GiveUp
      <3> QED BY <1>1, <3>1 DEF Files, ExecOK, ExecShape
    <2> QED BY <2>1, <2>2
  <1>4. exec'.stored \subseteq Media
    BY <1>3 DEF Files, ExecOK
  <1>5. ExecOK' /\ exec' # NoExec /\ i' = i /\ job'[exec'.job] = job[exec.job]
    BY <1>1, <1>2, <1>3, <1>4, ExecMoves DEF Files
  <1>6. PICK s \in {"COMPLETED", "FAILED"} :
          /\ item' = [item EXCEPT ![i][m] = s]
          /\ s = "COMPLETED" => m \in exec.stored
    BY DEF Complete, GiveUp
  <1> HIDE DEF i
  <1>7. /\ item' \in [Import -> [Media -> {"PENDING", "COMPLETED", "FAILED"}]]
        /\ \A k \in Import, n \in Media : item'[k][n] = IF k = i /\ n = m THEN s ELSE item[k][n]
    BY <1>1, <1>6 DEF Files, DataOK
  <1>8. DataOK' /\ RevisionsOK' /\ RevisionsAreComplete'
    BY <1>2, <1>7 DEF Files, DataOK, RevisionsOK, RevisionsAreComplete
  <1>9. CheckpointsHaveFiles'
    <2>1. s = "COMPLETED" => IF dir[i].archive # NoDir THEN m \in dir[i].archive
                                                       ELSE dir[i].staging # NoDir /\ m \in dir[i].staging
      BY <1>1, <1>6 DEF Filling
    <2> QED BY <1>2, <1>7, <2>1 DEF Files, CheckpointsHaveFiles
  <1>10. WorkOK'
    <2>1. DownloadOK'
      <3>1. Its' = i
        BY <1>5 DEF i
      <3> QED BY <1>1, <1>2, <1>3, <1>5, <3>1 DEF DownloadOK, Filling
    <2> QED BY <1>1, <1>5, <2>1, DownloadAlone
  <1> QED BY <1>5, <1>8, <1>9, <1>10 DEF Files

\* The validated directory becomes the revision's, its completed checkpoints with it.
LEMMA PrepareStep ==
  ASSUME Tables, Files, Prepare
  PROVE  Files'
  <1> DEFINE i == Its
  <1>1. /\ exec # NoExec /\ i \in Import /\ exec.at = "validated" /\ job[exec.job].kind = "IMPORT"
        /\ archiveImport[i].status \in {"RUNNING", "CANCELLING"} /\ ~archiveImport[i].cleanup
        /\ \/ exec.place = "staging" /\ dir[i].archive = NoDir /\ Filling(i, "staging")
           \/ exec.place = "archive" /\ Filling(i, "archive")
        /\ dir[i] \in Directories
    BY FillingFacts DEF Prepare
  <1>2. /\ dir' = [dir EXCEPT ![i] = IF @.archive = NoDir
                                     THEN [@ EXCEPT !.archive = dir[i].staging, !.staging = NoDir]
                                     ELSE @]
        /\ exec' = [exec EXCEPT !.at = "prepared"]
        /\ job' = job /\ archiveImport' = archiveImport /\ item' = item /\ artwork' = artwork
    BY DEF Prepare, Goto
  <1>3. ExecShape' /\ exec'.job = exec.job /\ exec'.at = "prepared" /\ exec'.stored = exec.stored
    BY <1>2 DEF Files, ExecOK, ExecShape
  <1>4. exec'.stored \subseteq Media
    BY <1>3 DEF Files, ExecOK
  <1>5. ExecOK' /\ exec' # NoExec /\ i' = i /\ job'[exec'.job] = job[exec.job]
    BY <1>1, <1>2, <1>3, <1>4, ExecMoves DEF Files
  <1> HIDE DEF i
  <1>6. \A k \in Import \ {i} : dir'[k] = dir[k]
    BY <1>1, <1>2 DEF Files, DataOK
  <1>7. dir'[i].trash = dir[i].trash /\ dir'[i] \in Directories /\ dir'[i].archive = Media /\ Media # NoDir
    <2>1. Media # NoDir
      BY ArchiveAssumption
    <2>2. CASE dir[i].archive = NoDir
      <3>1. dir'[i] = [dir[i] EXCEPT !.archive = dir[i].staging, !.staging = NoDir]
        BY <1>1, <1>2, <2>2 DEF Files, DataOK
      <3>2. dir[i].staging = Media
        BY <1>1, <2>2 DEF Filling
      <3> QED BY <1>1, <2>1, <3>1, <3>2 DEF Directories, Directory
    <2>3. CASE dir[i].archive # NoDir
      <3>1. dir'[i] = dir[i]
        BY <1>1, <1>2, <2>3 DEF Files, DataOK
      <3> QED BY <1>1, <2>1, <2>3, <3>1 DEF Filling
    <2> QED BY <2>2, <2>3
  <1>8. dir' \in [Import -> Directories]
    <2>1. \A k \in Import : dir'[k] \in Directories
      BY <1>6, <1>7 DEF Files, DataOK
    <2> QED BY <1>2, <2>1 DEF Files, DataOK
  <1>9. RevisionsOK' /\ RevisionsAreComplete'
    BY <1>1, <1>2, <1>6, <1>7, <1>8, OwnDirectories
  <1>10. DataOK'
    BY <1>2, <1>8 DEF Files, DataOK
  <1>11. CheckpointsHaveFiles'
    BY <1>2, <1>6, <1>7 DEF Files, CheckpointsHaveFiles
  <1>12. WorkOK'
    <2>1. DownloadOK'
      <3>1. Its' = i
        BY <1>5 DEF i
      <3> QED BY <1>1, <1>2, <1>3, <1>7, <3>1 DEF DownloadOK
    <2> QED BY <1>1, <1>5, <2>1, DownloadAlone
  <1> QED BY <1>5, <1>9, <1>10, <1>11, <1>12 DEF Files

LEMMA NobodyWorks ==
  ASSUME exec' = NoExec
  PROVE  ExecOK'
  BY DEF ExecOK, NoExec

LEMMA FinalizeStep ==
  ASSUME Tables, Files, FinalizeControl \/ FinalizeFailure \/ ReleaseForCleanup
  PROVE  Files'
  <1>1. exec # NoExec /\ job[Ours].kind = "IMPORT"
    BY DEF FinalizeControl, FinalizeFailure, ReleaseForCleanup, Ending, Executes
  <1>2. PICK s \in {"CANCELLED", "PAUSED", "FAILED", "PENDING"}, partial \in BOOLEAN :
          /\ archiveImport[Its].status \in Unfinished
          /\ archiveImport' = [archiveImport EXCEPT ![Its].status = s, ![Its].partial = partial]
    <2>1. PICK from \in SUBSET Unfinished, s \in {"CANCELLED", "PAUSED", "FAILED", "PENDING"},
               t \in {"CANCELLED", "PAUSED", "FAILED", "PENDING"}, partial \in BOOLEAN :
            Settle(from, s, t, partial)
      <3>1. /\ Unfinished \in SUBSET Unfinished /\ {"PENDING", "RUNNING"} \in SUBSET Unfinished
            /\ {"RUNNING"} \in SUBSET Unfinished /\ {"PENDING"} \in SUBSET Unfinished
        BY DEF Unfinished
      <3> QED BY <3>1 DEF FinalizeControl, FinalizeFailure, ReleaseForCleanup
    <2> QED BY <2>1 DEF Settle
  <1>3. exec' = NoExec /\ item' = item /\ dir' = dir /\ artwork' = artwork
    BY DEF FinalizeControl, FinalizeFailure, ReleaseForCleanup, Settle
  <1>4. Its \in Import
    BY <1>1, Bound DEF Files
  <1> HIDE DEF Its
  <1>5. \A k \in Import : /\ archiveImport'[k].cleanup = archiveImport[k].cleanup
                          /\ (archiveImport'[k].status = "COMPLETED") <=> (archiveImport[k].status = "COMPLETED")
    <2>1. archiveImport[Its] \in ImportRow
      BY <1>4 DEF Tables, TablesOK
    <2>2. archiveImport'[Its] = [archiveImport[Its] EXCEPT !.status = s, !.partial = partial]
      BY <1>2, <1>4 DEF Tables, TablesOK
    <2>3. archiveImport'[Its].status = s /\ archiveImport'[Its].cleanup = archiveImport[Its].cleanup
      BY <2>1, <2>2 DEF ImportRow
    <2>4. \A k \in Import \ {Its} : archiveImport'[k] = archiveImport[k]
      BY <1>2, <1>4 DEF Tables, TablesOK
    <2> QED BY <1>2, <2>3, <2>4 DEF Unfinished
  <1>6. DataOK' /\ RevisionsOK' /\ RevisionsAreComplete' /\ CheckpointsHaveFiles'
    <2>1. DataOK' /\ RevisionsAreComplete'
      BY <1>3 DEF Files, DataOK, RevisionsAreComplete
    <2>2. RevisionsOK'
      BY <1>3, <1>5 DEF Files, DataOK, ArtworkRow, RevisionsOK
    <2>3. CheckpointsHaveFiles'
      BY <1>3, <1>5 DEF Files, CheckpointsHaveFiles
    <2> QED BY <2>1, <2>2, <2>3
  <1> QED BY <1>3, <1>6, NobodyWorks, NoWork DEF Files

\* The revision that is published has all its files: it was validated, and its directory
\* has been its own since then.
LEMMA PublishStep ==
  ASSUME Tables, Files, Publish
  PROVE  Files'
  <1> DEFINE i == Its
  <1>1. /\ exec # NoExec /\ job[Ours].kind = "IMPORT" /\ exec.at = "prepared"
        /\ archiveImport[i].status = "RUNNING" /\ artwork.state \in {"NONE", "ACTIVE"}
        /\ artwork' = [artwork EXCEPT !.state = "ACTIVE", !.revisions = @ \union {i}]
        /\ archiveImport' = [archiveImport EXCEPT ![i].status = "COMPLETED", ![i].job = NoJob]
        /\ exec' = NoExec /\ item' = item /\ dir' = dir
    BY DEF Publish, Executes
  <1>2. i \in Import
    BY <1>1, Bound DEF Files
  <1>3. dir[i].archive = Media
    BY <1>1 DEF Files, WorkOK, DownloadOK, Doing, Ours
  <1>4. dir[i].trash = NoDir
    BY <1>1, <1>2 DEF Files, RevisionsOK
  <1> HIDE DEF i
  <1>5. /\ artwork' \in ArtworkRow /\ artwork'.state = "ACTIVE"
        /\ artwork'.revisions = artwork.revisions \union {i} /\ artwork.revisions \subseteq Import
    BY <1>1, <1>2 DEF Files, DataOK, ArtworkRow
  <1>6. /\ archiveImport'[i].status = "COMPLETED"
        /\ \A k \in Import \ {i} : archiveImport'[k] = archiveImport[k]
    BY <1>1, <1>2 DEF Tables, TablesOK, ImportRow
  <1>7. DataOK' /\ RevisionsOK'
    BY <1>1, <1>5, <1>6 DEF Files, DataOK, RevisionsOK
  <1>8. RevisionsAreComplete'
    <2>1. \A k \in artwork.revisions : dir[k].archive = Media /\ dir[k].trash = NoDir
      BY <1>1 DEF Files, RevisionsOK, RevisionsAreComplete
    <2> QED BY <1>1, <1>3, <1>4, <1>5, <2>1 DEF RevisionsAreComplete
  <1>9. CheckpointsHaveFiles'
    BY <1>1, <1>6 DEF Files, CheckpointsHaveFiles
  <1> QED BY <1>1, <1>7, <1>8, <1>9, NobodyWorks, NoWork DEF Files

LEMMA ImportStep ==
  ASSUME Tables, Files, ExecuteImport
  PROVE  Files'
  <1>1. CASE SettleWithoutImport
    <2>1. /\ exec' = NoExec
          /\ archiveImport' = archiveImport /\ item' = item /\ dir' = dir /\ artwork' = artwork
      BY <1>1 DEF SettleWithoutImport, SettleAlone
    <2> QED BY <2>1, OnlyExec, NobodyWorks, NoWork DEF Files
  <1>2. CASE ~SettleWithoutImport
    BY <1>2, StartStep, WaitingStep, StoreStep, CheckpointStep, PrepareStep, FinalizeStep, PublishStep
       DEF ExecuteImport, Finalize
  <1> QED BY <1>1, <1>2

-----------------------------------------------------------------------------
(* Maintenance keeps Files: cleanup, moves, purge, reconciliation          *)

LEMMA CleanupFacts ==
  ASSUME Tables, Files, NEW at \in {"removing", "removed"}, Executes("CLEAN_STAGING", at)
  PROVE  /\ exec # NoExec /\ Its \in Import /\ exec.at = at /\ job[exec.job].kind = "CLEAN_STAGING"
         /\ archiveImport[Its].cleanup /\ archiveImport[Its].status \in CleanableStatus
         /\ exec.place \in {"staging", "archive"}
         /\ dir[Its] \in Directories
  <1>1. exec # NoExec /\ exec.at = at /\ job[exec.job].kind = "CLEAN_STAGING" /\ exec.job \in Job
    BY DEF Executes, Ours, Files, ExecOK
  <1>2. Its \in Import
    BY <1>1 DEF Tables, BindingOK, Its
  <1>3. Doing("CLEAN_STAGING", {"removing", "removed"})
    BY <1>1 DEF Doing
  <1> QED BY <1>1, <1>2, <1>3 DEF Files, WorkOK, CleanupOK, DataOK

LEMMA CleanupAlone ==
  ASSUME exec' # NoExec, job'[exec'.job].kind = "CLEAN_STAGING", CleanupOK'
  PROVE  WorkOK'
  BY DEF WorkOK, DownloadOK, MoveOK, PurgeOK, ReconcileOK, Doing

LEMMA BeginCleanupStep ==
  ASSUME Tables, Files, BeginCleanup
  PROVE  Files'
  <1>1. /\ exec # NoExec /\ exec.at = "claimed" /\ job[exec.job].kind = "CLEAN_STAGING"
        /\ archiveImport[Its].cleanup /\ archiveImport[Its].status \in CleanableStatus
        /\ exec' = [exec EXCEPT !.at = "removing", !.place = "staging"]
        /\ job' = job /\ archiveImport' = archiveImport /\ item' = item /\ dir' = dir /\ artwork' = artwork
    BY DEF BeginCleanup, Executes, Ours
  <1>2. /\ ExecShape' /\ exec'.job = exec.job /\ exec'.at = "removing" /\ exec'.place = "staging"
        /\ exec'.stored = exec.stored
    BY <1>1 DEF Files, ExecOK, ExecShape
  <1>3. exec'.stored \subseteq Media
    BY <1>2 DEF Files, ExecOK
  <1>4. ExecOK' /\ exec' # NoExec /\ Its' = Its /\ job'[exec'.job] = job[exec.job]
    BY <1>1, <1>2, <1>3, ExecMoves DEF Files
  <1>5. WorkOK'
    BY <1>1, <1>2, <1>4, CleanupAlone DEF CleanupOK, CleanableStatus
  <1> QED BY <1>1, <1>4, <1>5, OnlyExec DEF Files

\* A cleanup removes files of an import that is not completed and whose cleanup stands.
LEMMA RemoveStep ==
  ASSUME Tables, Files, RemovePart \/ RemoveRest
  PROVE  Files'
  <1> DEFINE i == Its
  <1>1. /\ exec # NoExec /\ i \in Import /\ exec.at = "removing" /\ job[exec.job].kind = "CLEAN_STAGING"
        /\ archiveImport[i].cleanup /\ archiveImport[i].status \in CleanableStatus
        /\ exec.place \in {"staging", "archive"}
        /\ dir[i] \in Directories
    BY CleanupFacts DEF RemovePart, RemoveRest
  <1>2. job' = job /\ archiveImport' = archiveImport /\ item' = item /\ artwork' = artwork
    BY DEF RemovePart, RemoveRest
  <1>3. PICK left : left \in Directory /\ dir' = [dir EXCEPT ![i][exec.place] = left]
    <2>1. CASE RemovePart
      <3>1. PICK m \in Here : dir' = [dir EXCEPT ![Its][exec.place] = @ \ {m}]
        BY <2>1 DEF RemovePart
      <3>2. dir' = [dir EXCEPT ![i][exec.place] = dir[i][exec.place] \ {m}]
        BY <3>1
      <3>3. dir[i][exec.place] \in Directory /\ dir[i][exec.place] # NoDir
        BY <1>1, <2>1 DEF RemovePart, Here, Directories
      <3> QED BY <3>2, <3>3 DEF Directory
    <2>2. CASE RemoveRest
      BY <2>2 DEF RemoveRest, Directory
    <2> QED BY <2>1, <2>2
  <1>4. /\ ExecShape' /\ exec'.job = exec.job /\ exec'.at \in {"removing", "removed"}
        /\ exec'.place \in {"staging", "archive"} /\ exec'.stored = exec.stored
    <2>1. \/ exec' = exec
          \/ exec' = [exec EXCEPT !.place = "archive"]
          \/ exec' = [exec EXCEPT !.at = "removed"]
      BY DEF RemovePart, RemoveRest
    <2> QED BY <1>1, <2>1 DEF Files, ExecOK, ExecShape
  <1>5. exec'.stored \subseteq Media
    BY <1>4 DEF Files, ExecOK
  <1>6. ExecOK' /\ exec' # NoExec /\ i' = i /\ job'[exec'.job] = job[exec.job]
    BY <1>1, <1>2, <1>4, <1>5, ExecMoves DEF Files
  <1>7. WorkOK'
    BY <1>1, <1>2, <1>4, <1>6, CleanupAlone DEF CleanupOK
  <1> HIDE DEF i
  <1>8. \A k \in Import \ {i} : dir'[k] = dir[k]
    BY <1>1, <1>3 DEF Files, DataOK
  <1>9. dir'[i].trash = dir[i].trash /\ dir'[i] \in Directories
    <2>1. \/ dir'[i] = [dir[i] EXCEPT !.staging = left]
          \/ dir'[i] = [dir[i] EXCEPT !.archive = left]
      BY <1>1, <1>3 DEF Files, DataOK
    <2> QED BY <1>1, <1>3, <2>1 DEF Directories
  <1>10. dir' \in [Import -> Directories]
    <2>1. \A k \in Import : dir'[k] \in Directories
      BY <1>8, <1>9 DEF Files, DataOK
    <2> QED BY <1>3, <2>1 DEF Files, DataOK
  <1>11. RevisionsOK' /\ RevisionsAreComplete'
    <2>1. archiveImport[i].status # "COMPLETED"
      BY <1>1 DEF CleanableStatus
    <2> QED BY <1>1, <1>2, <1>8, <1>9, <1>10, <2>1, OwnDirectories
  <1>12. DataOK' /\ CheckpointsHaveFiles'
    BY <1>1, <1>2, <1>8, <1>10 DEF Files, DataOK, CheckpointsHaveFiles
  <1> QED BY <1>6, <1>7, <1>11, <1>12 DEF Files

\* The checkpoints are reset with the request that had the files removed.
LEMMA FinalizeCleanupStep ==
  ASSUME Tables, Files, FinalizeCleanup
  PROVE  Files'
  <1> DEFINE i == Its
  <1>1. /\ i \in Import /\ exec' = NoExec
        /\ archiveImport' = [archiveImport EXCEPT ![i].cleanup = FALSE]
        /\ item' = [item EXCEPT ![i] = [m \in Media |-> "PENDING"]]
        /\ dir' = dir /\ artwork' = artwork
    BY CleanupFacts DEF FinalizeCleanup, Completed
  <1> HIDE DEF i
  <1>2. /\ item' \in [Import -> [Media -> {"PENDING", "COMPLETED", "FAILED"}]]
        /\ \A m \in Media : item'[i][m] = "PENDING"
        /\ \A k \in Import \ {i} : item'[k] = item[k]
    BY <1>1 DEF Files, DataOK
  <1>3. \A k \in Import : /\ archiveImport'[k].status = archiveImport[k].status
                          /\ k # i => archiveImport'[k] = archiveImport[k]
    BY <1>1 DEF Tables, TablesOK, ImportRow
  <1>4. DataOK' /\ RevisionsOK' /\ RevisionsAreComplete'
    <2>1. DataOK' /\ RevisionsAreComplete'
      BY <1>1, <1>2 DEF Files, DataOK, RevisionsAreComplete
    <2>2. RevisionsOK'
      BY <1>1, <1>3 DEF Files, DataOK, ArtworkRow, RevisionsOK
    <2> QED BY <2>1, <2>2
  <1>5. CheckpointsHaveFiles'
    BY <1>1, <1>2, <1>3 DEF Files, CheckpointsHaveFiles
  <1> QED BY <1>1, <1>4, <1>5, NobodyWorks, NoWork DEF Files

MoveKind == {"TRASH_ARCHIVE", "RESTORE_ARCHIVE"}

LEMMA MoveAlone ==
  ASSUME exec' # NoExec, NEW kind \in MoveKind, job'[exec'.job].kind = kind,
         artwork'.state = Route(kind).during, exec'.todo \subseteq artwork'.revisions,
         \A i \in artwork'.revisions \ exec'.todo : dir'[i][Route(kind).from] = NoDir
  PROVE  WorkOK'
  BY DEF MoveKind, WorkOK, DownloadOK, CleanupOK, MoveOK, PurgeOK, ReconcileOK, Doing

LEMMA MoveFacts ==
  ASSUME Files, NEW kind \in MoveKind, Executes(kind, "moving")
  PROVE  /\ exec # NoExec /\ job[exec.job].kind = kind
         /\ artwork.state = Route(kind).during
         /\ exec.todo \subseteq artwork.revisions /\ artwork.revisions \subseteq Import
         /\ \A i \in artwork.revisions \ exec.todo : dir[i][Route(kind).from] = NoDir
  <1>1. exec # NoExec /\ job[exec.job].kind = kind /\ Doing(kind, {"moving"})
    BY DEF Executes, Ours, Doing
  <1> QED BY <1>1 DEF Files, WorkOK, MoveOK, MoveKind, DataOK, ArtworkRow

LEMMA BeginMoveStep ==
  ASSUME Files, NEW kind \in MoveKind, BeginMove(kind)
  PROVE  Files'
  <1>1. /\ exec # NoExec /\ job[exec.job].kind = kind /\ artwork.state = Route(kind).during
        /\ exec' = [exec EXCEPT !.at = "moving", !.todo = artwork.revisions]
        /\ job' = job /\ archiveImport' = archiveImport /\ item' = item /\ dir' = dir /\ artwork' = artwork
    BY DEF BeginMove, Executes, Ours
  <1>2. /\ ExecShape' /\ exec'.job = exec.job /\ exec'.at = "moving" /\ exec'.todo = artwork.revisions
        /\ exec'.stored = exec.stored
    BY <1>1 DEF Files, ExecOK, ExecShape
  <1>3. exec'.stored \subseteq Media
    BY <1>2 DEF Files, ExecOK
  <1>4. ExecOK' /\ exec' # NoExec /\ job'[exec'.job] = job[exec.job]
    BY <1>1, <1>2, <1>3, ExecMoves DEF Files
  <1>5. WorkOK'
    BY <1>1, <1>2, <1>4, MoveAlone
  <1> QED BY <1>1, <1>4, <1>5, OnlyExec DEF Files

\* One revision changes place, or has done so already.
LEMMA MoveDirectoryStep ==
  ASSUME Files, NEW kind \in MoveKind, NEW i \in Import, MoveDirectory(kind, i)
  PROVE  Files'
  <1>1. /\ Executes(kind, "moving") /\ i \in exec.todo
        /\ exec' = [exec EXCEPT !.todo = @ \ {i}]
        /\ dir' = [dir EXCEPT ![i] = IF @[Route(kind).from] = NoDir THEN @
                                     ELSE [@ EXCEPT ![Route(kind).to] = dir[i][Route(kind).from],
                                                    ![Route(kind).from] = NoDir]]
        /\ job' = job /\ archiveImport' = archiveImport /\ item' = item /\ artwork' = artwork
    BY DEF MoveDirectory
  <1>2. /\ exec # NoExec /\ job[exec.job].kind = kind
        /\ artwork.state = Route(kind).during
        /\ exec.todo \subseteq artwork.revisions /\ artwork.revisions \subseteq Import
        /\ \A k \in artwork.revisions \ exec.todo : dir[k][Route(kind).from] = NoDir
        /\ exec.at = "moving"
    BY <1>1, MoveFacts DEF Executes
  <1>3. /\ ExecShape' /\ exec'.job = exec.job /\ exec'.at = "moving" /\ exec'.todo = exec.todo \ {i}
        /\ exec'.stored = exec.stored
    BY <1>1, <1>2 DEF Files, ExecOK, ExecShape
  <1>4. exec'.stored \subseteq Media
    BY <1>3 DEF Files, ExecOK
  <1>5. ExecOK' /\ exec' # NoExec /\ job'[exec'.job] = job[exec.job]
    BY <1>1, <1>2, <1>3, <1>4, ExecMoves DEF Files
  <1>6. archiveImport[i].status = "COMPLETED" /\ i \in artwork.revisions
    BY <1>1, <1>2 DEF Files, RevisionsOK
  <1>7. {dir[i].archive, dir[i].trash} = {Media, NoDir} /\ dir[i] \in Directories /\ Media # NoDir
    BY <1>2, <1>6, ArchiveAssumption DEF Files, RevisionsAreComplete, Route, DataOK
  <1>8. /\ dir'[i] \in Directories /\ dir'[i][Route(kind).from] = NoDir
        /\ {dir'[i].archive, dir'[i].trash} = {Media, NoDir}
    <2>1. CASE kind = "TRASH_ARCHIVE"
      <3>1. dir'[i] = IF dir[i].archive = NoDir THEN dir[i]
                      ELSE [dir[i] EXCEPT !.trash = dir[i].archive, !.archive = NoDir]
        BY <1>1, <2>1 DEF Route, Files, DataOK
      <3> QED BY <1>7, <2>1, <3>1 DEF Route, Directories, Directory
    <2>2. CASE kind = "RESTORE_ARCHIVE"
      <3>1. dir'[i] = IF dir[i].trash = NoDir THEN dir[i]
                      ELSE [dir[i] EXCEPT !.archive = dir[i].trash, !.trash = NoDir]
        BY <1>1, <2>2 DEF Route, Files, DataOK
      <3> QED BY <1>7, <2>2, <3>1 DEF Route, Directories, Directory
    <2> QED BY <2>1, <2>2 DEF MoveKind
  <1>9. \A k \in Import \ {i} : dir'[k] = dir[k]
    BY <1>1 DEF Files, DataOK
  <1>10. DataOK'
    <2>1. \A k \in Import : dir'[k] \in Directories
      BY <1>8, <1>9 DEF Files, DataOK
    <2>2. dir' \in [Import -> Directories]
      BY <1>1, <2>1 DEF Files, DataOK
    <2> QED BY <1>1, <2>2 DEF Files, DataOK
  <1>11. RevisionsOK'
    BY <1>1, <1>2, <1>6, <1>9 DEF Files, RevisionsOK
  <1>12. RevisionsAreComplete'
    <2>1. artwork.state \in {"TRASHING", "RESTORING"}
      BY <1>2 DEF Route
    <2>2. \A k \in artwork.revisions : {dir[k].archive, dir[k].trash} = {Media, NoDir}
      BY <2>1 DEF Files, RevisionsAreComplete
    <2>3. \A k \in artwork.revisions : {dir'[k].archive, dir'[k].trash} = {Media, NoDir}
      BY <1>2, <1>8, <1>9, <2>2
    <2> QED BY <1>1, <2>1, <2>3 DEF RevisionsAreComplete
  <1>13. CheckpointsHaveFiles'
    BY <1>1, <1>6, <1>9 DEF Files, CheckpointsHaveFiles
  <1>14. WorkOK'
    <2>1. \A k \in artwork.revisions \ exec'.todo : dir'[k][Route(kind).from] = NoDir
      BY <1>2, <1>3, <1>8, <1>9
    <2> QED BY <1>1, <1>2, <1>3, <1>5, <2>1, MoveAlone
  <1> QED BY <1>5, <1>10, <1>11, <1>12, <1>13, <1>14 DEF Files

\* When every directory has left the one place, all files are in the other.
LEMMA FinalizeMoveStep ==
  ASSUME Files, NEW kind \in MoveKind, FinalizeMove(kind)
  PROVE  Files'
  <1>1. /\ Executes(kind, "moving") /\ exec.todo = {} /\ exec' = NoExec
        /\ artwork' = [artwork EXCEPT !.state = Route(kind).after, !.expired = @ /\ kind = "TRASH_ARCHIVE"]
        /\ archiveImport' = archiveImport /\ item' = item /\ dir' = dir
    BY DEF FinalizeMove, Completed
  <1>2. /\ artwork.state = Route(kind).during /\ artwork.revisions \subseteq Import
        /\ \A i \in artwork.revisions : dir[i][Route(kind).from] = NoDir
    BY <1>1, MoveFacts
  <1>3. artwork.state \in {"TRASHING", "RESTORING"} /\ Route(kind).after \in {"TRASHED", "ACTIVE"}
    BY <1>2 DEF Route
  <1>4. /\ artwork' \in ArtworkRow /\ artwork'.revisions = artwork.revisions
        /\ artwork'.state = Route(kind).after
    BY <1>1, <1>3 DEF Files, DataOK, ArtworkRow
  <1>5. \A i \in artwork.revisions :
          {dir[i].archive, dir[i].trash} = {Media, NoDir} /\ Media # NoDir
    BY <1>3, ArchiveAssumption DEF Files, RevisionsAreComplete
  <1>6. RevisionsAreComplete'
    <2>1. CASE kind = "TRASH_ARCHIVE"
      <3>1. \A i \in artwork.revisions : dir[i].archive = NoDir /\ dir[i].trash = Media
        BY <1>2, <1>5, <2>1 DEF Route
      <3> QED BY <1>1, <1>4, <2>1, <3>1 DEF RevisionsAreComplete, Route
    <2>2. CASE kind = "RESTORE_ARCHIVE"
      <3>1. \A i \in artwork.revisions : dir[i].trash = NoDir /\ dir[i].archive = Media
        BY <1>2, <1>5, <2>2 DEF Route
      <3> QED BY <1>1, <1>4, <2>2, <3>1 DEF RevisionsAreComplete, Route
    <2> QED BY <2>1, <2>2 DEF MoveKind
  <1>7. DataOK' /\ RevisionsOK'
    BY <1>1, <1>3, <1>4 DEF Files, DataOK, RevisionsOK
  <1>8. CheckpointsHaveFiles'
    BY <1>1 DEF Files, CheckpointsHaveFiles
  <1> QED BY <1>1, <1>6, <1>7, <1>8, NobodyWorks, NoWork DEF Files

LEMMA PurgeAlone ==
  ASSUME exec' # NoExec, job'[exec'.job].kind = "PURGE_ARCHIVE",
         artwork'.state = "TRASHED", artwork'.expired,
         exec'.todo \subseteq artwork'.revisions \X {"trash", "archive"}
  PROVE  WorkOK'
  BY DEF WorkOK, DownloadOK, CleanupOK, MoveOK, PurgeOK, ReconcileOK, Doing

LEMMA PurgeFacts ==
  ASSUME Files, Executes("PURGE_ARCHIVE", "purging")
  PROVE  /\ exec # NoExec /\ job[exec.job].kind = "PURGE_ARCHIVE" /\ exec.at = "purging"
         /\ artwork.state = "TRASHED" /\ artwork.expired
         /\ exec.todo \subseteq artwork.revisions \X {"trash", "archive"}
  <1>1. exec # NoExec /\ job[exec.job].kind = "PURGE_ARCHIVE" /\ exec.at = "purging"
    BY DEF Executes, Ours
  <1> QED BY <1>1 DEF Files, WorkOK, PurgeOK, Doing

LEMMA BeginPurgeStep ==
  ASSUME Files, BeginPurge
  PROVE  Files'
  <1>1. /\ exec # NoExec /\ job[exec.job].kind = "PURGE_ARCHIVE"
        /\ artwork.state = "TRASHED" /\ artwork.expired
        /\ exec' = [exec EXCEPT !.at = "purging", !.todo = artwork.revisions \X {"trash", "archive"}]
        /\ job' = job /\ archiveImport' = archiveImport /\ item' = item /\ dir' = dir /\ artwork' = artwork
    BY DEF BeginPurge, Executes, Ours
  <1>2. /\ ExecShape' /\ exec'.job = exec.job /\ exec'.at = "purging"
        /\ exec'.todo = artwork.revisions \X {"trash", "archive"} /\ exec'.stored = exec.stored
    BY <1>1 DEF Files, ExecOK, ExecShape
  <1>3. exec'.stored \subseteq Media
    BY <1>2 DEF Files, ExecOK
  <1>4. ExecOK' /\ exec' # NoExec /\ job'[exec'.job] = job[exec.job]
    BY <1>1, <1>2, <1>3, ExecMoves DEF Files
  <1>5. WorkOK'
    BY <1>1, <1>2, <1>4, PurgeAlone
  <1> QED BY <1>1, <1>4, <1>5, OnlyExec DEF Files

\* A purge removes files of revisions that nobody can restore any more.
LEMMA RemovePathStep ==
  ASSUME Files, NEW i \in Import, NEW place \in {"trash", "archive"}, RemovePath(i, place)
  PROVE  Files'
  <1>1. /\ Executes("PURGE_ARCHIVE", "purging") /\ <<i, place>> \in exec.todo
        /\ job' = job /\ archiveImport' = archiveImport /\ item' = item /\ artwork' = artwork
    BY DEF RemovePath
  <1>2. /\ exec # NoExec /\ job[exec.job].kind = "PURGE_ARCHIVE" /\ exec.at = "purging"
        /\ artwork.state = "TRASHED" /\ artwork.expired
        /\ exec.todo \subseteq artwork.revisions \X {"trash", "archive"}
    BY <1>1, PurgeFacts
  <1>3. i \in artwork.revisions /\ archiveImport[i].status = "COMPLETED" /\ dir[i] \in Directories
    BY <1>1, <1>2 DEF Files, RevisionsOK, DataOK
  <1>4. PICK left : left \in Directory /\ dir' = [dir EXCEPT ![i][place] = left]
    <2>1. CASE dir[i][place] # NoDir /\ \E m \in dir[i][place] : dir' = [dir EXCEPT ![i][place] = @ \ {m}]
      <3>1. PICK m \in dir[i][place] : dir' = [dir EXCEPT ![i][place] = @ \ {m}]
        BY <2>1
      <3>2. dir' = [dir EXCEPT ![i][place] = dir[i][place] \ {m}]
        BY <3>1
      <3>3. dir[i][place] \in Directory /\ dir[i][place] # NoDir
        BY <1>3, <2>1 DEF Directories
      <3> QED BY <3>2, <3>3 DEF Directory
    <2>2. CASE dir' = [dir EXCEPT ![i][place] = NoDir]
      BY <2>2 DEF Directory
    <2> QED BY <2>1, <2>2 DEF RemovePath
  <1>5. /\ ExecShape' /\ exec'.job = exec.job /\ exec'.at = "purging"
        /\ exec'.todo \subseteq exec.todo /\ exec'.stored = exec.stored
    <2>1. exec' = exec \/ exec' = [exec EXCEPT !.todo = exec.todo \ {<<i, place>>}]
      BY DEF RemovePath
    <2> QED BY <1>2, <2>1 DEF Files, ExecOK, ExecShape
  <1>6. exec'.stored \subseteq Media
    BY <1>5 DEF Files, ExecOK
  <1>7. ExecOK' /\ exec' # NoExec /\ job'[exec'.job] = job[exec.job]
    BY <1>1, <1>2, <1>5, <1>6, ExecMoves DEF Files
  <1>8. WorkOK'
    BY <1>1, <1>2, <1>5, <1>7, PurgeAlone
  <1>9. \A k \in Import \ {i} : dir'[k] = dir[k]
    BY <1>4 DEF Files, DataOK
  <1>10. dir'[i] \in Directories
    <2>1. \/ dir'[i] = [dir[i] EXCEPT !.trash = left]
          \/ dir'[i] = [dir[i] EXCEPT !.archive = left]
      BY <1>4 DEF Files, DataOK
    <2> QED BY <1>3, <1>4, <2>1 DEF Directories
  <1>11. DataOK'
    <2>1. \A k \in Import : dir'[k] \in Directories
      BY <1>9, <1>10 DEF Files, DataOK
    <2>2. dir' \in [Import -> Directories]
      BY <1>4, <2>1 DEF Files, DataOK
    <2> QED BY <1>1, <2>2 DEF Files, DataOK
  <1>12. RevisionsOK' /\ CheckpointsHaveFiles'
    BY <1>1, <1>3, <1>9 DEF Files, RevisionsOK, CheckpointsHaveFiles
  <1>13. RevisionsAreComplete'
    BY <1>1, <1>2 DEF RevisionsAreComplete
  <1> QED BY <1>7, <1>8, <1>11, <1>12, <1>13 DEF Files

LEMMA FinalizePurgeStep ==
  ASSUME Files, FinalizePurge
  PROVE  Files'
  <1>1. /\ artwork' = NoArtwork /\ exec' = NoExec
        /\ archiveImport' = archiveImport /\ item' = item /\ dir' = dir
    BY DEF FinalizePurge
  <1>2. artwork' \in ArtworkRow /\ artwork'.revisions = {}
    BY <1>1 DEF NoArtwork, ArtworkRow
  <1>3. DataOK' /\ RevisionsOK' /\ RevisionsAreComplete' /\ CheckpointsHaveFiles'
    BY <1>1, <1>2 DEF Files, DataOK, RevisionsOK, RevisionsAreComplete, CheckpointsHaveFiles
  <1> QED BY <1>1, <1>3, NobodyWorks, NoWork DEF Files

LEMMA ReconcileAlone ==
  ASSUME exec' # NoExec, job'[exec'.job].kind = "RECONCILE", exec'.todo \subseteq Children
  PROVE  WorkOK'
  BY DEF WorkOK, DownloadOK, CleanupOK, MoveOK, PurgeOK, ReconcileOK, Doing, Children

LEMMA BeginReconcileStep ==
  ASSUME Files, BeginReconcile
  PROVE  Files'
  <1>1. /\ exec # NoExec /\ job[exec.job].kind = "RECONCILE" /\ exec.at = "claimed"
        /\ Goto("reconciling") /\ UNCHANGED <<job, archiveImport, item, dir, artwork>>
    BY DEF BeginReconcile, Executes, Ours
  <1>2. /\ ExecOK' /\ exec' # NoExec /\ job'[exec'.job] = job[exec.job] /\ exec'.todo = exec.todo
        /\ DataOK' /\ RevisionsOK' /\ RevisionsAreComplete' /\ CheckpointsHaveFiles'
    BY <1>1, GoStep
  <1>3. exec.todo = {}
    BY <1>1 DEF Files, ExecOK
  <1>4. WorkOK'
    BY <1>1, <1>2, <1>3, ReconcileAlone
  <1> QED BY <1>2, <1>4 DEF Files

\* The intent of one candidate is renewed, its job is still to be enqueued.
LEMMA PrepareChild ==
  ASSUME Files, Executes("RECONCILE", "reconciling"), job' = job,
         NEW child \in Children, exec' = [exec EXCEPT !.todo = {child}]
  PROVE  ExecOK' /\ WorkOK'
  <1>1. exec # NoExec /\ job[exec.job].kind = "RECONCILE" /\ exec.at = "reconciling"
    BY DEF Executes, Ours
  <1>2. /\ ExecShape' /\ exec'.job = exec.job /\ exec'.at = "reconciling" /\ exec'.todo = {child}
        /\ exec'.stored = exec.stored
    BY <1>1 DEF Files, ExecOK, ExecShape
  <1>3. exec'.stored \subseteq Media
    BY <1>2 DEF Files, ExecOK
  <1>4. ExecOK' /\ exec' # NoExec /\ job'[exec'.job] = job[exec.job]
    BY <1>1, <1>2, <1>3, ExecMoves DEF Files
  <1>5. WorkOK'
    BY <1>1, <1>2, <1>4, ReconcileAlone
  <1> QED BY <1>4, <1>5

LEMMA PrepareCleanupStep ==
  ASSUME Tables, Files, NEW i \in Import, PrepareCleanup(i)
  PROVE  Files'
  <1>1. /\ Executes("RECONCILE", "reconciling") /\ archiveImport[i].status \in CleanableStatus
        /\ archiveImport' = [archiveImport EXCEPT ![i].cleanup = TRUE]
        /\ exec' = [exec EXCEPT !.todo = {NewJob("CLEAN_STAGING", i)}]
        /\ job' = job /\ item' = item /\ dir' = dir /\ artwork' = artwork
    BY DEF PrepareCleanup, CleanableStatus
  <1>2. ExecOK' /\ WorkOK'
    <2>1. NewJob("CLEAN_STAGING", i) \in Children
      BY DEF Children
    <2> HIDE DEF Children, NewJob
    <2> QED BY <1>1, <2>1, PrepareChild
  <1>3. \A k \in Import : /\ archiveImport'[k].status = archiveImport[k].status
                          /\ archiveImport[k].cleanup => archiveImport'[k].cleanup
    BY <1>1 DEF Tables, TablesOK, ImportRow
  <1>4. DataOK' /\ RevisionsAreComplete'
    BY <1>1 DEF Files, DataOK, RevisionsAreComplete
  <1>5. RevisionsOK'
    BY <1>1, <1>3 DEF Files, DataOK, ArtworkRow, RevisionsOK
  <1>6. CheckpointsHaveFiles'
    BY <1>1, <1>3 DEF Files, CheckpointsHaveFiles
  <1> QED BY <1>2, <1>4, <1>5, <1>6 DEF Files

LEMMA PrepareArtworkStep ==
  ASSUME Files, PrepareArtwork
  PROVE  Files'
  <1>1. PICK kind \in ArtworkKind : exec' = [exec EXCEPT !.todo = {NewJob(kind, NoImport)}]
    BY DEF PrepareArtwork
  <1>2. /\ Executes("RECONCILE", "reconciling")
        /\ job' = job /\ archiveImport' = archiveImport /\ item' = item /\ dir' = dir /\ artwork' = artwork
    BY DEF PrepareArtwork
  <1>3. ExecOK' /\ WorkOK'
    <2>1. NewJob(kind, NoImport) \in Children
      BY DEF Children
    <2> HIDE DEF Children, NewJob
    <2> QED BY <1>1, <1>2, <2>1, PrepareChild
  <1> QED BY <1>2, <1>3, OnlyExec DEF Files

LEMMA EnqueueChildStep ==
  ASSUME Tables, Files, NEW j \in Job, EnqueueChild(j)
  PROVE  Files'
  <1>1. /\ exec # NoExec /\ job[exec.job].kind = "RECONCILE" /\ exec.at = "reconciling" /\ Free(j)
        /\ \A k \in Job \ {j} : job'[k] = job[k]
        /\ exec' = [exec EXCEPT !.todo = {}]
        /\ archiveImport' = archiveImport /\ item' = item /\ dir' = dir /\ artwork' = artwork
    BY DEF EnqueueChild, Executes, Ours, Tables, TablesOK
  <1>2. /\ ExecShape' /\ exec'.job = exec.job /\ exec'.at = "reconciling" /\ exec'.todo = {}
        /\ exec'.stored = exec.stored
        /\ exec.job \in Job /\ job[exec.job].status \in Jobs!ExecutingStatus /\ exec.stored \subseteq Media
    BY <1>1 DEF Files, ExecOK, ExecShape
  <1>3. exec.job # j
    BY <1>1, <1>2 DEF Free, AbsentJob
  <1>6. job'[exec.job] = job[exec.job]
    BY <1>1, <1>2, <1>3
  <1>7. exec' # NoExec
    BY <1>2 DEF NoExec
  <1>4. ExecOK' /\ exec' # NoExec /\ job'[exec'.job].kind = "RECONCILE" /\ exec'.todo = {}
    BY <1>1, <1>2, <1>6, <1>7 DEF ExecOK, ExecShape
  <1>5. WorkOK'
    BY <1>4, ReconcileAlone
  <1> QED BY <1>1, <1>4, <1>5, OnlyExec DEF Files

LEMMA MaintenanceStep ==
  ASSUME Tables, Files, ExecuteMaintenance
  PROVE  Files'
  <1>1. CASE GiveUpMaintenance \/ FinishReconcile
    <2>1. /\ exec' = NoExec
          /\ archiveImport' = archiveImport /\ item' = item /\ dir' = dir /\ artwork' = artwork
      BY <1>1 DEF GiveUpMaintenance, SettleAlone, FinishReconcile, Completed
    <2> QED BY <2>1, OnlyExec, NobodyWorks, NoWork DEF Files
  <1>2. CASE BeginCleanup \/ RemovePart \/ RemoveRest \/ FinalizeCleanup
    BY <1>2, BeginCleanupStep, RemoveStep, FinalizeCleanupStep
  <1>3. CASE \E kind \in MoveKind : \/ BeginMove(kind) \/ FinalizeMove(kind)
                                    \/ \E i \in Import : MoveDirectory(kind, i)
    BY <1>3, BeginMoveStep, MoveDirectoryStep, FinalizeMoveStep
  <1>4. CASE \/ BeginPurge \/ FinalizePurge
             \/ \E i \in Import, place \in {"trash", "archive"} : RemovePath(i, place)
    BY <1>4, BeginPurgeStep, RemovePathStep, FinalizePurgeStep
  <1>5. CASE BeginReconcile \/ PrepareArtwork \/ \E i \in Import : PrepareCleanup(i)
    BY <1>5, BeginReconcileStep, PrepareArtworkStep, PrepareCleanupStep
  <1>6. CASE \E j \in Job : EnqueueChild(j)
    BY <1>6, EnqueueChildStep
  <1> QED BY <1>1, <1>2, <1>3, <1>4, <1>5, <1>6 DEF ExecuteMaintenance, MoveKind

-----------------------------------------------------------------------------
(* The invariant                                                           *)

LEMMA InitAInv ==
  ASSUME Init
  PROVE  AInv
  <1>1. /\ \A j \in Job : job[j] = AbsentJob
        /\ \A i \in Import : archiveImport[i] = AbsentImport
        /\ controls = {} /\ exec = NoExec /\ artwork = NoArtwork
        /\ \A i \in Import : dir[i].trash = NoDir
        /\ \A i \in Import, m \in Media : item[i][m] = "PENDING"
    BY DEF Init
  <1>2. TablesOK
    <2>1. AbsentJob \in JobRow
      BY DEF AbsentJob, JobRow, Jobs!Status, Kind
    <2>2. AbsentImport \in ImportRow
      BY DEF AbsentImport, ImportRow, ImportStatus
    <2> QED BY <2>1, <2>2 DEF Init, TablesOK
  <1>3. DataOK
    <2>1. [staging |-> NoDir, archive |-> NoDir, trash |-> NoDir] \in Directories
      BY DEF Directories, Directory
    <2>2. NoArtwork \in ArtworkRow
      BY DEF NoArtwork, ArtworkRow
    <2> QED BY <2>1, <2>2 DEF Init, DataOK
  <1>4. ExecOK /\ WorkOK
    BY <1>1 DEF ExecOK, NoExec, WorkOK, DownloadOK, CleanupOK, MoveOK, PurgeOK, ReconcileOK, Doing
  <1>5. BindingOK
    BY <1>1, ArchiveAssumption DEF BindingOK, AbsentJob, AbsentImport
  <1>6. StoriesOK /\ ControlsOK
    BY <1>1 DEF StoriesOK, ControlsOK, AbsentImport
  <1>7. RevisionsOK /\ RevisionsAreComplete /\ CheckpointsHaveFiles
    BY <1>1 DEF RevisionsOK, RevisionsAreComplete, CheckpointsHaveFiles, NoArtwork
  <1> QED BY <1>2, <1>3, <1>4, <1>5, <1>6, <1>7 DEF AInv, Tables, Files

LEMMA NextAInv ==
  ASSUME AInv, [Next]_vars
  PROVE  AInv'
  <1>1. Tables /\ Files
    BY DEF AInv
  <1>2. Tables'
    BY <1>1, NextTables DEF Files, WorkOK
  <1>3. Files'
    BY <1>1, BesideStep, ImportStep, MaintenanceStep DEF Next
  <1> QED BY <1>2, <1>3 DEF AInv

-----------------------------------------------------------------------------
(* What a step does to the story of one import                             *)

\* The import, and the status of the job it is bound to, stay what they are.
StoryKept(i) ==
  /\ archiveImport'[i].status = archiveImport[i].status
  /\ archiveImport'[i].job = archiveImport[i].job
  /\ archiveImport[i].job # NoJob => job'[archiveImport[i].job].status = job[archiveImport[i].job].status

\* The import and the job b it is bound to have the statuses s and t after the step.
Told(i, b, s, t) ==
  /\ b \in Job /\ archiveImport'[i].job = b /\ archiveImport'[i].status = s /\ job'[b].status = t

\* Two imports are never bound to one job, and no import to a maintenance job.
LEMMA BoundJobs ==
  ASSUME Tables, NEW i \in Import, archiveImport[i].job # NoJob
  PROVE  /\ archiveImport[i].job \in Job /\ job[archiveImport[i].job].kind = "IMPORT"
         /\ job[archiveImport[i].job] # AbsentJob
         /\ \A k \in Import \ {i} : archiveImport[k].job # archiveImport[i].job
  BY DEF Tables, TablesOK, BindingOK, ImportRow, AbsentJob

\* A request enqueues a new import with its job, or leaves the stories alone.
LEMMA RequestStories ==
  ASSUME Tables, NEW i \in Import, NEW j \in Job, Request(j)
  PROVE  \/ StoryKept(i)
         \/ archiveImport[i].status = "ABSENT" /\ Told(i, j, "PENDING", "PENDING")
  <1>1. Free(j) /\ \A k \in Job \ {j} : job'[k] = job[k]
    BY DEF Request, EnqueueImport, RequestCleanup, RequestTrash, RequestRestore, RequestPurge,
           RequestReconcile, Tables, TablesOK
  <1>2. archiveImport[i].job # NoJob => job'[archiveImport[i].job] = job[archiveImport[i].job]
    BY <1>1, BoundJobs DEF Free
  <1>3. CASE \E k \in Import : EnqueueImport(k, j)
    <2>1. PICK k \in Import : EnqueueImport(k, j)
      BY <1>3
    <2>2. CASE k = i
      <3>1. archiveImport[i].status = "ABSENT" /\ archiveImport'[i] = [AbsentImport EXCEPT !.status = "PENDING", !.job = j]
        BY <2>1, <2>2 DEF EnqueueImport, Tables, TablesOK
      <3>2. job'[j] = NewJob("IMPORT", i)
        BY <2>1, <2>2 DEF EnqueueImport, Tables, TablesOK
      <3> QED BY <3>1, <3>2 DEF Told, AbsentImport, NewJob
    <2>3. CASE k # i
      <3>1. archiveImport'[i] = archiveImport[i]
        BY <2>1, <2>3 DEF EnqueueImport, Tables, TablesOK
      <3> QED BY <1>2, <3>1 DEF StoryKept
    <2> QED BY <2>2, <2>3
  <1>4. CASE \E k \in Import : RequestCleanup(k, j)
    <2>1. PICK k \in Import : archiveImport' = [archiveImport EXCEPT ![k].cleanup = TRUE]
      BY <1>4 DEF RequestCleanup
    <2>2. archiveImport'[i].status = archiveImport[i].status /\ archiveImport'[i].job = archiveImport[i].job
      BY <2>1 DEF Tables, TablesOK, ImportRow
    <2> QED BY <1>2, <2>2 DEF StoryKept
  <1>5. CASE RequestTrash(j) \/ RequestRestore(j) \/ RequestPurge(j) \/ RequestReconcile(j)
    <2>1. archiveImport' = archiveImport
      BY <1>5 DEF RequestTrash, RequestRestore, RequestPurge, RequestReconcile
    <2> QED BY <1>2, <2>1 DEF StoryKept
  <1> QED BY <1>3, <1>4, <1>5 DEF Request

\* A control moves import and job together, or refuses.
LEMMA ControlStories ==
  ASSUME Tables, NEW i \in Import, NEW c \in controls, Control(c)
  PROVE  \/ StoryKept(i)
         \/ /\ archiveImport[i].status # "CANCELLING"
            /\ \E b \in Job : \/ Told(i, b, "RUNNING", "PAUSING") \/ Told(i, b, "PAUSED", "PAUSED")
                              \/ Told(i, b, "PENDING", "PENDING")
                              \/ Told(i, b, "CANCELLING", "CANCELLING") \/ Told(i, b, "CANCELLED", "CANCELLED")
  <1>1. CASE Refused(c)
    BY <1>1 DEF Refused, StoryKept
  <1>2. CASE Pause(c) \/ Resume(c) \/ Cancel(c)
    <2>1. /\ c.import \in Import /\ c.job \in Job /\ c.job # NoJob
          /\ archiveImport[c.import].job = c.job
          /\ archiveImport[c.import].status \in {"PENDING", "RUNNING", "PAUSED"}
      BY <1>2, ArchiveAssumption DEF Pause, Resume, Cancel, SameAsSeen, Tables, TablesOK, ControlsOK, ControlRow
    <2>2. PICK s \in ImportStatus, t \in Jobs!Status :
            /\ job' = [job EXCEPT ![c.job].status = t]
            /\ archiveImport' = [archiveImport EXCEPT ![c.import].status = s]
            /\ \/ s = "RUNNING" /\ t = "PAUSING"
               \/ s \in {"PAUSED", "PENDING", "CANCELLING", "CANCELLED"} /\ t = s
      <3>1. \A s \in {"PENDING", "RUNNING", "PAUSED", "CANCELLING", "CANCELLED"} : s \in ImportStatus
        BY DEF ImportStatus, ActiveImportStatus
      <3>2. \A t \in {"PENDING", "PAUSED", "PAUSING", "CANCELLING", "CANCELLED"} : t \in Jobs!Status
        OBVIOUS
      <3>3. CASE Pause(c)
        BY <3>1, <3>2, <3>3 DEF Pause
      <3>4. CASE Resume(c)
        BY <3>1, <3>2, <3>4 DEF Resume
      <3>5. CASE Cancel(c)
        BY <3>1, <3>2, <3>5 DEF Cancel
      <3> QED BY <1>2, <3>3, <3>4, <3>5
    <2>3. CASE i = c.import
      <3>1. Told(i, c.job, s, t)
        BY <2>1, <2>2, <2>3 DEF Told, Tables, TablesOK, ImportRow, JobRow
      <3> QED BY <2>1, <2>2, <2>3, <3>1
    <2>4. CASE i # c.import
      <3>1. archiveImport'[i] = archiveImport[i]
        BY <2>1, <2>2, <2>4 DEF Tables, TablesOK
      <3>2. archiveImport[i].job # NoJob => archiveImport[i].job \in Job \ {c.job}
        BY <2>1, <2>4, BoundJobs
      <3> QED BY <2>2, <3>1, <3>2 DEF StoryKept, Tables, TablesOK
    <2> QED BY <2>3, <2>4
  <1>3. CASE \E j \in Job : Retry(c, j)
    <2>1. PICK j \in Job : Retry(c, j)
      BY <1>3
    <2>2. /\ c.import \in Import /\ c.job \in Job /\ c.job # NoJob /\ archiveImport[c.import].job = c.job
          /\ archiveImport[c.import].status \in {"FAILED", "CANCELLED", "PAUSED"}
          /\ Free(j) /\ c.job # j
      BY <2>1, ArchiveAssumption DEF Retry, Free, Tables, TablesOK, ControlRow
    <2>3. /\ job'[j] = NewJob("IMPORT", c.import)
          /\ \A k \in Job \ {j, c.job} : job'[k] = job[k]
      BY <2>1, <2>2 DEF Retry, Tables, TablesOK
    <2>4. CASE i = c.import
      <3>1. archiveImport'[i] = [archiveImport[i] EXCEPT !.status = "PENDING", !.job = j, !.partial = FALSE]
        BY <2>1, <2>4 DEF Retry, Tables, TablesOK
      <3>2. Told(i, j, "PENDING", "PENDING")
        BY <2>3, <3>1 DEF Told, NewJob, Tables, TablesOK, ImportRow
      <3> QED BY <2>2, <2>4, <3>2
    <2>5. CASE i # c.import
      <3>1. archiveImport'[i] = archiveImport[i]
        BY <2>1, <2>2, <2>5 DEF Retry, Tables, TablesOK
      <3>2. archiveImport[i].job # NoJob => archiveImport[i].job \in Job \ {j, c.job}
        BY <2>2, <2>5, BoundJobs DEF Free
      <3> QED BY <2>3, <3>1, <3>2 DEF StoryKept
    <2> QED BY <2>4, <2>5
  <1> QED BY <1>1, <1>2, <1>3 DEF Control

\* The steps that leave every bound job and every import's status alone.
LEMMA QuietStories ==
  ASSUME Tables, NEW i \in Import,
         \A k \in Job : job[k].kind = "IMPORT" => job'[k] = job[k],
         archiveImport'[i].status = archiveImport[i].status, archiveImport'[i].job = archiveImport[i].job
  PROVE  StoryKept(i)
  BY BoundJobs DEF StoryKept

\* Maintenance moves maintenance jobs and enqueues others; it touches no story.
LEMMA MaintenanceStories ==
  ASSUME Tables, ExecOK, NEW i \in Import, ExecuteMaintenance
  PROVE  StoryKept(i)
  <1>1. \A k \in Job : job[k].kind = "IMPORT" => job'[k] = job[k]
    <2>1. CASE GiveUpMaintenance
      <3>1. Ours \in Job /\ job[Ours].kind # "IMPORT" /\ \E s : job' = Moved(Ours, s)
        BY <2>1 DEF GiveUpMaintenance, SettleAlone, Maintaining, ExecOK, Ours
      <3> QED BY <3>1 DEF Moved, Tables, TablesOK
    <2>2. CASE FinalizeCleanup \/ FinishReconcile \/ \E kind \in MoveKind : FinalizeMove(kind)
      <3>1. Ours \in Job /\ job[Ours].kind # "IMPORT" /\ job' = [job EXCEPT ![Ours] = AbsentJob]
        BY <2>2 DEF FinalizeCleanup, FinishReconcile, FinalizeMove, Completed, Executes, ExecOK, Ours, MoveKind
      <3> QED BY <3>1 DEF Tables, TablesOK
    <2>3. CASE FinalizePurge
      <3>1. job[Ours].kind = "PURGE_ARCHIVE"
        BY <2>3 DEF FinalizePurge, Executes
      <3> QED BY <2>3, <3>1 DEF FinalizePurge, ArtworkKind
    <2>4. CASE \E j \in Job : EnqueueChild(j)
      BY <2>4 DEF EnqueueChild, Free, AbsentJob, Tables, TablesOK
    <2>5. CASE \/ BeginCleanup \/ RemovePart \/ RemoveRest \/ BeginPurge \/ BeginReconcile \/ PrepareArtwork
               \/ \E kind \in MoveKind : BeginMove(kind) \/ \E k \in Import : MoveDirectory(kind, k)
               \/ \E k \in Import, place \in {"trash", "archive"} : RemovePath(k, place)
               \/ \E k \in Import : PrepareCleanup(k)
      BY <2>5 DEF BeginCleanup, RemovePart, RemoveRest, BeginPurge, BeginReconcile, PrepareArtwork,
                  BeginMove, MoveDirectory, RemovePath, PrepareCleanup
    <2> QED BY <2>1, <2>2, <2>3, <2>4, <2>5 DEF ExecuteMaintenance, MoveKind
  <1>2. archiveImport'[i].status = archiveImport[i].status /\ archiveImport'[i].job = archiveImport[i].job
    <2>1. CASE archiveImport' = archiveImport
      BY <2>1
    <2>2. CASE \E k, cleanup : archiveImport' = [archiveImport EXCEPT ![k].cleanup = cleanup]
      BY <2>2 DEF Tables, TablesOK, ImportRow
    <2>3. CASE FinalizeCleanup \/ \E k \in Import : PrepareCleanup(k)
      BY <2>2, <2>3 DEF FinalizeCleanup, PrepareCleanup
    <2>4. CASE ~FinalizeCleanup /\ ~\E k \in Import : PrepareCleanup(k)
      BY <2>1, <2>4 DEF ExecuteMaintenance, GiveUpMaintenance, SettleAlone, BeginCleanup, RemovePart, RemoveRest, BeginMove,
         FinalizeMove, MoveDirectory, BeginPurge, FinalizePurge, RemovePath, BeginReconcile,
         PrepareArtwork, EnqueueChild, FinishReconcile
    <2> QED BY <2>3, <2>4
  <1> QED BY <1>1, <1>2, QuietStories

\* An execution that has begun ends with its import and its job moved together.
LEMMA ImportStories ==
  ASSUME Tables, ExecOK, NEW i \in Import, ExecuteImport, ~SettleWithoutImport
  PROVE  \/ StoryKept(i)
         \/ \E b \in Job :
              \/ Told(i, b, "CANCELLED", "CANCELLED")
              \/ /\ archiveImport[i].status # "CANCELLING"
                 /\ \/ Told(i, b, "RUNNING", "RUNNING") \/ Told(i, b, "PAUSED", "PAUSED")
                    \/ Told(i, b, "FAILED", "FAILED") \/ Told(i, b, "PENDING", "PENDING")
         \/ archiveImport[i].status # "CANCELLING" /\ archiveImport'[i].status = "COMPLETED"
              /\ archiveImport'[i].job = NoJob
  <1>1. CASE YieldToCleanup \/ (\E m \in Media : Store(m) \/ Complete(m) \/ GiveUp(m)) \/ EndRounds \/ Prepare \/ Fail
    BY <1>1 DEF YieldToCleanup, Store, Complete, GiveUp, EndRounds, Prepare, Fail, StoryKept
  <1>2. CASE ~(YieldToCleanup \/ (\E m \in Media : Store(m) \/ Complete(m) \/ GiveUp(m)) \/ EndRounds \/ Prepare \/ Fail)
    <2>1. exec # NoExec /\ job[Ours].kind = "IMPORT" /\ (Start \/ Finalize)
      BY <1>2 DEF ExecuteImport, Finalize, Start, FinalizeControl, FinalizeFailure, ReleaseForCleanup, Publish, Ending, Executes
    <2>2. Ours \in Job /\ Its \in Import /\ archiveImport[Its].job = Ours /\ Ours # NoJob
      BY <2>1, Bound, ArchiveAssumption
    <2>3. Unhindered => archiveImport[Its].status # "CANCELLING"
      BY <2>2 DEF Unhindered, Tables, StoriesOK
    <2>4. CASE Start
      <3>1. job' = job /\ archiveImport' = [archiveImport EXCEPT ![Its].status = "RUNNING", ![Its].partial = FALSE]
        BY <2>4 DEF Start
      <3>2. Unhindered
        BY <2>4 DEF Start
      <3> HIDE DEF Its, Ours
      <3>3. CASE i = Its
        BY <2>2, <2>3, <3>1, <3>2, <3>3 DEF Told, Unhindered, Tables, TablesOK, ImportRow
      <3>4. CASE i # Its
        BY <2>2, <3>1, <3>4 DEF StoryKept, Tables, TablesOK
      <3> QED BY <3>3, <3>4
    <2>5. CASE FinalizeControl \/ FinalizeFailure \/ ReleaseForCleanup
      <3>1. PICK s \in {"CANCELLED", "PAUSED", "FAILED", "PENDING"}, partial \in BOOLEAN :
              /\ archiveImport' = [archiveImport EXCEPT ![Its].status = s, ![Its].partial = partial]
              /\ job' = Moved(Ours, s)
              /\ s # "CANCELLED" => archiveImport[Its].status # "CANCELLING"
        BY <2>3, <2>5 DEF FinalizeControl, FinalizeFailure, ReleaseForCleanup, Settle
      <3>2. job' = [job EXCEPT ![Ours].status = s]
        BY <2>1, <2>2, <3>1 DEF Moved, Tables, TablesOK
      <3> HIDE DEF Its, Ours
      <3>3. CASE i = Its
        <4>1. Told(i, Ours, s, s)
          BY <2>2, <3>1, <3>2, <3>3 DEF Told, Tables, TablesOK, ImportRow, JobRow
        <4> QED BY <2>2, <3>1, <3>3, <4>1
      <3>4. CASE i # Its
        <4>1. archiveImport'[i] = archiveImport[i]
          BY <2>2, <3>1, <3>4 DEF Tables, TablesOK
        <4>2. archiveImport[i].job # NoJob => archiveImport[i].job \in Job \ {Ours}
          BY <2>2, <3>4, BoundJobs
        <4> QED BY <3>2, <4>1, <4>2 DEF StoryKept, Tables, TablesOK
      <3> QED BY <3>3, <3>4
    <2>6. CASE Publish
      <3>1. /\ archiveImport' = [archiveImport EXCEPT ![Its].status = "COMPLETED", ![Its].job = NoJob]
            /\ job' = [job EXCEPT ![Ours] = AbsentJob] /\ archiveImport[Its].status = "RUNNING"
        BY <2>6 DEF Publish
      <3> HIDE DEF Its, Ours
      <3>2. CASE i = Its
        BY <2>2, <3>1, <3>2 DEF Tables, TablesOK, ImportRow
      <3>3. CASE i # Its
        <4>1. archiveImport'[i] = archiveImport[i]
          BY <2>2, <3>1, <3>3 DEF Tables, TablesOK
        <4>2. archiveImport[i].job # NoJob => archiveImport[i].job \in Job \ {Ours}
          BY <2>2, <3>3, BoundJobs
        <4> QED BY <3>1, <4>1, <4>2 DEF StoryKept, Tables, TablesOK
      <3> QED BY <3>2, <3>3
    <2> QED BY <2>1, <2>4, <2>5, <2>6 DEF Finalize
  <1> QED BY <1>1, <1>2

LEMMA OtherStories ==
  ASSUME Tables, NEW i \in Import,
         \/ Lost \/ Expire \/ UNCHANGED vars
         \/ \E action \in Action, k \in Import : ReadForControl(action, k)
  PROVE  StoryKept(i)
  BY DEF Lost, Expire, ReadForControl, vars, StoryKept

LEMMA KeptAgreement ==
  ASSUME NEW i \in Import, Agrees(i), StoryKept(i)
  PROVE  Agrees(i)'
  BY DEF Agrees, StoryKept

\* A claim takes a job whose import waits for it.
LEMMA ClaimStories ==
  ASSUME Tables, NEW i \in Import, NEW j \in Job, Claim(j), Agrees(i)
  PROVE  Agrees(i)'
  <1>1. archiveImport' = archiveImport /\ \A k \in Job \ {j} : job'[k] = job[k]
    BY DEF Claim, Tables, TablesOK
  <1>2. CASE archiveImport[i].job = j
    <2>1. j # NoJob
      BY ArchiveAssumption
    <2>2. job[j].status \in Jobs!WaitingStatus /\ job'[j].status = "RUNNING"
      BY DEF Claim, Tables, TablesOK, JobRow
    <2> QED BY <1>1, <1>2, <2>1, <2>2 DEF Agrees
  <1>3. CASE archiveImport[i].job # j
    <2>1. archiveImport[i].job # NoJob => archiveImport[i].job \in Job \ {j}
      BY <1>3, BoundJobs
    <2> QED BY <1>1, <2>1, KeptAgreement DEF StoryKept
  <1> QED BY <1>2, <1>3

LEMMA ToldAgreement ==
  ASSUME NEW i \in Import, NEW b, NEW s, NEW t, Told(i, b, s, t),
         \/ s = "RUNNING" /\ t \in {"PAUSING", "RUNNING"}
         \/ s \in {"PAUSED", "PENDING", "CANCELLING", "CANCELLED", "FAILED"} /\ t = s
  PROVE  Agrees(i)'
  BY ArchiveAssumption DEF Agrees, Told

LEMMA StayTogether ==
  ASSUME Tables, ExecOK, [Next]_vars, NEW i \in Import, Agrees(i)
  PROVE  Agrees(i)' \/ (archiveImport'[i] = archiveImport[i] /\ (exec' = exec \/ exec.at = "claimed"))
  <1>1. CASE \E j \in Job : Request(j)
    BY <1>1, RequestStories, KeptAgreement, ToldAgreement
  <1>2. CASE \E j \in Job : Claim(j)
    BY <1>2, ClaimStories
  <1>7. CASE \/ \E j \in Job : Recover(j)
             \/ \E j \in Job, command \in Action : CommandJob(j, command)
    BY <1>7 DEF Recover, CommandJob
  <1>3. CASE \/ Lost \/ Expire \/ UNCHANGED vars
             \/ \E action \in Action, k \in Import : ReadForControl(action, k)
    BY <1>3, OtherStories, KeptAgreement
  <1>4. CASE \E c \in controls : Control(c)
    BY <1>4, ControlStories, KeptAgreement, ToldAgreement
  <1>5. CASE ExecuteImport
    <2>1. CASE archiveImport'[i].status = "COMPLETED" /\ archiveImport'[i].job = NoJob
      BY <2>1 DEF Agrees
    <2>2. CASE SettleWithoutImport
      BY <2>2 DEF SettleWithoutImport, SettleAlone, Executes
    <2> QED BY <1>5, <2>1, <2>2, ImportStories, KeptAgreement, ToldAgreement
  <1>6. CASE ExecuteMaintenance
    BY <1>6, MaintenanceStories, KeptAgreement
  <1> QED BY <1>1, <1>2, <1>3, <1>4, <1>5, <1>6, <1>7 DEF Next

LEMMA StayCancelled ==
  ASSUME Tables, ExecOK, [Next]_vars, NEW i \in Import, archiveImport[i].status = "CANCELLING"
  PROVE  archiveImport'[i].status \in {"CANCELLING", "CANCELLED"}
  <1>1. CASE \E j \in Job : Request(j)
    BY <1>1, RequestStories DEF StoryKept
  <1>2. CASE \/ \E j \in Job : Claim(j) \/ Recover(j)
             \/ \E j \in Job, command \in Action : CommandJob(j, command)
    BY <1>2 DEF Claim, Recover, CommandJob
  <1>3. CASE \/ Lost \/ Expire \/ UNCHANGED vars
             \/ \E action \in Action, k \in Import : ReadForControl(action, k)
    BY <1>3, OtherStories DEF StoryKept
  <1>4. CASE \E c \in controls : Control(c)
    BY <1>4, ControlStories DEF StoryKept
  <1>5. CASE ExecuteImport
    BY <1>5, ImportStories DEF StoryKept, Told, SettleWithoutImport, SettleAlone
  <1>6. CASE ExecuteMaintenance
    BY <1>6, MaintenanceStories DEF StoryKept
  <1> QED BY <1>1, <1>2, <1>3, <1>4, <1>5, <1>6 DEF Next

-----------------------------------------------------------------------------
(* The theorems                                                            *)

\* The rows tell one story, and the files and the execution are what the rows allow, whatever
\* requests, controls, claims, recoveries, lost executions and steps of executors follow on
\* each other.
THEOREM ArchiveInvariance == Spec => []AInv
  <1>1. Init => AInv
    BY InitAInv
  <1>2. AInv /\ [Next]_vars => AInv'
    BY NextAInv
  <1> QED BY <1>1, <1>2, PTL DEF Spec

\* Every row, directory and control keeps its type, and an execution is always of a job that
\* executes.
THEOREM ArchiveTypeCorrectness == Spec => []ArchiveTypeOK
  <1>1. AInv => ArchiveTypeOK
    BY DEF AInv, Tables, Files, TablesOK, DataOK, ExecOK, ArchiveTypeOK, JobRow, Kind, ImportRow, ControlRow,
           Directories, ArtworkRow
  <1> QED BY <1>1, ArchiveInvariance, PTL

\* What the reader is shown is complete on disk: publication validates before it prepares, no
\* cleanup removes a directory of a completed import, trash and restore move whole directories
\* and take up where a crashed move stopped, and a purge begins when nobody can restore.
THEOREM RevisionsComplete == Spec => []RevisionsAreComplete
  <1>1. AInv => RevisionsAreComplete
    BY DEF AInv, Files
  <1> QED BY <1>1, ArchiveInvariance, PTL

\* A completed checkpoint has its file where the next execution will look: the file is stored
\* under its final name before the checkpoint, preparation moves both, and a cleanup that
\* removes the files has been requested before and resets the checkpoint after.
THEOREM CheckpointsBacked == Spec => []CheckpointsHaveFiles
  <1>1. AInv => CheckpointsHaveFiles
    BY DEF AInv, Files
  <1> QED BY <1>1, ArchiveInvariance, PTL

\* requestArchiveStagingCleanup and reconciliation refuse an import that runs, a start refuses
\* one whose cleanup is requested, and nothing in between lets the two meet.
THEOREM DownloadsUndisturbed == Spec => []DownloadIsUndisturbed
  <1>1. AInv => DownloadIsUndisturbed
    BY DEF AInv, Files, WorkOK, DownloadOK, Doing, Its, Ours, DownloadIsUndisturbed
  <1> QED BY <1>1, ArchiveInvariance, PTL

\* An accepted cancellation is final: an execution of a cancelled job cannot publish, fail or
\* pause the import, no control in flight takes it back, and recovery cancels the job.
THEOREM CancellationsHold == Spec => CancellationHolds
  <1>1. AInv /\ [Next]_vars =>
          [\A i \in Import : archiveImport[i].status = "CANCELLING" =>
             archiveImport'[i].status \in {"CANCELLING", "CANCELLED"}]_vars
    BY StayCancelled DEF AInv, Files
  <1> QED BY <1>1, ArchiveInvariance, PTL DEF Spec, CancellationHolds

\* Import and job are moved together by every transaction of the controls and of an executor
\* that has begun, those that acted on what they read before included.  Whoever parts them
\* leaves the import as it is, and is not the ending of an execution that had begun: the
\* commands of the job list, lease recovery and the dispatcher's own settlement move a bound
\* job alone.
THEOREM OnlyTheQueueSeparates == Spec => OnlyQueueSeparates
  <1>1. AInv /\ [Next]_vars =>
          [\A i \in Import :
             Agrees(i) /\ ~Agrees(i)' =>
               archiveImport'[i] = archiveImport[i] /\ (exec' = exec \/ exec.at = "claimed")]_vars
    BY StayTogether DEF AInv, Files
  <1> QED BY <1>1, ArchiveInvariance, PTL DEF Spec, OnlyQueueSeparates
=============================================================================
