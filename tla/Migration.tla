------------------------------- MODULE Migration -------------------------------
(***************************************************************************)
(* The migration of the files of an artwork into its canonical directory   *)
(* (pixishelf-job-executors/src/migration): the plan of one artwork, its   *)
(* files on disk, its rows and the MIGRATION jobs that work on it, one     *)
(* active at a time as enqueueSingletonManualJob enforces.                  *)
(*                                                                         *)
(* Every file is copied to a staging directory, from there to its target,  *)
(* verified, published in one transaction, and only then removed from its  *)
(* source.  A process may die between any two steps or in the middle of a  *)
(* copy; the user may edit, add or remove files and reassign the artwork   *)
(* at any time.                                                             *)
(*                                                                         *)
(* The order within a loop is left open.  The statuses of single files are *)
(* left out: nothing reads them.  One artwork stands for the selection.    *)
(***************************************************************************)
EXTENDS FiniteSets

CONSTANTS
  Dir,      \* the directories that may be canonical for the artwork
  Media,    \* its media files
  Edited    \* those the user may edit, add or remove; a bound

ASSUME MigrationAssumption ==
  /\ Dir \intersect {"staging", "none", "good", "part"} = {}
  /\ Edited \subseteq Media

VARIABLES
  disk,     \* the content of each file, per directory and in staging
  row,      \* the directory each media row refers to
  home,     \* the directory canonical for the artwork's present artist
  touched,  \* the files the user edited, added or removed; a history variable
  job,      \* the latest migration job: its status and its transfer mode
  plan,     \* its item for the artwork
  exec      \* the execution in progress

migrationVars == <<disk, row, home, touched, job, plan, exec>>

\* A user's file in directory d is written with content d.
Content == {"none", "good", "part"} \union Dir

Phase == {"DISCOVERING", "STAGING_FILES", "VERIFYING_FILES", "PUBLISHING_DATABASE",
          "CLEANING_SOURCE", "FINALIZING"}

Terminal == {"COMPLETED", "SKIPPED", "FAILED", "CANCELLED"}

NoPlan == [status |-> "NONE", phase |-> "DISCOVERING", files |-> {}, source |-> row, target |-> home,
           print |-> [f \in Media |-> "none"]]

\* phase: that of the plan in memory, "NONE" while no plan is active.
Resting == [pc |-> "idle", todo |-> {}, seen |-> {}, phase |-> "NONE", stop |-> FALSE]

MigrationInit ==
  /\ row \in [Media -> Dir]
  /\ home \in Dir
  /\ disk = [d \in Dir \union {"staging"} |->
               [f \in Media |-> IF row[f] = d THEN "good" ELSE "none"]]
  /\ touched = {}
  /\ job = [status |-> "NONE", move |-> FALSE]
  /\ plan = NoPlan
  /\ exec = Resting

-----------------------------------------------------------------------------
(* The user and the queue                                                  *)

Write(d, f, content) == disk' = [disk EXCEPT ![d][f] = content]

UserWrites(d, f) ==
  /\ disk[d][f] # d
  /\ Write(d, f, d)
  /\ touched' = touched \union {f}
  /\ UNCHANGED <<row, home, job, plan, exec>>

UserRemoves(d, f) ==
  /\ disk[d][f] # "none"
  /\ Write(d, f, "none")
  /\ touched' = touched \union {f}
  /\ UNCHANGED <<row, home, job, plan, exec>>

UserTouches == \E d \in Dir, f \in Edited : UserWrites(d, f) \/ UserRemoves(d, f)

\* The artwork is given to another artist.
Reassign ==
  /\ home' \in Dir \ {home}
  /\ UNCHANGED <<disk, row, touched, job, plan, exec>>

\* A new job plans anew, and stages in a directory of its own.
EnqueueMigration ==
  /\ job.status = "NONE"
  /\ \E move \in BOOLEAN : job' = [status |-> "QUEUED", move |-> move]
  /\ plan' = NoPlan
  /\ disk' = [disk EXCEPT !["staging"] = [f \in Media |-> "none"]]
  /\ UNCHANGED <<row, home, touched, exec>>

JobBecomes(before, after) ==
  /\ job.status = before
  /\ job' = [job EXCEPT !.status = after]
  /\ UNCHANGED <<disk, row, home, touched, plan, exec>>

CommandMigration ==
  \/ JobBecomes("QUEUED", "PAUSED")
  \/ JobBecomes("RUNNING", "PAUSING")
  \/ JobBecomes("PAUSED", "QUEUED")
  \/ \E s \in {"QUEUED", "PAUSED"} : JobBecomes(s, "NONE")
  \/ \E s \in {"RUNNING", "PAUSING"} : JobBecomes(s, "CANCELLING")

RecoverMigration ==
  /\ exec.pc = "idle"
  /\ \/ \E after \in {"QUEUED", "NONE"} : JobBecomes("RUNNING", after)
     \/ JobBecomes("PAUSING", "PAUSED")
     \/ JobBecomes("CANCELLING", "NONE")

MigratorDies ==
  /\ exec.pc # "idle"
  /\ exec' = Resting
  /\ UNCHANGED <<disk, row, home, touched, job, plan>>

MigratorStops ==
  /\ exec.pc # "idle" /\ ~exec.stop
  /\ exec' = [exec EXCEPT !.stop = TRUE]
  /\ UNCHANGED <<disk, row, home, touched, job, plan>>

StartMigration ==
  /\ job.status = "QUEUED" /\ exec.pc = "idle"
  /\ job' = [job EXCEPT !.status = "RUNNING"]
  /\ exec' = [Resting EXCEPT !.pc = "prepare"]
  /\ UNCHANGED <<disk, row, home, touched, plan>>

-----------------------------------------------------------------------------
(* The shapes of a step                                                    *)

\* A fenced mutation commits only while the job is RUNNING.
Commits == job.status = "RUNNING"

\* isSameFilePath: such a file stays where it is.
Moving == {f \in plan.files : plan.source[f] # plan.target}

GoOn(pc, todo, phase) == exec' = [exec EXCEPT !.pc = pc, !.todo = todo, !.seen = {}, !.phase = phase]

\* cause: "error", or "action" for an error that needs a person.
Throw(cause) ==
  /\ exec' = [exec EXCEPT !.pc = cause]
  /\ UNCHANGED <<disk, row, home, touched, job, plan>>

\* checkpointItem, when the step's loop is through.
PhaseCheckpoint(pc, status, phase, next, todo) ==
  /\ exec.pc = pc /\ exec.todo = {}
  /\ IF Commits
     THEN /\ plan' = [plan EXCEPT !.status = status, !.phase = phase]
          /\ GoOn(next, todo, IF status = "RUNNING" THEN phase ELSE "NONE")
          /\ UNCHANGED <<disk, row, home, touched, job>>
     ELSE Throw("error")

\* One turn of a loop over the files, which begins with throwIfAborted.
Turning(pc, f) == exec.pc = pc /\ f \in exec.todo /\ exec.seen = {} /\ ~exec.stop

FileDone(f) == exec' = [exec EXCEPT !.todo = @ \ {f}, !.seen = {}]

\* The loops look at the signal; a requested control is noticed at some heartbeat.
Interrupted ==
  /\ \/ exec.pc = "prepare"
     \/ exec.pc \in {"stage", "copy", "clean"} /\ exec.todo # {} /\ exec.seen = {}
  /\ exec.stop \/ job.status \in {"PAUSING", "CANCELLING"}
  /\ Throw("error")

\* A file operation, a query or a transaction fails.
MigrationFault == exec.pc \notin {"idle", "error", "action", "finish"} /\ Throw("error")

-----------------------------------------------------------------------------
(* Planning                                                                *)

\* A plan whose publication was only begun counts as published.
ResumesCleaningBug(phase) == phase \in {"PUBLISHING_DATABASE", "CLEANING_SOURCE", "FINALIZING"}

\* A plan past its publication is never staged again.
ResumesCleaning(phase) == phase \in {"CLEANING_SOURCE", "FINALIZING"}

\* What processArtworkPlan does first with a plan.
Entry(p) ==
  CASE p.status \in Terminal -> "finish"
    [] p.status \notin Terminal /\ \A f \in p.files : p.source[f] = p.target -> "same"
    [] OTHER -> IF ResumesCleaning(p.phase) THEN "toClean" ELSE "begin"

Adopt(p) ==
  /\ plan' = p
  /\ GoOn(Entry(p), {}, IF p.status \in Terminal THEN "NONE" ELSE p.phase)
  /\ UNCHANGED <<disk, row, home, touched, job>>

NewPlan == [NoPlan EXCEPT !.status = "PENDING", !.files = Media]

\* prepareArtworkPlan.  An artwork that cannot be planned gets an item without
\* files, terminal or waiting for a person.
PreparePlan ==
  /\ exec.pc = "prepare" /\ ~exec.stop
  /\ IF plan.status # "NONE" THEN Adopt(plan)
     ELSE IF ~Commits THEN Throw("error")
     ELSE \/ Adopt(NewPlan)
          \/ \E s \in {"FAILED", "SKIPPED"} : Adopt([NoPlan EXCEPT !.status = s])
          \/ /\ plan' = [NoPlan EXCEPT !.status = "ACTION_REQUIRED"]
             /\ GoOn("action", {}, "DISCOVERING")
             /\ UNCHANGED <<disk, row, home, touched, job>>

\* publishArtwork finds the artwork as planned.  An item without files has no
\* target directory.
AsPlanned ==
  /\ plan.files # {}
  /\ home = plan.target
  /\ \A f \in plan.files : row[f] \in {plan.source[f], plan.target}

SkipSamePaths ==
  /\ exec.pc = "same"
  /\ IF Commits /\ AsPlanned
     THEN /\ plan' = [plan EXCEPT !.status = "SKIPPED", !.phase = "FINALIZING"]
          /\ GoOn("finish", {}, "NONE")
          /\ UNCHANGED <<disk, row, home, touched, job>>
     ELSE Throw(IF Commits THEN "action" ELSE "error")

-----------------------------------------------------------------------------
(* Copying                                                                 *)

Source(f) == disk[plan.source[f]][f]

Target(f) == disk[plan.target][f]

Staged(f) == disk["staging"][f]

BeginStaging == PhaseCheckpoint("begin", "RUNNING", "STAGING_FILES", "stage", Moving)

\* stageMigrationFile, between the checkpoints STAGING and STAGED.
StageFile(f) ==
  /\ Turning("stage", f)
  /\ IF ~Commits THEN Throw("error")
     ELSE IF Source(f) = "none" /\ plan.print[f] = "none" THEN Throw("permanent")
     ELSE IF \/ Source(f) = "none"
             \/ plan.print[f] \notin {"none", Source(f)}
             \/ Staged(f) \notin {"none", Source(f)} THEN Throw("action")
     ELSE /\ Write("staging", f, Source(f))
          /\ plan' = [plan EXCEPT !.print[f] = Source(f)]
          /\ FileDone(f)
          /\ UNCHANGED <<row, home, touched, job>>

\* copyFileExclusive, or the checkpoint after it, fails: what it wrote remains.
CopyBreaks(f) ==
  /\ Turning("stage", f) \/ Turning("copy", f)
  /\ \E from \in {plan.source[f], "staging"}, to \in {"staging", plan.target} :
       /\ <<exec.pc, from, to>> \in {<<"stage", plan.source[f], "staging">>, <<"copy", "staging", plan.target>>}
       /\ disk[from][f] # "none" /\ disk[to][f] = "none"
       /\ exec.pc = "copy" => plan.print[f] = Staged(f) /\ plan.print[f] = Source(f)
       /\ \E written \in {"part", disk[from][f]} : Write(to, f, written)
  /\ exec' = [exec EXCEPT !.pc = "error"]
  /\ UNCHANGED <<row, home, touched, job, plan>>

BeginPublishing == PhaseCheckpoint("stage", "RUNNING", "VERIFYING_FILES", "copy", Moving)

\* publishMigrationFile and the checkpoint PUBLISHED.
PublishFile(f) ==
  /\ Turning("copy", f)
  /\ IF Staged(f) # plan.print[f] \/ Source(f) # plan.print[f] \/ Target(f) \notin {"none", plan.print[f]}
     THEN Throw("action")
     ELSE /\ Write(plan.target, f, plan.print[f])
          /\ IF Commits THEN FileDone(f) ELSE exec' = [exec EXCEPT !.pc = "error"]
          /\ UNCHANGED <<row, home, touched, job, plan>>

BeginVerifying == PhaseCheckpoint("copy", "RUNNING", "PUBLISHING_DATABASE", "verify", Moving)

\* verifyPreparedMigrationFile.
VerifyFile(f) ==
  /\ exec.pc = "verify" /\ f \in exec.todo
  /\ IF {Source(f), Staged(f), Target(f)} # {plan.print[f]} THEN Throw("action")
     ELSE FileDone(f) /\ UNCHANGED <<disk, row, home, touched, job, plan>>

\* The answer to the commit may be lost.
PublishArtwork ==
  /\ exec.pc = "verify" /\ exec.todo = {}
  /\ IF Commits /\ AsPlanned
     THEN /\ row' = [f \in Media |-> plan.target]
          /\ plan' = [plan EXCEPT !.status = "RUNNING", !.phase = "CLEANING_SOURCE"]
          /\ GoOn("toClean", {}, "CLEANING_SOURCE") \/ exec' = [exec EXCEPT !.pc = "error"]
          /\ UNCHANGED <<disk, home, touched, job>>
     ELSE Throw(IF Commits THEN "action" ELSE "error")

-----------------------------------------------------------------------------
(* Cleaning the source                                                     *)

BeginCleaning == PhaseCheckpoint("toClean", "RUNNING", "CLEANING_SOURCE", "clean", Moving)

\* removeAttemptStaging and the checkpoint COMPLETED.
Cleaned(f) ==
  /\ IF Commits THEN FileDone(f) ELSE exec' = [exec EXCEPT !.pc = "error", !.seen = {}]
  /\ UNCHANGED <<row, home, touched, job, plan>>

\* cleanupPublishedSource up to the fingerprint of the source.
LookAtSource(f) ==
  /\ Turning("clean", f)
  /\ IF job.move => plan.print[f] # "none" /\ Target(f) = plan.print[f] /\ Source(f) = "none"
     THEN Write("staging", f, "none") /\ Cleaned(f)
     ELSE IF plan.print[f] = "none" \/ Target(f) # plan.print[f] \/ Source(f) # plan.print[f]
     THEN Throw("action")
     ELSE exec' = [exec EXCEPT !.seen = {f}] /\ UNCHANGED <<disk, row, home, touched, job, plan>>

\* The file is removed because it was right a moment ago.
RemoveSourceBug(f) ==
  /\ exec.pc = "clean" /\ f \in exec.seen
  /\ disk' = [disk EXCEPT ![plan.source[f]][f] = "none", !["staging"][f] = "none"]
  /\ Cleaned(f)

\* The last look and the unlink: no file system makes them one step, but nothing
\* of the program lies between them.
RemoveSource(f) ==
  /\ exec.pc = "clean" /\ f \in exec.seen
  /\ IF Source(f) = "none" \/ Target(f) = "none" THEN Throw("error")
     ELSE IF Source(f) # plan.print[f] \/ Target(f) # plan.print[f] THEN Throw("action")
     ELSE /\ disk' = [disk EXCEPT ![plan.source[f]][f] = "none", !["staging"][f] = "none"]
          /\ Cleaned(f)

CompleteArtwork == PhaseCheckpoint("clean", "COMPLETED", "FINALIZING", "finish", {})

-----------------------------------------------------------------------------
(* Endings                                                                 *)

Settle(itemStatus, jobStatus) ==
  /\ plan' = IF exec.phase = "NONE" THEN plan
             ELSE [plan EXCEPT !.status = itemStatus, !.phase = exec.phase]
  /\ job' = [job EXCEPT !.status = jobStatus]
  /\ exec' = Resting
  /\ UNCHANGED <<disk, row, home, touched>>

\* finalizeRequestedControl.
ControlMigration ==
  /\ exec.pc \in {"finish", "error", "action"}
  /\ \/ job.status = "PAUSING" /\ Settle("PAUSED", "PAUSED")
     \/ job.status = "CANCELLING" /\ Settle("CANCELLED", "NONE")
     \/ job.status = "RUNNING" /\ exec.stop /\ Settle("RETRY_WAIT", "QUEUED")

FinishMigration ==
  /\ exec.pc = "finish" /\ Commits /\ ~exec.stop
  /\ \E status \in {"NONE", "QUEUED"} : Settle("NONE", status)

\* finalizeActionRequired.
AskForAction == exec.pc = "action" /\ Commits /\ ~exec.stop /\ Settle("ACTION_REQUIRED", "PAUSED")

\* finalizeRetryOrFail: attempts may or may not be left.
RetryOrFail ==
  /\ exec.pc = "error" /\ Commits /\ ~exec.stop
  /\ Settle("RETRY_WAIT", "QUEUED") \/ Settle("FAILED", "NONE")

\* closePlan: a permanent failure of the artwork does not end the job.
CloseFailedPlan ==
  /\ exec.pc = "permanent"
  /\ IF Commits
     THEN /\ plan' = [plan EXCEPT !.status = "FAILED", !.phase = exec.phase]
          /\ GoOn("finish", {}, "NONE")
          /\ UNCHANGED <<disk, row, home, touched, job>>
     ELSE Throw("error")

-----------------------------------------------------------------------------

MigrateFile(f) ==
  \/ StageFile(f) \/ CopyBreaks(f) \/ PublishFile(f) \/ VerifyFile(f)
  \/ LookAtSource(f) \/ RemoveSource(f)

MigrationNext ==
  \/ UserTouches \/ Reassign \/ EnqueueMigration \/ CommandMigration \/ RecoverMigration
  \/ MigratorDies \/ MigratorStops \/ StartMigration \/ Interrupted \/ MigrationFault
  \/ PreparePlan \/ SkipSamePaths
  \/ BeginStaging \/ BeginPublishing \/ BeginVerifying \/ PublishArtwork
  \/ BeginCleaning \/ CompleteArtwork
  \/ \E f \in Media : MigrateFile(f)
  \/ ControlMigration \/ FinishMigration \/ AskForAction \/ RetryOrFail \/ CloseFailedPlan

MigrationSpec == MigrationInit /\ [][MigrationNext]_migrationVars

-----------------------------------------------------------------------------
(* Properties                                                              *)

(* Whatever fails, is interrupted or is done again: the media row of a file the
   user left alone refers to a whole copy of it. *)
RowHasItsFile == \A f \in Media \ touched : disk[row[f]][f] = "good"

(* No step of the program removes the last copy of a content from the library,
   be it the artwork's or one a user put in its place meanwhile. *)
NoContentIsLost ==
  [][UserTouches
     \/ \A d \in Dir, f \in Media :
          disk[d][f] \in {"good"} \union Dir =>
            \E e \in Dir : disk'[e][f] = disk[d][f]]_migrationVars
=============================================================================
