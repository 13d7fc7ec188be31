--------------------------- MODULE Migration_proofs ---------------------------
(***************************************************************************)
(* Proofs about Migration, for all directories, media files and edits.     *)
(*                                                                         *)
(* A step that empties a place of the library is RemoveSource only, and it *)
(* has just seen the same content at the target.  That the target is       *)
(* another place needs the inductive invariant: the files a loop still has *)
(* to treat are files that move, which no replanning changes under it.     *)
(***************************************************************************)
EXTENDS Migration, TLAPS

PlanOK(p) ==
  /\ p = [status |-> p.status, phase |-> p.phase, files |-> p.files, source |-> p.source,
          target |-> p.target, print |-> p.print]
  /\ p.files \subseteq Media
  /\ p.source \in [Media -> Dir]
  /\ p.target \in Dir
  /\ p.print \in [Media -> Content]

ExecOK ==
  /\ exec = [pc |-> exec.pc, todo |-> exec.todo, seen |-> exec.seen, phase |-> exec.phase,
             stop |-> exec.stop]
  /\ exec.todo \subseteq Media
  /\ exec.seen \subseteq Media

JobOK == job = [status |-> job.status, move |-> job.move]

DiskOK ==
  /\ disk \in [Dir \union {"staging"} -> [Media -> Content]]
  /\ row \in [Media -> Dir]
  /\ home \in Dir

MigrationTypes == DiskOK /\ JobOK /\ PlanOK(plan) /\ ExecOK

\* An execution has a job that is not over, and rests without files to treat.
ExecutionHasJob ==
  IF exec.pc = "idle" THEN exec.todo = {} /\ exec.seen = {}
                      ELSE job.status \in {"RUNNING", "PAUSING", "CANCELLING"}

\* The files a loop has still to treat change their place.
TodoMoves == \A f \in exec.todo \union exec.seen : plan.source[f] # plan.target

MInv == MigrationTypes /\ ExecutionHasJob /\ TodoMoves

LEMMA NoPlanOK == ASSUME DiskOK PROVE PlanOK(NoPlan) /\ PlanOK(NewPlan)
  <1>1. PlanOK(NoPlan)
    BY DEF DiskOK, NoPlan, PlanOK, Content
  <1>2. /\ NewPlan = [NoPlan EXCEPT !.status = "PENDING", !.files = Media]
        /\ NewPlan.files = Media /\ NewPlan.source = NoPlan.source
        /\ NewPlan.target = NoPlan.target /\ NewPlan.print = NoPlan.print
    BY DEF NewPlan, NoPlan
  <1> QED BY <1>1, <1>2 DEF PlanOK

LEMMA InitMInv == MigrationInit => MInv
  <1> SUFFICES ASSUME MigrationInit PROVE MInv
    OBVIOUS
  <1>1. DiskOK
    BY DEF MigrationInit, DiskOK, Content
  <1>2. PlanOK(plan)
    BY <1>1, NoPlanOK DEF MigrationInit
  <1>3. JobOK /\ ExecOK /\ exec.pc = "idle" /\ exec.todo = {} /\ exec.seen = {}
    BY DEF MigrationInit, Resting, ExecOK, JobOK
  <1> QED BY <1>1, <1>2, <1>3 DEF MInv, MigrationTypes, ExecutionHasJob, TodoMoves

-----------------------------------------------------------------------------
(* Shapes of steps                                                         *)

\* A step that leaves the plan's places alone and takes no files on.
LEMMA KeepsMoves ==
  ASSUME MInv, MigrationTypes', ExecutionHasJob',
         plan'.source = plan.source, plan'.target = plan.target,
         exec'.todo \union exec'.seen \subseteq exec.todo \union exec.seen
  PROVE  MInv'
  BY DEF MInv, TodoMoves

LEMMA TakesNothing ==
  ASSUME MigrationTypes', ExecutionHasJob', exec'.todo = {}, exec'.seen = {}
  PROVE  MInv'
  BY DEF MInv, TodoMoves

LEMMA ThrowStep ==
  ASSUME MInv, NEW cause, cause # "idle", exec.pc # "idle", Throw(cause)
  PROVE  MInv'
  <1>1. exec' = [exec EXCEPT !.pc = cause] /\ UNCHANGED <<disk, row, home, job, plan>>
    BY DEF Throw
  <1>2. ExecOK' /\ exec'.pc = cause /\ exec'.todo = exec.todo /\ exec'.seen = exec.seen
    BY <1>1 DEF MInv, MigrationTypes, ExecOK
  <1>3. MigrationTypes'
    BY <1>1, <1>2 DEF MInv, MigrationTypes, DiskOK, JobOK, PlanOK
  <1>4. ExecutionHasJob'
    BY <1>1, <1>2 DEF MInv, ExecutionHasJob
  <1> QED BY <1>1, <1>2, <1>3, <1>4, KeepsMoves

\* The plan's status and phase are written and the next loop begins.
LEMMA CheckpointStep ==
  ASSUME MInv, NEW pc, NEW status, NEW phase, NEW next, pc # "idle", next # "idle",
         NEW todo \in SUBSET Moving, PhaseCheckpoint(pc, status, phase, next, todo)
  PROVE  MInv'
  <1>0. exec.pc # "idle"
    BY DEF PhaseCheckpoint
  <1>1. CASE ~Commits
    <2>1. Throw("error")
      BY <1>1 DEF PhaseCheckpoint
    <2> QED BY <1>0, <2>1, ThrowStep
  <1>2. CASE Commits
    <2>1. PICK memory : /\ plan' = [plan EXCEPT !.status = status, !.phase = phase]
                        /\ exec' = [exec EXCEPT !.pc = next, !.todo = todo, !.seen = {}, !.phase = memory]
                        /\ UNCHANGED <<disk, row, home, touched, job>>
      BY <1>2 DEF PhaseCheckpoint, GoOn
    <2>2. todo \subseteq Media /\ \A f \in todo : plan.source[f] # plan.target
      BY DEF Moving, MInv, MigrationTypes, PlanOK
    <2>3. ExecOK' /\ exec'.todo = todo /\ exec'.seen = {} /\ exec'.pc = next
      BY <2>1, <2>2 DEF MInv, MigrationTypes, ExecOK
    <2>4. PlanOK(plan)' /\ plan'.source = plan.source /\ plan'.target = plan.target
      BY <2>1 DEF MInv, MigrationTypes, PlanOK
    <2>5. DiskOK' /\ JobOK'
      BY <2>1 DEF MInv, MigrationTypes, DiskOK, JobOK
    <2>6. ExecutionHasJob'
      BY <1>0, <2>1, <2>3 DEF MInv, ExecutionHasJob
    <2> QED BY <2>2, <2>3, <2>4, <2>5, <2>6 DEF MInv, MigrationTypes, TodoMoves
  <1> QED BY <1>1, <1>2

\* A step that begins another part of the execution without files.
LEMMA GoOnStep ==
  ASSUME MInv, NEW pc, NEW memory, exec.pc # "idle", pc # "idle",
         GoOn(pc, {}, memory), PlanOK(plan)', DiskOK', job' = job
  PROVE  MInv'
  <1>1. ExecOK' /\ exec'.pc = pc /\ exec'.todo = {} /\ exec'.seen = {}
    BY DEF GoOn, MInv, MigrationTypes, ExecOK
  <1>2. JobOK' /\ ExecutionHasJob'
    BY <1>1 DEF MInv, MigrationTypes, JobOK, ExecutionHasJob
  <1> QED BY <1>1, <1>2, TakesNothing DEF MigrationTypes

LEMMA AdoptStep ==
  ASSUME MInv, NEW p, PlanOK(p), exec.pc # "idle", Adopt(p)
  PROVE  MInv'
  <1>1. Entry(p) # "idle"
    BY DEF Entry
  <1>2. PICK memory : GoOn(Entry(p), {}, memory)
    BY DEF Adopt
  <1>3. PlanOK(plan)' /\ DiskOK' /\ job' = job
    BY DEF Adopt, MInv, MigrationTypes, DiskOK
  <1> QED BY <1>1, <1>2, <1>3, GoOnStep

LEMMA SettleStep ==
  ASSUME MInv, NEW itemStatus, NEW jobStatus, Settle(itemStatus, jobStatus)
  PROVE  MInv'
  <1>1. PlanOK(plan)'
    BY DEF Settle, MInv, MigrationTypes, PlanOK
  <1>2. JobOK'
    BY DEF Settle, MInv, MigrationTypes, JobOK
  <1>3. DiskOK'
    BY DEF Settle, MInv, MigrationTypes, DiskOK
  <1>4. ExecOK' /\ exec'.pc = "idle" /\ exec'.todo = {} /\ exec'.seen = {}
    BY DEF Settle, Resting, ExecOK
  <1> QED BY <1>1, <1>2, <1>3, <1>4, TakesNothing DEF MigrationTypes, ExecutionHasJob

LEMMA JobStep ==
  ASSUME MInv, NEW before, NEW after, JobBecomes(before, after),
         \/ exec.pc = "idle"
         \/ before \notin {"RUNNING", "PAUSING", "CANCELLING"}
         \/ after \in {"RUNNING", "PAUSING", "CANCELLING"}
  PROVE  MInv'
  <1>1. JobOK' /\ job'.status = after /\ job.status = before
    BY DEF JobBecomes, MInv, MigrationTypes, JobOK
  <1>2. plan' = plan /\ exec' = exec /\ DiskOK' /\ PlanOK(plan)' /\ ExecOK'
    BY DEF JobBecomes, MInv, MigrationTypes, DiskOK, PlanOK, ExecOK
  <1>3. ExecutionHasJob'
    BY <1>1, <1>2 DEF MInv, ExecutionHasJob
  <1> QED BY <1>1, <1>2, <1>3, KeepsMoves DEF MigrationTypes

\* A turn of a loop is over, or fails: it may have written files and fingerprints.
LEMMA TurnStep ==
  ASSUME MInv, NEW f \in Media, exec.pc # "idle", DiskOK', PlanOK(plan)', job' = job,
         plan'.source = plan.source, plan'.target = plan.target,
         \/ FileDone(f)
         \/ exec' = [exec EXCEPT !.pc = "error"]
         \/ exec' = [exec EXCEPT !.pc = "error", !.seen = {}]
  PROVE  MInv'
  <1>1. ExecOK' /\ exec'.todo \subseteq exec.todo /\ exec'.seen \subseteq exec.seen /\ exec'.pc # "idle"
    <2>1. CASE FileDone(f)
      BY <2>1 DEF FileDone, MInv, MigrationTypes, ExecOK
    <2>2. CASE exec' = [exec EXCEPT !.pc = "error"] \/ exec' = [exec EXCEPT !.pc = "error", !.seen = {}]
      BY <2>2 DEF MInv, MigrationTypes, ExecOK
    <2> QED BY <2>1, <2>2
  <1>2. JobOK' /\ ExecutionHasJob'
    BY <1>1 DEF MInv, MigrationTypes, JobOK, ExecutionHasJob
  <1> QED BY <1>1, <1>2, KeepsMoves DEF MigrationTypes

-----------------------------------------------------------------------------
(* The actions keep the invariant                                          *)

LEMMA WriteOK ==
  ASSUME DiskOK, NEW d \in Dir \union {"staging"}, NEW f \in Media, NEW content \in Content,
         Write(d, f, content), UNCHANGED <<row, home>>
  PROVE  DiskOK'
  BY DEF DiskOK, Write

\* Looking up a file gives a content, and the loops' file is one of the plan.
LEMMA LookUp ==
  ASSUME MInv, NEW f \in Media
  PROVE  /\ Source(f) \in Content /\ Staged(f) \in Content /\ Target(f) \in Content
         /\ plan.print[f] \in Content
         /\ plan.source[f] \in Dir /\ plan.target \in Dir
  BY DEF MInv, MigrationTypes, DiskOK, PlanOK, Source, Staged, Target

LEMMA StageFileStep == ASSUME MInv, NEW f \in Media, StageFile(f) PROVE MInv'
  <1>1. exec.pc # "idle"
    BY DEF StageFile, Turning
  <1>2. CASE Throw("error") \/ Throw("permanent") \/ Throw("action")
    BY <1>1, <1>2, ThrowStep
  <1>3. CASE ~(Throw("error") \/ Throw("permanent") \/ Throw("action"))
    <2>1. /\ Write("staging", f, Source(f)) /\ plan' = [plan EXCEPT !.print[f] = Source(f)]
          /\ FileDone(f) /\ UNCHANGED <<row, home, touched, job>>
      BY <1>3 DEF StageFile
    <2>2. DiskOK'
      BY <2>1, LookUp, WriteOK DEF MInv, MigrationTypes
    <2>3. PlanOK(plan)' /\ plan'.source = plan.source /\ plan'.target = plan.target
      BY <2>1, LookUp DEF MInv, MigrationTypes, PlanOK
    <2> QED BY <1>1, <2>1, <2>2, <2>3, TurnStep
  <1> QED BY <1>2, <1>3

LEMMA CopyBreaksStep == ASSUME MInv, NEW f \in Media, CopyBreaks(f) PROVE MInv'
  <1>1. exec.pc # "idle" /\ exec' = [exec EXCEPT !.pc = "error"]
        /\ UNCHANGED <<row, home, touched, job, plan>>
    BY DEF CopyBreaks, Turning
  <1>2. PICK from \in {plan.source[f], "staging"}, to \in {"staging", plan.target} :
          \E written \in {"part", disk[from][f]} : Write(to, f, written)
    BY DEF CopyBreaks
  <1>3. PICK written \in {"part", disk[from][f]} : Write(to, f, written)
    BY <1>2
  <1>4. from \in Dir \union {"staging"} /\ to \in Dir \union {"staging"}
    BY LookUp
  <1>5. written \in Content
    BY <1>4 DEF MInv, MigrationTypes, DiskOK, Content
  <1>6. DiskOK' /\ PlanOK(plan)'
    BY <1>1, <1>3, <1>4, <1>5, WriteOK DEF MInv, MigrationTypes, PlanOK
  <1> QED BY <1>1, <1>6, TurnStep

LEMMA PublishFileStep == ASSUME MInv, NEW f \in Media, PublishFile(f) PROVE MInv'
  <1>1. exec.pc # "idle"
    BY DEF PublishFile, Turning
  <1>2. CASE Throw("action")
    BY <1>1, <1>2, ThrowStep
  <1>3. CASE ~Throw("action")
    <2>1. /\ Write(plan.target, f, plan.print[f]) /\ UNCHANGED <<row, home, touched, job, plan>>
          /\ FileDone(f) \/ exec' = [exec EXCEPT !.pc = "error"]
      BY <1>3 DEF PublishFile
    <2>2. DiskOK' /\ PlanOK(plan)'
      BY <2>1, LookUp, WriteOK DEF MInv, MigrationTypes, PlanOK
    <2> QED BY <1>1, <2>1, <2>2, TurnStep
  <1> QED BY <1>2, <1>3

LEMMA VerifyFileStep == ASSUME MInv, NEW f \in Media, VerifyFile(f) PROVE MInv'
  <1>1. exec.pc # "idle"
    BY DEF VerifyFile
  <1>2. CASE Throw("action")
    BY <1>1, <1>2, ThrowStep
  <1>3. CASE ~Throw("action")
    <2>1. FileDone(f) /\ UNCHANGED <<disk, row, home, touched, job, plan>>
      BY <1>3 DEF VerifyFile
    <2>2. DiskOK' /\ PlanOK(plan)'
      BY <2>1 DEF MInv, MigrationTypes, DiskOK, PlanOK
    <2> QED BY <1>1, <2>1, <2>2, TurnStep
  <1> QED BY <1>2, <1>3

LEMMA LookAtSourceStep == ASSUME MInv, NEW f \in Media, LookAtSource(f) PROVE MInv'
  <1>1. exec.pc # "idle" /\ f \in exec.todo
    BY DEF LookAtSource, Turning
  <1>2. CASE Throw("action")
    BY <1>1, <1>2, ThrowStep
  <1>3. CASE Write("staging", f, "none") /\ Cleaned(f)
    <2>1. DiskOK' /\ PlanOK(plan)'
      BY <1>3, WriteOK DEF Cleaned, MInv, MigrationTypes, PlanOK, Content
    <2> QED BY <1>1, <1>3, <2>1, TurnStep DEF Cleaned
  <1>4. CASE exec' = [exec EXCEPT !.seen = {f}] /\ UNCHANGED <<disk, row, home, touched, job, plan>>
    <2>1. ExecOK' /\ exec'.pc = exec.pc /\ exec'.todo = exec.todo /\ exec'.seen = {f}
      BY <1>4 DEF MInv, MigrationTypes, ExecOK
    <2>2. DiskOK' /\ JobOK' /\ PlanOK(plan)'
      BY <1>4 DEF MInv, MigrationTypes, DiskOK, JobOK, PlanOK
    <2>3. ExecutionHasJob'
      BY <1>1, <1>4, <2>1 DEF MInv, ExecutionHasJob
    <2> QED BY <1>1, <1>4, <2>1, <2>2, <2>3 DEF MInv, MigrationTypes, TodoMoves
  <1> QED BY <1>2, <1>3, <1>4 DEF LookAtSource

LEMMA RemoveSourceStep == ASSUME MInv, NEW f \in Media, RemoveSource(f) PROVE MInv'
  <1>1. exec.pc # "idle"
    BY DEF RemoveSource
  <1>2. CASE Throw("error") \/ Throw("action")
    BY <1>1, <1>2, ThrowStep
  <1>3. CASE ~(Throw("error") \/ Throw("action"))
    <2>1. /\ disk' = [disk EXCEPT ![plan.source[f]][f] = "none", !["staging"][f] = "none"]
          /\ Cleaned(f)
      BY <1>3 DEF RemoveSource
    <2>2. DiskOK' /\ PlanOK(plan)'
      BY <2>1, LookUp DEF Cleaned, MInv, MigrationTypes, DiskOK, PlanOK, Content
    <2> QED BY <1>1, <2>1, <2>2, TurnStep DEF Cleaned
  <1> QED BY <1>2, <1>3

LEMMA PreparePlanStep == ASSUME MInv, PreparePlan PROVE MInv'
  <1>1. exec.pc # "idle" /\ PlanOK(plan) /\ PlanOK(NoPlan) /\ PlanOK(NewPlan)
    BY NoPlanOK DEF PreparePlan, MInv, MigrationTypes
  <1>2. ASSUME NEW status, NEW p, p = [NoPlan EXCEPT !.status = status] PROVE PlanOK(p)
    BY <1>1, <1>2 DEF PlanOK, NoPlan
  <1>3. CASE Adopt(plan) \/ Adopt(NewPlan)
    BY <1>1, <1>3, AdoptStep
  <1>4. CASE Throw("error")
    BY <1>1, <1>4, ThrowStep
  <1>5. CASE \E s \in {"FAILED", "SKIPPED"} : Adopt([NoPlan EXCEPT !.status = s])
    BY <1>1, <1>2, <1>5, AdoptStep
  <1>6. CASE /\ plan' = [NoPlan EXCEPT !.status = "ACTION_REQUIRED"]
             /\ GoOn("action", {}, "DISCOVERING")
             /\ UNCHANGED <<disk, row, home, touched, job>>
    <2>1. PlanOK(plan')
      BY <1>2, <1>6
    <2>2. PlanOK(plan)' /\ DiskOK'
      BY <1>6, <2>1 DEF PlanOK, MInv, MigrationTypes, DiskOK
    <2> QED BY <1>1, <1>6, <2>2, GoOnStep
  <1> QED BY <1>3, <1>4, <1>5, <1>6 DEF PreparePlan

\* The steps that write the plan and go on without files, or throw.
LEMMA PlanStep ==
  ASSUME MInv, SkipSamePaths \/ PublishArtwork \/ CloseFailedPlan
  PROVE  MInv'
  <1>1. exec.pc # "idle"
    BY DEF SkipSamePaths, PublishArtwork, CloseFailedPlan
  <1>2. CASE Throw("error") \/ Throw("action")
    BY <1>1, <1>2, ThrowStep
  <1>3. ASSUME ~(Throw("error") \/ Throw("action"))
        PROVE  \E status, phase :
                 /\ plan' = [plan EXCEPT !.status = status, !.phase = phase]
                 /\ row' = row \/ row' = [f \in Media |-> plan.target]
                 /\ UNCHANGED <<disk, home, touched, job>>
                 /\ \/ GoOn("finish", {}, "NONE") \/ GoOn("toClean", {}, "CLEANING_SOURCE")
                    \/ exec' = [exec EXCEPT !.pc = "error"]
    <2>1. CASE SkipSamePaths
      BY <1>3, <2>1 DEF SkipSamePaths
    <2>2. CASE PublishArtwork
      BY <1>3, <2>2 DEF PublishArtwork
    <2>3. CASE CloseFailedPlan
      BY <1>3, <2>3 DEF CloseFailedPlan
    <2> QED BY <2>1, <2>2, <2>3
  <1>4. CASE ~(Throw("error") \/ Throw("action"))
    <2>1. PICK status, phase :
            /\ plan' = [plan EXCEPT !.status = status, !.phase = phase]
            /\ row' = row \/ row' = [f \in Media |-> plan.target]
            /\ UNCHANGED <<disk, home, touched, job>>
            /\ \/ GoOn("finish", {}, "NONE") \/ GoOn("toClean", {}, "CLEANING_SOURCE")
               \/ exec' = [exec EXCEPT !.pc = "error"]
      BY <1>3, <1>4
    <2>2. PlanOK(plan)' /\ plan'.source = plan.source /\ plan'.target = plan.target
      BY <2>1 DEF MInv, MigrationTypes, PlanOK
    <2>3. DiskOK'
      BY <2>1 DEF MInv, MigrationTypes, DiskOK, PlanOK
    <2>4. CASE exec' = [exec EXCEPT !.pc = "error"]
      <3>1. ExecOK' /\ exec'.pc = "error" /\ exec'.todo = exec.todo /\ exec'.seen = exec.seen
        BY <2>4 DEF MInv, MigrationTypes, ExecOK
      <3>2. JobOK' /\ ExecutionHasJob'
        BY <1>1, <2>1, <3>1 DEF MInv, MigrationTypes, JobOK, ExecutionHasJob
      <3> QED BY <2>2, <2>3, <3>1, <3>2, KeepsMoves DEF MigrationTypes
    <2>5. CASE GoOn("finish", {}, "NONE") \/ GoOn("toClean", {}, "CLEANING_SOURCE")
      BY <1>1, <2>1, <2>2, <2>3, <2>5, GoOnStep
    <2> QED BY <2>1, <2>4, <2>5
  <1> QED BY <1>2, <1>4

LEMMA ExecutionStep ==
  ASSUME MInv, MigratorDies \/ MigratorStops \/ StartMigration
  PROVE  MInv'
  <1>1. /\ DiskOK' /\ PlanOK(plan)' /\ JobOK' /\ plan' = plan
    BY DEF MigratorDies, MigratorStops, StartMigration, MInv, MigrationTypes, DiskOK, PlanOK, JobOK
  <1>2. CASE MigratorDies
    <2>1. ExecOK' /\ exec'.pc = "idle" /\ exec'.todo = {} /\ exec'.seen = {}
      BY <1>2 DEF MigratorDies, Resting, ExecOK
    <2> QED BY <1>1, <2>1, TakesNothing DEF MigrationTypes, ExecutionHasJob
  <1>3. CASE MigratorStops
    <2>1. ExecOK' /\ exec'.pc = exec.pc /\ exec'.todo = exec.todo /\ exec'.seen = exec.seen
      BY <1>3 DEF MigratorStops, MInv, MigrationTypes, ExecOK
    <2>2. ExecutionHasJob'
      BY <1>3, <2>1 DEF MigratorStops, MInv, ExecutionHasJob
    <2> QED BY <1>1, <2>1, <2>2, KeepsMoves DEF MigrationTypes
  <1>4. CASE StartMigration
    <2>1. ExecOK' /\ exec'.pc = "prepare" /\ exec'.todo = {} /\ exec'.seen = {}
      BY <1>4 DEF StartMigration, Resting, ExecOK
    <2>2. job'.status = "RUNNING"
      BY <1>4 DEF StartMigration, MInv, MigrationTypes, JobOK
    <2> QED BY <1>1, <2>1, <2>2, TakesNothing DEF MigrationTypes, ExecutionHasJob
  <1> QED BY <1>2, <1>3, <1>4

\* The user touches neither plans nor executions.
LEMMA UserStep == ASSUME MInv, UserTouches \/ Reassign PROVE MInv'
  <1>1. UNCHANGED <<job, plan, exec>>
    BY DEF UserTouches, UserWrites, UserRemoves, Reassign
  <1>2. DiskOK'
    <2>1. ASSUME NEW d \in Dir, NEW f \in Edited, UserWrites(d, f) \/ UserRemoves(d, f) PROVE DiskOK'
      BY <2>1, WriteOK, MigrationAssumption DEF UserWrites, UserRemoves, MInv, MigrationTypes, Content
    <2>2. CASE Reassign
      BY <2>2 DEF Reassign, MInv, MigrationTypes, DiskOK
    <2> QED BY <2>1, <2>2 DEF UserTouches
  <1>3. JobOK' /\ PlanOK(plan)' /\ ExecOK' /\ ExecutionHasJob'
    BY <1>1 DEF MInv, MigrationTypes, JobOK, PlanOK, ExecOK, ExecutionHasJob
  <1> QED BY <1>1, <1>2, <1>3, KeepsMoves DEF MigrationTypes

LEMMA EnqueueStep == ASSUME MInv, EnqueueMigration PROVE MInv'
  <1>1. exec.todo = {} /\ exec.seen = {} /\ exec' = exec /\ plan' = NoPlan /\ exec.pc = "idle"
    BY DEF EnqueueMigration, MInv, ExecutionHasJob
  <1>2. DiskOK'
    BY DEF EnqueueMigration, MInv, MigrationTypes, DiskOK, Content
  <1>3. PlanOK(plan)'
    BY <1>1, NoPlanOK DEF MInv, MigrationTypes, PlanOK
  <1>4. JobOK' /\ ExecOK'
    BY DEF EnqueueMigration, MInv, MigrationTypes, JobOK, ExecOK
  <1> QED BY <1>1, <1>2, <1>3, <1>4, TakesNothing DEF MigrationTypes, ExecutionHasJob

LEMMA CommandStep == ASSUME MInv, CommandMigration \/ RecoverMigration PROVE MInv'
  <1>1. CASE CommandMigration
    BY <1>1, JobStep DEF CommandMigration
  <1>2. CASE RecoverMigration
    BY <1>2, JobStep DEF RecoverMigration
  <1> QED BY <1>1, <1>2

LEMMA MovingTodo == Moving \in SUBSET Moving /\ {} \in SUBSET Moving
  OBVIOUS

LEMMA LoopStep ==
  ASSUME MInv, \/ BeginStaging \/ BeginPublishing \/ BeginVerifying \/ BeginCleaning \/ CompleteArtwork
  PROVE  MInv'
  BY MovingTodo, CheckpointStep
  DEF BeginStaging, BeginPublishing, BeginVerifying, BeginCleaning, CompleteArtwork

LEMMA EndStep ==
  ASSUME MInv, \/ Interrupted \/ MigrationFault \/ ControlMigration \/ FinishMigration
               \/ AskForAction \/ RetryOrFail
  PROVE  MInv'
  <1>1. CASE Interrupted \/ MigrationFault
    <2>1. exec.pc # "idle" /\ Throw("error")
      BY <1>1 DEF Interrupted, MigrationFault
    <2> QED BY <2>1, ThrowStep
  <1>2. CASE ControlMigration \/ FinishMigration \/ AskForAction \/ RetryOrFail
    BY <1>2, SettleStep DEF ControlMigration, FinishMigration, AskForAction, RetryOrFail
  <1> QED BY <1>1, <1>2

LEMMA NextMInv == ASSUME MInv, [MigrationNext]_migrationVars PROVE MInv'
  <1>1. CASE MigrationNext
    <2>1. CASE UserTouches \/ Reassign
      BY <2>1, UserStep
    <2>2. CASE EnqueueMigration
      BY <2>2, EnqueueStep
    <2>3. CASE CommandMigration \/ RecoverMigration
      BY <2>3, CommandStep
    <2>4. CASE MigratorDies \/ MigratorStops \/ StartMigration
      BY <2>4, ExecutionStep
    <2>5. CASE PreparePlan
      BY <2>5, PreparePlanStep
    <2>6. CASE SkipSamePaths \/ PublishArtwork \/ CloseFailedPlan
      BY <2>6, PlanStep
    <2>7. CASE BeginStaging \/ BeginPublishing \/ BeginVerifying \/ BeginCleaning \/ CompleteArtwork
      BY <2>7, LoopStep
    <2>8. ASSUME NEW f \in Media, MigrateFile(f) PROVE MInv'
      BY <2>8, StageFileStep, CopyBreaksStep, PublishFileStep, VerifyFileStep, LookAtSourceStep,
         RemoveSourceStep DEF MigrateFile
    <2>9. CASE \/ Interrupted \/ MigrationFault \/ ControlMigration \/ FinishMigration
               \/ AskForAction \/ RetryOrFail
      BY <2>9, EndStep
    <2> QED BY <1>1, <2>1, <2>2, <2>3, <2>4, <2>5, <2>6, <2>7, <2>8, <2>9 DEF MigrationNext
  <1>2. CASE UNCHANGED migrationVars
    BY <1>2 DEF migrationVars, MInv, MigrationTypes, DiskOK, JobOK, PlanOK, ExecOK,
                ExecutionHasJob, TodoMoves
  <1> QED BY <1>1, <1>2

\* The invariant of the migration: an execution belongs to a live job, and what a
\* loop still has to treat are files whose source is not their target.
THEOREM MigrationInvariance == MigrationSpec => []MInv
  BY InitMInv, NextMInv, PTL DEF MigrationSpec

-----------------------------------------------------------------------------
(* No content is lost                                                      *)

Kept ==
  \A d \in Dir, f \in Media :
    disk[d][f] \in {"good"} \union Dir => \E e \in Dir : disk'[e][f] = disk[d][f]

LEMMA SameDiskKeeps == ASSUME disk' = disk PROVE Kept
  BY DEF Kept

\* A file is written where there was none, or the same, or in the staging directory.
LEMMA WriteKeeps ==
  ASSUME DiskOK, NEW d \in Dir \union {"staging"}, NEW f \in Media, NEW content,
         Write(d, f, content), d = "staging" \/ disk[d][f] \in {"none", content}
  PROVE  Kept
  <1> SUFFICES ASSUME NEW e \in Dir, NEW g \in Media, disk[e][g] \in {"good"} \union Dir
               PROVE  disk'[e][g] = disk[e][g]
    BY DEF Kept
  <1>1. disk[e][g] # "none" /\ e # "staging"
    BY MigrationAssumption
  <1>2. CASE e = d /\ g = f
    BY <1>1, <1>2 DEF DiskOK, Write
  <1>3. CASE ~(e = d /\ g = f)
    BY <1>3 DEF DiskOK, Write
  <1> QED BY <1>2, <1>3

\* The source is removed while the target holds the same content.
LEMMA RemoveKeeps ==
  ASSUME DiskOK, NEW f \in Media, NEW source \in Dir, NEW target \in Dir, source # target,
         disk[source][f] = disk[target][f],
         disk' = [disk EXCEPT ![source][f] = "none", !["staging"][f] = "none"]
  PROVE  Kept
  <1> SUFFICES ASSUME NEW d \in Dir, NEW g \in Media
               PROVE  \E e \in Dir : disk'[e][g] = disk[d][g]
    BY DEF Kept
  <1>1. d # "staging" /\ target # "staging" /\ source # "staging"
    BY MigrationAssumption
  <1>2. CASE d = source /\ g = f
    <2>1. disk'[target][f] = disk[target][f]
      BY <1>1 DEF DiskOK
    <2> QED BY <1>2, <2>1
  <1>3. CASE ~(d = source /\ g = f)
    <2>1. disk'[d][g] = disk[d][g]
      BY <1>1, <1>3 DEF DiskOK
    <2> QED BY <2>1
  <1> QED BY <1>2, <1>3

LEMMA FileKeeps == ASSUME MInv, NEW f \in Media, MigrateFile(f) PROVE Kept
  <1>0. DiskOK
    BY DEF MInv, MigrationTypes
  <1>1. CASE StageFile(f)
    <2>1. disk' = disk \/ Write("staging", f, Source(f))
      BY <1>1 DEF StageFile, Throw
    <2> QED BY <1>0, <2>1, SameDiskKeeps, WriteKeeps
  <1>2. CASE CopyBreaks(f)
    <2>1. PICK from \in {plan.source[f], "staging"}, to \in {"staging", plan.target} :
            /\ disk[to][f] = "none"
            /\ \E written \in {"part", disk[from][f]} : Write(to, f, written)
      BY <1>2 DEF CopyBreaks
    <2>2. PICK written \in {"part", disk[from][f]} : Write(to, f, written)
      BY <2>1
    <2>3. to \in Dir \union {"staging"}
      BY LookUp
    <2> QED BY <1>0, <2>1, <2>2, <2>3, WriteKeeps
  <1>3. CASE PublishFile(f)
    <2>1. \/ disk' = disk
          \/ Target(f) \in {"none", plan.print[f]} /\ Write(plan.target, f, plan.print[f])
      BY <1>3 DEF PublishFile, Throw
    <2> QED BY <1>0, <2>1, LookUp, SameDiskKeeps, WriteKeeps DEF Target
  <1>4. CASE VerifyFile(f)
    BY <1>4, SameDiskKeeps DEF VerifyFile, Throw
  <1>5. CASE LookAtSource(f)
    <2>1. disk' = disk \/ Write("staging", f, "none")
      BY <1>5 DEF LookAtSource, Throw
    <2> QED BY <1>0, <2>1, SameDiskKeeps, WriteKeeps
  <1>6. CASE RemoveSource(f)
    <2>1. CASE disk' = disk
      BY <2>1, SameDiskKeeps
    <2>2. CASE disk' # disk
      <3>1. /\ f \in exec.seen /\ Source(f) = Target(f)
            /\ disk' = [disk EXCEPT ![plan.source[f]][f] = "none", !["staging"][f] = "none"]
        BY <1>6, <2>2 DEF RemoveSource, Throw
      <3>2. plan.source[f] # plan.target
        BY <3>1 DEF MInv, TodoMoves
      <3> QED BY <1>0, <3>1, <3>2, LookUp, RemoveKeeps DEF Source, Target
    <2> QED BY <2>1, <2>2
  <1> QED BY <1>1, <1>2, <1>3, <1>4, <1>5, <1>6 DEF MigrateFile

LEMMA EnqueueKeeps == ASSUME EnqueueMigration, DiskOK PROVE Kept
  <1> SUFFICES ASSUME NEW d \in Dir, NEW f \in Media PROVE disk'[d][f] = disk[d][f]
    BY DEF Kept
  <1>1. d # "staging"
    BY MigrationAssumption
  <1> QED BY <1>1 DEF EnqueueMigration, DiskOK

\* The migration never removes the last copy of a content from the library: what a
\* step empties has just been seen whole at another place.
THEOREM ContentSurvives == MigrationSpec => NoContentIsLost
  <1>1. ASSUME MInv, [MigrationNext]_migrationVars
        PROVE  [UserTouches \/ Kept]_migrationVars
    <2>1. CASE UserTouches \/ UNCHANGED migrationVars
      BY <2>1
    <2>2. CASE EnqueueMigration
      BY <1>1, <2>2, EnqueueKeeps DEF MInv, MigrationTypes
    <2>3. ASSUME NEW f \in Media, MigrateFile(f) PROVE Kept
      BY <1>1, <2>3, FileKeeps
    <2>4. ASSUME MigrationNext, ~UserTouches, ~EnqueueMigration, ~ \E f \in Media : MigrateFile(f)
          PROVE  disk' = disk
      BY <2>4 DEF MigrationNext, Reassign, CommandMigration, RecoverMigration, JobBecomes, MigratorDies,
         MigratorStops, StartMigration, Interrupted, MigrationFault, Throw, PreparePlan, Adopt,
         SkipSamePaths, BeginStaging, BeginPublishing, BeginVerifying, PublishArtwork, BeginCleaning,
         CompleteArtwork, PhaseCheckpoint, ControlMigration, FinishMigration, AskForAction, RetryOrFail,
         Settle, CloseFailedPlan
    <2> QED BY <1>1, <2>1, <2>2, <2>3, <2>4, SameDiskKeeps
  <1> QED BY <1>1, MigrationInvariance, PTL DEF MigrationSpec, NoContentIsLost, Kept

-----------------------------------------------------------------------------
(* Every row has its file                                                  *)

LateCleaning == {"CLEANING_SOURCE", "FINALIZING"}

\* Sources are removed, or may be once the plan is resumed.
Cleaning ==
  \/ exec.pc \in {"toClean", "clean"}
  \/ exec.phase \in LateCleaning
  \/ plan.phase \in LateCleaning

\* A plan is removed from its sources only when the rows have left them.
CleansPublished == Cleaning => \A f \in Media : row[f] = plan.target

WholePlan == plan.files \in {{}, Media}

IdlePhase == exec.pc = "idle" => exec.phase = "NONE"

SameStays == exec.pc = "same" => \A f \in plan.files : plan.source[f] = plan.target

\* What the verification has passed holds until the publication, unless a user
\* steps in.
Verified ==
  exec.pc = "verify" =>
    \A f \in Moving \ exec.todo : f \in touched \/ {Source(f), Staged(f), Target(f)} = {plan.print[f]}

RowInv ==
  MInv /\ CleansPublished /\ WholePlan /\ IdlePhase /\ SameStays /\ Verified /\ RowHasItsFile

LEMMA InitRowInv == MigrationInit => RowInv
  <1> SUFFICES ASSUME MigrationInit PROVE RowInv
    OBVIOUS
  <1>1. exec.pc = "idle" /\ exec.phase = "NONE" /\ plan.phase = "DISCOVERING" /\ plan.files = {}
    BY DEF MigrationInit, Resting, NoPlan
  <1>2. RowHasItsFile
    BY DEF MigrationInit, RowHasItsFile
  <1> QED BY <1>1, <1>2, InitMInv
          DEF RowInv, CleansPublished, Cleaning, LateCleaning, WholePlan, IdlePhase, SameStays, Verified

\* Neither rows nor the plan's files and places change, and no check begins.
LEMMA Quiet ==
  ASSUME RowInv, MInv', RowHasItsFile', row' = row,
         plan'.files = plan.files, plan'.source = plan.source, plan'.target = plan.target,
         Cleaning' => Cleaning, IdlePhase', exec'.pc \notin {"same", "verify"}
  PROVE  RowInv'
  BY DEF RowInv, CleansPublished, WholePlan, SameStays, Verified

\* The execution stands still.
LEMMA Frozen ==
  ASSUME RowInv, MInv', UNCHANGED <<disk, row, touched, plan>>,
         exec'.pc = exec.pc, exec'.todo = exec.todo, exec'.phase = exec.phase
  PROVE  RowInv'
  BY DEF RowInv, CleansPublished, Cleaning, WholePlan, IdlePhase, SameStays, Verified, RowHasItsFile,
         Moving, Source, Staged, Target

LEMMA SameFiles == ASSUME RowHasItsFile, UNCHANGED <<disk, row, touched>> PROVE RowHasItsFile'
  BY DEF RowHasItsFile

\* A file is written where there was none, or the same, or in the staging directory.
LEMMA WriteServesRows ==
  ASSUME RowHasItsFile, DiskOK, NEW d \in Dir \union {"staging"}, NEW f \in Media, NEW content,
         Write(d, f, content), d = "staging" \/ disk[d][f] \in {"none", content},
         UNCHANGED <<row, touched>>
  PROVE  RowHasItsFile'
  <1> SUFFICES ASSUME NEW g \in Media \ touched PROVE disk'[row[g]][g] = "good"
    BY DEF RowHasItsFile
  <1>1. row[g] \in Dir /\ row[g] # "staging" /\ disk[row[g]][g] = "good"
    BY MigrationAssumption DEF RowHasItsFile, DiskOK
  <1> QED BY <1>1 DEF DiskOK, Write

LEMMA ThrowRow ==
  ASSUME RowInv, NEW cause, cause \notin {"idle", "same", "verify", "toClean", "clean"},
         exec.pc # "idle", Throw(cause)
  PROVE  RowInv'
  <1>1. MInv'
    BY ThrowStep DEF RowInv
  <1>2. exec'.pc = cause /\ exec'.phase = exec.phase /\ UNCHANGED <<disk, row, touched, plan>>
    BY DEF Throw, RowInv, MInv, MigrationTypes, ExecOK
  <1>3. RowHasItsFile'
    BY <1>2, SameFiles DEF RowInv
  <1> QED BY <1>1, <1>2, <1>3, Quiet DEF Cleaning, IdlePhase

LEMMA SettleRow ==
  ASSUME RowInv, NEW itemStatus, NEW jobStatus, Settle(itemStatus, jobStatus)
  PROVE  RowInv'
  <1>1. MInv'
    BY SettleStep DEF RowInv
  <1>2. /\ exec'.pc = "idle" /\ exec'.phase = "NONE" /\ UNCHANGED <<disk, row, touched>>
        /\ plan'.files = plan.files /\ plan'.source = plan.source /\ plan'.target = plan.target
        /\ plan'.phase \in {plan.phase, exec.phase}
    BY DEF Settle, Resting, RowInv, MInv, MigrationTypes, PlanOK
  <1>3. RowHasItsFile'
    BY <1>2, SameFiles DEF RowInv
  <1> QED BY <1>1, <1>2, <1>3, Quiet DEF Cleaning, IdlePhase, LateCleaning

LEMMA CheckpointRow ==
  ASSUME RowInv, NEW pc, NEW status, NEW phase, NEW next,
         pc # "idle", next \notin {"idle", "same"},
         NEW todo \in SUBSET Moving, PhaseCheckpoint(pc, status, phase, next, todo),
         phase \in LateCleaning \/ next \in {"toClean", "clean"} => Cleaning,
         next = "verify" => todo = Moving
  PROVE  RowInv'
  <1>0. exec.pc # "idle" /\ MInv'
    BY CheckpointStep DEF PhaseCheckpoint, RowInv
  <1>1. CASE ~Commits
    BY <1>0, <1>1, ThrowRow DEF PhaseCheckpoint
  <1>2. CASE Commits
    <2>1. PICK memory \in {phase, "NONE"} :
             /\ plan' = [plan EXCEPT !.status = status, !.phase = phase]
             /\ exec' = [exec EXCEPT !.pc = next, !.todo = todo, !.seen = {}, !.phase = memory]
             /\ UNCHANGED <<disk, row, home, touched, job>>
      BY <1>2 DEF PhaseCheckpoint, GoOn
    <2>2. exec'.pc = next /\ exec'.todo = todo /\ exec'.phase = memory
      BY <2>1 DEF RowInv, MInv, MigrationTypes, ExecOK
    <2>3. /\ plan'.phase = phase /\ plan'.files = plan.files /\ plan'.source = plan.source
          /\ plan'.target = plan.target
      BY <2>1 DEF RowInv, MInv, MigrationTypes, PlanOK
    <2>4. RowHasItsFile' /\ (Cleaning' => Cleaning) /\ IdlePhase'
      BY <2>1, <2>2, <2>3, SameFiles DEF RowInv, Cleaning, IdlePhase, LateCleaning
    <2>5. Moving' = Moving
      BY <2>3 DEF Moving
    <2>6. Verified'
      BY <2>2, <2>5 DEF Verified
    <2> QED BY <1>0, <2>1, <2>2, <2>3, <2>4, <2>6
            DEF RowInv, CleansPublished, WholePlan, SameStays
  <1> QED BY <1>1, <1>2

\* One turn of a loop that copies or cleans.
LEMMA TurnRow ==
  ASSUME RowInv, MInv', RowHasItsFile', NEW f \in Media, row' = row,
         exec.pc \in {"stage", "copy", "clean"},
         plan'.files = plan.files, plan'.source = plan.source, plan'.target = plan.target,
         plan'.phase = plan.phase,
         \/ FileDone(f)
         \/ exec' = [exec EXCEPT !.pc = "error"]
         \/ exec' = [exec EXCEPT !.pc = "error", !.seen = {}]
         \/ exec' = [exec EXCEPT !.seen = {f}]
  PROVE  RowInv'
  <1>1. exec'.pc \in {exec.pc, "error"} /\ exec'.phase = exec.phase
    <2>1. CASE FileDone(f)
      BY <2>1 DEF FileDone, RowInv, MInv, MigrationTypes, ExecOK
    <2>2. CASE ~FileDone(f)
      BY <2>2 DEF RowInv, MInv, MigrationTypes, ExecOK
    <2> QED BY <2>1, <2>2
  <1> QED BY <1>1, Quiet DEF Cleaning, IdlePhase

LEMMA StageFileRow == ASSUME RowInv, NEW f \in Media, StageFile(f) PROVE RowInv'
  <1>1. MInv /\ MInv' /\ DiskOK /\ RowHasItsFile /\ exec.pc = "stage"
    BY StageFileStep DEF RowInv, MInv, MigrationTypes, StageFile, Turning
  <1>2. CASE Throw("error") \/ Throw("permanent") \/ Throw("action")
    BY <1>1, <1>2, ThrowRow
  <1>3. CASE ~(Throw("error") \/ Throw("permanent") \/ Throw("action"))
    <2>1. /\ Write("staging", f, Source(f)) /\ plan' = [plan EXCEPT !.print[f] = Source(f)]
          /\ FileDone(f) /\ UNCHANGED <<row, home, touched, job>>
      BY <1>3 DEF StageFile
    <2>2. RowHasItsFile'
      BY <1>1, <2>1, WriteServesRows
    <2>3. /\ plan'.files = plan.files /\ plan'.source = plan.source /\ plan'.target = plan.target
          /\ plan'.phase = plan.phase
      BY <1>1, <2>1 DEF MInv, MigrationTypes, PlanOK
    <2> QED BY <1>1, <2>1, <2>2, <2>3, TurnRow
  <1> QED BY <1>2, <1>3

LEMMA CopyBreaksRow == ASSUME RowInv, NEW f \in Media, CopyBreaks(f) PROVE RowInv'
  <1>1. /\ MInv /\ MInv' /\ DiskOK /\ RowHasItsFile /\ exec.pc \in {"stage", "copy"}
        /\ exec' = [exec EXCEPT !.pc = "error"] /\ UNCHANGED <<row, touched, plan>>
    BY CopyBreaksStep DEF RowInv, MInv, MigrationTypes, CopyBreaks, Turning
  <1>2. PICK from \in {plan.source[f], "staging"}, to \in {"staging", plan.target} :
          /\ disk[to][f] = "none"
          /\ \E written \in {"part", disk[from][f]} : Write(to, f, written)
    BY DEF CopyBreaks
  <1>3. PICK written \in {"part", disk[from][f]} : Write(to, f, written)
    BY <1>2
  <1>4. to \in Dir \union {"staging"}
    BY <1>1, LookUp
  <1>5. RowHasItsFile'
    BY <1>1, <1>2, <1>3, <1>4, WriteServesRows
  <1> QED BY <1>1, <1>5, TurnRow

LEMMA PublishFileRow == ASSUME RowInv, NEW f \in Media, PublishFile(f) PROVE RowInv'
  <1>1. MInv /\ MInv' /\ DiskOK /\ RowHasItsFile /\ exec.pc = "copy"
    BY PublishFileStep DEF RowInv, MInv, MigrationTypes, PublishFile, Turning
  <1>2. CASE Throw("action")
    BY <1>1, <1>2, ThrowRow
  <1>3. CASE ~Throw("action")
    <2>1. /\ Target(f) \in {"none", plan.print[f]}
          /\ Write(plan.target, f, plan.print[f]) /\ UNCHANGED <<row, home, touched, job, plan>>
          /\ FileDone(f) \/ exec' = [exec EXCEPT !.pc = "error"]
      BY <1>3 DEF PublishFile
    <2>2. plan.target \in Dir
      BY <1>1, LookUp
    <2>3. RowHasItsFile'
      BY <1>1, <2>1, <2>2, WriteServesRows DEF Target
    <2> QED BY <1>1, <2>1, <2>3, TurnRow
  <1> QED BY <1>2, <1>3

LEMMA VerifyFileRow == ASSUME RowInv, NEW f \in Media, VerifyFile(f) PROVE RowInv'
  <1>1. MInv /\ MInv' /\ RowHasItsFile /\ exec.pc = "verify"
    BY VerifyFileStep DEF RowInv, VerifyFile
  <1>2. CASE Throw("action")
    BY <1>1, <1>2, ThrowRow
  <1>3. CASE ~Throw("action")
    <2>1. /\ {Source(f), Staged(f), Target(f)} = {plan.print[f]}
          /\ FileDone(f) /\ UNCHANGED <<disk, row, home, touched, job, plan>>
      BY <1>3 DEF VerifyFile
    <2>2. exec'.pc = "verify" /\ exec'.todo = exec.todo \ {f} /\ exec'.phase = exec.phase
      BY <1>1, <2>1 DEF FileDone, MInv, MigrationTypes, ExecOK
    <2>3. RowHasItsFile'
      BY <1>1, <2>1, SameFiles
    <2>4. /\ Moving' = Moving
          /\ \A g \in Media : Source(g)' = Source(g) /\ Staged(g)' = Staged(g) /\ Target(g)' = Target(g)
      BY <2>1 DEF Moving, Source, Staged, Target
    <2>5. Moving \subseteq Media
      BY <1>1 DEF Moving, MInv, MigrationTypes, PlanOK
    <2>6. Verified'
      <3> SUFFICES ASSUME NEW g \in Moving \ exec'.todo
                   PROVE  g \in touched \/ {Source(g), Staged(g), Target(g)} = {plan.print[g]}
        BY <2>1, <2>4, <2>5 DEF Verified
      <3>1. CASE g = f
        BY <2>1, <3>1
      <3>2. CASE g # f
        BY <1>1, <2>2, <3>2 DEF RowInv, Verified
      <3> QED BY <3>1, <3>2
    <2> QED BY <1>1, <2>1, <2>2, <2>3, <2>6
            DEF RowInv, CleansPublished, Cleaning, WholePlan, IdlePhase, SameStays
  <1> QED BY <1>2, <1>3

LEMMA LookAtSourceRow == ASSUME RowInv, NEW f \in Media, LookAtSource(f) PROVE RowInv'
  <1>1. MInv /\ MInv' /\ DiskOK /\ RowHasItsFile /\ exec.pc = "clean"
    BY LookAtSourceStep DEF RowInv, MInv, MigrationTypes, LookAtSource, Turning
  <1>2. CASE Throw("action")
    BY <1>1, <1>2, ThrowRow
  <1>3. CASE Write("staging", f, "none") /\ Cleaned(f)
    <2>1. RowHasItsFile'
      BY <1>1, <1>3, WriteServesRows DEF Cleaned
    <2> QED BY <1>1, <1>3, <2>1, TurnRow DEF Cleaned
  <1>4. CASE exec' = [exec EXCEPT !.seen = {f}] /\ UNCHANGED <<disk, row, home, touched, job, plan>>
    BY <1>1, <1>4, SameFiles, TurnRow
  <1> QED BY <1>2, <1>3, <1>4 DEF LookAtSource

\* The rows have left the source that is removed.
LEMMA RemoveSourceRow == ASSUME RowInv, NEW f \in Media, RemoveSource(f) PROVE RowInv'
  <1>1. MInv /\ MInv' /\ DiskOK /\ RowHasItsFile /\ exec.pc = "clean"
    BY RemoveSourceStep DEF RowInv, MInv, MigrationTypes, RemoveSource
  <1>2. CASE Throw("error") \/ Throw("action")
    BY <1>1, <1>2, ThrowRow
  <1>3. CASE ~(Throw("error") \/ Throw("action"))
    <2>1. /\ f \in exec.seen
          /\ disk' = [disk EXCEPT ![plan.source[f]][f] = "none", !["staging"][f] = "none"]
          /\ Cleaned(f)
      BY <1>3 DEF RemoveSource
    <2>2. plan.source[f] # plan.target /\ \A g \in Media : row[g] = plan.target
      BY <1>1, <2>1 DEF RowInv, CleansPublished, Cleaning, MInv, TodoMoves
    <2>3. plan.target \in Dir /\ plan.source[f] \in Dir /\ plan.target # "staging"
      BY <1>1, LookUp, MigrationAssumption
    <2>4. \A g \in Media : disk'[row[g]][g] = disk[row[g]][g]
      BY <1>1, <2>1, <2>2, <2>3 DEF DiskOK
    <2>5. RowHasItsFile'
      BY <1>1, <2>1, <2>4 DEF RowHasItsFile, Cleaned
    <2> QED BY <1>1, <2>1, <2>5, TurnRow DEF Cleaned
  <1> QED BY <1>2, <1>3

LEMMA AdoptRow ==
  ASSUME RowInv, NEW p, PlanOK(p), exec.pc # "idle", Adopt(p), p.files \in {{}, Media},
         \/ p = plan
         \/ p.phase \notin LateCleaning
  PROVE  RowInv'
  <1>1. MInv'
    BY AdoptStep DEF RowInv
  <1>2. PICK memory \in {"NONE", p.phase} :
          exec' = [exec EXCEPT !.pc = Entry(p), !.todo = {}, !.seen = {}, !.phase = memory]
    BY DEF Adopt, GoOn
  <1>3. exec'.pc = Entry(p) /\ exec'.phase = memory /\ plan' = p /\ UNCHANGED <<disk, row, touched>>
    BY <1>2 DEF Adopt, RowInv, MInv, MigrationTypes, ExecOK
  <1>4. /\ Entry(p) \in {"finish", "same", "toClean", "begin"}
        /\ Entry(p) = "same" => \A f \in p.files : p.source[f] = p.target
        /\ Entry(p) = "toClean" => p.phase \in LateCleaning
    BY DEF Entry, ResumesCleaning, LateCleaning
  <1>5. Cleaning' => p.phase \in LateCleaning
    BY <1>3, <1>4 DEF Cleaning, LateCleaning
  <1>6. CleansPublished'
    BY <1>3, <1>5 DEF RowInv, CleansPublished, Cleaning
  <1>7. WholePlan' /\ IdlePhase' /\ SameStays' /\ Verified' /\ RowHasItsFile'
    BY <1>3, <1>4, SameFiles DEF RowInv, WholePlan, IdlePhase, SameStays, Verified
  <1> QED BY <1>1, <1>6, <1>7 DEF RowInv

LEMMA PreparePlanRow == ASSUME RowInv, PreparePlan PROVE RowInv'
  <1>1. exec.pc # "idle" /\ PlanOK(plan) /\ PlanOK(NoPlan) /\ PlanOK(NewPlan) /\ MInv'
    BY NoPlanOK, PreparePlanStep DEF PreparePlan, RowInv, MInv, MigrationTypes
  <1>2. ASSUME NEW status, NEW p, p = [NoPlan EXCEPT !.status = status]
        PROVE  PlanOK(p) /\ p.files = {} /\ p.phase = "DISCOVERING"
    BY <1>1, <1>2 DEF PlanOK, NoPlan
  <1>3. CASE Adopt(plan)
    BY <1>1, <1>3, AdoptRow DEF RowInv, WholePlan
  <1>4. CASE Adopt(NewPlan)
    <2>1. NewPlan.files = Media /\ NewPlan.phase = "DISCOVERING"
      BY DEF NewPlan, NoPlan
    <2> QED BY <1>1, <1>4, <2>1, AdoptRow DEF LateCleaning
  <1>5. CASE \E s \in {"FAILED", "SKIPPED"} : Adopt([NoPlan EXCEPT !.status = s])
    <2>1. PICK s \in {"FAILED", "SKIPPED"} : Adopt([NoPlan EXCEPT !.status = s])
      BY <1>5
    <2> DEFINE p == [NoPlan EXCEPT !.status = s]
    <2>2. PlanOK(p) /\ p.files = {} /\ p.phase = "DISCOVERING"
      BY <1>2
    <2>3. Adopt(p)
      BY <2>1
    <2> HIDE DEF p
    <2> QED BY <1>1, <2>2, <2>3, AdoptRow DEF LateCleaning
  <1>6. CASE Throw("error")
    BY <1>1, <1>6, ThrowRow
  <1>7. CASE /\ plan' = [NoPlan EXCEPT !.status = "ACTION_REQUIRED"]
             /\ GoOn("action", {}, "DISCOVERING")
             /\ UNCHANGED <<disk, row, home, touched, job>>
    <2>1. plan'.files = {} /\ plan'.phase = "DISCOVERING"
      BY <1>2, <1>7
    <2>2. exec'.pc = "action" /\ exec'.phase = "DISCOVERING"
      BY <1>7 DEF GoOn, RowInv, MInv, MigrationTypes, ExecOK
    <2>3. RowHasItsFile'
      BY <1>7, SameFiles DEF RowInv
    <2> QED BY <1>1, <2>1, <2>2, <2>3
            DEF RowInv, CleansPublished, Cleaning, LateCleaning, WholePlan, IdlePhase, SameStays, Verified
  <1> QED BY <1>3, <1>4, <1>5, <1>6, <1>7 DEF PreparePlan

LEMMA SkipRow == ASSUME RowInv, SkipSamePaths PROVE RowInv'
  <1>1. MInv /\ MInv' /\ exec.pc = "same"
    BY PlanStep DEF RowInv, SkipSamePaths
  <1>2. CASE Throw("error") \/ Throw("action")
    BY <1>1, <1>2, ThrowRow
  <1>3. CASE ~(Throw("error") \/ Throw("action"))
    <2>1. /\ AsPlanned /\ plan' = [plan EXCEPT !.status = "SKIPPED", !.phase = "FINALIZING"]
          /\ GoOn("finish", {}, "NONE") /\ UNCHANGED <<disk, row, home, touched, job>>
      BY <1>3 DEF SkipSamePaths
    <2>2. plan'.files = plan.files /\ plan'.target = plan.target
      BY <1>1, <2>1 DEF MInv, MigrationTypes, PlanOK
    <2>3. \A f \in Media : row[f] = plan.target
      BY <1>1, <2>1 DEF AsPlanned, RowInv, WholePlan, SameStays
    <2>4. exec'.pc = "finish"
      BY <1>1, <2>1 DEF GoOn, MInv, MigrationTypes, ExecOK
    <2>5. RowHasItsFile'
      BY <2>1, SameFiles DEF RowInv
    <2> QED BY <1>1, <2>1, <2>2, <2>3, <2>4, <2>5
            DEF RowInv, CleansPublished, WholePlan, IdlePhase, SameStays, Verified
  <1> QED BY <1>2, <1>3

\* What was verified is what the rows refer to from now on.
LEMMA PublishRow == ASSUME RowInv, PublishArtwork PROVE RowInv'
  <1>1. MInv /\ MInv' /\ exec.pc = "verify" /\ exec.todo = {}
    BY PlanStep DEF RowInv, PublishArtwork
  <1>2. CASE Throw("error") \/ Throw("action")
    BY <1>1, <1>2, ThrowRow
  <1>3. CASE ~(Throw("error") \/ Throw("action"))
    <2>1. /\ AsPlanned /\ plan' = [plan EXCEPT !.status = "RUNNING", !.phase = "CLEANING_SOURCE"]
          /\ row' = [f \in Media |-> plan.target] /\ UNCHANGED <<disk, home, touched, job>>
          /\ GoOn("toClean", {}, "CLEANING_SOURCE") \/ exec' = [exec EXCEPT !.pc = "error"]
      BY <1>3 DEF PublishArtwork
    <2>2. plan'.files = plan.files /\ plan'.target = plan.target /\ plan.files = Media
      BY <1>1, <2>1 DEF MInv, MigrationTypes, PlanOK, AsPlanned, RowInv, WholePlan
    <2>3. ASSUME NEW f \in Media \ touched PROVE disk[plan.target][f] = "good"
      <3>1. disk[row[f]][f] = "good" /\ row[f] \in {plan.source[f], plan.target}
        BY <2>1, <2>2 DEF RowInv, RowHasItsFile, AsPlanned
      <3>2. CASE row[f] = plan.target
        BY <3>1, <3>2
      <3>3. CASE row[f] # plan.target
        <4>1. f \in Moving \ exec.todo
          BY <1>1, <2>2, <3>1, <3>3 DEF Moving
        <4>2. {Source(f), Staged(f), Target(f)} = {plan.print[f]}
          BY <1>1, <4>1 DEF RowInv, Verified
        <4>3. Source(f) = Target(f)
          BY <4>2
        <4> QED BY <3>1, <3>3, <4>3 DEF Source, Target
      <3> QED BY <3>2, <3>3
    <2>4. RowHasItsFile' /\ \A f \in Media : row'[f] = plan.target
      BY <2>1, <2>3 DEF RowHasItsFile
    <2>5. exec'.pc \in {"toClean", "error"}
      BY <1>1, <2>1 DEF GoOn, MInv, MigrationTypes, ExecOK
    <2> QED BY <1>1, <2>2, <2>4, <2>5
            DEF RowInv, CleansPublished, WholePlan, IdlePhase, SameStays, Verified
  <1> QED BY <1>2, <1>3

LEMMA CloseRow == ASSUME RowInv, CloseFailedPlan PROVE RowInv'
  <1>1. MInv /\ MInv' /\ exec.pc = "permanent"
    BY PlanStep DEF RowInv, CloseFailedPlan
  <1>2. CASE Throw("error")
    BY <1>1, <1>2, ThrowRow
  <1>3. CASE ~Throw("error")
    <2>1. /\ plan' = [plan EXCEPT !.status = "FAILED", !.phase = exec.phase]
          /\ GoOn("finish", {}, "NONE") /\ UNCHANGED <<disk, row, home, touched, job>>
      BY <1>3 DEF CloseFailedPlan
    <2>2. /\ plan'.files = plan.files /\ plan'.source = plan.source /\ plan'.target = plan.target
          /\ plan'.phase = exec.phase
      BY <1>1, <2>1 DEF MInv, MigrationTypes, PlanOK
    <2>3. exec'.pc = "finish" /\ exec'.phase = "NONE"
      BY <1>1, <2>1 DEF GoOn, MInv, MigrationTypes, ExecOK
    <2>4. RowHasItsFile' /\ (Cleaning' => Cleaning) /\ IdlePhase'
      BY <2>1, <2>2, <2>3, SameFiles DEF RowInv, Cleaning, LateCleaning, IdlePhase
    <2> QED BY <1>1, <2>1, <2>2, <2>3, <2>4, Quiet
  <1> QED BY <1>2, <1>3

LEMMA ExecutionRow == ASSUME RowInv, MigratorDies \/ MigratorStops \/ StartMigration PROVE RowInv'
  <1>1. MInv' /\ UNCHANGED <<disk, row, touched, plan>>
    BY ExecutionStep DEF RowInv, MigratorDies, MigratorStops, StartMigration
  <1>2. CASE MigratorDies \/ StartMigration
    <2>1. exec'.pc \in {"idle", "prepare"} /\ exec'.phase = "NONE"
      BY <1>2 DEF MigratorDies, StartMigration, Resting
    <2>2. RowHasItsFile'
      BY <1>1, SameFiles DEF RowInv
    <2> QED BY <1>1, <2>1, <2>2, Quiet DEF Cleaning, LateCleaning, IdlePhase
  <1>3. CASE MigratorStops
    <2>1. exec'.pc = exec.pc /\ exec'.todo = exec.todo /\ exec'.phase = exec.phase
      BY <1>3 DEF MigratorStops, RowInv, MInv, MigrationTypes, ExecOK
    <2> QED BY <1>1, <2>1, Frozen
  <1> QED BY <1>2, <1>3

\* What the user touches is nobody's promise any more.
LEMMA UserRow == ASSUME RowInv, UserTouches PROVE RowInv'
  <1>1. MInv' /\ UNCHANGED <<row, plan, exec>>
    BY UserStep DEF RowInv, UserTouches, UserWrites, UserRemoves
  <1>2. PICK d \in Dir, f \in Media, content \in Dir \union {"none"} :
          Write(d, f, content) /\ touched' = touched \union {f}
    BY MigrationAssumption DEF UserTouches, UserWrites, UserRemoves
  <1>3. \A e \in Dir \union {"staging"}, g \in Media : g # f => disk'[e][g] = disk[e][g]
    BY <1>2 DEF Write, RowInv, MInv, MigrationTypes, DiskOK
  <1>4. RowHasItsFile'
    BY <1>1, <1>2, <1>3 DEF RowHasItsFile, RowInv, MInv, MigrationTypes, DiskOK
  <1>5. Moving' = Moving /\ Moving \subseteq Media
    BY <1>1 DEF Moving, RowInv, MInv, MigrationTypes, PlanOK
  <1>6. \A g \in Media : g # f => Source(g)' = Source(g) /\ Staged(g)' = Staged(g) /\ Target(g)' = Target(g)
    BY <1>1, <1>3 DEF Source, Staged, Target, RowInv, MInv, MigrationTypes, PlanOK
  <1>7. Verified'
    BY <1>1, <1>2, <1>5, <1>6 DEF Verified, RowInv
  <1> QED BY <1>1, <1>4, <1>7 DEF RowInv, CleansPublished, Cleaning, WholePlan, IdlePhase, SameStays

LEMMA EnqueueRow == ASSUME RowInv, EnqueueMigration PROVE RowInv'
  <1>1. MInv' /\ exec.pc = "idle" /\ exec.phase = "NONE" /\ exec' = exec
    BY EnqueueStep DEF RowInv, EnqueueMigration, MInv, ExecutionHasJob, IdlePhase
  <1>2. plan'.files = {} /\ plan'.phase = "DISCOVERING"
    BY DEF EnqueueMigration, NoPlan
  <1>3. RowHasItsFile'
    <2> SUFFICES ASSUME NEW f \in Media \ touched PROVE disk'[row[f]][f] = "good"
      BY DEF EnqueueMigration, RowHasItsFile
    <2>1. row[f] \in Dir /\ row[f] # "staging" /\ disk[row[f]][f] = "good"
      BY MigrationAssumption DEF RowInv, RowHasItsFile, MInv, MigrationTypes, DiskOK
    <2> QED BY <2>1 DEF EnqueueMigration, RowInv, MInv, MigrationTypes, DiskOK
  <1> QED BY <1>1, <1>2, <1>3
          DEF RowInv, CleansPublished, Cleaning, LateCleaning, WholePlan, IdlePhase, SameStays, Verified

LEMMA JobRow == ASSUME RowInv, CommandMigration \/ RecoverMigration \/ Reassign PROVE RowInv'
  <1>1. MInv'
    BY CommandStep, UserStep DEF RowInv
  <1>2. UNCHANGED <<disk, row, touched, plan, exec>>
    BY DEF CommandMigration, RecoverMigration, Reassign, JobBecomes
  <1> QED BY <1>1, <1>2, Frozen

LEMMA LoopRow ==
  ASSUME RowInv, \/ BeginStaging \/ BeginPublishing \/ BeginVerifying \/ BeginCleaning \/ CompleteArtwork
  PROVE  RowInv'
  <1>1. CASE BeginStaging
    BY <1>1, MovingTodo, CheckpointRow DEF BeginStaging, LateCleaning
  <1>2. CASE BeginPublishing
    BY <1>2, MovingTodo, CheckpointRow DEF BeginPublishing, LateCleaning
  <1>3. CASE BeginVerifying
    BY <1>3, MovingTodo, CheckpointRow DEF BeginVerifying, LateCleaning
  <1>4. CASE BeginCleaning
    <2>1. Cleaning
      BY <1>4 DEF BeginCleaning, PhaseCheckpoint, Cleaning
    <2> QED BY <1>4, <2>1, MovingTodo, CheckpointRow DEF BeginCleaning
  <1>5. CASE CompleteArtwork
    <2>1. Cleaning
      BY <1>5 DEF CompleteArtwork, PhaseCheckpoint, Cleaning
    <2> QED BY <1>5, <2>1, MovingTodo, CheckpointRow DEF CompleteArtwork
  <1> QED BY <1>1, <1>2, <1>3, <1>4, <1>5

LEMMA EndRow ==
  ASSUME RowInv, \/ Interrupted \/ MigrationFault \/ ControlMigration \/ FinishMigration
                 \/ AskForAction \/ RetryOrFail
  PROVE  RowInv'
  <1>1. CASE Interrupted \/ MigrationFault
    <2>1. exec.pc # "idle" /\ Throw("error")
      BY <1>1 DEF Interrupted, MigrationFault
    <2> QED BY <2>1, ThrowRow
  <1>2. CASE ControlMigration \/ FinishMigration \/ AskForAction \/ RetryOrFail
    BY <1>2, SettleRow DEF ControlMigration, FinishMigration, AskForAction, RetryOrFail
  <1> QED BY <1>1, <1>2

LEMMA NextRowInv == ASSUME RowInv, [MigrationNext]_migrationVars PROVE RowInv'
  <1>1. CASE MigrationNext
    <2>1. CASE UserTouches
      BY <2>1, UserRow
    <2>2. CASE EnqueueMigration
      BY <2>2, EnqueueRow
    <2>3. CASE CommandMigration \/ RecoverMigration \/ Reassign
      BY <2>3, JobRow
    <2>4. CASE MigratorDies \/ MigratorStops \/ StartMigration
      BY <2>4, ExecutionRow
    <2>5. CASE PreparePlan
      BY <2>5, PreparePlanRow
    <2>6. CASE SkipSamePaths \/ PublishArtwork \/ CloseFailedPlan
      BY <2>6, SkipRow, PublishRow, CloseRow
    <2>7. CASE BeginStaging \/ BeginPublishing \/ BeginVerifying \/ BeginCleaning \/ CompleteArtwork
      BY <2>7, LoopRow
    <2>8. ASSUME NEW f \in Media, MigrateFile(f) PROVE RowInv'
      BY <2>8, StageFileRow, CopyBreaksRow, PublishFileRow, VerifyFileRow, LookAtSourceRow,
         RemoveSourceRow DEF MigrateFile
    <2>9. CASE \/ Interrupted \/ MigrationFault \/ ControlMigration \/ FinishMigration
               \/ AskForAction \/ RetryOrFail
      BY <2>9, EndRow
    <2> QED BY <1>1, <2>1, <2>2, <2>3, <2>4, <2>5, <2>6, <2>7, <2>8, <2>9 DEF MigrationNext
  <1>2. CASE UNCHANGED migrationVars
    BY <1>2, NextMInv, Frozen DEF migrationVars, RowInv
  <1> QED BY <1>1, <1>2

\* Whatever fails, is interrupted or is done again, and in whatever order: the row of
\* a file the user left alone refers to a whole copy of it.
THEOREM RowsHaveTheirFiles == MigrationSpec => []RowHasItsFile
  <1>1. RowInv => RowHasItsFile
    BY DEF RowInv
  <1> QED BY <1>1, InitRowInv, NextRowInv, PTL DEF MigrationSpec
=============================================================================
