# PixiShelf: background jobs, archive and file movements in TLA+

PixiShelf archives and serves artworks. Its Next.js App accepts commands, a separate worker
process does the long work, and PostgreSQL stands between them: a durable queue of jobs in two
execution lanes, with leases, fences and recovery. This directory models that job system, the
archive that is built on it, and the two executors that move the user's own files; it checks the
models with TLC and proves the safety properties of all of them with TLAPS, for any number of jobs,
workers, items, imports and files.
Paths below are relative to `src/packages` unless they begin with `docs/`.

## 1. Inventory

**How the parts interact.** The App and the worker never call each other. The App writes jobs
and intents (a cancel, a pause) into `system_jobs`; a dispatcher per lane in the worker claims
jobs, and an executor runs beside a monitor that renews the lease and reads the intents. Every
write of an execution carries its fence (job, worker id, token, attempt) and is refused unless
the lease row and the job row still carry it. Domain rows (an inbox item, an archive import, a
scan run) are written in the transaction that changes the job, by App and worker alike, so
every such pair can drift apart if one writer forgets the other row.

| Component | State it keeps | Operations | What is hard | What makes it correct | Module |
| --- | --- | --- | --- | --- | --- |
| Durable queue, `pixishelf-job-runtime/src/queue-repository.ts` | `system_jobs`, `job_resource_leases` | claim (with recovery and window sweep), heartbeat, fenced mutation, child, complete, fail, retry, skip, cancel, pause, release | clocks, stalled executions, takeover, attempts at their limit | one execution per lane; job and lease rows agree; old fences write nothing; outcomes are final | `JobQueue` |
| Job commands, `pixishelf/services/background-task/job-command-service.ts` | the same rows | enqueue, cancel, pause, resume, retry, priority | read without a lock, update by status | a late command changes nothing it did not read; cancellation is final | `JobQueue` |
| Dispatcher, `pixishelf-worker/src/dispatcher.ts` | the current execution, its abort signal, the outcome | claim loop, monitor, final control, settlement and recheck, drain | monitor, executor, stop and commands interleave; replies get lost | a refused settlement finds its reason; no live job is stranded; commands take effect | `Dispatcher` |
| Worker process, `worker-application.ts`, `main.ts` | running, draining, failed | start, signals, fatal failure, forced termination | an executor that ignores its signal | a process that cannot stop is ended | `Dispatcher` |
| Archive inbox, `pixishelf/services/archive-intake` | `archive_intake_items` and their resolver jobs | submit, replace, cancel, retry, enqueue | three programs write item and job | item and job agree; a cancelled item stays out | `ArchiveIntake` |
| Resolver executor, `pixishelf-job-executors/src/archive/resolver-executor.ts` | the same | take the item, finalize each outcome | failure before the first transaction; duplicate works | whoever ends an execution takes the item along | `ArchiveIntake` |
| Bulk operations, `pixishelf/services/archive/archive-bulk-operation.ts` | an operation and one record per target | per-target transactions, recount | a crash between targets | each target once per key | planned |
| Provider governor, `archive/provider-governor.ts` | throttle row, request permits | acquire, renew, release, penalize | a permit that expires during its stream | cap on downloads; interval; penalty never shortened | planned |
| Archive import, `archive/executor.ts`, `archive-module.ts`, `archive-task-service.ts` | `archive_imports` and their media checkpoints beside the job, the staging directory | enqueue, start, download rounds, prepare, publish, five controls | drift between import and job; controls applied after their read; checkpoints without files | import and job part only where the queue side moves the job alone; a cancellation is not overtaken; a published revision is complete | `ArchiveImport` |
| Archive maintenance, `archive/maintenance-executor.ts`, `archive-maintenance-service.ts` | intents on imports and artworks, staging, archive and trash directories | cleanup, trash, restore, purge, reconcile | files go before the row says so | no row points at files that are gone; no download loses its directory | `ArchiveMaintenance` |
| Pending replacement, `pending-replace/executor.ts` | item checkpoint, batch, files in five places | stage, back up, install, publish, archive, roll back, restore, clean up, recover | a crash, abort or refusal between any two renames; a rollback that itself fails; equal names | the checkpoint tells where both versions are; no copy is overwritten | `PendingReplace` |
| Migration, `migration/executor.ts`, `migration/transfer.ts` | plan per artwork, staged and target copies, rows | plan, stage, copy, verify, publish, clean the source | a copy cut short; a lost answer; the user edits files meanwhile; unlink of the source | no content is lost; a row's file exists | `Migration` |
| Derived media GC, `video-media/gc.ts` | GC entries, quarantine | claim, quarantine, confirm, delete | a new reference in between | a referenced file survives | planned |
| Scans and audit apply, `scan/*` | `scan_runs` | snapshot, apply, finalize | frozen inputs, cancelled applies | run and job agree | planned in part |
| Scheduler and singletons, `schedule-materializer.ts`, `manual-job-singleton.ts` | last materialized date | tick, enqueue once | overlapping ticks | one job per task and day | planned |

`PROJECT.json` lists every component, the ones that stay unmodelled with the reason, and under
`hazards` what is hard to test, each at its line and with the properties that look at it.

## 2. Modules

`LaneOwnership` — the promise. A lane has at most one holder, identified by its token; only the
holder writes, and nothing was written before under the token of a new holder. It has no jobs, leases or
clocks and maps to no code.

`JobQueue` — the rows and the operations on them.

* A call of the repository is one transaction that locks lease row and job row until it
  commits: one action. An App command is two: `ReadForCommand`, then `ApplyCommand` with its
  compare-and-set. `claim` is `ClaimNothing` or `ClaimJob`: recovery of the lane
  (`Abandoned`, `RecoveredRow`), the window sweep of all lanes (`WindowExpired`, `Swept`), then
  the start. A claim may return nothing at any time, because of `SKIP LOCKED`, capabilities,
  the pause switch, or a cleanup request on the candidate. `LaneIsFree` stands for the code's
  two checks and for the unique index on executing jobs of a lane.
* Time is relative: `Tick` moves every timestamp one unit closer. `now` is read before the locks
  are held and on another host than the one that wrote the timestamp, so it is any `Reading`, up
  to `ClockLag` old and `ClockLead` ahead.
* `fences` holds the fences some process may still present. A process keeps its fence, and may
  use it, until it stops (`Forget`): every stalled or superseded execution is in the model. All
  workers may share one configured worker id; the token tells them apart. A token is reused
  only once nothing remembers it, as a UUID never is.
* `Settle` is the transition every outcome goes through, with business data (`withWrite`) or
  without. `writer` is a history variable: the token of the last fenced business write.
* Left out: priority and aging (the choice among eligible jobs is open), progress, events,
  payloads, skip reasons, and `readExecutionControl`, which changes nothing (the dispatcher
  reads the row). Jobs are named by their idempotency key, so a duplicate enqueue changes nothing.
* `requestCancellation` of the repository has no caller in production; it is modelled because
  it is an operation of the queue.

`Dispatcher` extends it with worker processes. Each call to the queue is an action of
`JobQueue`; the places of a dispatcher (`polling`, `claimed`, `executing`, ...) are the awaits of
`runLoop`, `executeClaimedJob` and `settleWithRetry`. The executor is arbitrary within what the
executors of the repository do: it works, finalizes at most once, returns or throws at any time
or never, and asks for a retry only within its budget. Its finalization may have any outcome, handing the
job back included (`scope.release`), which is what nearly all executors do on a shutdown. A command, a signal, a
lost reply, a failing call or a crash comes between any two steps. A finalization that the fence refuses leaves
the job to the recovery of its lease; when another clock reading would still take that lease for live
(`Contradicted`), the refusal is counted among the faults. `ImplementsJobQueue` says that these
dispatchers are legal callers of the queue.

`ArchiveIntake` extends `JobQueue` with inbox items and the resolver lane. The dispatcher is
reduced to what an item notices: a settlement that does not know the item
(`SettleWithoutItem`) and an execution that ends without any (`Stops`). App commands are single
actions here because a refused compare-and-set changes nothing. Inbox commands write the job row
past the operations of `JobQueue`: `CancelItem` of an item whose job is RUNNING and whose
execution has not begun makes the job CANCELLED and leaves the lease. This is no step of
`JobQueue!Spec`, and `LeaseBacksExecution` does not hold of the resolver lane once it has
happened (the lease is an orphan until it expires, and only then is the lane claimed
again). The queue's own invariant therefore says nothing about this module, which has one of its own
(section 5). `Stranded` items, and what may strand them, are described by `OnlyUnbegunWorkIsStranded`.

`JobLifecycle` — what the queue promises to those who use it: a job moves along the edges of its
life cycle, a finished job stays as it is, a lane executes one job at a time. `JobQueue` implements
it (`ImplementsJobLifecycle`, checked and proved), and the archive modules take their job statuses
from it instead of carrying leases and fences along.

`ArchiveImport` — the imports of one remote work, their jobs and their directories.

* A control is two steps, as in `archive-module.ts`: `ReadForControl` outside and `Pause`, `Resume`,
  `Cancel` or `Retry` inside the transaction, so that imports, jobs and other controls move between.
* The executor is a program of transactions and file steps (`Start`, `Store`, `Complete`,
  `EndRounds`, `Prepare`, one of the endings). A directory is the set of media whose
  file in it is complete, or `NoDir`. `Lost` ends the execution at any of these points; `Recover` then
  moves the job alone, as `recoverExpiredExecution` does, which knows of inbox items but not of imports.
* Three others move a job and know nothing of its import: the commands of the job list (`CommandJob`; `Listed`
  names which of them are used on which jobs), lease recovery, and the dispatcher that settles a claimed job before its executor
  begins (`SettleWithoutImport`): it is stopping while the claim is in flight, or does not understand the payload
  or the definition version. A control that was requested goes before the outcome (`SettleAlone`). The generic settlement
  after an executor (`dispatcher.ts:388-400`) needs one that returns without having begun its finalization. The import executor ends
  through `finalizeInTransaction`, or with a lost lease, which nobody settles; the maintenance executors may throw
  before their final transaction, which is `GiveUpMaintenance`.
* DOWNLOADING counts as PENDING, since `Start` resets it. The job of a completed import and jobs that nothing
  refers to leave the model, so that a few identities serve any number of jobs.

`ArchiveMaintenance` extends it with the intents (`RequestCleanup`, `RequestTrash`, `RequestRestore`,
`RequestPurge`), their executors and the reconciliation that re-creates lost jobs. Each executor is a
first transaction, removals or moves one at a time, and a final transaction; retention (`Expire`)
runs out at any time.

`PendingReplace` — one item of one batch, with any number of old and new files.

* A file is at one of the places target, backup, pending, source, normalized, or gone. `nameOf` says
  which files share a name, which is what makes a rename dangerous: `Moved` overwrites what it
  finds, as `rename` does, and `Movable` is what `moveCheckpointFile` looks at before it.
* `pc` names the step of the executor and `todo` the renames of the present loop still to do, in any
  order. `Turn` is one rename, `Checkpoint` the fenced mutation after a loop, refused when the job is no longer
  RUNNING or the item not in the expected status. `Fails` is the catch block that an
  error at each step reaches, rollbacks and the rollback of a failed rollback included.
* `Crash`, `Shutdown`, the commands of the queue, `Fault` (a file operation, verification or transaction
  fails) and a lost answer to a publication come between any two steps, without bound.
* `op` is the latest operation and its job: only one such job is active at a time, which
  `assertNoActivePendingReplace` checks under the enqueue lock.

`Migration` — the plan of one artwork, its files and its MIGRATION jobs one after another.

* `disk` holds the content of each file per directory: the original, a part of it, or what the user put
  there. Every file may be edited, added or removed by the user (`Edited` bounds which), the artwork reassigned, and a
  copy cut short at any moment.
* `exec.phase` is the phase of the plan in memory; an ending writes it back, which after a
  lost answer to `publishArtwork` is an earlier one than the row had.

`MCJobQueue`, `MCDispatcher`, `MCArchiveIntake`, `MCArchive` and `MCExecutors` give constants their
values; `MCExecutors` puts the two file modules, which share no state, side by side. The theorems are
in `JobQueue_proofs`, `Dispatcher_proofs`, `ArchiveIntake_proofs`, `Archive_proofs`,
`PendingReplace_proofs` and `Migration_proofs`. Definitions named `...Bug` are slips beside the code they vary; no
specification uses them.

## 3. Runs

| Run | Instance | What it shows |
| --- | --- | --- |
| `queue` | 2 jobs, 1 lane, 2 tokens, 2 attempts, exact clocks, 1 command in flight | all safety of the queue and the refinements of `LaneOwnership` and `JobLifecycle` |
| `queue_live` | 2 jobs in 2 lanes, a closing window, pause switch | a deserted lane is recovered, an outdated job is swept |
| `paused_is_resumable` | as `queue` | violated, section 4 |
| `worker` | 1 process, 1 job, 1 fault, 1 shutdown, 1 command in flight, budget 2 raised to 3 | who holds which fence; a refused settlement finds its reason; nothing live is stranded; the worker uses the queue legally |
| `worker_rolling` | 2 processes with one worker id, 1 shutdown, 3 tokens, lease 2, clocks up to 1 ahead | the handover of a rolling deployment strands nothing, whoever hands the job back |
| `worker_live` | 1 process, 1 fault, lease 2 | commands take effect; an executor without a lease ends or its process does |
| `intake` | 2 items of one work, 3 jobs, capacity 1, 1 failing first transaction | item and job agree; cancellation holds; what exactly can overfill the inbox or strand an item |
| `intake_duplicates` | 4 items of one work, 2 with the same link, 2 of them without a job, capacity 1, no fault | a duplicate always has an original |
| `lost_execution_is_recoverable` | as `intake`, capacity 2, no fault | violated, section 4 |
| `archive` | 2 imports of one work, 2 media, 2 jobs at a time, 1 control between read and transaction; imports paused and resumed, cleanups cancelled from the job list | no revision or checkpoint without its files; downloads undisturbed; import and job part only where the job is moved alone; cancellation holds |
| `archive_stranded` | as `archive`, job list unused | violated, section 4 |
| `executors` | replacement: 2 old and 2 new files, with or without a common name; migration: 2 files in 2 directories, one of them open to the user | the checkpoints tell the truth; no copy is lost; every row has its file; no content is lost |

**Bounds.** Two tokens let an execution and its successor meet; a third, in `worker_rolling`, keeps
the token of the last write as well. The clocks of `queue` are exact: under skew its properties are proved. In
`worker_rolling` a reading may be 1 ahead, so that an execution can be told that its lease is gone while another clock has it live; a lease
of 2 keeps a part of it in which all clocks agree, which is where `RunningJobIsHeld` speaks. Two attempts have a first and a
last one, and releasing with `AttemptCap` 3 shows a raised budget. One command between its read
and its update meets any number of other steps, since commands are unbounded in number. A lease of 1
can expire between any two steps; 2 makes renewal before expiry visible. `MaxFaults` 1 allows
the fault at every place, each one followed by a recovery. In `intake`, `FewAttempts` bounds the
attempts spent and the faults together by 3: enough for both items and a retry, and the two jobs of
the first item. Capacity 1 is the limit of 1000 with every item beyond it, and the job retry
takes the inbox past it, so duplicates of the same work do meet. In `intake_duplicates`,
`OneExecution` leaves out lost executions that live on, which `intake` has; an item without a job
is put aside by its link, or as the replacement that finds no room. The retention that later deletes old items is
not modelled. In `archive`, two media let one be there and the other not; two imports of a work are its
first archive and a second revision, or one that failed and its successor; two jobs are an import and a cleanup, or a maintenance
job and the reconciliation that looks for it; `ListedHere` has the job list pause and resume imports and cancel
cleanups, the commands that part an import from its job and that undo a promise to clean up (every command on every kind of
job makes 5.0 million states; that instance was run to its end once, without an error, and the proofs hold for every `Listed`); identities are reused, so the number of
jobs in a history is not bounded. In `executors`, two files on each side give a loop a middle, and the two
namings a rename with and without something in its way; faults, crashes, commands, lost
answers and jobs are unbounded. Symmetry is used on interchangeable identities
(tokens, jobs, workers, imports, media, directories), and never in a run with liveness.

**Deadlock** is checked wherever time passes for ever and there is no final state. It is switched off in
`archive` (two identities for jobs can both be taken by imports that ended) and in
`executors` (an item whose backup is cleaned up has come to its end).

**Fairness.** `FairSpec` has time pass and each lane polled, and nothing more: no execution is
ever obliged to make another call. The polling is justified by `runLoop`, which waits at most
the poll interval. `FairDispatcherSpec` asks for what the event loop and the timers give
(`Poll`, `Monitor`, `Proceed`, `Timeout`), for the end of a failed process (`onFatal` in `main.ts`
arms `forceAfterMs`) and for its restart (`restart: unless-stopped` in
`build/docker-compose.deploy.yml`). It asks nothing of the executor and of the App. The configuration checks
(two heartbeats within a lease, transactions shorter than the lease,
`pixishelf-worker/src/config.ts`) are why heartbeats come before a lease runs out in normal
operation, but no safety property uses them.

## 4. Where the code differs from its documents

* A job paused in its last attempt is PAUSED without an attempt left; resuming it makes a
  PENDING job that no claim selects. The data model says that PAUSED "can be resumed"
  (`docs/design/background-task-data-model.md:408`).
* A requeued item keeps its identity but is outside the identity index while QUEUED. If another item
  of the same work is resolved first and the worker dies before the requeued item's
  first transaction, the recovery violates the index. It runs inside the claim, so the
  resolver lane cannot claim any more, and since the error is not transient the worker stops, restarts and stops again, until
  somebody cancels one of the items. Line 147 of the same document promises recovery by the
  queue. If the worker does not die, the first transaction itself fails, the dispatcher fails the
  job without the item, and the item stays QUEUED behind a finished job.
* Retrying a resolver job through the generic command asks for no capacity, while
  `docs/features/archive-intake.md:29` limits active items to 1000. `OnlyJobRetryOverfills`
  shows that nothing else exceeds the limit.

* Lease recovery ends the job of an archive import whose attempts are used up, and not the import. It stays
  PENDING or RUNNING, no control is accepted (PAUSE and CANCEL want a live job, RETRY a failed import),
  and its work can be neither archived again nor moved to the trash (`archive_stranded`).
  `docs/adr/0002-use-a-durable-worker-and-atomic-archive-publication.md` promises that a crash leaves a
  resumable revision (line 9) and wants no stranded work (line 13).

**Seen while modelling, with no run of its own.**

* `cancelIntakeItem` decides by the status of the item. An item still QUEUED whose job was claimed a moment
  ago gets its RUNNING job CANCELLED at once while the lease stays, so the lane waits for the lease to expire; a final status
  should release it in the same transaction (`docs/design/background-task-data-model.md:553`).
* The other way round, an item left RESOLVING by a first transaction whose reply was lost may have a job that was
  released meanwhile. Cancelling the item makes that PENDING job CANCELLING although nothing executes it (line 627 of
  `archive-intake-service.ts`), an edge the life cycle does not have; the next claim of the lane recovers it.
* An inbox item in RETRY_WAIT stays there when the last attempt of its job is lost, and a job cancelled or failed before
  its executor's first transaction leaves its item behind (`OnlyUnbegunWorkIsStranded`).
* Archive: a CANCEL accepted while the claim of the job is on its way to a worker that stops is settled by the dispatcher. The
  release is refused, the recheck finds the cancellation (`dispatcher.ts:481-504`), the job becomes CANCELLED and the
  import stays CANCELLING, where no control is accepted. A job refused for its payload or definition version
  (`dispatcher.ts:240-275`) fails in the same way without its import, which stays PENDING or RUNNING.
* Archive: the job list offers the generic commands for archive jobs too, and they leave the import alone. Cancelling a waiting
  job leaves a PENDING import whose job is over. Resuming the job of a PAUSED import starts an execution that
  `startArchiveImport` refuses and whose finalization throws, so the worker stops and recovery takes the job.
* Archive: a CANCEL or PAUSE that read the import before its execution was claimed, and acts between the claim and the start, meets a
  cleanup request: `releaseArchiveImportForCleanup` then throws STATE_CONFLICT inside the finalization, which
  is fatal for the worker (`dispatcher.ts:374-381`). `RefusalIsExplained` is about refused settlements and says nothing of finalizations that throw.
* Dispatcher: a finalization refused by a clock ahead of the others, followed by a renewal by an earlier reading, leaves a
  RUNNING job that nobody works on until its lease expires.
* Archive: RETRY of a failed import does not look at the trash, so an import retried while its artwork is
  TRASHED fails at every publication, and as long as it is active RESTORE is refused. A PAUSE that meets
  a cleanup request on an import that is claimed and not started, followed by a crash, leaves a RUNNING import with a
  cleanup that no job will perform.
* Replacement: when the answer to the commit of `publishReplacement` or `publishRestore` is lost, the
  executor takes it for a failure before the publication and moves the files back; the rows show one version
  and the directory holds the other. No file is lost (`NoCopyIsLost` is proved with lost answers), but
  `CheckpointsDescribeFiles` can say where the files are only as long as no answer was lost.
* Replacement: a rollback of a failure before the swap meets files it does not expect when old and new share a
  name, and asks for a person each time it is resumed. A pause in the middle of a loop rolls the files back, but the checkpoint
  FAILED is refused because the job is PAUSING; the item is resumed from the status it had.
* Replacement: an item whose archive step failed stays ARCHIVING in a COMPLETED batch. `enqueueCentralPendingReplaceBatch`
  refuses that batch, and a recovered operation fails at its first checkpoint (`executor.ts:249`), although the comment at
  `pending-replace-central-service.ts:155` has recovery resume the persisted phase and the log at `executor.ts:373`
  calls the source recoverable. FAILED and CANCELLED batches are accepted by the service and refused by
  the same checkpoint. With disjoint names, a restore resumed after a refused undo
  leaves new files in the target of a RESTORED item.
* Migration: a copy that is cut short leaves a partial file that is a conflict for the next attempt, which waits for
  a person. A source whose plan is cancelled or fails after its publication stays behind. An item recorded
  ACTION_REQUIRED without files is never planned again.

## 5. Proofs

Every invariant, action property and refinement that a passing run checks is also a theorem, for every value
of the constants that satisfies the assumption of its module. None of the properties is inductive by
itself. Each proof module has one inductive invariant, kept by a lemma per action or per shape of
action, and the properties follow from it.

| Module | Invariant | From | Theorems |
| --- | --- | --- | --- |
| `JobQueue_proofs` | `IInv` | `QueueAssumption` | `TypeCorrectness`, `MutualExclusion`, `TablesAgree`, `CancellationIsFinal`, `NoStalePause`, `AttemptsBounded`, `OutcomesAreFinal`, `RefusalsAreFinal`, `Refinement`, `LifecycleRefinement` |
| `Dispatcher_proofs` | `DInv`, `EInv`, `HInv` | the same | `DispatcherTypeCorrectness`, `DispatcherRefinement`, `WorkerExcludes`, `WorkerLifecycle`, `RefusalsHaveReasons`, `RunningJobsAreHeld` |
| `ArchiveIntake_proofs` | `IntakeInv` | and `IntakeAssumption` | `IntakeTypeCorrectness`, `LiveJobsServe`, `ResolvingMeansExecuting`, `CancelledStaysOut`, `ItemsAgree`, `DuplicatesHaveOriginals`, `OnlyRetryOverfills`, `OnlyUnbegunIsStranded`, `ResolverExcludes`, `ResolverOutcomesAreFinal` |
| `Archive_proofs` | `AInv` | `ArchiveAssumption` | `ArchiveTypeCorrectness`, `RevisionsComplete`, `CheckpointsBacked`, `DownloadsUndisturbed`, `CancellationsHold`, `OnlyTheQueueSeparates` |
| `PendingReplace_proofs` | `RInv` | `ReplaceAssumption` | `CheckpointsAreTrue`, `CopiesSurvive` |
| `Migration_proofs` | `MInv` | `MigrationAssumption` | `ContentSurvives`, `RowsHaveTheirFiles` |

**What is assumed.** `QueueAssumption`: each job has a lane, leases have a length, the placeholders for "none" are no
job, worker or token; the clocks may differ by any amount. `IntakeAssumption`: the jobs are those of the
resolver lane, a resolver request is MANUAL and has no deadline, the inbox is finite, and one link leads to one work. The last
is an assumption about the remote provider; only `DuplicatesHaveOriginals` needs it. `ArchiveAssumption`: the
placeholder for no job is no job, and a missing directory is not the empty one. `ReplaceAssumption`:
the old and the new files are different ones and the names of each version are distinct, as they are in a directory.
`MigrationAssumption`: a directory is not one of the words for a place or a content. TLC evaluates each of them on every instance.

**Queue.** `OneExecutionPerLane`, for one, is kept by
`claim` only because recovery sees every executing row as covered by the lease it examines.
`IInv` adds what is needed: `RowOK`, what the columns of a single row agree on (a waiting or
running row has no pause request, a cancelled one is on its way to CANCELLED, RETRY_WAIT has an
attempt left); `LeaseBacksExecution`, for which a job executes exactly while its lane's lease
names it; and `CommandsOK`, that a command in flight was accepted for the status it saw. Its
proof follows the code: a lemma per row mapping (recovery, start, settlement, command, ageing)
that it preserves `RowOK`, a lemma per kind of step that it preserves the agreement of the
tables (`SettleStep`, `HeartbeatStep`, `ClaimJobStep`, `TickStep`, ...), and `NextIInv` that puts
them together. `MutualExclusion` follows since one lease row cannot name two jobs. For
`Refinement`, a fenced write needs a lease with the writer's token, and a claim takes a token
that neither a lease nor the last writer has. `LifecycleRefinement` reads the same lemmas the other way: each
kind of step moves each row along an edge of `Successors`. `RefusalsAreFinal` (`LostStaysLost`) is an action property:
a fence whose lease a clock sees as expired, or whose row has gone on, is never accepted again, since a renewal
needs the lease it renews and a claim takes a token no fence has.

**Workers.** `DispatcherRefinement` maps every step of a dispatcher, crashes, lost replies and repeated calls included,
to an operation of `JobQueue` or to none. It needs `DInv`: the fences in use are exactly those the dispatchers hold,
no two dispatchers hold the same one, and between two executions nothing is left of the first. The
theorems about the queue thereby become theorems about the workers: `WorkerExcludes` and
`WorkerLifecycle` are two of them. `RefusalsHaveReasons` says that no interleaving of commands leads to
the fatal end of `settleWithRetry`: a dispatcher that is refused although no clock takes its lease for expired finds a pause or a cancellation on
the row. Its invariant `EInv` says of every dispatcher that what it was told to do, or decided to report, is still
justified by the row (`OutcomesJustified`), and which refusals it can meet (`RefusalsExplained`).
`RunningJobsAreHeld` holds for any clock skew. It speaks of histories without a fault, and of leases that no clock takes for expired:
an execution can be told that its lease is gone while another clock has it live, and then it is rightly left.
`HInv` says that no process is down with work in hand and that every dispatcher is `Sound`: it lost no reply; a monitor that
goes on has not lost the lease; and once a finalization was committed or refused, no clock takes the lease for live
while the job runs. The last is why a refusal that another clock reading contradicts has to count as a fault.

**Inbox.** The inbox ends jobs without releasing their lease, so `IInv` does not survive it. `QueueOK` keeps of it
what does: rows are well formed and one job executes, which here follows from the checks of `claim` and of the
unique index (`CancelItem`) rather than from the leases. `StoryOK` says for one item what it and its jobs
agree on; that the only live job of an item is the current one is what keeps the rest true. An action works on one item
and its jobs, so `OneItemStep` reduces each action to its own item; only a claim, which takes the items of the executions it
recovers along, treats them all (`RecoveredStory`). The properties of steps come from `ItemStep`, which says per action
what may happen to an item: it moves on, is admitted, refused, or put aside beside an active item of its work.
`DuplicateHasOriginal` is inductive with that, because an original can only become a duplicate in the presence of another one;
`OnlyRetryOverfills` counts the active items with it.

**Archive.** Whether the files of a revision are complete when it is published depends on what the execution did
before it prepared the directory; whether they stay so, on which cleanup, move or purge may be under way. `AInv`
has two halves. Tables relates the rows: which job is bound to which import, in which statuses, and which controls in
flight can still be accepted; every step keeps it on its own (`NextTables`). Files relates rows, directories and the
execution: for each kind of job, what a half-done execution of it has achieved (`WorkOK`), and what a shown or restorable
revision has on disk (`RevisionsOK`). Steps beside the executor move no file; that they keep what the execution relies on, and that goes for every command of the job list
(`RowKept`, `JobKept`, `ArtworkKept`) is enough for `WorkGoesOn`. The two action properties come from what each
step may do to an import and its job (`StoryKept`, `Told`): `OnlyTheQueueSeparates` says that a control and an ending that an
executor commits keep the two in agreement, whatever the job list, recovery or an early settlement did to the job before.

**Replacement.** Whether a rename overwrites something depends on which names are taken at every place, and whether
a rollback may end in FAILED on how far its earlier loops came. `RInv` adds `FilesOK` (old files are in target or
backup, new ones in pending, source, normalized or target, and an old and a new file of one name are never both in the target),
`StepOK` (the statuses an item can have at each step) and `LoopsOK` (what the finished part of an
undoing loop has achieved). The proof has a lemma per shape of step (`ForwardTurn`, `RollbackTurn`,
`UnrestoreTurn`, `ForwardCheckpoint`, `PublicationStep`, `FailsStep`, ...), and `MoveIsSafe` carries the main
point: with `FilesOK`, a move that `moveCheckpointFile` accepts lands on nothing.

**Migration.** For `ContentSurvives`, `MInv` says that the files a loop still treats are files that move, so that the target which
`RemoveSource` has just compared is another place than the source. For `RowsHaveTheirFiles`, the invariant adds what the rows of
untouched files refer to in each phase: until the publication their source, from it on the target,
and that a fingerprint taken from the source is the original's.

**Only model-checked:** liveness (`DesertedLaneIsRecovered`, `OutdatedJobIsSwept`, `CommandsTakeEffect`,
`UnleasedExecutorStops`), which rests on fairness and ENABLED and is out of reach of the prover, and the three counterexamples.

## 6. Plan

Done, in this order, the most important behaviour first: `LaneOwnership`, `JobQueue`, `Dispatcher`,
`ArchiveIntake`, `JobLifecycle`, `ArchiveImport` and `ArchiveMaintenance`, `PendingReplace` and
`Migration`, with proofs of all their safety properties. Next:

1. `ProviderGovernor`: permits, expiry and renewal for both lanes; cap, interval, penalty.
2. `DerivedMediaGc` and the swap of streaming optimization: no referenced file deleted.
3. `BulkOperation`, the schedule materializer and the singleton lock: exactly-once per key, target, task and day.
4. The life cycle of scan runs and of frozen audit applies beside their jobs.
5. `QueueOrder`: priority, aging and FIFO refined into `ClaimJob`, with starvation as the question.
6. Proofs: `JobLifecycle` as a promise of `ArchiveIntake` as well, with the one edge it lacks (a job that is not
   running is made CANCELLING when its item was left RESOLVING), and what releases the lease that a
   cancelled item leaves behind.

## 7. Not modelled

Pages, routers and queries, remote providers, file formats, parsing, media tools, and the legacy
in-process jobs: they hold no state that outlives a call, or none that two actors share. Scanning
and auditing, chapters and posters, video processing and keyframes, derived media GC, the provider governor, bulk
operations and the scheduler are components of their own that no module describes yet; section 6 names those
that are planned. `PROJECT.json` gives the reason for each.

Within the modelled parts:

* Inbox and queue: submission idempotency records, the retention clean-up of inbox items,
  priority changes, the frozen audit-apply snapshots that a queued cancel validates, presence and readiness of the
  worker.
* Archive: USE_DISPLAY_QUALITY, which is a RESUME that also changes the quality; byte streams, partial
  files and the manifest; `retryJobCommand` on an ARCHIVE_IMPORT job (it creates a job that no import is bound
  to, which `startArchiveImport` refuses with STATE_CONFLICT, `archive/executor.ts:206`).
* Replacement: other items of the batch, chapters, files the manifest ignores, counters. `recoverCentralPendingReplaceBatch` looks at
  the items before its transaction; the model takes the look and the enqueueing as one step. The operator's repair of an item that waits for a person is
  not modelled.
* Migration: `cleanupPublishedSource` looks once more and then unlinks; the model makes the two one step, as
  nothing of the program lies between. Several artworks in one job, the dry run, and the statuses of single files, which nothing reads,
  are left out.
* Both file modules assume one active job of their type. The services that enqueue guarantee it, but
  `retryJobCommand` (`job-command-service.ts:507`, reached from `server/routers/migration.ts:93`)
  creates a job without that check; what two migration jobs would do to one artwork is not examined.
* Everywhere, the file operations of an execution that lost its lease are taken to end before the
  next execution begins. `UnleasedExecutorStops` shows that such an executor is stopped, not how soon.
