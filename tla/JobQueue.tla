------------------------------ MODULE JobQueue ------------------------------
(***************************************************************************)
(* The durable job queue: rows of system_jobs and job_resource_leases, the *)
(* operations of the worker's PostgresJobQueueRepository                   *)
(* (pixishelf-job-runtime/src/queue-repository.ts) and the commands the    *)
(* App applies to the same rows (services/background-task/                 *)
(* job-command-service.ts).                                                *)
(*                                                                         *)
(* Every repository call is one database transaction that locks the lease  *)
(* row and then the job row and holds both until it commits, so a call is  *)
(* one action.  An App command reads the job without a lock and later      *)
(* updates it with a compare-and-set on the status: two actions.           *)
(*                                                                         *)
(* Time.  A timestamp is stored relative to the present: t is -t units ago *)
(* or t units ahead, and Tick brings every timestamp one unit closer.  A   *)
(* process reads its clock before its transaction has its locks and its    *)
(* host may be ahead of others, so its idea of now is any Reading.  A      *)
(* timestamp as old as Elapsed is past for every reading and stays so;     *)
(* Elapsed also stands for NULL in expiry columns, which the code treats   *)
(* in the same way.                                                        *)
(*                                                                         *)
(* A fence is what an execution knows of itself: job, worker, token and    *)
(* attempt.  fences holds those some process may still present: a process  *)
(* that lost its lease keeps its fence until it stops (Forget), however    *)
(* late that is.  The process may present it to any fenced operation at    *)
(* any time: the executors and the dispatcher are special cases.           *)
(***************************************************************************)
EXTENDS Integers, FiniteSets

CONSTANTS
  Job,            \* row identities (with their idempotency keys)
  Lane,           \* execution lanes
  Worker,         \* worker ids
  Token,          \* execution tokens (UUIDs; one is reused only once forgotten)
  LaneOf,         \* LaneOf[j] : the lane of job j, fixed by its type
  ResolveLane,    \* the lane with a pause switch (ARCHIVE_RESOLVE)
  NoJob, NoWorker, NoToken,  \* NULLs
  LeaseDuration,  \* leaseDurationMs
  ClockLag,       \* a reading of the clock is at most this old when it is used
  ClockLead,      \* and at most this far ahead of the present
  MaxDelay,       \* bound: how far ahead availableAt and deadlineAt are set
  AttemptCap,     \* bound: Release does not raise maxAttempts beyond this
  MaxCommands,    \* bound: App commands between their read and their update
  Requests        \* the jobs that may be submitted: source, delay, deadline, budget

Larger(m, n) == IF m > n THEN m ELSE n

Elapsed == -ClockLag
Reading == Elapsed..ClockLead
Horizon == ClockLead + Larger(LeaseDuration, MaxDelay)
Time == Elapsed..Horizon

ExecutingStatus == {"RUNNING", "PAUSING", "CANCELLING"}
TerminalStatus == {"COMPLETED", "FAILED", "SKIPPED", "CANCELLED"}
IdleStatus == {"PENDING", "RETRY_WAIT", "PAUSED"}
Status == {"ABSENT"} \union IdleStatus \union ExecutingStatus \union TerminalStatus

\* MANUAL and RETRY jobs have priorities 0-99, SCHEDULE and SYSTEM jobs 100-999.
Source == {"MANUAL", "RETRY", "SYSTEM", "SCHEDULE"}
ForegroundSource == {"MANUAL", "RETRY"}

Request ==
  [source : {"MANUAL", "SYSTEM", "SCHEDULE"}, delay : 0..MaxDelay,
   deadline : SUBSET (0..MaxDelay), budget : 1..AttemptCap]

ASSUME QueueAssumption ==
  /\ NoJob \notin Job /\ NoWorker \notin Worker /\ NoToken \notin Token
  /\ LaneOf \in [Job -> Lane]
  /\ LeaseDuration \in Nat \ {0}
  /\ ClockLag \in Nat /\ ClockLead \in Nat /\ MaxDelay \in Nat
  /\ AttemptCap \in Nat \ {0}
  /\ MaxCommands \in Nat
  /\ Requests \subseteq Request

VARIABLES
  job,            \* system_jobs
  lease,          \* job_resource_leases, one row per lane
  fences,         \* fences that a process may still present
  writer,         \* per lane, the token of the last committed fenced write
  commands,       \* App commands that have read their job
  resolvePaused   \* archive_resolve_queue_control.paused

vars == <<job, lease, fences, writer, commands, resolvePaused>>

Row ==
  [status : Status, source : Source,
   worker : Worker \union {NoWorker}, token : Token \union {NoToken}, expires : Time,
   attempt : 0..AttemptCap, maxAttempts : 0..AttemptCap,
   cancelRequested : BOOLEAN, pauseRequested : BOOLEAN,
   availableAt : Time, deadline : SUBSET Time]

Lease ==
  [owner : Job \union {NoJob}, worker : Worker \union {NoWorker},
   token : Token \union {NoToken}, expires : Time]

Fence == [job : Job, worker : Worker, token : Token, attempt : 1..AttemptCap]

Command == [kind : {"cancel", "pause", "resume"}, job : Job, seen : Status]

NoLease == [owner |-> NoJob, worker |-> NoWorker, token |-> NoToken, expires |-> Elapsed]

PendingRow(source, availableAt, deadline, budget) ==
  [status |-> "PENDING", source |-> source,
   worker |-> NoWorker, token |-> NoToken, expires |-> Elapsed,
   attempt |-> 0, maxAttempts |-> budget,
   cancelRequested |-> FALSE, pauseRequested |-> FALSE,
   availableAt |-> availableAt, deadline |-> deadline]

AbsentRow == [PendingRow("MANUAL", Elapsed, {}, 0) EXCEPT !.status = "ABSENT"]

\* A row without its execution columns: what leaving execution writes.
Detached(row, status) ==
  [row EXCEPT !.status = status, !.worker = NoWorker, !.token = NoToken, !.expires = Elapsed]

Executing(l) == {j \in Job : LaneOf[j] = l /\ job[j].status \in ExecutingStatus}

-----------------------------------------------------------------------------
(* Claiming a lane: recover, sweep, start                                  *)

(* A definition named ...Bug is a plausible slip in the definition that      *)
(* follows it.  Next does not use it: it is put in place of the correct one   *)
(* to see that a run would notice.                                            *)

\* Recovery that treats a cancelling execution like a failed one.
RecoveredRowBug(row, r) ==
  LET outcome == CASE row.status = "PAUSING" -> "PAUSED"
                   [] row.status # "PAUSING" ->
                        IF row.attempt < row.maxAttempts THEN "RETRY_WAIT" ELSE "FAILED"
  IN [Detached(row, outcome) EXCEPT !.availableAt = IF outcome = "RETRY_WAIT" THEN r ELSE @]

\* What becomes of an execution whose lease ran out.
RecoveredRow(row, r) ==
  LET outcome == CASE row.status = "CANCELLING" -> "CANCELLED"
                   [] row.status = "PAUSING" -> "PAUSED"
                   [] row.status = "RUNNING" ->
                        IF row.attempt < row.maxAttempts THEN "RETRY_WAIT" ELSE "FAILED"
  IN [Detached(row, outcome) EXCEPT !.availableAt = IF outcome = "RETRY_WAIT" THEN r ELSE @]

\* Recovery that looks for RUNNING executions only.
AbandonedBug(l, r) ==
  {j \in Executing(l) : /\ job[j].status = "RUNNING"
                        /\ ~(job[j].expires > r) /\ ~(lease[l].expires > r)}

\* An execution is over for a claimer when both its rows say so: a live lease,
\* even one of another execution, defers the recovery.
Abandoned(l, r) == {j \in Executing(l) : ~(job[j].expires > r) /\ ~(lease[l].expires > r)}

\* A lease that nobody executes under is dropped once it expires.
Orphaned(l, r) == Executing(l) = {} /\ ~(lease[l].expires > r)

RecoveredLease(l, r) ==
  IF Abandoned(l, r) # {} \/ Orphaned(l, r) THEN [lease EXCEPT ![l] = NoLease] ELSE lease

\* A sweep of the scheduler's own jobs only.
WindowExpiredBug(row, r) ==
  /\ row.status \in {"PENDING", "RETRY_WAIT"}
  /\ row.source = "SCHEDULE"
  /\ \E d \in row.deadline : ~(d > r)

\* Waiting jobs of the automatic sources, of every lane, whose deadline passed.
\* scheduledForDate ends with the deadline: both are the end of the same window.
WindowExpired(row, r) ==
  /\ row.status \in {"PENDING", "RETRY_WAIT"}
  /\ row.source \notin ForegroundSource
  /\ \E d \in row.deadline : ~(d > r)

\* The job table after recovery of lane l and the sweep.
Swept(l, r) ==
  [j \in Job |->
     LET row == IF j \in Abandoned(l, r) THEN RecoveredRow(job[j], r) ELSE job[j]
     IN IF WindowExpired(row, r) THEN Detached(row, "SKIPPED") ELSE row]

Eligible(row, r, windowOpen) ==
  /\ row.status \in {"PENDING", "RETRY_WAIT"}
  /\ row.attempt < row.maxAttempts
  /\ ~row.cancelRequested
  /\ ~(row.availableAt > r)
  /\ \A d \in row.deadline : d > r
  /\ \/ row.source = "MANUAL"
     \/ row.source \in {"RETRY", "SYSTEM"} /\ row.deadline = {}
     \/ windowOpen /\ row.source \notin ForegroundSource

\* A check that counts RUNNING rows only and does not look at the lease.
LaneIsFreeBug(l, r) == \A j \in Executing(l) \ Abandoned(l, r) : job[j].status # "RUNNING"

\* No execution in the lane (the query, and the unique index on executing rows)
\* and no live lease.
LaneIsFree(l, r) ==
  /\ Executing(l) \subseteq Abandoned(l, r)
  /\ ~(RecoveredLease(l, r)[l].expires > r)

TokensInUse ==
  {job[j].token : j \in Job} \union {lease[l].token : l \in Lane}
    \union {f.token : f \in fences} \union {writer[l] : l \in Lane}

Started(row, w, t, r) ==
  [row EXCEPT !.status = "RUNNING", !.worker = w, !.token = t,
              !.expires = r + LeaseDuration, !.attempt = @ + 1]

\* The claim returns null: recovery and the sweep are kept.  Also the outcome
\* when the candidate's row is locked by someone else or the lane is paused.
ClaimNothing(l, r) ==
  /\ job' = Swept(l, r)
  /\ lease' = RecoveredLease(l, r)
  /\ UNCHANGED <<fences, writer, commands, resolvePaused>>

ClaimJob(w, l, r, windowOpen) ==
  /\ ~(l = ResolveLane /\ resolvePaused)
  /\ LaneIsFree(l, r)
  /\ \E j \in Job, t \in Token \ TokensInUse :
       /\ LaneOf[j] = l
       /\ Eligible(Swept(l, r)[j], r, windowOpen)
       /\ LET row == Started(Swept(l, r)[j], w, t, r)
          IN /\ job' = [Swept(l, r) EXCEPT ![j] = row]
             /\ lease' = [lease EXCEPT ![l] = [owner |-> j, worker |-> w, token |-> t,
                                               expires |-> row.expires]]
             /\ fences' = fences \union {[job |-> j, worker |-> w, token |-> t,
                                          attempt |-> row.attempt]}
  /\ UNCHANGED <<writer, commands, resolvePaused>>

-----------------------------------------------------------------------------
(* Operations an execution performs under its fence                        *)

\* A fence without its token: worker and attempt taken for identity enough.
OwnsBug(f, r) ==
  LET held == lease[LaneOf[f.job]]
      row == job[f.job]
  IN /\ held.owner = f.job /\ held.worker = f.worker
     /\ held.expires > r
     /\ row.worker = f.worker /\ row.attempt = f.attempt
     /\ row.status \in ExecutingStatus
     /\ row.expires > r

\* lockOwnedExecution: the lease row and the job row both still carry the fence
\* and are live.
Owns(f, r) ==
  LET held == lease[LaneOf[f.job]]
      row == job[f.job]
  IN /\ held.owner = f.job /\ held.worker = f.worker /\ held.token = f.token
     /\ held.expires > r
     /\ row.worker = f.worker /\ row.token = f.token /\ row.attempt = f.attempt
     /\ row.status \in ExecutingStatus
     /\ row.expires > r

\* A heartbeat that adds to the old expiry instead of starting from now.
HeartbeatBug(f, r) ==
  /\ Owns(f, r)
  /\ lease' = [lease EXCEPT ![LaneOf[f.job]].expires = @ + LeaseDuration]
  /\ job' = [job EXCEPT ![f.job].expires = @ + LeaseDuration]
  /\ UNCHANGED <<fences, writer, commands, resolvePaused>>

Heartbeat(f, r) ==
  /\ Owns(f, r)
  /\ lease' = [lease EXCEPT ![LaneOf[f.job]].expires = r + LeaseDuration]
  /\ job' = [job EXCEPT ![f.job].expires = r + LeaseDuration]
  /\ UNCHANGED <<fences, writer, commands, resolvePaused>>

\* withFencedMutationTransaction: a checkpoint of business data.
Mutate(f, r) ==
  /\ Owns(f, r)
  /\ job[f.job].status = "RUNNING"
  /\ writer' = [writer EXCEPT ![LaneOf[f.job]] = f.token]
  /\ UNCHANGED <<job, lease, fences, commands, resolvePaused>>

EnqueueChild(f, r, j, q) ==
  /\ Owns(f, r)
  /\ job[j].status = "ABSENT"
  /\ q.source = "SYSTEM"
  /\ \A d \in q.deadline : d > q.delay
  /\ job' = [job EXCEPT ![j] = PendingRow("SYSTEM", r + q.delay, {r + d : d \in q.deadline}, q.budget)]
  /\ UNCHANGED <<lease, fences, writer, commands, resolvePaused>>

\* A settlement that forgets the lease row.
SettleBug(f, r, from, row, withWrite) ==
  /\ Owns(f, r)
  /\ job[f.job].status \in from
  /\ job' = [job EXCEPT ![f.job] = row]
  /\ writer' = IF withWrite THEN [writer EXCEPT ![LaneOf[f.job]] = f.token] ELSE writer
  /\ UNCHANGED <<lease, fences, commands, resolvePaused>>

\* transitionOwnedJobInTransaction: the execution ends, its row becomes row and
\* its lease goes in the same transaction.  With withWrite the transaction is
\* withFencedExecutionTransaction's, which commits business data too.
Settle(f, r, from, row, withWrite) ==
  /\ Owns(f, r)
  /\ job[f.job].status \in from
  /\ job' = [job EXCEPT ![f.job] = row]
  /\ lease' = [lease EXCEPT ![LaneOf[f.job]] = NoLease]
  /\ writer' = IF withWrite THEN [writer EXCEPT ![LaneOf[f.job]] = f.token] ELSE writer
  /\ UNCHANGED <<fences, commands, resolvePaused>>

\* complete, fail and skip.
Conclude(f, r, outcome, withWrite) ==
  Settle(f, r, {"RUNNING"}, Detached(job[f.job], outcome), withWrite)

\* A retry that does not look at the budget.
RetryBug(f, r, delay, withWrite) ==
  Settle(f, r, {"RUNNING"},
         [Detached(job[f.job], "RETRY_WAIT") EXCEPT !.availableAt = r + delay], withWrite)

Retry(f, r, delay, withWrite) ==
  /\ job[f.job].attempt < job[f.job].maxAttempts
  /\ Settle(f, r, {"RUNNING"},
            [Detached(job[f.job], "RETRY_WAIT") EXCEPT !.availableAt = r + delay], withWrite)

\* retry with preserveAttempt, offered only together with business data.
Yield(f, r, delay) ==
  /\ job[f.job].attempt > 0
  /\ Settle(f, r, {"RUNNING"},
            [Detached(job[f.job], "RETRY_WAIT") EXCEPT !.availableAt = r + delay,
                                                       !.attempt = @ - 1], TRUE)

Cancel(f, r, withWrite) ==
  Settle(f, r, IF withWrite THEN {"RUNNING", "CANCELLING"} ELSE ExecutingStatus,
         [Detached(job[f.job], "CANCELLED") EXCEPT !.cancelRequested = TRUE], withWrite)

Pause(f, r, withWrite) ==
  Settle(f, r, IF withWrite THEN {"RUNNING", "PAUSING"} ELSE {"PAUSING"},
         [Detached(job[f.job], "PAUSED") EXCEPT
            !.pauseRequested = @ \/ job[f.job].status = "PAUSING"], withWrite)

\* A stopping worker hands the job back with one more attempt to spend.
Release(f, r, withWrite) ==
  /\ job[f.job].attempt < AttemptCap
  /\ Settle(f, r, {"RUNNING"},
            [Detached(job[f.job], "PENDING") EXCEPT
               !.availableAt = r,
               !.maxAttempts = Larger(@, job[f.job].attempt + 1)], withWrite)

\* The last process that knows a fence stops or drops it.
Forget(f) ==
  /\ fences' = fences \ {f}
  /\ UNCHANGED <<job, lease, writer, commands, resolvePaused>>

-----------------------------------------------------------------------------
(* Commands of the App                                                     *)

\* enqueueJob.  A request whose idempotency key is taken finds the existing row
\* and changes nothing, so only an absent row is created.
Enqueue(j, q, r) ==
  /\ job[j].status = "ABSENT"
  /\ q.source = "SCHEDULE" => q.deadline # {}
  /\ job' = [job EXCEPT ![j] = PendingRow(q.source, r + q.delay, {r + d : d \in q.deadline}, q.budget)]
  /\ UNCHANGED <<lease, fences, writer, commands, resolvePaused>>

\* retryJobCommand: a finished job is left alone and a new one takes its place.
RetryAsNewJob(old, j, r) ==
  /\ job[old].status \in {"FAILED", "CANCELLED", "SKIPPED"}
  /\ job[j].status = "ABSENT"
  /\ LaneOf[j] = LaneOf[old]
  /\ job' = [job EXCEPT ![j] = PendingRow("RETRY", r, {}, job[old].maxAttempts)]
  /\ UNCHANGED <<lease, fences, writer, commands, resolvePaused>>

\* The statuses each command accepts; the others are refused or already done.
Accepts(kind) ==
  CASE kind = "cancel" -> IdleStatus \union {"RUNNING", "PAUSING"}
    [] kind = "pause" -> {"PENDING", "RETRY_WAIT", "RUNNING"}
    [] kind = "resume" -> {"PAUSED"}

ReadForCommand(kind, j) ==
  /\ Cardinality(commands) < MaxCommands
  /\ job[j].status \in Accepts(kind)
  /\ commands' = commands \union {[kind |-> kind, job |-> j, seen |-> job[j].status]}
  /\ UNCHANGED <<job, lease, fences, writer, resolvePaused>>

Cancelled(row, seen) ==
  [IF seen \in IdleStatus THEN Detached(row, "CANCELLED") ELSE [row EXCEPT !.status = "CANCELLING"]
     EXCEPT !.cancelRequested = TRUE]

Paused(row, seen) ==
  [IF seen = "RUNNING" THEN [row EXCEPT !.status = "PAUSING"] ELSE Detached(row, "PAUSED")
     EXCEPT !.pauseRequested = TRUE]

\* A resume that leaves the pause request behind.
ResumedBug(row, r) == [Detached(row, "PENDING") EXCEPT !.availableAt = r]

Resumed(row, r) ==
  [Detached(row, "PENDING") EXCEPT !.availableAt = r, !.pauseRequested = FALSE]

\* An update by id alone.
UnchangedBug(c) == c \in commands

\* compareAndSetJob's condition.
Unchanged(c) == job[c.job].status = c.seen

\* The command's update, or its refusal when the status has moved on.
ApplyCommand(c, r) ==
  /\ commands' = commands \ {c}
  /\ job' = IF Unchanged(c)
            THEN [job EXCEPT ![c.job] =
                    CASE c.kind = "cancel" -> Cancelled(@, c.seen)
                      [] c.kind = "pause" -> Paused(@, c.seen)
                      [] c.kind = "resume" -> Resumed(@, r)]
            ELSE job
  /\ UNCHANGED <<lease, fences, writer, resolvePaused>>

\* The repository's own requestCancellation reads and updates in one statement.
RequestCancellation(j) ==
  /\ job[j].status \in Accepts("cancel")
  /\ job' = [job EXCEPT ![j] = Cancelled(@, @.status)]
  /\ lease' = [l \in Lane |-> IF job[j].status \in IdleStatus /\ lease[l].owner = j
                              THEN NoLease ELSE lease[l]]
  /\ UNCHANGED <<fences, writer, commands, resolvePaused>>

SetResolvePaused ==
  /\ resolvePaused' \in BOOLEAN \ {resolvePaused}
  /\ UNCHANGED <<job, lease, fences, writer, commands>>

-----------------------------------------------------------------------------
(* The passing of time                                                     *)

Aged(t) == IF t > Elapsed THEN t - 1 ELSE t

AgedRow(row) ==
  [row EXCEPT !.expires = Aged(@), !.availableAt = Aged(@),
              !.deadline = {Aged(d) : d \in @}]

Tick ==
  /\ job' = [j \in Job |-> AgedRow(job[j])]
  /\ lease' = [l \in Lane |-> [lease[l] EXCEPT !.expires = Aged(@)]]
  /\ UNCHANGED <<fences, writer, commands, resolvePaused>>

-----------------------------------------------------------------------------
Init ==
  /\ job = [j \in Job |-> AbsentRow]
  /\ lease = [l \in Lane |-> NoLease]
  /\ fences = {}
  /\ writer = [l \in Lane |-> NoToken]
  /\ commands = {}
  /\ resolvePaused = FALSE

Claim(l) ==
  \E r \in Reading :
    \/ ClaimNothing(l, r)
    \/ \E w \in Worker, windowOpen \in BOOLEAN : ClaimJob(w, l, r, windowOpen)

Execution(f) ==
  \/ \E r \in Reading, withWrite \in BOOLEAN :
       \/ Heartbeat(f, r)
       \/ Mutate(f, r)
       \/ \E j \in Job, q \in Requests : EnqueueChild(f, r, j, q)
       \/ \E outcome \in {"COMPLETED", "FAILED", "SKIPPED"} : Conclude(f, r, outcome, withWrite)
       \/ \E delay \in 0..MaxDelay : Retry(f, r, delay, withWrite) \/ Yield(f, r, delay)
       \/ Cancel(f, r, withWrite)
       \/ Pause(f, r, withWrite)
       \/ Release(f, r, withWrite)
  \/ Forget(f)

App ==
  \/ \E j \in Job, q \in Requests, r \in Reading : Enqueue(j, q, r)
  \/ \E old, j \in Job, r \in Reading : RetryAsNewJob(old, j, r)
  \/ \E kind \in {"cancel", "pause", "resume"}, j \in Job : ReadForCommand(kind, j)
  \/ \E c \in commands, r \in Reading : ApplyCommand(c, r)
  \/ \E j \in Job : RequestCancellation(j)
  \/ SetResolvePaused

Next ==
  \/ \E l \in Lane : Claim(l)
  \/ \E f \in fences : Execution(f)
  \/ App
  \/ Tick

Spec == Init /\ [][Next]_vars

\* Time passes, and some worker polls each lane again and again (runLoop): nothing
\* else is promised, in particular not that an execution ever makes another call.
FairSpec == Spec /\ WF_vars(Tick) /\ \A l \in Lane : WF_vars(Claim(l))

-----------------------------------------------------------------------------
(* Properties                                                              *)

TypeOK ==
  /\ job \in [Job -> Row]
  /\ lease \in [Lane -> Lease]
  /\ fences \subseteq Fence
  /\ writer \in [Lane -> Token \union {NoToken}]
  /\ commands \subseteq Command
  /\ resolvePaused \in BOOLEAN

\* A lane executes at most one job, whichever workers claim, stall, come back
\* late or crash, and however their clocks differ: recovery and the two checks
\* of claim together hand the lane over only once it is vacant.
OneExecutionPerLane ==
  \A l \in Lane : \A i, j \in Executing(l) : i = j

\* The two rows of an execution never part.  A job executes exactly while its
\* lane's lease row names it, with the same worker, token and expiry; so no lease
\* outlives its execution (which would block the lane until it expires) and no
\* execution outlives its lease (which would leave it with nobody able to finish
\* it).  The rows are written by separate statements of heartbeat, settlement,
\* recovery and claim.
LeaseBacksExecution ==
  \A l \in Lane :
    /\ \A j \in Executing(l) :
         lease[l] = [owner |-> j, worker |-> job[j].worker, token |-> job[j].token,
                     expires |-> job[j].expires]
    /\ lease[l] # NoLease => lease[l].owner \in Executing(l)

\* Once cancellation of a job is recorded the job can only end CANCELLED: no
\* retry, release, resume, pause or recovery puts it back to work.
CancelIsFinal ==
  \A j \in Job : job[j].cancelRequested => job[j].status \in {"CANCELLING", "CANCELLED"}

\* A running job carries no pause request: the dispatcher stops any execution
\* with a pause request on its row (executionDirective), so one left over from an
\* earlier pause would stop a job nobody asked to pause.
RunningHasNoStaleRequest ==
  \A j \in Job : job[j].status = "RUNNING" => ~job[j].pauseRequested

\* No job spends more attempts than its budget, and a job that waits to be
\* retried has one left, so it is not waiting for a claim that cannot come.
AttemptsWithinBudget ==
  \A j \in Job :
    /\ job[j].attempt <= job[j].maxAttempts
    /\ job[j].status = "RETRY_WAIT" => job[j].attempt < job[j].maxAttempts

\* The outcome of a job is never revised: neither a late call of the execution
\* that lost it nor a command that read an earlier status moves a finished job.
TerminalIsFinal ==
  [][\A j \in Job : job[j].status \in TerminalStatus => job'[j].status = job[j].status]_vars

\* An execution that lost its lease never has it back, even where the worker ids and the
\* attempt numbers of two executions are the same: the monitor may end an executor at
\* the first refusal, and nothing it does afterwards can count.
LostStaysLost == [][\A f \in fences : Owns(f, Elapsed)' => Owns(f, Elapsed)]_vars

\* A lane whose execution nobody carries on with (its process crashed or gave up) is
\* taken back: RUNNING, PAUSING and CANCELLING jobs alike are recovered by polling.
Deserted(l) == lease[l] # NoLease /\ \A f \in fences : f.token # lease[l].token
DesertedLaneIsRecovered == \A l \in Lane : Deserted(l) ~> ~Deserted(l)

\* A waiting automatic job whose window has closed does not wait forever: the sweep
\* of any lane's claim gets to it, even when its own lane is paused or busy.
Outdated(j) ==
  /\ job[j].status \in {"PENDING", "RETRY_WAIT"}
  /\ job[j].source \notin ForegroundSource
  /\ Elapsed \in job[j].deadline
OutdatedJobIsSwept == \A j \in Job : Outdated(j) ~> ~Outdated(j)

\* "PAUSED: execution has stopped and can be resumed"
\* (docs/design/background-task-data-model.md, 9.1).  A resumed job is PENDING with
\* the attempts it had, so it can be claimed again only if one is left.
PausedIsResumable ==
  \A j \in Job : job[j].status = "PAUSED" => job[j].attempt < job[j].maxAttempts

\* The queue implements the lane ownership it promises: the token in the lane's
\* lease row holds the lane, and fenced transactions are its writes.
Lanes == INSTANCE LaneOwnership WITH holder <- [l \in Lane |-> lease[l].token]

ImplementsLaneOwnership == Lanes!Spec

\* Claims, recoveries, sweeps, settlements and commands, each a transaction over
\* several rows, move every job along its life cycle and never give a lane two
\* executions: all that the executors' own state machines take for granted.
Lifecycle == INSTANCE JobLifecycle WITH status <- [j \in Job |-> job[j].status]

ImplementsJobLifecycle == Lifecycle!Spec
=============================================================================
