------------------------ MODULE ArchiveIntake_proofs ------------------------
(***************************************************************************)
(* What ArchiveIntake keeps for any number of items, jobs, workers and     *)
(* failed first transactions.                                              *)
(*                                                                         *)
(* IntakeInv has three parts.  QueueOK is what the job table keeps         *)
(* although the inbox ends jobs behind the queue's back: every row is      *)
(* well formed and at most one job executes, but the lease row may go on   *)
(* naming a job that a cancelled item has taken with it, so the queue's    *)
(* own invariant does not hold here.  IntakeTypeOK is the items' types.    *)
(* StoryOK says for one item what it and its jobs agree on; the            *)
(* properties of states follow from it at once, but it is kept only        *)
(* because the live job of an item is its current one (the third           *)
(* conjunct).                                                              *)
(*                                                                         *)
(* A step works on one item and its jobs, or is a claim, which takes the   *)
(* items of the executions it recovers along.  OtherStory and OneItemStep  *)
(* say that the other items are not disturbed, so each action has a lemma  *)
(* about its own item alone.  The properties of steps follow from          *)
(* ItemStep, what a step may do to items, proved per action in the same    *)
(* way.                                                                    *)
(***************************************************************************)
EXTENDS ArchiveIntake, JobQueue_proofs, FiniteSetTheorems

\* The jobs are all in the resolver lane, so at most one of them executes.
Executes(j) == job[j].status \in ExecutingStatus
OneExecution == \A i, j \in Job : Executes(i) /\ Executes(j) => i = j

\* What the job table keeps by itself: no row that breaks a rule of its own, and no
\* command half done, for the inbox reads and writes in one transaction.
QueueOK ==
  /\ TypeOK
  /\ commands = {}
  /\ \A j \in Job : RowOK(job[j]) /\ job[j].source \in ForegroundSource
  /\ OneExecution

LiveStatus == Status \ (TerminalStatus \union {"ABSENT"})
UnbegunStage == {"starting", "thrown"}

\* What an item and its jobs agree on: where it says that its job is over, the job is over
\* in that way; no other job of it is live, and the live one waits for nothing but it; and a
\* cancellation on the item is one on the job.
StoryOK(i) ==
  LET own == item[i].job
  IN /\ own = NoJob => item[i].status \in {"ABSENT", "FAILED", "DUPLICATE"}
     /\ own # NoJob =>
          /\ ItemOf[own] = i /\ job[own].status # "ABSENT"
          /\ item[i].status \in {"READY", "ENQUEUED", "DUPLICATE"} => job[own].status = "COMPLETED"
          /\ item[i].status = "FAILED" => job[own].status = "FAILED"
     /\ \A j \in Job : ItemOf[j] = i /\ job[j].status \in LiveStatus =>
          /\ own = j /\ item[i].status \in WaitingStatus
          /\ item[i].cancelRequested => job[j].status = "CANCELLING"
     /\ item[i].cancelRequested => item[i].status \notin {"READY", "ENQUEUED"}
     /\ faults = 0 /\ item[i].status = "RESOLVING" =>
          /\ Executes(own)
          /\ \A t \in Token : job[own].token = t => stage[t] \notin UnbegunStage

StoriesOK == \A i \in Item : StoryOK(i)

IntakeInv == QueueOK /\ IntakeTypeOK /\ StoriesOK
-----------------------------------------------------------------------------
(* The job table                                                           *)

LEMMA Sources ==
  ASSUME NEW row \in Row, NEW s, NEW r
  PROVE  /\ Detached(row, s).source = row.source
         /\ Cancelled(row, s).source = row.source
         /\ Paused(row, s).source = row.source
         /\ Resumed(row, r).source = row.source
         /\ AgedRow(row).source = row.source
  BY DEF Row, Detached, Cancelled, Paused, Resumed, AgedRow

\* A step that replaces one row, and begins an execution only where none is.
LEMMA OneRowQueue ==
  ASSUME QueueOK, NEW j \in Job, NEW row, RowOK(row), row.source \in ForegroundSource,
         job' = [job EXCEPT ![j] = row],
         row.status \in ExecutingStatus => \A k \in Job : Executes(k) => k = j,
         lease' \in [Lane -> Lease], fences' \subseteq Fence,
         writer' \in [Lane -> Token \union {NoToken}],
         UNCHANGED <<commands, resolvePaused>>
  PROVE  QueueOK' /\ \A k \in Job : job'[k] = IF k = j THEN row ELSE job[k]
  <1>1. job \in [Job -> Row] /\ row \in Row
    BY DEF QueueOK, TypeOK, RowOK
  <1>2. \A k \in Job : job'[k] = IF k = j THEN row ELSE job[k]
    BY <1>1
  <1>3. TypeOK'
    BY <1>1 DEF QueueOK, TypeOK
  <1>4. \A k \in Job : (RowOK(job[k]) /\ job[k].source \in ForegroundSource)'
    BY <1>2 DEF QueueOK, RowOK
  <1>5. OneExecution'
    BY <1>2 DEF QueueOK, OneExecution, Executes
  <1> QED BY <1>2, <1>3, <1>4, <1>5 DEF QueueOK

\* A step that leaves the job table alone.
LEMMA SameJobsQueue ==
  ASSUME QueueOK, job' = job, commands' = commands, resolvePaused' = resolvePaused,
         lease' \in [Lane -> Lease], fences' \subseteq Fence,
         writer' \in [Lane -> Token \union {NoToken}]
  PROVE  QueueOK'
  BY DEF QueueOK, TypeOK, RowOK, OneExecution, Executes

LEMMA NewJobQueue ==
  ASSUME QueueOK, NEW j \in Job, NEW source \in ForegroundSource, NEW at \in Time,
         NEW deadline \in SUBSET Time, NEW budget \in 0..AttemptCap,
         job[j].status = "ABSENT",
         job' = [job EXCEPT ![j] = PendingRow(source, at, deadline, budget)],
         UNCHANGED <<lease, fences, writer, commands, resolvePaused>>
  PROVE  /\ QueueOK' /\ job'[j].status = "PENDING"
         /\ \A k \in Job \ {j} : job'[k] = job[k]
  <1> DEFINE row == PendingRow(source, at, deadline, budget)
  <1>1. RowOK(row)
    BY PendingRowOK DEF ForegroundSource, Source
  <1>2. row.status = "PENDING" /\ row.source = source
    BY DEF PendingRow
  <1> HIDE DEF row
  <1>3. /\ row.status \notin ExecutingStatus /\ job' = [job EXCEPT ![j] = row]
        /\ lease' \in [Lane -> Lease] /\ fences' \subseteq Fence
        /\ writer' \in [Lane -> Token \union {NoToken}]
    BY <1>2 DEF row, ExecutingStatus, QueueOK, TypeOK
  <1> QED BY <1>1, <1>2, <1>3, OneRowQueue

LEMMA EnqueueQueue ==
  ASSUME QueueOK, NEW j \in Job, NEW r \in Reading, Enqueue(j, ResolveRequest, r)
  PROVE  /\ QueueOK' /\ job[j].status = "ABSENT" /\ job'[j].status = "PENDING"
         /\ \A k \in Job \ {j} : job'[k] = job[k]
         /\ UNCHANGED <<lease, fences, writer, commands, resolvePaused>>
  <1>1. /\ ResolveRequest.source \in ForegroundSource /\ r + ResolveRequest.delay \in Time
        /\ ResolveRequest.budget \in 0..AttemptCap
        /\ {r + d : d \in ResolveRequest.deadline} \in SUBSET Time
    BY IntakeAssumption, RequestFacts DEF ForegroundSource
  <1> QED BY <1>1, NewJobQueue DEF Enqueue

LEMMA RetryQueue ==
  ASSUME QueueOK, NEW old \in Job, NEW j \in Job, NEW r \in Reading, RetryAsNewJob(old, j, r)
  PROVE  /\ QueueOK' /\ job[j].status = "ABSENT" /\ job'[j].status = "PENDING"
         /\ \A k \in Job \ {j} : job'[k] = job[k]
         /\ UNCHANGED <<lease, fences, writer, commands, resolvePaused>>
  <1>1. job[old].maxAttempts \in 0..AttemptCap /\ r \in Time /\ {} \in SUBSET Time
        /\ "RETRY" \in ForegroundSource
    BY TimeFacts DEF QueueOK, RowOK, Row, ForegroundSource
  <1> QED BY <1>1, NewJobQueue DEF RetryAsNewJob

\* A fence that owns an execution owns the only one.
LEMMA OwnedJob ==
  ASSUME QueueOK, NEW f \in fences, NEW r \in Reading, Owns(f, r)
  PROVE  /\ f.job \in Job /\ f.token \in Token /\ LaneOf[f.job] \in Lane
         /\ RowOK(job[f.job]) /\ Executes(f.job) /\ job[f.job].token = f.token
         /\ \A k \in Job : Executes(k) => k = f.job
  <1>1. f \in Fence
    BY DEF QueueOK, TypeOK
  <1>2. f.job \in Job /\ f.token \in Token /\ LaneOf[f.job] \in Lane
    BY <1>1, QueueAssumption DEF Fence
  <1> QED BY <1>2 DEF Owns, QueueOK, OneExecution, Executes

LEMMA SettleQueue ==
  ASSUME QueueOK, NEW f \in fences, NEW r \in Reading, NEW from, NEW row, NEW withWrite \in BOOLEAN,
         Settle(f, r, from, row, withWrite), RowOK(row), row.source \in ForegroundSource,
         row.status \notin ExecutingStatus
  PROVE  /\ QueueOK' /\ job[f.job].status \in from /\ job'[f.job].status = row.status
         /\ \A k \in Job \ {f.job} : job'[k] = job[k]
         /\ fences' = fences
  <1>1. f.job \in Job /\ LaneOf[f.job] \in Lane /\ f.token \in Token
    BY OwnedJob DEF Settle
  <1>2. NoLease \in Lease
    BY QueueAssumption, TimeFacts DEF NoLease, Lease
  <1>3. /\ lease' \in [Lane -> Lease] /\ fences' \subseteq Fence
        /\ writer' \in [Lane -> Token \union {NoToken}]
        /\ UNCHANGED <<commands, resolvePaused>>
    BY <1>1, <1>2 DEF Settle, QueueOK, TypeOK
  <1>4. job' = [job EXCEPT ![f.job] = row]
    BY DEF Settle
  <1>5. QueueOK' /\ \A k \in Job : job'[k] = IF k = f.job THEN row ELSE job[k]
    BY <1>1, <1>3, <1>4, OneRowQueue
  <1> QED BY <1>1, <1>5 DEF Settle

\* The execution of fence f ends and leaves its job with this status.
Ends(f, status) ==
  /\ QueueOK' /\ fences' = fences
  /\ f.job \in Job /\ f.token \in Token
  /\ Executes(f.job) /\ job[f.job].token = f.token
  /\ \A k \in Job : Executes(k) => k = f.job
  /\ job'[f.job].status = status
  /\ \A k \in Job \ {f.job} : job'[k] = job[k]

LEMMA EndsBySettling ==
  ASSUME QueueOK, NEW f \in fences, NEW r \in Reading, NEW from, NEW row, NEW withWrite \in BOOLEAN,
         Settle(f, r, from, row, withWrite), RowOK(row), row.source = job[f.job].source,
         row.status \notin ExecutingStatus
  PROVE  Ends(f, row.status)
  <1>1. Owns(f, r)
    BY DEF Settle
  <1>2. f.job \in Job /\ job[f.job].source \in ForegroundSource
    BY <1>1, OwnedJob DEF QueueOK
  <1> QED BY <1>1, <1>2, OwnedJob, SettleQueue DEF Ends

\* The row an execution leaves keeps its source.
LEMMA LeftRow ==
  ASSUME NEW row, RowOK(row), NEW status \in Status
  PROVE  LET gone == Detached(row, status)
         IN /\ gone \in Row /\ gone.status = status /\ gone.source = row.source
  BY DetachedType DEF RowOK

LEMMA ConcludeEnds ==
  ASSUME QueueOK, NEW f \in fences, NEW r \in Reading, NEW withWrite \in BOOLEAN,
         NEW outcome \in {"COMPLETED", "FAILED"}, Conclude(f, r, outcome, withWrite)
  PROVE  Ends(f, outcome) /\ job[f.job].status = "RUNNING"
  <1> DEFINE row == Detached(job[f.job], outcome)
  <1>1. RowOK(job[f.job]) /\ job[f.job].status = "RUNNING"
    BY OwnedJob DEF Conclude, Settle
  <1>2. /\ outcome \in Status \ ExecutingStatus /\ outcome \notin ClaimableStatus
        /\ ~job[f.job].cancelRequested
    BY <1>1 DEF RowOK, Status, ExecutingStatus, TerminalStatus, ClaimableStatus
  <1>3. RowOK(row) /\ row.status = outcome /\ row.source = job[f.job].source
    BY <1>1, <1>2, DetachedRowOK, LeftRow
  <1>4. Settle(f, r, {"RUNNING"}, row, withWrite)
    BY DEF Conclude
  <1> HIDE DEF row
  <1> QED BY <1>1, <1>2, <1>3, <1>4, EndsBySettling

LEMMA RetryEnds ==
  ASSUME QueueOK, NEW f \in fences, NEW r \in Reading, NEW withWrite \in BOOLEAN,
         Retry(f, r, 0, withWrite)
  PROVE  Ends(f, "RETRY_WAIT") /\ job[f.job].status = "RUNNING"
  <1> DEFINE row == [Detached(job[f.job], "RETRY_WAIT") EXCEPT !.availableAt = r + 0]
  <1>1. RowOK(job[f.job]) /\ job[f.job].status = "RUNNING"
    BY OwnedJob DEF Retry, Settle
  <1>2. job[f.job].attempt < job[f.job].maxAttempts /\ r + 0 \in Time
    BY TimeFacts DEF Retry
  <1>3. RowOK(row)
    BY <1>1, <1>2, RetryRowOK
  <1>4. row.status = "RETRY_WAIT" /\ row.source = job[f.job].source
    BY <1>1, LeftRow DEF Row, Status, IdleStatus
  <1>5. Settle(f, r, {"RUNNING"}, row, withWrite) /\ row.status \notin ExecutingStatus
    BY <1>4 DEF Retry, ExecutingStatus
  <1> HIDE DEF row
  <1> QED BY <1>1, <1>3, <1>4, <1>5, EndsBySettling

LEMMA YieldEnds ==
  ASSUME QueueOK, NEW f \in fences, NEW r \in Reading, Yield(f, r, 0)
  PROVE  Ends(f, "RETRY_WAIT") /\ job[f.job].status = "RUNNING"
  <1> DEFINE row == [Detached(job[f.job], "RETRY_WAIT") EXCEPT !.availableAt = r + 0,
                                                               !.attempt = @ - 1]
  <1>1. RowOK(job[f.job]) /\ job[f.job].status = "RUNNING"
    BY OwnedJob DEF Yield, Settle
  <1>2. job[f.job].attempt > 0 /\ r + 0 \in Time
    BY TimeFacts DEF Yield
  <1>3. RowOK(row)
    BY <1>1, <1>2, YieldRowOK
  <1>4. row.status = "RETRY_WAIT" /\ row.source = job[f.job].source
    BY <1>1, LeftRow DEF Row, Status, IdleStatus
  <1>5. Settle(f, r, {"RUNNING"}, row, TRUE) /\ row.status \notin ExecutingStatus
    BY <1>4 DEF Yield, ExecutingStatus
  <1> HIDE DEF row
  <1> QED BY <1>1, <1>3, <1>4, <1>5, EndsBySettling

LEMMA CancelEnds ==
  ASSUME QueueOK, NEW f \in fences, NEW r \in Reading, NEW withWrite \in BOOLEAN,
         Cancel(f, r, withWrite)
  PROVE  Ends(f, "CANCELLED")
  <1> DEFINE row == [Detached(job[f.job], "CANCELLED") EXCEPT !.cancelRequested = TRUE]
             from == IF withWrite THEN {"RUNNING", "CANCELLING"} ELSE ExecutingStatus
  <1>1. RowOK(job[f.job])
    BY OwnedJob DEF Cancel, Settle
  <1>2. RowOK(row)
    BY <1>1, CancelRowOK
  <1>3. row.status = "CANCELLED" /\ row.source = job[f.job].source
    BY <1>1, LeftRow DEF Row, Status, TerminalStatus
  <1>4. Settle(f, r, from, row, withWrite) /\ row.status \notin ExecutingStatus
    BY <1>3 DEF Cancel, ExecutingStatus
  <1> HIDE DEF row, from
  <1> QED BY <1>2, <1>3, <1>4, EndsBySettling

LEMMA PauseEnds ==
  ASSUME QueueOK, NEW f \in fences, NEW r \in Reading, NEW withWrite \in BOOLEAN,
         Pause(f, r, withWrite)
  PROVE  Ends(f, "PAUSED")
  <1> DEFINE mark == job[f.job].pauseRequested \/ job[f.job].status = "PAUSING"
             row == [Detached(job[f.job], "PAUSED") EXCEPT !.pauseRequested = mark]
             from == IF withWrite THEN {"RUNNING", "PAUSING"} ELSE {"PAUSING"}
  <1>1. RowOK(job[f.job]) /\ job[f.job].status \in {"RUNNING", "PAUSING"}
    BY OwnedJob DEF Pause, Settle
  <1>2. mark \in BOOLEAN
    BY <1>1 DEF RowOK, Row
  <1>3. /\ Detached(job[f.job], "PAUSED").pauseRequested = job[f.job].pauseRequested
        /\ Detached(job[f.job], "PAUSED") \in Row
        /\ Detached(job[f.job], "PAUSED").status = "PAUSED"
        /\ Detached(job[f.job], "PAUSED").source = job[f.job].source
    BY <1>1, DetachedType DEF RowOK, Status, IdleStatus
  <1>4. RowOK(row)
    BY <1>1, <1>2, PauseRowOK
  <1>5. row.status = "PAUSED" /\ row.source = job[f.job].source
    BY <1>3 DEF Row
  <1>6. row = [Detached(job[f.job], "PAUSED") EXCEPT
                 !.pauseRequested = @ \/ job[f.job].status = "PAUSING"]
    BY <1>3
  <1> HIDE DEF row
  <1>7. Settle(f, r, from, row, withWrite)
    BY <1>6 DEF Pause
  <1>8. row.status \notin ExecutingStatus
    BY <1>5 DEF ExecutingStatus
  <1> HIDE DEF from
  <1> QED BY <1>4, <1>5, <1>7, <1>8, EndsBySettling

LEMMA ReleaseEnds ==
  ASSUME QueueOK, NEW f \in fences, NEW r \in Reading, NEW withWrite \in BOOLEAN,
         Release(f, r, withWrite)
  PROVE  Ends(f, "PENDING") /\ job[f.job].status = "RUNNING"
  <1> DEFINE row == [Detached(job[f.job], "PENDING") EXCEPT
                       !.availableAt = r, !.maxAttempts = Larger(@, job[f.job].attempt + 1)]
  <1>1. RowOK(job[f.job]) /\ job[f.job].status = "RUNNING" /\ job[f.job].attempt < AttemptCap
    BY OwnedJob DEF Release, Settle
  <1>2. r \in Time
    BY TimeFacts
  <1>3. RowOK(row)
    BY <1>1, <1>2, ReleaseRowOK
  <1>4. row.status = "PENDING" /\ row.source = job[f.job].source
    BY <1>1, LeftRow DEF Row, Status, IdleStatus
  <1>5. Settle(f, r, {"RUNNING"}, row, withWrite) /\ row.status \notin ExecutingStatus
    BY <1>4 DEF Release, ExecutingStatus
  <1> HIDE DEF row
  <1> QED BY <1>1, <1>3, <1>4, <1>5, EndsBySettling

\* The other calls of an execution keep its job's status and token.
LEMMA MutateQueue ==
  ASSUME QueueOK, NEW f \in fences, NEW r \in Reading, Mutate(f, r)
  PROVE  /\ QueueOK' /\ job' = job /\ fences' = fences
         /\ Owns(f, r) /\ job[f.job].status = "RUNNING"
  <1>1. f.token \in Token /\ LaneOf[f.job] \in Lane
    BY OwnedJob DEF Mutate
  <1>2. /\ UNCHANGED <<job, lease, fences, commands, resolvePaused>>
        /\ writer' \in [Lane -> Token \union {NoToken}]
    BY <1>1 DEF Mutate, QueueOK, TypeOK
  <1>3. lease' \in [Lane -> Lease] /\ fences' \subseteq Fence
    BY <1>2 DEF QueueOK, TypeOK
  <1> QED BY <1>2, <1>3, SameJobsQueue DEF Mutate

LEMMA HeartbeatQueue ==
  ASSUME QueueOK, NEW f \in fences, NEW r \in Reading, Heartbeat(f, r)
  PROVE  /\ QueueOK' /\ fences' = fences
         /\ \A k \in Job : job'[k].status = job[k].status /\ job'[k].token = job[k].token
  <1> DEFINE row == [job[f.job] EXCEPT !.expires = r + LeaseDuration]
  <1>1. /\ f.job \in Job /\ LaneOf[f.job] \in Lane /\ RowOK(job[f.job])
        /\ Executes(f.job) /\ \A k \in Job : Executes(k) => k = f.job
    BY OwnedJob DEF Heartbeat
  <1>2. r + LeaseDuration \in Time
    BY TimeFacts
  <1>3. /\ RowOK(row) /\ row.status = job[f.job].status /\ row.token = job[f.job].token
        /\ row.source = job[f.job].source
    BY <1>1, <1>2 DEF RowOK, Row
  <1>4. job' = [job EXCEPT ![f.job] = row]
    BY DEF Heartbeat
  <1>5. lease' \in [Lane -> Lease] /\ fences' \subseteq Fence
        /\ writer' \in [Lane -> Token \union {NoToken}]
        /\ UNCHANGED <<fences, commands, resolvePaused>>
    <2>1. lease' = [lease EXCEPT ![LaneOf[f.job]] = [@ EXCEPT !.expires = r + LeaseDuration]]
      BY DEF Heartbeat
    <2> QED BY <1>1, <1>2, <2>1 DEF Heartbeat, QueueOK, TypeOK, Lease
  <1>6. row.source \in ForegroundSource
    BY <1>1, <1>3 DEF QueueOK
  <1> HIDE DEF row
  <1>7. QueueOK' /\ \A k \in Job : job'[k] = IF k = f.job THEN row ELSE job[k]
    BY <1>1, <1>3, <1>4, <1>5, <1>6, OneRowQueue
  <1> QED BY <1>3, <1>5, <1>7

LEMMA ForgetQueue ==
  ASSUME QueueOK, NEW f \in fences, Forget(f)
  PROVE  QueueOK' /\ job' = job /\ f.token \in Token
  <1>1. /\ lease' \in [Lane -> Lease] /\ fences' \subseteq Fence /\ f \in Fence
        /\ writer' \in [Lane -> Token \union {NoToken}]
        /\ UNCHANGED <<job, commands, resolvePaused>>
    BY DEF Forget, QueueOK, TypeOK
  <1> QED BY <1>1, SameJobsQueue DEF Fence

LEMMA TickQueue ==
  ASSUME QueueOK, Tick
  PROVE  /\ QueueOK' /\ fences' = fences
         /\ \A k \in Job : job'[k].status = job[k].status /\ job'[k].token = job[k].token
  <1>1. \A t \in Time : Aged(t) \in Time
    BY TimeFacts DEF Aged, Time
  <1>2. \A k \in Job : /\ job'[k] = AgedRow(job[k])
                       /\ RowOK(job[k])
    BY DEF Tick, QueueOK
  <1>3. \A k \in Job : /\ RowOK(job'[k]) /\ job'[k].source \in ForegroundSource
                       /\ job'[k].status = job[k].status /\ job'[k].token = job[k].token
    <2> SUFFICES ASSUME NEW k \in Job
                 PROVE  /\ RowOK(job'[k]) /\ job'[k].source \in ForegroundSource
                        /\ job'[k].status = job[k].status /\ job'[k].token = job[k].token
      OBVIOUS
    <2>1. job[k] \in Row /\ job[k].source \in ForegroundSource
      BY <1>2 DEF RowOK, QueueOK
    <2> QED BY <1>2, <2>1, AgedRowOK, Sources
  <1>4. TypeOK'
    <2>1. job' \in [Job -> Row]
      BY <1>3 DEF Tick, RowOK
    <2>2. lease' \in [Lane -> Lease]
      <3>1. lease' = [l \in Lane |-> [lease[l] EXCEPT !.expires = Aged(@)]]
        BY DEF Tick
      <3>2. \A l \in Lane : lease[l] \in Lease
        BY DEF QueueOK, TypeOK
      <3>3. \A l \in Lane : [lease[l] EXCEPT !.expires = Aged(@)] \in Lease
        BY <1>1, <3>2 DEF Lease
      <3> QED BY <3>1, <3>3
    <2> QED BY <2>1, <2>2 DEF Tick, QueueOK, TypeOK
  <1>5. \A k \in Job : RowOK(job[k])'
    BY <1>3 DEF RowOK
  <1>6. OneExecution'
    BY <1>3 DEF QueueOK, OneExecution, Executes
  <1>7. commands' = {} /\ fences' = fences
    BY DEF Tick, QueueOK
  <1> QED BY <1>3, <1>4, <1>5, <1>6, <1>7 DEF QueueOK

-----------------------------------------------------------------------------
(* Commands and claims                                                     *)

LEMMA CommandQueue ==
  ASSUME QueueOK, NEW kind \in {"cancel", "pause", "resume"}, NEW j \in Job, NEW r \in Reading,
         job[j].status \in Accepts(kind),
         ApplyCommand([kind |-> kind, job |-> j, seen |-> job[j].status], r)
  PROVE  /\ QueueOK' /\ fences' = fences
         /\ \A k \in Job \ {j} : job'[k] = job[k]
         /\ Executes(j) => job'[j].token = job[j].token
         /\ kind = "cancel" =>
              job'[j].status = IF job[j].status \in IdleStatus THEN "CANCELLED" ELSE "CANCELLING"
         /\ kind = "pause" =>
              job'[j].status = IF job[j].status = "RUNNING" THEN "PAUSING" ELSE "PAUSED"
         /\ kind = "resume" => job'[j].status = "PENDING"
         /\ job'[j].status \in ExecutingStatus <=> Executes(j)
  <1> DEFINE row == CASE kind = "cancel" -> Cancelled(job[j], job[j].status)
                      [] kind = "pause" -> Paused(job[j], job[j].status)
                      [] kind = "resume" -> Resumed(job[j], r)
  <1>1. RowOK(job[j]) /\ job[j] \in Row /\ job[j].source \in ForegroundSource /\ Status = Status
    BY DEF QueueOK, RowOK
  <1>2. /\ job' = [job EXCEPT ![j] = row]
        /\ commands' = commands
        /\ UNCHANGED <<lease, fences, writer, resolvePaused>>
    <2>1. commands = {}
      BY DEF QueueOK
    <2> QED BY <2>1 DEF ApplyCommand, Unchanged
  <1>3. /\ RowOK(row) /\ row.source = job[j].source
        /\ row.status \in ExecutingStatus <=> Executes(j)
        /\ Executes(j) => row.token = job[j].token
        /\ kind = "cancel" =>
              row.status = IF job[j].status \in IdleStatus THEN "CANCELLED" ELSE "CANCELLING"
        /\ kind = "pause" =>
              row.status = IF job[j].status = "RUNNING" THEN "PAUSING" ELSE "PAUSED"
        /\ kind = "resume" => row.status = "PENDING"
    <2>1. CASE kind = "cancel"
      <3>1. row = Cancelled(job[j], job[j].status) /\ job[j].status \in Accepts("cancel")
        BY <2>1
      <3>2. /\ RowOK(row) /\ (row.status \in ExecutingStatus <=> Executes(j))
            /\ Executes(j) => row.token = job[j].token
        BY <1>1, <3>1, CommandedOK DEF Executes
      <3>3. row.status = IF job[j].status \in IdleStatus THEN "CANCELLED" ELSE "CANCELLING"
        BY <1>1, <3>1 DEF Cancelled, Detached, Row
      <3> QED BY <1>1, <2>1, <3>1, <3>2, <3>3, Sources
    <2>2. CASE kind = "pause"
      <3>1. row = Paused(job[j], job[j].status) /\ job[j].status \in Accepts("pause")
        BY <2>2
      <3>2. /\ RowOK(row) /\ (row.status \in ExecutingStatus <=> Executes(j))
            /\ Executes(j) => row.token = job[j].token
        BY <1>1, <3>1, CommandedOK DEF Executes
      <3>3. row.status = IF job[j].status = "RUNNING" THEN "PAUSING" ELSE "PAUSED"
        BY <1>1, <3>1 DEF Paused, Detached, Row
      <3> QED BY <1>1, <2>2, <3>1, <3>2, <3>3, Sources
    <2>3. CASE kind = "resume"
      <3>1. row = Resumed(job[j], r) /\ job[j].status = "PAUSED"
        BY <2>3 DEF Accepts
      <3>2. RowOK(row) /\ row.status = "PENDING"
        BY <1>1, <3>1, ResumedOK
      <3>3. row.source = job[j].source
        BY <1>1, <3>1, Sources
      <3>4. ~Executes(j) /\ row.status \notin ExecutingStatus
        BY <3>1, <3>2 DEF Executes, ExecutingStatus
      <3> QED BY <2>3, <3>2, <3>3, <3>4
    <2> QED BY <2>1, <2>2, <2>3
  <1>4. /\ lease' \in [Lane -> Lease] /\ fences' \subseteq Fence
        /\ writer' \in [Lane -> Token \union {NoToken}]
    BY <1>2 DEF QueueOK, TypeOK
  <1>5. row.status \in ExecutingStatus => \A k \in Job : Executes(k) => k = j
    BY <1>3 DEF QueueOK, OneExecution
  <1> HIDE DEF row
  <1>6. QueueOK' /\ \A k \in Job : job'[k] = IF k = j THEN row ELSE job[k]
    BY <1>1, <1>2, <1>3, <1>4, <1>5, OneRowQueue
  <1> QED BY <1>2, <1>3, <1>6

\* The cancellation of an item writes the job past the queue's operations.
LEMMA CancelledJobQueue ==
  ASSUME QueueOK, NEW j \in Job, NEW seen \in {"RUNNING", "PENDING"},
         job' = [job EXCEPT ![j] = Cancelled(@, seen)],
         seen = "RUNNING" => Executing(LaneOf[j]) \subseteq {j},
         UNCHANGED <<lease, fences, writer, commands, resolvePaused>>
  PROVE  /\ QueueOK'
         /\ \A k \in Job \ {j} : job'[k] = job[k]
         /\ seen = "RUNNING" =>
              job'[j].status = "CANCELLING" /\ job'[j].token = job[j].token
         /\ seen = "PENDING" => job'[j].status = "CANCELLED"
  <1> DEFINE row == Cancelled(job[j], seen)
  <1>1. RowOK(job[j]) /\ job[j] \in Row /\ job[j].source \in ForegroundSource
    BY DEF QueueOK, RowOK
  <1>2. CASE seen = "RUNNING"
    <2>1. row = [job[j] EXCEPT !.status = "CANCELLING", !.cancelRequested = TRUE]
      BY <1>1, <1>2 DEF Cancelled, IdleStatus
    <2>2. /\ row \in Row /\ row.status = "CANCELLING" /\ row.token = job[j].token
          /\ row.attempt = job[j].attempt /\ row.maxAttempts = job[j].maxAttempts
          /\ row.source = job[j].source
      BY <1>1, <2>1 DEF Row, Status, ExecutingStatus
    <2>3. RowOK(row)
      BY <1>1, <2>2 DEF RowOK, ClaimableStatus
    <2>4. row.status \in ExecutingStatus => \A k \in Job : Executes(k) => k = j
      <3>1. \A k \in Job : Executes(k) => k \in Executing(LaneOf[j])
        BY IntakeAssumption DEF Executing, Executes
      <3> QED BY <1>2, <3>1
    <2>5. /\ lease' \in [Lane -> Lease] /\ fences' \subseteq Fence
          /\ writer' \in [Lane -> Token \union {NoToken}]
      BY DEF QueueOK, TypeOK
    <2>6. job' = [job EXCEPT ![j] = row]
      OBVIOUS
    <2> HIDE DEF row
    <2>7. row.source \in ForegroundSource
      BY <1>1, <2>2
    <2>8. QueueOK' /\ \A k \in Job : job'[k] = IF k = j THEN row ELSE job[k]
      BY <2>3, <2>4, <2>5, <2>6, <2>7, OneRowQueue
    <2> QED BY <1>2, <2>2, <2>8
  <1>3. CASE seen = "PENDING"
    <2>1. row = [Detached(job[j], "CANCELLED") EXCEPT !.cancelRequested = TRUE]
      BY <1>3 DEF Cancelled, IdleStatus
    <2>2. RowOK(row)
      BY <1>1, <2>1, CancelRowOK
    <2>3. row.status = "CANCELLED" /\ row.source = job[j].source
      BY <1>1, <2>1, LeftRow DEF Row, Status, TerminalStatus
    <2>4. row.status \notin ExecutingStatus
      BY <2>3 DEF ExecutingStatus
    <2>5. /\ lease' \in [Lane -> Lease] /\ fences' \subseteq Fence
          /\ writer' \in [Lane -> Token \union {NoToken}]
      BY DEF QueueOK, TypeOK
    <2>6. job' = [job EXCEPT ![j] = row]
      OBVIOUS
    <2> HIDE DEF row
    <2>7. QueueOK' /\ \A k \in Job : job'[k] = IF k = j THEN row ELSE job[k]
      BY <1>1, <2>2, <2>3, <2>4, <2>5, <2>6, OneRowQueue
    <2> QED BY <1>3, <2>3, <2>7
  <1> QED BY <1>2, <1>3

\* Resolver jobs come from people, so the sweep of outdated jobs has nothing to do.
LEMMA SweptFacts ==
  ASSUME QueueOK, NEW l \in Lane, NEW r \in Reading, NEW j \in Job
  PROVE  /\ RowOK(Swept(l, r)[j]) /\ Swept(l, r)[j].source \in ForegroundSource
         /\ j \notin Abandoned(l, r) => Swept(l, r)[j] = job[j]
         /\ j \in Abandoned(l, r) =>
              /\ Executes(j)
              /\ job[j].status = "CANCELLING" => Swept(l, r)[j].status = "CANCELLED"
              /\ job[j].status = "PAUSING" => Swept(l, r)[j].status = "PAUSED"
              /\ job[j].status = "RUNNING" => Swept(l, r)[j].status \in {"RETRY_WAIT", "FAILED"}
  <1> DEFINE row == IF j \in Abandoned(l, r) THEN RecoveredRow(job[j], r) ELSE job[j]
  <1>1. RowOK(job[j]) /\ job[j] \in Row /\ job[j].source \in ForegroundSource
    BY DEF QueueOK, RowOK
  <1>2. RowOK(Swept(l, r)[j])
    BY SweptOK DEF QueueOK
  <1>3. row.source \in ForegroundSource
    BY <1>1 DEF RecoveredRow, Detached, Row
  <1>4. Swept(l, r)[j] = row
    BY <1>3 DEF Swept, WindowExpired
  <1>5. j \in Abandoned(l, r) => Executes(j)
    BY DEF Abandoned, Executing, Executes
  <1>6. ASSUME j \in Abandoned(l, r)
        PROVE  /\ job[j].status = "CANCELLING" => row.status = "CANCELLED"
               /\ job[j].status = "PAUSING" => row.status = "PAUSED"
               /\ job[j].status = "RUNNING" => row.status \in {"RETRY_WAIT", "FAILED"}
    <2>1. ASSUME NEW outcome
          PROVE  [Detached(job[j], outcome) EXCEPT
                    !.availableAt = IF outcome = "RETRY_WAIT" THEN r ELSE @].status = outcome
      BY <1>1 DEF Detached, Row
    <2>2. row = RecoveredRow(job[j], r)
      BY <1>6
    <2>3. CASE job[j].status = "CANCELLING"
      BY <2>1, <2>2, <2>3 DEF RecoveredRow
    <2>4. CASE job[j].status = "PAUSING"
      BY <2>1, <2>2, <2>4 DEF RecoveredRow
    <2>5. CASE job[j].status = "RUNNING"
      BY <2>1, <2>2, <2>5 DEF RecoveredRow
    <2> QED BY <2>3, <2>4, <2>5
  <1> QED BY <1>2, <1>3, <1>4, <1>5, <1>6

LEMMA RecoveredLeaseType ==
  ASSUME QueueOK, NEW l \in Lane, NEW r \in Reading
  PROVE  RecoveredLease(l, r) \in [Lane -> Lease]
  <1>1. lease \in [Lane -> Lease] /\ NoLease \in Lease
    BY QueueAssumption, TimeFacts DEF QueueOK, TypeOK, NoLease, Lease
  <1> QED BY <1>1 DEF RecoveredLease

LEMMA ClaimNothingQueue ==
  ASSUME QueueOK, NEW l \in Lane, NEW r \in Reading, ClaimNothing(l, r)
  PROVE  QueueOK' /\ job' = Swept(l, r) /\ fences' = fences
  <1>1. /\ job' = Swept(l, r) /\ lease' = RecoveredLease(l, r)
        /\ UNCHANGED <<fences, writer, commands, resolvePaused>>
    BY DEF ClaimNothing
  <1>2. \A j \in Job : RowOK(job'[j]) /\ job'[j].source \in ForegroundSource
    BY <1>1, SweptFacts
  <1>3. TypeOK'
    <2>1. job' \in [Job -> Row]
      BY <1>1, <1>2 DEF Swept, RowOK
    <2> QED BY <1>1, <2>1, RecoveredLeaseType DEF QueueOK, TypeOK
  <1>4. \A j \in Job : RowOK(job[j])'
    BY <1>2 DEF RowOK
  <1>5. \A j \in Job : Executes(j)' => Executes(j)
    BY <1>1, SweptFacts DEF Executes
  <1>6. OneExecution'
    BY <1>5 DEF QueueOK, OneExecution
  <1> QED BY <1>1, <1>2, <1>3, <1>4, <1>6 DEF QueueOK

LEMMA ClaimJobQueue ==
  ASSUME QueueOK, NEW w \in Worker, NEW l \in Lane, NEW r \in Reading, ClaimJob(w, l, r, FALSE)
  PROVE  /\ QueueOK'
         /\ \A k \in Job : Executes(k) => k \in Abandoned(l, r)
         /\ \E j \in Job, t \in Token \ TokensInUse, f \in Fence :
              /\ fences' = fences \union {f} /\ f.token = t
              /\ Swept(l, r)[j].status \in {"PENDING", "RETRY_WAIT"}
              /\ job'[j].status = "RUNNING" /\ job'[j].token = t
              /\ \A k \in Job \ {j} : job'[k] = Swept(l, r)[k]
  <1>1. PICK j \in Job, t \in Token \ TokensInUse :
          /\ LaneOf[j] = l
          /\ Eligible(Swept(l, r)[j], r, FALSE)
          /\ LET row == Started(Swept(l, r)[j], w, t, r)
             IN /\ job' = [Swept(l, r) EXCEPT ![j] = row]
                /\ lease' = [lease EXCEPT ![l] = [owner |-> j, worker |-> w, token |-> t,
                                                  expires |-> row.expires]]
                /\ fences' = fences \union {[job |-> j, worker |-> w, token |-> t,
                                             attempt |-> row.attempt]}
    BY DEF ClaimJob
  <1> DEFINE row == Started(Swept(l, r)[j], w, t, r)
             f == [job |-> j, worker |-> w, token |-> t, attempt |-> row.attempt]
  <1>2. /\ RowOK(row) /\ row \in Row /\ row.attempt \in 1..AttemptCap /\ row.status = "RUNNING"
        /\ row.worker = w /\ row.token = t /\ row.expires \in Time
    <2>1. RowOK(Swept(l, r)[j])
      BY SweptFacts
    <2>2. /\ RowOK(row) /\ row.attempt \in 1..AttemptCap /\ row.status = "RUNNING"
          /\ row.worker = w /\ row.token = t /\ row.expires \in Time
      <3>1. Eligible(Swept(l, r)[j], r, FALSE) /\ FALSE \in BOOLEAN /\ t \in Token
        BY <1>1
      <3> DEFINE old == Swept(l, r)[j]
                 open == FALSE
      <3>2. /\ row = Started(old, w, t, r) /\ RowOK(old) /\ open \in BOOLEAN
            /\ Eligible(old, r, open)
        BY <2>1, <3>1
      <3> HIDE DEF row, old, open
      <3> QED BY <3>1, <3>2, StartedOK
    <2> QED BY <2>2 DEF RowOK
  <1>3. row.source \in ForegroundSource
    BY <1>1, SweptFacts DEF Started, RowOK, Row
  <1> HIDE DEF row
  <1>4. /\ job' = [Swept(l, r) EXCEPT ![j] = row]
        /\ \A i \in Job : job'[i] = IF i = j THEN row ELSE Swept(l, r)[i]
    BY <1>1 DEF row, Swept
  <1>5. \A k \in Job : Executes(k) => k \in Abandoned(l, r)
    BY <1>1, IntakeAssumption DEF ClaimJob, LaneIsFree, Executing, Executes
  <1>6. \A i \in Job : RowOK(job'[i]) /\ job'[i].source \in ForegroundSource
    BY <1>2, <1>3, <1>4, SweptFacts
  <1>7. TypeOK'
    <2>1. job' \in [Job -> Row]
      BY <1>4, <1>6 DEF Swept, RowOK
    <2>2. lease' \in [Lane -> Lease]
      BY <1>1, <1>2 DEF QueueOK, TypeOK, Lease, row
    <2>3. fences' \subseteq Fence
      BY <1>1, <1>2 DEF QueueOK, TypeOK, Fence, row
    <2>4. UNCHANGED <<writer, commands, resolvePaused>>
      BY DEF ClaimJob
    <2> QED BY <2>1, <2>2, <2>3, <2>4 DEF QueueOK, TypeOK
  <1>8. \A k \in Job \ {j} : ~Executes(k)'
    <2> SUFFICES ASSUME NEW k \in Job \ {j} PROVE Swept(l, r)[k].status \notin ExecutingStatus
      BY <1>4 DEF Executes
    <2>1. CASE k \in Abandoned(l, r)
      BY <2>1, SweptOK DEF QueueOK
    <2>2. CASE k \notin Abandoned(l, r)
      BY <1>5, <2>2, SweptFacts DEF Executes
    <2> QED BY <2>1, <2>2
  <1>9. OneExecution'
    BY <1>8 DEF OneExecution
  <1>10. QueueOK'
    <2>1. commands' = {}
      BY DEF ClaimJob, QueueOK
    <2>2. \A i \in Job : RowOK(job[i])'
      BY <1>6 DEF RowOK
    <2> QED BY <1>6, <1>7, <1>9, <2>1, <2>2 DEF QueueOK
  <1>11. f \in Fence /\ f.token = t /\ fences' = fences \union {f}
    BY <1>1, <1>2 DEF Fence, row
  <1>12. Swept(l, r)[j].status \in {"PENDING", "RETRY_WAIT"}
    BY <1>1 DEF Eligible
  <1> HIDE DEF f
  <1> QED BY <1>1, <1>2, <1>4, <1>5, <1>10, <1>11, <1>12

-----------------------------------------------------------------------------
(* Items beside a step                                                     *)

StageStatus == {"none", "starting", "resolving", "thrown"}

\* No execution of the item's jobs is set back to its beginning.
StagesFit(i) ==
  faults' = 0 =>
    /\ faults = 0
    /\ \A t \in Token : stage'[t] \in UnbegunStage =>
         \/ stage[t] \in UnbegunStage
         \/ \A j \in Job : ItemOf[j] = i /\ Executes(j) => job[j].token # t

LEMMA ItemFacts ==
  ASSUME IntakeInv, NEW i \in Item
  PROVE  /\ item[i] \in ItemRow /\ StoryOK(i)
         /\ item[i].job = NoJob \/ item[i].job \in Job
         /\ item[i].status \in ActiveStatus \union {"CANCELLED", "ENQUEUED"} =>
              item[i].job \in Job /\ ItemOf[item[i].job] = i
         /\ item[i].status \notin WaitingStatus =>
              \A j \in Job : ItemOf[j] = i => job[j].status \notin LiveStatus
  <1>1. item[i] \in ItemRow
    BY DEF IntakeInv, IntakeTypeOK
  <1>2. StoryOK(i)
    BY DEF IntakeInv, StoriesOK
  <1>3. item[i].job = NoJob \/ item[i].job \in Job
    BY <1>1 DEF ItemRow
  <1> QED BY <1>1, <1>2, <1>3 DEF StoryOK, ActiveStatus

LEMMA OtherStory ==
  ASSUME IntakeInv, NEW i \in Item, item'[i] = item[i],
         \A j \in Job : ItemOf[j] = i =>
           job'[j].status = job[j].status /\ (Executes(j) => job'[j].token = job[j].token),
         StagesFit(i)
  PROVE  StoryOK(i)'
  <1> DEFINE own == item[i].job
  <1>1. StoryOK(i) /\ (own = NoJob \/ own \in Job)
    BY ItemFacts
  <1>2. own' = own
    OBVIOUS
  <1>3. own # NoJob => job'[own].status = job[own].status /\ ItemOf[own] = i
    BY <1>1 DEF StoryOK
  <1>4. ASSUME faults' = 0, item[i].status = "RESOLVING"
        PROVE  /\ Executes(own)' /\ \A t \in Token : job'[own].token = t => stage'[t] \notin UnbegunStage
    <2>1. faults = 0
      BY <1>4 DEF StagesFit
    <2>2. own # NoJob /\ Executes(own) /\ \A t \in Token : job[own].token = t => stage[t] \notin UnbegunStage
      BY <1>1, <1>4, <2>1 DEF StoryOK
    <2>3. own \in Job /\ ItemOf[own] = i /\ job'[own].token = job[own].token
      BY <1>1, <1>3, <2>2
    <2>4. Executes(own)'
      BY <1>3, <2>2 DEF Executes
    <2> QED BY <1>4, <2>2, <2>3, <2>4 DEF StagesFit
  <1> QED BY <1>1, <1>2, <1>3, <1>4 DEF StoryOK

\* A step of item i and its jobs.
LEMMA OneItemStep ==
  ASSUME IntakeInv, NEW i \in Item, QueueOK',
         item' \in [Item -> ItemRow], \A k \in Item \ {i} : item'[k] = item[k],
         \A j \in Job : ItemOf[j] # i => job'[j] = job[j],
         stage' \in [Token -> StageStatus], faults' \in 0..MaxFaults,
         \A t \in Token : stage'[t] # "none" => \E f \in fences' : f.token = t,
         \A k \in Item \ {i} : StagesFit(k),
         StoryOK(i)'
  PROVE  IntakeInv'
  <1>1. ASSUME NEW k \in Item \ {i} PROVE StoryOK(k)'
    BY OtherStory
  <1>2. StoriesOK'
    BY <1>1 DEF StoriesOK
  <1>3. IntakeTypeOK'
    BY DEF IntakeTypeOK, StageStatus
  <1> QED BY <1>2, <1>3 DEF IntakeInv

LEMMA SameStages ==
  ASSUME IntakeInv, UNCHANGED <<stage, faults, fences>>
  PROVE  /\ stage' \in [Token -> StageStatus] /\ faults' \in 0..MaxFaults
         /\ \A t \in Token : stage'[t] # "none" => \E f \in fences' : f.token = t
         /\ \A k \in Item : StagesFit(k)
  BY DEF IntakeInv, IntakeTypeOK, StageStatus, StagesFit

\* A command of the App on one item and its jobs.
LEMMA ItemCommandStep ==
  ASSUME IntakeInv, NEW i \in Item, QueueOK',
         item' \in [Item -> ItemRow], \A k \in Item \ {i} : item'[k] = item[k],
         \A j \in Job : ItemOf[j] # i => job'[j] = job[j],
         UNCHANGED <<stage, faults, fences>>,
         StoryOK(i)'
  PROVE  IntakeInv'
  BY SameStages, OneItemStep

\* A step that no item notices.
LEMMA QuietStep ==
  ASSUME IntakeInv, QueueOK', item' = item,
         \A j \in Job : job'[j].status = job[j].status /\ job'[j].token = job[j].token,
         stage' \in [Token -> StageStatus], faults' \in 0..MaxFaults,
         \A t \in Token : stage'[t] # "none" => \E f \in fences' : f.token = t,
         \A k \in Item : StagesFit(k)
  PROVE  IntakeInv'
  <1>1. StoriesOK'
    BY OtherStory DEF StoriesOK
  <1>2. IntakeTypeOK'
    BY DEF IntakeTypeOK, StageStatus, IntakeInv
  <1> QED BY <1>1, <1>2 DEF IntakeInv

-----------------------------------------------------------------------------
(* The steps                                                               *)

\* An item without a live job gets a new one.
LEMMA NewJobStep ==
  ASSUME IntakeInv, NEW i \in Item, NEW j \in Job, ItemOf[j] = i, QueueOK',
         item[i].status \notin WaitingStatus,
         job[j].status = "ABSENT", job'[j].status = "PENDING",
         \A k \in Job \ {j} : job'[k] = job[k],
         NEW row \in ItemRow, row.status = "QUEUED", row.job = j, ~row.cancelRequested,
         item' = [item EXCEPT ![i] = row],
         UNCHANGED <<stage, faults, fences>>
  PROVE  IntakeInv'
  <1>1. item \in [Item -> ItemRow]
    BY DEF IntakeInv, IntakeTypeOK
  <1>2. item' \in [Item -> ItemRow] /\ item'[i] = row /\ \A k \in Item \ {i} : item'[k] = item[k]
    BY <1>1
  <1>3. j # NoJob
    BY QueueAssumption
  <1>4. \A k \in Job : ItemOf[k] = i /\ job'[k].status \in LiveStatus => k = j
    BY ItemFacts
  <1>5. StoryOK(i)'
    BY <1>2, <1>3, <1>4 DEF StoryOK, WaitingStatus
  <1> QED BY <1>2, <1>5, ItemCommandStep

LEMMA SubmitStep ==
  ASSUME IntakeInv, NEW i \in Item, Submit(i)
  PROVE  IntakeInv'
  <1>1. /\ item[i].status = "ABSENT" /\ item \in [Item -> ItemRow] /\ QueueOK
        /\ UNCHANGED <<stage, faults>>
    BY DEF Submit, StageUnchanged, IntakeInv, IntakeTypeOK
  <1>2. CASE item' = [item EXCEPT ![i] = NewItem("DUPLICATE", NoJob)] /\ UNCHANGED vars
    <2>1. /\ item'[i] = NewItem("DUPLICATE", NoJob) /\ \A k \in Item \ {i} : item'[k] = item[k]
          /\ item' \in [Item -> ItemRow]
      BY <1>1, <1>2 DEF NewItem, ItemRow
    <2>2. job' = job /\ fences' = fences /\ QueueOK'
      BY <1>1, <1>2, SameJobsQueue DEF vars, QueueOK, TypeOK
    <2>3. StoryOK(i)'
      BY <1>1, <2>1, <2>2, ItemFacts DEF StoryOK, NewItem, WaitingStatus
    <2> QED BY <1>1, <2>1, <2>2, <2>3, ItemCommandStep
  <1>3. CASE \E j \in Job, r \in Reading :
               /\ ItemOf[j] = i
               /\ Enqueue(j, ResolveRequest, r)
               /\ item' = [item EXCEPT ![i] = NewItem("QUEUED", j)]
    <2>1. PICK j \in Job, r \in Reading :
               /\ ItemOf[j] = i
               /\ Enqueue(j, ResolveRequest, r)
               /\ item' = [item EXCEPT ![i] = NewItem("QUEUED", j)]
      BY <1>3
    <2>2. /\ QueueOK' /\ job[j].status = "ABSENT" /\ job'[j].status = "PENDING"
          /\ \A k \in Job \ {j} : job'[k] = job[k]
          /\ fences' = fences
      BY <1>1, <2>1, EnqueueQueue
    <2> DEFINE row == NewItem("QUEUED", j)
    <2>3. row \in ItemRow /\ row.status = "QUEUED" /\ row.job = j /\ ~row.cancelRequested
      BY DEF NewItem, ItemRow, ActiveStatus
    <2> HIDE DEF row
    <2>4. item' = [item EXCEPT ![i] = row]
      BY <2>1 DEF row
    <2> QED BY <1>1, <2>1, <2>2, <2>3, <2>4, NewJobStep DEF WaitingStatus
  <1> QED BY <1>2, <1>3 DEF Submit

LEMMA RequeuedRow ==
  ASSUME NEW row \in ItemRow, NEW j \in Job
  PROVE  /\ Requeued(row, j) \in ItemRow /\ Requeued(row, j).status = "QUEUED"
         /\ Requeued(row, j).job = j /\ ~Requeued(row, j).cancelRequested
  BY DEF Requeued, ItemRow, ActiveStatus

LEMMA RetryItemStep ==
  ASSUME IntakeInv, NEW i \in Item, RetryItem(i)
  PROVE  IntakeInv'
  <1>1. /\ item[i].status \in {"FAILED", "CANCELLED", "READY"} /\ item[i] \in ItemRow /\ QueueOK
        /\ UNCHANGED <<stage, faults>>
    BY DEF RetryItem, StageUnchanged, IntakeInv, IntakeTypeOK
  <1>2. PICK j \in Job, r \in Reading :
          /\ ItemOf[j] = i
          /\ Enqueue(j, ResolveRequest, r)
          /\ item' = [item EXCEPT ![i] = Requeued(@, j)]
    BY DEF RetryItem
  <1>3. /\ QueueOK' /\ job[j].status = "ABSENT" /\ job'[j].status = "PENDING"
        /\ \A k \in Job \ {j} : job'[k] = job[k]
        /\ fences' = fences
    BY <1>1, <1>2, EnqueueQueue
  <1> DEFINE row == Requeued(item[i], j)
  <1>4. row \in ItemRow /\ row.status = "QUEUED" /\ row.job = j /\ ~row.cancelRequested
    BY <1>1, RequeuedRow
  <1> HIDE DEF row
  <1>5. item' = [item EXCEPT ![i] = row]
    BY <1>2 DEF row
  <1> QED BY <1>1, <1>2, <1>3, <1>4, <1>5, NewJobStep DEF WaitingStatus

LEMMA RetryJobStep ==
  ASSUME IntakeInv, NEW old \in Job, NEW j \in Job, RetryJob(old, j)
  PROVE  IntakeInv'
  <1> DEFINE i == ItemOf[old]
  <1>1. /\ i \in Item /\ ItemOf[j] = i /\ item[i].status \in {"FAILED", "CANCELLED"}
        /\ item' = [item EXCEPT ![i] = Requeued(@, j)]
        /\ UNCHANGED <<stage, faults>>
    BY IntakeAssumption DEF RetryJob, StageUnchanged
  <1>2. QueueOK /\ item[i] \in ItemRow
    BY <1>1 DEF IntakeInv, IntakeTypeOK
  <1>3. PICK r \in Reading : RetryAsNewJob(old, j, r)
    BY DEF RetryJob
  <1>4. /\ QueueOK' /\ job[j].status = "ABSENT" /\ job'[j].status = "PENDING"
        /\ \A k \in Job \ {j} : job'[k] = job[k]
        /\ fences' = fences
    BY <1>2, <1>3, RetryQueue
  <1> HIDE DEF i
  <1> DEFINE row == Requeued(item[i], j)
  <1>5. row \in ItemRow /\ row.status = "QUEUED" /\ row.job = j /\ ~row.cancelRequested
    BY <1>2, RequeuedRow
  <1> HIDE DEF row
  <1>6. item' = [item EXCEPT ![i] = row]
    BY <1>1 DEF row
  <1> QED BY <1>1, <1>4, <1>5, <1>6, NewJobStep DEF WaitingStatus

LEMMA RejectedStep ==
  ASSUME IntakeInv, NEW i \in Item, ReplacementRejected(i)
  PROVE  IntakeInv'
  <1>1. /\ item[i].status = "ABSENT" /\ item \in [Item -> ItemRow] /\ QueueOK
        /\ item' = [item EXCEPT ![i] = NewItem("FAILED", NoJob)]
        /\ UNCHANGED vars /\ UNCHANGED <<stage, faults>>
    BY DEF ReplacementRejected, StageUnchanged, IntakeInv, IntakeTypeOK
  <1>2. /\ item'[i] = NewItem("FAILED", NoJob) /\ \A k \in Item \ {i} : item'[k] = item[k]
        /\ item' \in [Item -> ItemRow]
    BY <1>1 DEF NewItem, ItemRow
  <1>3. job' = job /\ fences' = fences /\ QueueOK'
    BY <1>1, SameJobsQueue DEF vars, QueueOK, TypeOK
  <1>4. StoryOK(i)'
    BY <1>1, <1>2, <1>3, ItemFacts DEF StoryOK, NewItem, WaitingStatus
  <1> QED BY <1>1, <1>2, <1>3, <1>4, ItemCommandStep

LEMMA EnqueueItemStep ==
  ASSUME IntakeInv, NEW i \in Item, EnqueueItem(i)
  PROVE  IntakeInv'
  <1>1. /\ item[i].status = "READY" /\ item \in [Item -> ItemRow] /\ item[i] \in ItemRow /\ QueueOK
        /\ item' = [item EXCEPT ![i].status = "ENQUEUED"]
        /\ UNCHANGED vars /\ UNCHANGED <<stage, faults>>
    BY DEF EnqueueItem, StageUnchanged, IntakeInv, IntakeTypeOK
  <1>2. /\ item'[i] = [item[i] EXCEPT !.status = "ENQUEUED"]
        /\ \A k \in Item \ {i} : item'[k] = item[k]
    BY <1>1
  <1>3. /\ item'[i].status = "ENQUEUED" /\ item'[i].job = item[i].job
        /\ item'[i].cancelRequested = item[i].cancelRequested
        /\ item' \in [Item -> ItemRow]
    BY <1>1, <1>2 DEF ItemRow
  <1>4. job' = job /\ fences' = fences /\ QueueOK'
    BY <1>1, SameJobsQueue DEF vars, QueueOK, TypeOK
  <1>5. StoryOK(i)'
    BY <1>1, <1>3, <1>4, ItemFacts DEF StoryOK, ActiveStatus, WaitingStatus
  <1> QED BY <1>1, <1>2, <1>3, <1>4, <1>5, ItemCommandStep

LEMMA CancelItemFacts ==
  ASSUME IntakeInv, NEW i \in Item, CancelItem(i)
  PROVE  LET j == item[i].job
             running == item[i].status = "RESOLVING"
             over == job[j].status \in TerminalStatus
         IN /\ QueueOK' /\ UNCHANGED <<stage, faults, fences>>
            /\ item[i].status \in ActiveStatus /\ j \in Job /\ ItemOf[j] = i /\ j # NoJob
            /\ item'[i].cancelRequested /\ item'[i].job = j
            /\ item'[i].status = IF running THEN "RESOLVING" ELSE "CANCELLED"
            /\ \A k \in Item \ {i} : item'[k] = item[k]
            /\ item' \in [Item -> ItemRow]
            /\ \A k \in Job \ {j} : job'[k] = job[k]
            /\ over => job'[j] = job[j]
            /\ ~over /\ running => job'[j].status = "CANCELLING" /\ job'[j].token = job[j].token
            /\ ~over /\ ~running => job'[j].status = "CANCELLED"
  <1> DEFINE j == item[i].job
             running == item[i].status = "RESOLVING"
             over == job[j].status \in TerminalStatus
  <1>1. /\ item[i].status \in ActiveStatus
        /\ running /\ ~over => Executing(LaneOf[j]) \subseteq {j}
        /\ job' = IF over THEN job
                  ELSE [job EXCEPT ![j] = Cancelled(@, IF running THEN "RUNNING" ELSE "PENDING")]
        /\ item' = [item EXCEPT ![i].cancelRequested = TRUE,
                                ![i].status = IF running THEN @ ELSE "CANCELLED"]
        /\ UNCHANGED <<lease, fences, writer, commands, resolvePaused>>
        /\ UNCHANGED <<stage, faults>>
    BY DEF CancelItem, StageUnchanged
  <1>2. /\ item \in [Item -> ItemRow] /\ item[i] \in ItemRow /\ QueueOK
        /\ j \in Job /\ ItemOf[j] = i /\ j # NoJob
    BY <1>1, ItemFacts, QueueAssumption DEF IntakeInv, IntakeTypeOK
  <1>3. /\ item'[i].cancelRequested /\ item'[i].job = j
        /\ item'[i].status = IF running THEN "RESOLVING" ELSE "CANCELLED"
        /\ \A k \in Item \ {i} : item'[k] = item[k]
        /\ item' \in [Item -> ItemRow]
    BY <1>1, <1>2 DEF ItemRow
  <1>4. /\ QueueOK' /\ \A k \in Job \ {j} : job'[k] = job[k]
        /\ over => job'[j] = job[j]
        /\ ~over /\ running => job'[j].status = "CANCELLING" /\ job'[j].token = job[j].token
        /\ ~over /\ ~running => job'[j].status = "CANCELLED"
    <2>1. CASE over
      <3>1. job' = job
        BY <1>1, <2>1
      <3>2. QueueOK'
        BY <1>1, <1>2, <3>1, SameJobsQueue DEF QueueOK, TypeOK
      <3> QED BY <2>1, <3>1, <3>2
    <2>2. CASE ~over /\ running
      <3>1. /\ job' = [job EXCEPT ![j] = Cancelled(@, "RUNNING")]
            /\ Executing(LaneOf[j]) \subseteq {j}
        BY <1>1, <2>2
      <3> QED BY <1>1, <1>2, <2>2, <3>1, CancelledJobQueue
    <2>3. CASE ~over /\ ~running
      <3>1. job' = [job EXCEPT ![j] = Cancelled(@, "PENDING")]
        BY <1>1, <2>3
      <3> QED BY <1>1, <1>2, <2>3, <3>1, CancelledJobQueue
    <2> QED BY <2>1, <2>2, <2>3
  <1> QED BY <1>1, <1>2, <1>3, <1>4

LEMMA CancelItemStep ==
  ASSUME IntakeInv, NEW i \in Item, CancelItem(i)
  PROVE  IntakeInv'
  <1> DEFINE j == item[i].job
             running == item[i].status = "RESOLVING"
             over == job[j].status \in TerminalStatus
  <1>1. /\ QueueOK' /\ UNCHANGED <<stage, faults, fences>>
        /\ j \in Job /\ ItemOf[j] = i /\ j # NoJob
        /\ item'[i].cancelRequested /\ item'[i].job = j
        /\ item'[i].status = IF running THEN "RESOLVING" ELSE "CANCELLED"
        /\ \A k \in Item \ {i} : item'[k] = item[k]
        /\ item' \in [Item -> ItemRow]
        /\ \A k \in Job \ {j} : job'[k] = job[k]
        /\ over => job'[j] = job[j]
        /\ ~over /\ running => job'[j].status = "CANCELLING" /\ job'[j].token = job[j].token
        /\ ~over /\ ~running => job'[j].status = "CANCELLED"
    BY CancelItemFacts
  <1>2. /\ StoryOK(i)
        /\ \A k \in Job : ItemOf[k] = i /\ job[k].status \in LiveStatus => k = j
        /\ job[j].status # "ABSENT" /\ job[j].status \in Status
    BY <1>1, ItemFacts DEF StoryOK, IntakeInv, QueueOK, TypeOK, Row
  <1> HIDE DEF j
  <1>3. StoryOK(i)'
    <2>1. CASE running
      <3>1. /\ item[i].job = j /\ item[i].status = "RESOLVING" /\ faults' = faults /\ stage' = stage
            /\ item'[i].job = j /\ item'[i].status = "RESOLVING"
        BY <1>1, <2>1 DEF j
      <3>2. ASSUME faults' = 0
            PROVE  /\ job'[j].status \in ExecutingStatus
                   /\ \A t \in Token : job'[j].token = t => stage'[t] \notin UnbegunStage
        <4>1. /\ job[j].status \in ExecutingStatus
              /\ \A t \in Token : job[j].token = t => stage[t] \notin UnbegunStage
          BY <1>1, <1>2, <3>1, <3>2 DEF StoryOK, Executes
        <4>2. ~over
          BY <4>1 DEF ExecutingStatus, TerminalStatus
        <4> QED BY <1>1, <2>1, <3>1, <4>1, <4>2 DEF ExecutingStatus
      <3>3. job'[j].status # "ABSENT" /\ (job'[j].status \in LiveStatus => job'[j].status = "CANCELLING")
        BY <1>1, <1>2, <2>1 DEF LiveStatus, TerminalStatus
      <3>4. \A k \in Job : ItemOf[k] = i /\ job'[k].status \in LiveStatus => k = j
        BY <1>1, <1>2
      <3> QED BY <1>1, <3>1, <3>2, <3>3, <3>4 DEF StoryOK, WaitingStatus, Executes
    <2>2. CASE ~running
      BY <1>1, <1>2, <2>2 DEF StoryOK, LiveStatus, TerminalStatus
    <2> QED BY <2>1, <2>2
  <1> QED BY <1>1, <1>3, ItemCommandStep

\* A job command, its job and the one item bound to it.
LEMMA JobCommandFacts ==
  ASSUME IntakeInv, NEW kind \in {"cancel", "pause", "resume"}, NEW j \in Job,
         JobCommand(kind, j)
  PROVE  LET i == ItemOf[j]
             direct == job[j].status \in IdleStatus
         IN /\ QueueOK' /\ UNCHANGED <<stage, faults, fences>> /\ i \in Item /\ j # NoJob
            /\ job[j].status \in LiveStatus \ {"CANCELLING"}
            /\ item[i].job = j /\ item[i].status \in WaitingStatus /\ ~item[i].cancelRequested
            /\ \A k \in Job : ItemOf[k] = i /\ job[k].status \in LiveStatus => k = j
            /\ \A k \in Job \ {j} : job'[k] = job[k]
            /\ Executes(j) => job'[j].token = job[j].token
            /\ kind = "cancel" => job'[j].status = IF direct THEN "CANCELLED" ELSE "CANCELLING"
            /\ kind = "pause" => job'[j].status = IF job[j].status = "RUNNING" THEN "PAUSING" ELSE "PAUSED"
            /\ kind = "resume" => job'[j].status = "PENDING"
            /\ job'[j].status \in ExecutingStatus <=> Executes(j)
            /\ \A k \in Item \ {i} : item'[k] = item[k]
            /\ item' \in [Item -> ItemRow] /\ item'[i].job = j
            /\ kind # "cancel" => item'[i] = item[i]
            /\ kind = "cancel" =>
                 /\ item'[i].status = IF direct THEN "CANCELLED" ELSE item[i].status
                 /\ item'[i].cancelRequested
  <1> DEFINE i == ItemOf[j]
             direct == job[j].status \in IdleStatus
  <1>1. /\ job[j].status \in Accepts(kind) /\ UNCHANGED <<stage, faults>>
        /\ kind = "cancel" =>
             item' = [k \in Item |->
                        IF item[k].job # j THEN item[k]
                        ELSE [item[k] EXCEPT !.cancelRequested = TRUE,
                                             !.status = IF direct THEN "CANCELLED" ELSE @]]
        /\ kind # "cancel" => item' = item
    BY DEF JobCommand, StageUnchanged
  <1>2. i \in Item /\ QueueOK /\ item \in [Item -> ItemRow] /\ item[i] \in ItemRow
        /\ job[j].status \in Status
    BY IntakeAssumption DEF IntakeInv, IntakeTypeOK, QueueOK, TypeOK, Row
  <1>3. PICK r \in Reading :
          ApplyCommand([kind |-> kind, job |-> j, seen |-> job[j].status], r)
    BY DEF JobCommand
  <1>4. /\ QueueOK' /\ fences' = fences
        /\ \A k \in Job \ {j} : job'[k] = job[k]
        /\ Executes(j) => job'[j].token = job[j].token
        /\ kind = "cancel" => job'[j].status = IF direct THEN "CANCELLED" ELSE "CANCELLING"
        /\ kind = "pause" => job'[j].status = IF job[j].status = "RUNNING" THEN "PAUSING" ELSE "PAUSED"
        /\ kind = "resume" => job'[j].status = "PENDING"
        /\ job'[j].status \in ExecutingStatus <=> Executes(j)
    BY <1>1, <1>2, <1>3, CommandQueue
  <1>5. job[j].status \in LiveStatus \ {"CANCELLING"}
    <2>1. job[j].status \in IdleStatus \union {"RUNNING", "PAUSING"}
      BY <1>1 DEF Accepts, IdleStatus
    <2> QED BY <2>1 DEF LiveStatus, Status, IdleStatus, ExecutingStatus, TerminalStatus
  <1>6. /\ item[i].job = j /\ item[i].status \in WaitingStatus /\ ~item[i].cancelRequested
        /\ StoryOK(i) /\ j # NoJob
        /\ \A k \in Job : ItemOf[k] = i /\ job[k].status \in LiveStatus => k = j
    BY <1>2, <1>5, ItemFacts, QueueAssumption DEF StoryOK
  <1>7. \A k \in Item \ {i} : item[k].job # j
    BY <1>6, ItemFacts DEF StoryOK
  <1>8. /\ \A k \in Item \ {i} : item'[k] = item[k]
        /\ item' \in [Item -> ItemRow] /\ item'[i].job = j
        /\ kind # "cancel" => item'[i] = item[i]
        /\ kind = "cancel" =>
             /\ item'[i].status = IF direct THEN "CANCELLED" ELSE item[i].status
             /\ item'[i].cancelRequested
    <2> HIDE DEF i, direct
    <2>1. CASE kind = "cancel"
      <3> DEFINE told == [item[i] EXCEPT !.cancelRequested = TRUE,
                                         !.status = IF direct THEN "CANCELLED" ELSE @]
      <3>1. /\ told \in ItemRow /\ told.job = item[i].job /\ told.cancelRequested
            /\ told.status = IF direct THEN "CANCELLED" ELSE item[i].status
        BY <1>2 DEF ItemRow
      <3>2. /\ item' = [k \in Item |->
                          IF item[k].job # j THEN item[k]
                          ELSE [item[k] EXCEPT !.cancelRequested = TRUE,
                                               !.status = IF direct THEN "CANCELLED" ELSE @]]
            /\ item'[i] = told
        BY <1>1, <1>2, <1>6, <2>1 DEF direct
      <3>3. \A k \in Item \ {i} : item'[k] = item[k]
        BY <1>7, <3>2
      <3> HIDE DEF told
      <3>4. item' \in [Item -> ItemRow]
        <4>1. \A k \in Item : item'[k] \in ItemRow
          BY <1>2, <3>1, <3>2, <3>3
        <4> QED BY <3>2, <4>1
      <3> QED BY <1>6, <2>1, <3>1, <3>2, <3>3, <3>4
    <2>2. CASE kind # "cancel"
      BY <1>1, <1>2, <1>6, <2>2
    <2> QED BY <2>1, <2>2
  <1> QED BY <1>1, <1>2, <1>4, <1>5, <1>6, <1>8

LEMMA JobCommandStep ==
  ASSUME IntakeInv, NEW kind \in {"cancel", "pause", "resume"}, NEW j \in Job,
         JobCommand(kind, j)
  PROVE  IntakeInv'
  <1> DEFINE i == ItemOf[j]
             direct == job[j].status \in IdleStatus
  <1>1. /\ QueueOK' /\ UNCHANGED <<stage, faults, fences>> /\ i \in Item /\ j # NoJob
        /\ item[i].job = j /\ item[i].status \in WaitingStatus /\ ~item[i].cancelRequested
        /\ \A k \in Job : ItemOf[k] = i /\ job[k].status \in LiveStatus => k = j
        /\ \A k \in Job \ {j} : job'[k] = job[k]
        /\ Executes(j) => job'[j].token = job[j].token
        /\ kind = "cancel" => job'[j].status = IF direct THEN "CANCELLED" ELSE "CANCELLING"
        /\ kind = "pause" => job'[j].status = IF job[j].status = "RUNNING" THEN "PAUSING" ELSE "PAUSED"
        /\ kind = "resume" => job'[j].status = "PENDING"
        /\ job'[j].status \in ExecutingStatus <=> Executes(j)
        /\ \A k \in Item \ {i} : item'[k] = item[k]
        /\ item' \in [Item -> ItemRow] /\ item'[i].job = j
        /\ kind # "cancel" => item'[i] = item[i]
        /\ kind = "cancel" =>
             /\ item'[i].status = IF direct THEN "CANCELLED" ELSE item[i].status
             /\ item'[i].cancelRequested
    BY JobCommandFacts
  <1>2. StoryOK(i)
    BY <1>1, ItemFacts
  <1>3. \A k \in Job : ItemOf[k] = i /\ job'[k].status \in LiveStatus => k = j
    BY <1>1
  <1>4. ASSUME faults' = 0, item[i].status = "RESOLVING"
        PROVE  /\ job'[j].status \in ExecutingStatus
               /\ \A t \in Token : job'[j].token = t => stage'[t] \notin UnbegunStage
    BY <1>1, <1>2, <1>4 DEF StoryOK, Executes
  <1>5. job'[j].status # "ABSENT"
    BY <1>1
  <1> HIDE DEF i
  <1>6. StoryOK(i)'
    <2>1. CASE kind = "cancel" /\ direct
      <3>1. /\ item'[i].job = j /\ item'[i].status = "CANCELLED" /\ job'[j].status = "CANCELLED"
        BY <1>1, <2>1
      <3> QED BY <1>1, <1>3, <3>1 DEF StoryOK, LiveStatus, TerminalStatus, i
    <2>2. CASE kind = "cancel" /\ ~direct
      <3>1. /\ item'[i].job = j /\ item'[i].status = item[i].status /\ job'[j].status = "CANCELLING"
        BY <1>1, <2>2
      <3> QED BY <1>1, <1>3, <1>4, <3>1 DEF StoryOK, Executes, WaitingStatus, i
    <2>3. CASE kind # "cancel"
      <3>1. item'[i] = item[i]
        BY <1>1, <2>3
      <3> QED BY <1>1, <1>3, <1>4, <1>5, <3>1 DEF StoryOK, Executes, WaitingStatus, i
    <2> QED BY <2>1, <2>2, <2>3
  <1>7. \A k \in Job : ItemOf[k] # i => job'[k] = job[k]
    BY <1>1 DEF i
  <1> QED BY <1>1, <1>6, <1>7, ItemCommandStep

\* The execution a fence owns finds its item waiting for it.
LEMMA OwnedItem ==
  ASSUME IntakeInv, NEW f \in fences, f.job \in Job, Executes(f.job)
  PROVE  LET i == ItemOf[f.job]
         IN /\ i \in Item /\ item[i].job = f.job /\ item[i].status \in WaitingStatus
            /\ item[i].cancelRequested => job[f.job].status = "CANCELLING"
            /\ \A k \in Job : ItemOf[k] = i /\ job[k].status \in LiveStatus => k = f.job
            /\ \A k \in Item : item[k].job = f.job => k = i
  <1> DEFINE i == ItemOf[f.job]
  <1>1. i \in Item
    BY IntakeAssumption
  <1>2. job[f.job].status \in LiveStatus
    BY DEF Executes, LiveStatus, Status, ExecutingStatus, TerminalStatus
  <1>3. f.job # NoJob
    BY QueueAssumption
  <1> QED BY <1>1, <1>2, <1>3, ItemFacts DEF StoryOK

\* Only stages of the fence's own execution change.
LEMMA StagesOfOne ==
  ASSUME IntakeInv, NEW f \in fences, f.job \in Job, f.token \in Token, Executes(f.job),
         job[f.job].token = f.token, NEW s \in StageStatus, s # "none",
         stage' = [stage EXCEPT ![f.token] = s], faults' = faults, fences' = fences
  PROVE  /\ stage' \in [Token -> StageStatus] /\ faults' \in 0..MaxFaults
         /\ \A t \in Token : stage'[t] = IF t = f.token THEN s ELSE stage[t]
         /\ \A t \in Token : stage'[t] # "none" => \E g \in fences' : g.token = t
         /\ \A k \in Item \ {ItemOf[f.job]} : StagesFit(k)
  <1>1. stage \in [Token -> StageStatus] /\ faults \in 0..MaxFaults
        /\ \A t \in Token : stage[t] # "none" => \E g \in fences : g.token = t
    BY DEF IntakeInv, IntakeTypeOK, StageStatus
  <1>2. \A t \in Token : stage'[t] = IF t = f.token THEN s ELSE stage[t]
    BY <1>1
  <1>3. \A t \in Token : stage'[t] # "none" => \E g \in fences' : g.token = t
    BY <1>1, <1>2
  <1>4. \A j \in Job : Executes(j) => j = f.job
    BY DEF IntakeInv, QueueOK, OneExecution
  <1>5. \A k \in Item \ {ItemOf[f.job]} : StagesFit(k)
    BY <1>2, <1>4 DEF StagesFit
  <1> QED BY <1>1, <1>2, <1>3, <1>5

LEMMA StagesEnd ==
  ASSUME IntakeInv, NEW f \in fences, f.token \in Token,
         stage' = [stage EXCEPT ![f.token] = "none"], faults' = faults,
         fences' = fences \/ fences' = fences \ {f}
  PROVE  /\ stage' \in [Token -> StageStatus] /\ faults' \in 0..MaxFaults
         /\ \A t \in Token : stage'[t] # "none" => \E g \in fences' : g.token = t
         /\ \A k \in Item : StagesFit(k)
  <1>1. stage \in [Token -> StageStatus] /\ faults \in 0..MaxFaults
        /\ \A t \in Token : stage[t] # "none" => \E g \in fences : g.token = t
    BY DEF IntakeInv, IntakeTypeOK, StageStatus
  <1>2. \A t \in Token : stage'[t] = IF t = f.token THEN "none" ELSE stage[t]
    BY <1>1
  <1>3. \A t \in Token : stage'[t] # "none" => \E g \in fences' : g.token = t
    BY <1>1, <1>2
  <1> QED BY <1>1, <1>2, <1>3 DEF StagesFit, StageStatus, UnbegunStage

LEMMA BeginsStep ==
  ASSUME IntakeInv, NEW f \in fences, Begins(f)
  PROVE  IntakeInv'
  <1> DEFINE i == ItemOf[f.job]
             s == IF Collides(i) THEN "thrown" ELSE "resolving"
  <1>1. /\ item[i].job = f.job /\ item[i].status \in WaitingStatus /\ ~item[i].cancelRequested
        /\ item' = IF Collides(i) THEN item ELSE [item EXCEPT ![i].status = "RESOLVING"]
        /\ stage' = [stage EXCEPT ![f.token] = s] /\ faults' = faults
        /\ stage[f.token] = "starting"
    BY DEF Begins
  <1>2. PICK r \in Reading :
          IF Collides(i) THEN Owns(f, r) /\ job[f.job].status = "RUNNING" /\ UNCHANGED vars
          ELSE Mutate(f, r)
    BY DEF Begins
  <1>3. QueueOK /\ item \in [Item -> ItemRow]
    BY DEF IntakeInv, IntakeTypeOK
  <1>4. QueueOK' /\ job' = job /\ fences' = fences /\ Owns(f, r)
    <2>1. CASE Collides(i)
      BY <1>2, <1>3, <2>1, SameJobsQueue DEF vars, QueueOK, TypeOK
    <2>2. CASE ~Collides(i)
      BY <1>2, <1>3, <2>2, MutateQueue
    <2> QED BY <2>1, <2>2
  <1>5. /\ f.job \in Job /\ f.token \in Token /\ Executes(f.job) /\ job[f.job].token = f.token
    BY <1>3, <1>4, OwnedJob
  <1>6. /\ i \in Item /\ \A k \in Job : ItemOf[k] = i /\ job[k].status \in LiveStatus => k = f.job
        /\ f.job # NoJob
    BY <1>5, OwnedItem, QueueAssumption
  <1> HIDE DEF i
  <1>7. /\ stage' \in [Token -> StageStatus] /\ faults' \in 0..MaxFaults
        /\ \A t \in Token : stage'[t] = IF t = f.token THEN s ELSE stage[t]
        /\ \A t \in Token : stage'[t] # "none" => \E g \in fences' : g.token = t
        /\ \A k \in Item \ {i} : StagesFit(k)
    <2>1. s \in StageStatus /\ s # "none"
      BY DEF StageStatus
    <2> HIDE DEF s
    <2> QED BY <1>1, <1>4, <1>5, <2>1, StagesOfOne DEF i
  <1>8. /\ item' \in [Item -> ItemRow] /\ \A k \in Item \ {i} : item'[k] = item[k]
        /\ item'[i].job = f.job /\ ~item'[i].cancelRequested
        /\ item'[i].status = IF Collides(i) THEN item[i].status ELSE "RESOLVING"
    BY <1>1, <1>3, <1>6 DEF ItemRow, ActiveStatus
  <1>9. faults = 0 => item[i].status # "RESOLVING"
    BY <1>1, <1>5, <1>6, ItemFacts DEF StoryOK, UnbegunStage
  <1>10. StoryOK(i)'
    <2>1. item'[i].status \in WaitingStatus
      BY <1>1, <1>8 DEF WaitingStatus
    <2>2. StoryOK(i)
      BY <1>6, ItemFacts
    <2>3. ItemOf[f.job] = i /\ job[f.job].status # "ABSENT"
      BY <1>1, <1>6, <2>2 DEF StoryOK
    <2>4. ASSUME faults' = 0, item'[i].status = "RESOLVING"
          PROVE  \A t \in Token : job'[f.job].token = t => stage'[t] \notin UnbegunStage
      BY <1>1, <1>4, <1>5, <1>7, <1>8, <1>9, <2>4 DEF UnbegunStage
    <2> QED BY <1>4, <1>5, <1>6, <1>8, <2>1, <2>3, <2>4 DEF StoryOK, WaitingStatus, Executes
  <1> QED BY <1>4, <1>6, <1>7, <1>8, <1>10, OneItemStep

LEMMA BeginFailsStep ==
  ASSUME IntakeInv, NEW f \in fences, BeginFails(f)
  PROVE  IntakeInv'
  <1> DEFINE i == ItemOf[f.job]
  <1>1. /\ stage[f.token] = "starting" /\ faults < MaxFaults
        /\ stage' = [stage EXCEPT ![f.token] = "thrown"] /\ faults' = faults + 1
    BY DEF BeginFails
  <1>2. QueueOK /\ item \in [Item -> ItemRow] /\ f \in Fence
        /\ stage \in [Token -> StageStatus] /\ faults \in 0..MaxFaults
        /\ \A t \in Token : stage[t] # "none" => \E g \in fences : g.token = t
    BY DEF IntakeInv, IntakeTypeOK, QueueOK, TypeOK, StageStatus
  <1>3. /\ stage' \in [Token -> StageStatus] /\ faults' \in 0..MaxFaults /\ faults' # 0
        /\ \A t \in Token : stage'[t] # "none" => \E g \in fences : g.token = t
        /\ \A k \in Item : StagesFit(k)
    <2>1. faults' \in 0..MaxFaults /\ faults' # 0
      BY <1>1, <1>2, IntakeAssumption
    <2>2. f.token \in Token
      BY <1>2 DEF Fence
    <2>3. \A t \in Token : stage'[t] = IF t = f.token THEN "thrown" ELSE stage[t]
      BY <1>1, <1>2, <2>2
    <2> QED BY <1>1, <1>2, <2>1, <2>2, <2>3 DEF StagesFit, StageStatus
  <1>4. CASE UNCHANGED vars /\ UNCHANGED item
    <2>1. QueueOK' /\ job' = job /\ fences' = fences
      BY <1>2, <1>4, SameJobsQueue DEF vars, QueueOK, TypeOK
    <2> QED BY <1>3, <1>4, <2>1, QuietStep
  <1>5. CASE /\ \E r \in Reading : Mutate(f, r)
             /\ item' = [item EXCEPT ![i].status = "RESOLVING"]
    <2>1. PICK r \in Reading : Mutate(f, r)
      BY <1>5
    <2>2. QueueOK' /\ job' = job /\ fences' = fences /\ Owns(f, r)
      BY <1>2, <2>1, MutateQueue
    <2>3. f.job \in Job /\ Executes(f.job)
      BY <1>2, <2>2, OwnedJob
    <2>4. /\ i \in Item /\ item[i].job = f.job /\ item[i].status \in WaitingStatus
          /\ StoryOK(i)
      BY <2>3, OwnedItem, ItemFacts
    <2> HIDE DEF i
    <2>5. /\ item' \in [Item -> ItemRow] /\ \A k \in Item \ {i} : item'[k] = item[k]
          /\ item'[i].job = item[i].job /\ item'[i].cancelRequested = item[i].cancelRequested
          /\ item'[i].status = "RESOLVING"
      BY <1>2, <1>5, <2>4 DEF ItemRow, ActiveStatus
    <2>6. f.job # NoJob
      BY <2>3, QueueAssumption
    <2>7. StoryOK(i)'
      BY <1>3, <2>2, <2>4, <2>5, <2>6 DEF StoryOK, WaitingStatus
    <2> QED BY <1>3, <2>2, <2>4, <2>5, <2>7, OneItemStep
  <1> QED BY <1>4, <1>5 DEF BeginFails

LEMMA SettledOutcome ==
  ASSUME QueueOK, NEW f \in fences, SettleWithoutItem(f)
  PROVE  \E status \in {"CANCELLED", "PAUSED", "FAILED", "PENDING"} :
           Ends(f, status) /\ (job[f.job].status = "CANCELLING" => status = "CANCELLED")
  <1>1. QueueOK /\ FALSE \in BOOLEAN
    OBVIOUS
  <1>2. PICK r \in Reading :
          CASE job[f.job].status = "CANCELLING" -> Cancel(f, r, FALSE)
            [] job[f.job].status = "PAUSING" -> Pause(f, r, FALSE)
            [] job[f.job].status \notin {"CANCELLING", "PAUSING"} ->
                 \/ stage[f.token] = "thrown" /\ Conclude(f, r, "FAILED", FALSE)
                 \/ Release(f, r, FALSE)
    BY DEF SettleWithoutItem
  <1>3. CASE job[f.job].status = "CANCELLING"
    BY <1>1, <1>2, <1>3, CancelEnds
  <1>4. CASE job[f.job].status = "PAUSING"
    BY <1>1, <1>2, <1>4, PauseEnds
  <1>5. CASE job[f.job].status \notin {"CANCELLING", "PAUSING"}
    <2>1. Conclude(f, r, "FAILED", FALSE) \/ Release(f, r, FALSE)
      BY <1>2, <1>5
    <2>2. Conclude(f, r, "FAILED", FALSE) => Ends(f, "FAILED")
      BY <1>1, ConcludeEnds
    <2>3. Release(f, r, FALSE) => Ends(f, "PENDING")
      BY <1>1, ReleaseEnds
    <2> QED BY <1>5, <2>1, <2>2, <2>3
  <1> QED BY <1>3, <1>4, <1>5

LEMMA SettleWithoutItemStep ==
  ASSUME IntakeInv, NEW f \in fences, SettleWithoutItem(f)
  PROVE  IntakeInv'
  <1> DEFINE i == ItemOf[f.job]
  <1>1. /\ stage[f.token] \in UnbegunStage
        /\ stage' = [stage EXCEPT ![f.token] = "none"] /\ UNCHANGED <<item, faults>>
    BY DEF SettleWithoutItem, ItemUnchanged, UnbegunStage
  <1>2. PICK status \in {"CANCELLED", "PAUSED", "FAILED", "PENDING"} :
          Ends(f, status) /\ (job[f.job].status = "CANCELLING" => status = "CANCELLED")
    BY SettledOutcome DEF IntakeInv
  <1>3. /\ QueueOK' /\ fences' = fences /\ f.job \in Job /\ f.token \in Token
        /\ Executes(f.job) /\ job[f.job].token = f.token
        /\ job'[f.job].status = status
        /\ \A k \in Job \ {f.job} : job'[k] = job[k]
    BY <1>2 DEF Ends
  <1>4. /\ i \in Item /\ item[i].job = f.job /\ item[i].status \in WaitingStatus
        /\ item[i].cancelRequested => job[f.job].status = "CANCELLING"
        /\ \A k \in Job : ItemOf[k] = i /\ job[k].status \in LiveStatus => k = f.job
        /\ StoryOK(i) /\ f.job # NoJob
    BY <1>3, OwnedItem, ItemFacts, QueueAssumption
  <1> HIDE DEF i
  <1>5. faults = 0 => item[i].status # "RESOLVING"
    BY <1>1, <1>3, <1>4 DEF StoryOK
  <1>6. status \in LiveStatus => job[f.job].status # "CANCELLING"
    BY <1>2 DEF LiveStatus, TerminalStatus
  <1>7. item' = item /\ faults' = faults
    BY <1>1
  <1>8. StoryOK(i)'
    BY <1>3, <1>4, <1>5, <1>6, <1>7 DEF StoryOK, WaitingStatus
  <1>9. /\ stage' \in [Token -> StageStatus] /\ faults' \in 0..MaxFaults
        /\ \A t \in Token : stage'[t] # "none" => \E g \in fences' : g.token = t
        /\ \A k \in Item : StagesFit(k)
    BY <1>1, <1>3, StagesEnd
  <1>10. item' \in [Item -> ItemRow] /\ \A k \in Item \ {i} : item'[k] = item[k]
    BY <1>7 DEF IntakeInv, IntakeTypeOK
  <1>11. \A j \in Job : ItemOf[j] # i => job'[j] = job[j]
    BY <1>3 DEF i
  <1> QED BY <1>3, <1>4, <1>8, <1>9, <1>10, <1>11, OneItemStep

\* The ways to end an execution together with its item.
Outcomes == {<<"CANCELLED", "CANCELLED">>, <<"PAUSED", "RETRY_WAIT">>, <<"COMPLETED", "DUPLICATE">>,
             <<"COMPLETED", "READY">>, <<"PENDING", "RETRY_WAIT">>, <<"RETRY_WAIT", "RETRY_WAIT">>,
             <<"FAILED", "FAILED">>}

LEMMA FinalizeOutcome ==
  ASSUME QueueOK, NEW f \in fences, Finalize(f)
  PROVE  LET i == ItemOf[f.job]
         IN \E o \in Outcomes :
              /\ Ends(f, o[1])
              /\ job[f.job].status = "CANCELLING" => o[1] = "CANCELLED"
              /\ o[2] = "READY" => ~item[i].cancelRequested
              /\ o[2] = "DUPLICATE" => SameWork(i) # {}
              /\ \/ item' = [item EXCEPT ![i].status = o[2]]
                 \/ item' = [item EXCEPT ![i].status = o[2], ![i].identified = TRUE]
  <1> DEFINE i == ItemOf[f.job]
             Becomes(status) == item' = [item EXCEPT ![i].status = status]
             Resolved(status) == item' = [item EXCEPT ![i].status = status, ![i].identified = TRUE]
  <1>1. PICK r \in Reading :
          CASE job[f.job].status = "CANCELLING" -> Becomes("CANCELLED") /\ Cancel(f, r, TRUE)
            [] job[f.job].status = "PAUSING" -> Becomes("RETRY_WAIT") /\ Pause(f, r, TRUE)
            [] job[f.job].status \notin {"CANCELLING", "PAUSING"} ->
                 \/ /\ IF SameWork(i) # {} THEN Resolved("DUPLICATE")
                       ELSE ~item[i].cancelRequested /\ Resolved("READY")
                    /\ Conclude(f, r, "COMPLETED", TRUE)
                 \/ /\ Becomes("RETRY_WAIT")
                    /\ Release(f, r, TRUE) \/ Retry(f, r, 0, TRUE) \/ Yield(f, r, 0)
                 \/ Becomes("FAILED") /\ Conclude(f, r, "FAILED", TRUE)
    BY DEF Finalize
  <1>2. \A a, b : <<a, b>>[1] = a /\ <<a, b>>[2] = b
    OBVIOUS
  <1> HIDE DEF i
  <1>3. CASE job[f.job].status = "CANCELLING"
    <2>1. Becomes("CANCELLED") /\ Cancel(f, r, TRUE)
      BY <1>1, <1>3
    <2>2. Ends(f, "CANCELLED")
      BY <2>1, CancelEnds
    <2> DEFINE o == <<"CANCELLED", "CANCELLED">>
    <2>3. o \in Outcomes /\ o[1] = "CANCELLED" /\ o[2] = "CANCELLED"
      BY DEF Outcomes
    <2> QED BY <1>3, <2>1, <2>2, <2>3 DEF i
  <1>4. CASE job[f.job].status = "PAUSING"
    <2>1. Becomes("RETRY_WAIT") /\ Pause(f, r, TRUE)
      BY <1>1, <1>4
    <2>2. Ends(f, "PAUSED")
      BY <2>1, PauseEnds
    <2> DEFINE o == <<"PAUSED", "RETRY_WAIT">>
    <2>3. o \in Outcomes /\ o[1] = "PAUSED" /\ o[2] = "RETRY_WAIT"
      BY DEF Outcomes
    <2> QED BY <1>4, <2>1, <2>2, <2>3 DEF i
  <1>5. CASE job[f.job].status \notin {"CANCELLING", "PAUSING"}
    <2>1. CASE /\ IF SameWork(i) # {} THEN Resolved("DUPLICATE")
                  ELSE ~item[i].cancelRequested /\ Resolved("READY")
               /\ Conclude(f, r, "COMPLETED", TRUE)
      <3>1. Ends(f, "COMPLETED")
        BY <2>1, ConcludeEnds
      <3>2. CASE SameWork(i) # {}
        <4> DEFINE o == <<"COMPLETED", "DUPLICATE">>
        <4>1. o \in Outcomes /\ o[1] = "COMPLETED" /\ o[2] = "DUPLICATE"
          BY DEF Outcomes
        <4> QED BY <1>5, <2>1, <3>1, <3>2, <4>1 DEF i
      <3>3. CASE SameWork(i) = {}
        <4> DEFINE o == <<"COMPLETED", "READY">>
        <4>1. o \in Outcomes /\ o[1] = "COMPLETED" /\ o[2] = "READY"
          BY DEF Outcomes
        <4> QED BY <1>5, <2>1, <3>1, <3>3, <4>1 DEF i
      <3> QED BY <3>2, <3>3
    <2>2. CASE /\ Becomes("RETRY_WAIT")
               /\ Release(f, r, TRUE) \/ Retry(f, r, 0, TRUE) \/ Yield(f, r, 0)
      <3>1. CASE Release(f, r, TRUE)
        <4> DEFINE o == <<"PENDING", "RETRY_WAIT">>
        <4>1. o \in Outcomes /\ o[1] = "PENDING" /\ o[2] = "RETRY_WAIT"
          BY DEF Outcomes
        <4>2. Ends(f, "PENDING")
          BY <3>1, ReleaseEnds
        <4> QED BY <1>5, <2>2, <4>1, <4>2 DEF i
      <3>2. CASE Retry(f, r, 0, TRUE) \/ Yield(f, r, 0)
        <4> DEFINE o == <<"RETRY_WAIT", "RETRY_WAIT">>
        <4>1. o \in Outcomes /\ o[1] = "RETRY_WAIT" /\ o[2] = "RETRY_WAIT"
          BY DEF Outcomes
        <4>2. Ends(f, "RETRY_WAIT")
          BY <3>2, RetryEnds, YieldEnds
        <4> QED BY <1>5, <2>2, <4>1, <4>2 DEF i
      <3> QED BY <2>2, <3>1, <3>2
    <2>3. CASE Becomes("FAILED") /\ Conclude(f, r, "FAILED", TRUE)
      <3> DEFINE o == <<"FAILED", "FAILED">>
      <3>1. o \in Outcomes /\ o[1] = "FAILED" /\ o[2] = "FAILED"
        BY DEF Outcomes
      <3>2. Ends(f, "FAILED")
        BY <2>3, ConcludeEnds
      <3> QED BY <1>5, <2>3, <3>1, <3>2 DEF i
    <2> QED BY <1>1, <1>5, <2>1, <2>2, <2>3
  <1> QED BY <1>3, <1>4, <1>5

LEMMA FinalizeStep ==
  ASSUME IntakeInv, NEW f \in fences, Finalize(f)
  PROVE  IntakeInv'
  <1> DEFINE i == ItemOf[f.job]
  <1>1. /\ item[i].job = f.job /\ item[i].status = "RESOLVING"
        /\ stage' = [stage EXCEPT ![f.token] = "none"] /\ faults' = faults
    BY DEF Finalize
  <1>2. PICK o \in Outcomes :
          /\ Ends(f, o[1])
          /\ job[f.job].status = "CANCELLING" => o[1] = "CANCELLED"
          /\ o[2] = "READY" => ~item[i].cancelRequested
          /\ \/ item' = [item EXCEPT ![i].status = o[2]]
             \/ item' = [item EXCEPT ![i].status = o[2], ![i].identified = TRUE]
    BY FinalizeOutcome DEF IntakeInv
  <1>3. /\ QueueOK' /\ fences' = fences /\ f.job \in Job /\ f.token \in Token
        /\ Executes(f.job)
        /\ job'[f.job].status = o[1]
        /\ \A k \in Job \ {f.job} : job'[k] = job[k]
    BY <1>2 DEF Ends
  <1>4. /\ i \in Item
        /\ item[i].cancelRequested => job[f.job].status = "CANCELLING"
        /\ \A k \in Job : ItemOf[k] = i /\ job[k].status \in LiveStatus => k = f.job
        /\ StoryOK(i) /\ f.job # NoJob
    BY <1>3, OwnedItem, ItemFacts, QueueAssumption
  <1>5. item \in [Item -> ItemRow]
    BY DEF IntakeInv, IntakeTypeOK
  <1>6. o[2] \in {"CANCELLED", "RETRY_WAIT", "DUPLICATE", "READY", "FAILED"}
    BY DEF Outcomes
  <1> DEFINE after == o[2]
  <1> HIDE DEF i, after
  <1>7. /\ item' \in [Item -> ItemRow] /\ \A k \in Item \ {i} : item'[k] = item[k]
        /\ item'[i].job = f.job /\ item'[i].cancelRequested = item[i].cancelRequested
        /\ item'[i].status = o[2]
    <2>1. after \in {"CANCELLED", "RETRY_WAIT", "DUPLICATE", "READY", "FAILED"}
      BY <1>6 DEF after
    <2>2. CASE item' = [item EXCEPT ![i].status = after]
      BY <1>1, <1>4, <1>5, <2>1, <2>2 DEF ItemRow, ActiveStatus, after
    <2>3. CASE item' = [item EXCEPT ![i].status = after, ![i].identified = TRUE]
      BY <1>1, <1>4, <1>5, <2>1, <2>3 DEF ItemRow, ActiveStatus, after
    <2> QED BY <1>2, <2>2, <2>3 DEF after
  <1>8. StoryOK(i)'
    <2>1. /\ o[1] \in LiveStatus => o[2] = "RETRY_WAIT" /\ ~item[i].cancelRequested
          /\ o[2] \in {"READY", "DUPLICATE"} => o[1] = "COMPLETED"
          /\ o[2] = "FAILED" => o[1] = "FAILED"
          /\ o[1] # "ABSENT"
      BY <1>2, <1>4 DEF Outcomes, LiveStatus, TerminalStatus
    <2>2. \A k \in Job : ItemOf[k] = i /\ job'[k].status \in LiveStatus => k = f.job
      BY <1>3, <1>4
    <2>3. ItemOf[f.job] = i
      BY DEF i
    <2> QED BY <1>2, <1>3, <1>4, <1>6, <1>7, <2>1, <2>2, <2>3 DEF StoryOK, WaitingStatus
  <1>9. /\ stage' \in [Token -> StageStatus] /\ faults' \in 0..MaxFaults
        /\ \A t \in Token : stage'[t] # "none" => \E g \in fences' : g.token = t
        /\ \A k \in Item : StagesFit(k)
    BY <1>1, <1>3, StagesEnd
  <1>10. \A j \in Job : ItemOf[j] # i => job'[j] = job[j]
    BY <1>3 DEF i
  <1> QED BY <1>3, <1>4, <1>7, <1>8, <1>9, <1>10, OneItemStep

LEMMA StopsStep ==
  ASSUME IntakeInv, NEW f \in fences, Stops(f)
  PROVE  IntakeInv'
  <1>1. /\ stage' = [stage EXCEPT ![f.token] = "none"] /\ UNCHANGED <<item, faults>>
        /\ fences' = fences \ {f}
    BY DEF Stops, Forget, ItemUnchanged
  <1>2. QueueOK' /\ job' = job /\ f.token \in Token
    BY ForgetQueue DEF Stops, IntakeInv
  <1> QED BY <1>1, <1>2, StagesEnd, QuietStep

LEMMA HeartbeatItemStep ==
  ASSUME IntakeInv, NEW f \in fences, NEW r \in Reading, Heartbeat(f, r),
         UNCHANGED stage, ItemUnchanged
  PROVE  IntakeInv'
  <1>1. /\ QueueOK' /\ fences' = fences
        /\ \A k \in Job : job'[k].status = job[k].status /\ job'[k].token = job[k].token
    BY HeartbeatQueue DEF IntakeInv
  <1>2. UNCHANGED <<item, stage, faults>>
    BY DEF ItemUnchanged
  <1> QED BY <1>1, <1>2, SameStages, QuietStep

LEMMA TickItemStep ==
  ASSUME IntakeInv, Tick, UNCHANGED stage, ItemUnchanged
  PROVE  IntakeInv'
  <1>1. /\ QueueOK' /\ fences' = fences
        /\ \A k \in Job : job'[k].status = job[k].status /\ job'[k].token = job[k].token
    BY TickQueue DEF IntakeInv
  <1>2. UNCHANGED <<item, stage, faults>>
    BY DEF ItemUnchanged
  <1> QED BY <1>1, <1>2, SameStages, QuietStep

\* A claim takes the items of the executions it recovers along.
LEMMA RecoveredStory ==
  ASSUME IntakeInv, NEW l \in Lane, NEW r \in Reading, NEW i \in Item,
         item' = RecoveredItems(l, r), faults' = faults,
         \A k \in Job :
           \/ job'[k] = Swept(l, r)[k]
           \/ job'[k].status = "RUNNING" /\ Swept(l, r)[k].status \in {"PENDING", "RETRY_WAIT"},
         \A k \in Job : Executes(k) /\ k \notin Abandoned(l, r) =>
           /\ job'[k] = job[k]
           /\ \A t \in Token : job[k].token = t /\ stage[t] \notin UnbegunStage =>
                stage'[t] \notin UnbegunStage
  PROVE  item'[i] \in ItemRow /\ StoryOK(i)'
  <1> DEFINE own == item[i].job
             old == item[i]
             new == item'[i]
             after == Swept(l, r)[own].status
             taken == own \in Abandoned(l, r) /\ old.status \in {"QUEUED", "RESOLVING"}
  <1>1. StoryOK(i) /\ old \in ItemRow /\ (own = NoJob \/ own \in Job)
    BY ItemFacts
  <1>2. new = IF taken
              THEN [old EXCEPT !.status = IF after \in {"CANCELLED", "FAILED"} THEN after ELSE "RETRY_WAIT"]
              ELSE old
    BY DEF RecoveredItems
  <1>3. \A k \in Job :
          /\ job[k].status \in Status
          /\ k \notin Abandoned(l, r) => Swept(l, r)[k] = job[k]
          /\ k \in Abandoned(l, r) =>
              /\ job[k].status \in ExecutingStatus
              /\ job[k].status = "CANCELLING" => Swept(l, r)[k].status = "CANCELLED"
              /\ job[k].status = "PAUSING" => Swept(l, r)[k].status = "PAUSED"
              /\ job[k].status = "RUNNING" => Swept(l, r)[k].status \in {"RETRY_WAIT", "FAILED"}
    BY SweptFacts DEF IntakeInv, QueueOK, TypeOK, Row, Executes
  <1>4. /\ new \in ItemRow /\ new.job = own /\ new.cancelRequested = old.cancelRequested
        /\ ~taken => new.status = old.status
        /\ taken /\ after \in {"CANCELLED", "FAILED"} => new.status = after
        /\ taken /\ after \notin {"CANCELLED", "FAILED"} => new.status = "RETRY_WAIT"
    BY <1>1, <1>2 DEF ItemRow, ActiveStatus
  <1>5. taken => own \in Job /\ own # NoJob
    BY QueueAssumption DEF Abandoned, Executing
  <1>6. ASSUME NEW k \in Job, job'[k].status \in LiveStatus
        PROVE  /\ job[k].status \in LiveStatus
               /\ k \in Abandoned(l, r) => Swept(l, r)[k].status \notin {"CANCELLED", "FAILED"}
               /\ job[k].status = "CANCELLING" => job'[k].status = "CANCELLING"
    BY <1>3, <1>6 DEF LiveStatus, Status, IdleStatus, ExecutingStatus, TerminalStatus
  <1>7. ASSUME NEW k \in Job, job[k].status # "ABSENT"
        PROVE  job'[k].status # "ABSENT"
    BY <1>3, <1>7 DEF ExecutingStatus
  <1>8. ASSUME NEW k \in Job, job[k].status \in {"COMPLETED", "FAILED"}
        PROVE  job'[k].status = job[k].status
    BY <1>3, <1>8 DEF ExecutingStatus
  <1>9. ASSUME taken, after = "FAILED" PROVE job'[own].status = "FAILED"
    BY <1>5, <1>9
  <1>10. ASSUME old.status = "RESOLVING", ~taken, faults' = 0
         PROVE  /\ job'[own].status \in ExecutingStatus
                /\ \A t \in Token : job'[own].token = t => stage'[t] \notin UnbegunStage
    <2>1. own \in Job /\ Executes(own) /\ own \notin Abandoned(l, r)
      BY <1>1, <1>10 DEF StoryOK
    <2>2. \A t \in Token : job[own].token = t => stage[t] \notin UnbegunStage
      BY <1>1, <1>10 DEF StoryOK
    <2> QED BY <2>1, <2>2 DEF Executes
  <1>11. item'[i].job = own /\ new = item'[i]
    BY <1>4
  <1> HIDE DEF own, old, new, after
  <1>12. /\ own = NoJob => new.status \in {"ABSENT", "FAILED", "DUPLICATE"}
         /\ own # NoJob =>
              /\ ItemOf[own] = i /\ job'[own].status # "ABSENT"
              /\ new.status \in {"READY", "ENQUEUED", "DUPLICATE"} => job'[own].status = "COMPLETED"
              /\ new.status = "FAILED" => job'[own].status = "FAILED"
    BY <1>1, <1>4, <1>5, <1>7, <1>8, <1>9 DEF StoryOK, own, old
  <1>13. ASSUME NEW k \in Job, ItemOf[k] = i, job'[k].status \in LiveStatus
         PROVE  /\ own = k /\ new.status \in WaitingStatus
                /\ new.cancelRequested => job'[k].status = "CANCELLING"
    <2>1. /\ own = k /\ old.status \in WaitingStatus
          /\ old.cancelRequested => job[k].status = "CANCELLING"
      BY <1>1, <1>6, <1>13 DEF StoryOK, own, old
    <2>2. taken => after \notin {"CANCELLED", "FAILED"}
      BY <1>6, <1>13, <2>1 DEF after
    <2> QED BY <1>4, <1>6, <1>13, <2>1, <2>2 DEF WaitingStatus
  <1>14. new.cancelRequested => new.status \notin {"READY", "ENQUEUED"}
    BY <1>1, <1>4 DEF StoryOK, old
  <1>15. ASSUME faults' = 0, new.status = "RESOLVING"
         PROVE  /\ job'[own].status \in ExecutingStatus
                /\ \A t \in Token : job'[own].token = t => stage'[t] \notin UnbegunStage
    BY <1>4, <1>10, <1>15
  <1> QED BY <1>4, <1>11, <1>12, <1>13, <1>14, <1>15 DEF StoryOK, Executes

LEMMA ResolverClaimsStep ==
  ASSUME IntakeInv, NEW l \in Lane, ResolverClaims(l)
  PROVE  IntakeInv'
  <1>1. PICK r \in Reading :
          /\ item' = RecoveredItems(l, r) /\ faults' = faults
          /\ \/ ClaimNothing(l, r) /\ UNCHANGED stage
             \/ /\ \E w \in Worker : ClaimJob(w, l, r, FALSE)
                /\ \E f \in fences' \ fences : stage' = [stage EXCEPT ![f.token] = "starting"]
    BY DEF ResolverClaims
  <1>2. /\ QueueOK /\ stage \in [Token -> StageStatus] /\ faults \in 0..MaxFaults
        /\ \A t \in Token : stage[t] # "none" => \E g \in fences : g.token = t
    BY DEF IntakeInv, IntakeTypeOK, StageStatus
  <1>3. ASSUME \A k \in Job :
                 \/ job'[k] = Swept(l, r)[k]
                 \/ job'[k].status = "RUNNING" /\ Swept(l, r)[k].status \in {"PENDING", "RETRY_WAIT"},
               \A k \in Job : Executes(k) /\ k \notin Abandoned(l, r) =>
                 /\ job'[k] = job[k]
                 /\ \A t \in Token : job[k].token = t /\ stage[t] \notin UnbegunStage =>
                      stage'[t] \notin UnbegunStage,
               QueueOK', stage' \in [Token -> StageStatus],
               \A t \in Token : stage'[t] # "none" => \E g \in fences' : g.token = t
        PROVE  IntakeInv'
    <2>1. \A i \in Item : item'[i] \in ItemRow /\ StoryOK(i)'
      BY <1>1, <1>3, RecoveredStory
    <2>2. item' \in [Item -> ItemRow]
      BY <1>1, <2>1 DEF RecoveredItems
    <2>3. faults' \in 0..MaxFaults
      BY <1>1, <1>2
    <2>4. StoriesOK'
      BY <2>1 DEF StoriesOK
    <2> QED BY <1>3, <2>2, <2>3, <2>4 DEF IntakeInv, IntakeTypeOK, StageStatus
  <1>4. CASE ClaimNothing(l, r) /\ UNCHANGED stage
    <2>1. QueueOK' /\ job' = Swept(l, r) /\ fences' = fences
      BY <1>2, <1>4, ClaimNothingQueue
    <2>2. \A k \in Job : k \notin Abandoned(l, r) => job'[k] = job[k]
      BY <1>2, <2>1, SweptFacts
    <2> QED BY <1>2, <1>3, <1>4, <2>1, <2>2
  <1>5. CASE /\ \E w \in Worker : ClaimJob(w, l, r, FALSE)
             /\ \E f \in fences' \ fences : stage' = [stage EXCEPT ![f.token] = "starting"]
    <2>1. PICK w \in Worker : ClaimJob(w, l, r, FALSE)
      BY <1>5
    <2>2. /\ QueueOK' /\ \A k \in Job : Executes(k) => k \in Abandoned(l, r)
      BY <1>2, <2>1, ClaimJobQueue
    <2>3. PICK j \in Job, t \in Token \ TokensInUse, f \in Fence :
              /\ fences' = fences \union {f} /\ f.token = t
              /\ Swept(l, r)[j].status \in {"PENDING", "RETRY_WAIT"}
              /\ job'[j].status = "RUNNING" /\ job'[j].token = t
              /\ \A k \in Job \ {j} : job'[k] = Swept(l, r)[k]
      BY <1>2, <2>1, ClaimJobQueue
    <2>4. stage' = [stage EXCEPT ![t] = "starting"]
      BY <1>5, <2>3
    <2>5. stage' \in [Token -> StageStatus]
      BY <1>2, <2>4 DEF StageStatus
    <2>6. \A u \in Token : stage'[u] # "none" => \E g \in fences' : g.token = u
      <3>1. \A u \in Token \ {t} : stage'[u] = stage[u]
        BY <1>2, <2>4
      <3> QED BY <1>2, <2>3, <3>1
    <2> QED BY <1>3, <2>2, <2>3, <2>5, <2>6
  <1> QED BY <1>1, <1>4, <1>5

-----------------------------------------------------------------------------
(* The invariant                                                           *)

LEMMA InitIntakeInv == IntakeInit => IntakeInv
  <1> SUFFICES ASSUME IntakeInit PROVE IntakeInv
    OBVIOUS
  <1>1. IInv
    BY InitIInv DEF IntakeInit
  <1>2. \A j \in Job : job[j].status = "ABSENT" /\ job[j].source \in ForegroundSource
    BY AbsentRowOK DEF IntakeInit, Init, AbsentRow, PendingRow, ForegroundSource
  <1>3. QueueOK
    BY <1>1, <1>2 DEF IInv, QueueOK, OneExecution, Executes, ExecutingStatus, IntakeInit, Init
  <1>4. \A i \in Item : /\ item[i] = NewItem("ABSENT", NoJob) /\ item[i] \in ItemRow
                        /\ item[i].status = "ABSENT" /\ item[i].job = NoJob
                        /\ item[i].cancelRequested = FALSE
    BY DEF IntakeInit, NewItem, ItemRow
  <1>5. IntakeTypeOK
    BY <1>4, IntakeAssumption DEF IntakeInit, IntakeTypeOK
  <1>6. StoriesOK
    BY <1>2, <1>4 DEF StoriesOK, StoryOK, LiveStatus
  <1> QED BY <1>3, <1>5, <1>6 DEF IntakeInv

LEMMA NextIntakeInv == IntakeInv /\ [IntakeNext]_intakeVars => IntakeInv'
  <1> SUFFICES ASSUME IntakeInv, [IntakeNext]_intakeVars PROVE IntakeInv'
    OBVIOUS
  <1>1. ASSUME NEW i \in Item, Submit(i) PROVE IntakeInv'
    BY <1>1, SubmitStep
  <1>2. ASSUME NEW i \in Item, ReplacementRejected(i) PROVE IntakeInv'
    BY <1>2, RejectedStep
  <1>3. ASSUME NEW i \in Item, CancelItem(i) PROVE IntakeInv'
    BY <1>3, CancelItemStep
  <1>4. ASSUME NEW i \in Item, RetryItem(i) PROVE IntakeInv'
    BY <1>4, RetryItemStep
  <1>5. ASSUME NEW i \in Item, EnqueueItem(i) PROVE IntakeInv'
    BY <1>5, EnqueueItemStep
  <1>6. ASSUME NEW kind \in {"cancel", "pause", "resume"}, NEW j \in Job, JobCommand(kind, j)
        PROVE  IntakeInv'
    BY <1>6, JobCommandStep
  <1>7. ASSUME NEW old \in Job, NEW j \in Job, RetryJob(old, j) PROVE IntakeInv'
    BY <1>7, RetryJobStep
  <1>8. ASSUME NEW l \in Lane, ResolverClaims(l) PROVE IntakeInv'
    BY <1>8, ResolverClaimsStep
  <1>9. ASSUME NEW f \in fences, Begins(f) PROVE IntakeInv'
    BY <1>9, BeginsStep
  <1>10. ASSUME NEW f \in fences, BeginFails(f) PROVE IntakeInv'
    BY <1>10, BeginFailsStep
  <1>11. ASSUME NEW f \in fences, SettleWithoutItem(f) PROVE IntakeInv'
    BY <1>11, SettleWithoutItemStep
  <1>12. ASSUME NEW f \in fences, Finalize(f) PROVE IntakeInv'
    BY <1>12, FinalizeStep
  <1>13. ASSUME NEW f \in fences, Stops(f) PROVE IntakeInv'
    BY <1>13, StopsStep
  <1>14. ASSUME NEW f \in fences, NEW r \in Reading,
                Heartbeat(f, r) /\ UNCHANGED stage /\ ItemUnchanged
         PROVE  IntakeInv'
    BY <1>14, HeartbeatItemStep
  <1>15. ASSUME Tick /\ UNCHANGED stage /\ ItemUnchanged PROVE IntakeInv'
    BY <1>15, TickItemStep
  <1>16. ASSUME UNCHANGED intakeVars PROVE IntakeInv'
    <2>1. UNCHANGED <<job, lease, fences, writer, commands, resolvePaused, item, stage, faults>>
      BY <1>16 DEF intakeVars
    <2>2. QueueOK'
      BY <2>1, SameJobsQueue DEF IntakeInv, QueueOK, TypeOK
    <2> QED BY <2>1, <2>2, SameStages, QuietStep
  <1> QED
    BY <1>1, <1>2, <1>3, <1>4, <1>5, <1>6, <1>7, <1>8, <1>9, <1>10, <1>11, <1>12, <1>13,
       <1>14, <1>15, <1>16 DEF IntakeNext

THEOREM IntakeInvariance == IntakeSpec => []IntakeInv
  <1>1. IntakeInit => IntakeInv
    BY InitIntakeInv
  <1>2. IntakeInv /\ [IntakeNext]_intakeVars => IntakeInv'
    BY NextIntakeInv
  <1> QED BY <1>1, <1>2, PTL DEF IntakeSpec

-----------------------------------------------------------------------------
(* What the invariant says of items                                        *)

\* The columns of an item stay in their ranges, and an execution that has a stage still
\* has its fence.
THEOREM IntakeTypeCorrectness == IntakeSpec => []IntakeTypeOK
  <1>1. IntakeInv => IntakeTypeOK
    BY DEF IntakeInv
  <1> QED BY <1>1, IntakeInvariance, PTL

\* Every job of the inbox that is not over works for its item: submission, both retries
\* and both cancellations bind and release them together.
THEOREM LiveJobsServe == IntakeSpec => []LiveJobServesItem
  <1>1. ASSUME IntakeInv PROVE LiveJobServesItem
    <2> SUFFICES ASSUME NEW j \in Job, job[j].status \notin TerminalStatus \union {"ABSENT"}
                 PROVE  /\ item[ItemOf[j]].job = j
                        /\ item[ItemOf[j]].status \in WaitingStatus
                        /\ job[j].status \in {"RUNNING", "PAUSING"} => ~item[ItemOf[j]].cancelRequested
      BY DEF LiveJobServesItem
    <2>1. ItemOf[j] \in Item /\ job[j].status \in LiveStatus
      BY <1>1, IntakeAssumption DEF IntakeInv, QueueOK, TypeOK, Row, LiveStatus
    <2> QED BY <1>1, <2>1, ItemFacts DEF StoryOK
  <1> QED BY <1>1, IntakeInvariance, PTL

\* Unless a first transaction failed, an item is being resolved only while its job
\* executes, and so at most one is.
THEOREM ResolvingMeansExecuting == IntakeSpec => []ResolvingItemExecutes
  <1>1. ASSUME IntakeInv PROVE ResolvingItemExecutes
    <2>1. ASSUME faults = 0, NEW i \in Item, item[i].status = "RESOLVING"
          PROVE  /\ item[i].job \in Job /\ ItemOf[item[i].job] = i /\ Executes(item[i].job)
      BY <1>1, <2>1, ItemFacts DEF StoryOK, ActiveStatus
    <2>2. \A j, k \in Job : Executes(j) /\ Executes(k) => j = k
      BY <1>1 DEF IntakeInv, QueueOK, OneExecution
    <2> QED BY <2>1, <2>2 DEF ResolvingItemExecutes, Executes
  <1> QED BY <1>1, IntakeInvariance, PTL

\* A cancelled item is not offered for archiving until it is retried.
THEOREM CancelledStaysOut == IntakeSpec => []CancelledItemStaysOut
  <1>1. IntakeInv => CancelledItemStaysOut
    BY DEF IntakeInv, StoriesOK, StoryOK, CancelledItemStaysOut
  <1> QED BY <1>1, IntakeInvariance, PTL

\* What an item offers, shelves or reports as failed is what became of its job.
THEOREM ItemsAgree == IntakeSpec => []ItemAgreesWithJob
  <1>1. IntakeInv => ItemAgreesWithJob
    BY DEF IntakeInv, StoriesOK, StoryOK, ItemAgreesWithJob
  <1> QED BY <1>1, IntakeInvariance, PTL

\* With the commands of the inbox beside those of the queue, the resolver lane still
\* executes one job at a time.
THEOREM ResolverExcludes == IntakeSpec => []OneExecutionPerLane
  <1>1. IntakeInv => OneExecutionPerLane
    BY DEF IntakeInv, QueueOK, OneExecution, Executes, OneExecutionPerLane, Executing
  <1> QED BY <1>1, IntakeInvariance, PTL

-----------------------------------------------------------------------------
(* What a step may do to items                                             *)

\* An item moves on: only an active one, and not to become a duplicate.
Onward(i) ==
  \/ item'[i].status = item[i].status
  \/ item[i].status \in ActiveStatus /\ item'[i].status \notin {"ABSENT", "DUPLICATE"}

\* It turns out to be a duplicate of an active one.
SetAside(i) ==
  /\ item'[i].status = "DUPLICATE"
  /\ \E k \in Active \ {i} : IdentityOf[k] = IdentityOf[i]

\* It comes in, or comes back.
Admitted(i) ==
  /\ item[i].status # "DUPLICATE" /\ item'[i].status = "QUEUED"
  /\ HasCapacity \/ \E old, j \in Job : RetryJob(old, j)

\* It is kept as a failure.
Refused(i) == item[i].status = "ABSENT" /\ item'[i].status = "FAILED"

ItemsMove ==
  \/ \A k \in Item : Onward(k)
  \/ \E i \in Item : /\ SetAside(i) \/ Admitted(i) \/ Refused(i)
                     /\ \A k \in Item \ {i} : item'[k].status = item[k].status

\* Whatever leaves an item behind leaves it before its execution touched it.
LeftUntouched(i) ==
  Stranded(i)' /\ ~Stranded(i) =>
    \/ item[i].status = "RETRY_WAIT"
    \/ stage[job[item[i].job].token] \in UnbegunStage

OutcomesStay == \A j \in Job : job[j].status \in TerminalStatus => job'[j].status = job[j].status

ItemStep == ItemsMove /\ OutcomesStay /\ \A i \in Item : LeftUntouched(i)

LEMMA UntouchedBeside ==
  ASSUME IntakeInv, NEW i \in Item, item'[i].job = item[i].job,
         item'[i].status \in WaitingStatus => item[i].status \in WaitingStatus,
         \A j \in Job : ItemOf[j] = i /\ item[i].job = j =>
           (job'[j].status \in TerminalStatus => job[j].status \in TerminalStatus)
  PROVE  LeftUntouched(i)
  <1> SUFFICES ASSUME item[i].status \in WaitingStatus, ~Stranded(i), Stranded(i)'
               PROVE  FALSE
    BY DEF LeftUntouched, Stranded
  <1> DEFINE own == item[i].job
  <1>1. own \in Job /\ ItemOf[own] = i
    BY ItemFacts DEF WaitingStatus, ActiveStatus
  <1>2. item'[i].job = own /\ job'[own].status \in TerminalStatus
    BY DEF Stranded
  <1> QED BY <1>1, <1>2 DEF Stranded

\* A step of item i and its jobs.
LEMMA OneItemMoves ==
  ASSUME IntakeInv, NEW i \in Item,
         \A k \in Item \ {i} : item'[k] = item[k],
         \A j \in Job : ItemOf[j] # i => job'[j] = job[j],
         OutcomesStay,
         Onward(i) \/ SetAside(i) \/ Admitted(i) \/ Refused(i),
         LeftUntouched(i)
  PROVE  ItemStep
  <1>1. \A k \in Item \ {i} : item'[k].status = item[k].status
    OBVIOUS
  <1>2. ItemsMove
    BY <1>1 DEF ItemsMove, Onward
  <1>3. ASSUME NEW k \in Item \ {i} PROVE LeftUntouched(k)
    BY UntouchedBeside
  <1> QED BY <1>2, <1>3 DEF ItemStep

\* A step that neither moves an item nor ends a job.
LEMMA NothingMoves ==
  ASSUME IntakeInv, \A k \in Item : item'[k] = item[k],
         \A j \in Job : job'[j].status = job[j].status
  PROVE  ItemStep
  <1>1. \A k \in Item : LeftUntouched(k)
    BY UntouchedBeside
  <1> QED BY <1>1 DEF ItemStep, ItemsMove, Onward, OutcomesStay

\* A new job for an item leaves nothing behind.
LEMMA NewJobMoves ==
  ASSUME IntakeInv, NEW i \in Item, NEW j \in Job, ItemOf[j] = i,
         job[j].status = "ABSENT", job'[j].status = "PENDING",
         \A k \in Job \ {j} : job'[k] = job[k],
         \A k \in Item \ {i} : item'[k] = item[k],
         item'[i].job = j, item'[i].status = "QUEUED",
         item[i].status # "DUPLICATE",
         item[i].status = "READY" \/ HasCapacity \/ \E old, k \in Job : RetryJob(old, k)
  PROVE  ItemStep
  <1>1. OutcomesStay
    BY DEF OutcomesStay, TerminalStatus
  <1>2. LeftUntouched(i)
    BY DEF LeftUntouched, Stranded, TerminalStatus
  <1>3. Onward(i) \/ Admitted(i)
    BY DEF Onward, Admitted, ActiveStatus
  <1>4. \A k \in Job : ItemOf[k] # i => job'[k] = job[k]
    OBVIOUS
  <1> QED BY <1>1, <1>2, <1>3, <1>4, OneItemMoves

LEMMA SubmitMoves ==
  ASSUME IntakeInv, NEW i \in Item, Submit(i)
  PROVE  ItemStep
  <1>1. item[i].status = "ABSENT" /\ item \in [Item -> ItemRow] /\ QueueOK
    BY DEF Submit, IntakeInv, IntakeTypeOK
  <1>2. CASE /\ ~LinkIsFree(i)
             /\ item' = [item EXCEPT ![i] = NewItem("DUPLICATE", NoJob)]
             /\ UNCHANGED vars
    <2>1. /\ item'[i].status = "DUPLICATE" /\ \A k \in Item \ {i} : item'[k] = item[k]
          /\ job' = job
      BY <1>1, <1>2 DEF NewItem, vars
    <2>2. \E k \in Active \ {i} : IdentityOf[k] = IdentityOf[i]
      BY <1>2, IntakeAssumption DEF LinkIsFree, Active
    <2>3. OutcomesStay /\ LeftUntouched(i) /\ SetAside(i)
      BY <2>1, <2>2 DEF OutcomesStay, LeftUntouched, Stranded, WaitingStatus, SetAside
    <2> QED BY <2>1, <2>3, OneItemMoves
  <1>3. CASE /\ HasCapacity
             /\ \E j \in Job, r \in Reading :
                  /\ ItemOf[j] = i
                  /\ Enqueue(j, ResolveRequest, r)
                  /\ item' = [item EXCEPT ![i] = NewItem("QUEUED", j)]
    <2>1. PICK j \in Job, r \in Reading :
               /\ ItemOf[j] = i
               /\ Enqueue(j, ResolveRequest, r)
               /\ item' = [item EXCEPT ![i] = NewItem("QUEUED", j)]
      BY <1>3
    <2>2. /\ job[j].status = "ABSENT" /\ job'[j].status = "PENDING"
          /\ \A k \in Job \ {j} : job'[k] = job[k]
      BY <1>1, <2>1, EnqueueQueue
    <2>3. /\ item'[i].job = j /\ item'[i].status = "QUEUED"
          /\ \A k \in Item \ {i} : item'[k] = item[k]
      BY <1>1, <2>1 DEF NewItem
    <2> QED BY <1>1, <1>3, <2>1, <2>2, <2>3, NewJobMoves
  <1> QED BY <1>2, <1>3 DEF Submit

LEMMA RetryItemMoves ==
  ASSUME IntakeInv, NEW i \in Item, RetryItem(i)
  PROVE  ItemStep
  <1>1. /\ item[i].status \in {"FAILED", "CANCELLED", "READY"} /\ item \in [Item -> ItemRow] /\ QueueOK
        /\ item[i].status = "READY" \/ HasCapacity
    BY DEF RetryItem, IntakeInv, IntakeTypeOK
  <1>2. PICK j \in Job, r \in Reading :
          /\ ItemOf[j] = i
          /\ Enqueue(j, ResolveRequest, r)
          /\ item' = [item EXCEPT ![i] = Requeued(@, j)]
    BY DEF RetryItem
  <1>3. /\ job[j].status = "ABSENT" /\ job'[j].status = "PENDING"
        /\ \A k \in Job \ {j} : job'[k] = job[k]
    BY <1>1, <1>2, EnqueueQueue
  <1>4. /\ item'[i] = Requeued(item[i], j) /\ item[i] \in ItemRow
        /\ \A k \in Item \ {i} : item'[k] = item[k]
    BY <1>1, <1>2
  <1>5. item'[i].job = j /\ item'[i].status = "QUEUED"
    BY <1>4, RequeuedRow
  <1> QED BY <1>1, <1>2, <1>3, <1>4, <1>5, NewJobMoves

LEMMA RetryJobMoves ==
  ASSUME IntakeInv, NEW old \in Job, NEW j \in Job, RetryJob(old, j)
  PROVE  ItemStep
  <1> DEFINE i == ItemOf[old]
  <1>1. /\ i \in Item /\ ItemOf[j] = i /\ item[i].status \in {"FAILED", "CANCELLED"}
        /\ item' = [item EXCEPT ![i] = Requeued(@, j)]
    BY IntakeAssumption DEF RetryJob
  <1>2. QueueOK /\ item \in [Item -> ItemRow]
    BY DEF IntakeInv, IntakeTypeOK
  <1>3. PICK r \in Reading : RetryAsNewJob(old, j, r)
    BY DEF RetryJob
  <1>4. /\ job[j].status = "ABSENT" /\ job'[j].status = "PENDING"
        /\ \A k \in Job \ {j} : job'[k] = job[k]
    BY <1>2, <1>3, RetryQueue
  <1> HIDE DEF i
  <1>5. /\ item'[i] = Requeued(item[i], j) /\ item[i] \in ItemRow
        /\ \A k \in Item \ {i} : item'[k] = item[k]
    BY <1>1, <1>2
  <1>6. item'[i].job = j /\ item'[i].status = "QUEUED"
    BY <1>5, RequeuedRow
  <1>7. \E o, k \in Job : RetryJob(o, k)
    OBVIOUS
  <1>8. item[i].status # "DUPLICATE"
    BY <1>1
  <1> QED BY <1>1, <1>4, <1>5, <1>6, <1>7, <1>8, NewJobMoves

LEMMA RejectedMoves ==
  ASSUME IntakeInv, NEW i \in Item, ReplacementRejected(i)
  PROVE  ItemStep
  <1>1. /\ item[i].status = "ABSENT" /\ item \in [Item -> ItemRow]
        /\ item' = [item EXCEPT ![i] = NewItem("FAILED", NoJob)] /\ job' = job
    BY DEF ReplacementRejected, vars, IntakeInv, IntakeTypeOK
  <1>2. item'[i].status = "FAILED" /\ \A k \in Item \ {i} : item'[k] = item[k]
    BY <1>1 DEF NewItem
  <1>3. OutcomesStay /\ LeftUntouched(i) /\ Refused(i)
    BY <1>1, <1>2 DEF OutcomesStay, LeftUntouched, Stranded, WaitingStatus, Refused
  <1> QED BY <1>1, <1>2, <1>3, OneItemMoves

LEMMA EnqueueItemMoves ==
  ASSUME IntakeInv, NEW i \in Item, EnqueueItem(i)
  PROVE  ItemStep
  <1>1. /\ item[i].status = "READY" /\ item \in [Item -> ItemRow] /\ item[i] \in ItemRow
        /\ item' = [item EXCEPT ![i].status = "ENQUEUED"] /\ job' = job
    BY DEF EnqueueItem, vars, IntakeInv, IntakeTypeOK
  <1>2. item'[i].status = "ENQUEUED" /\ \A k \in Item \ {i} : item'[k] = item[k]
    BY <1>1 DEF ItemRow
  <1>3. OutcomesStay /\ LeftUntouched(i) /\ Onward(i)
    BY <1>1, <1>2 DEF OutcomesStay, LeftUntouched, Stranded, WaitingStatus, Onward, ActiveStatus
  <1> QED BY <1>1, <1>2, <1>3, OneItemMoves

LEMMA CancelItemMoves ==
  ASSUME IntakeInv, NEW i \in Item, CancelItem(i)
  PROVE  ItemStep
  <1> DEFINE j == item[i].job
             running == item[i].status = "RESOLVING"
             over == job[j].status \in TerminalStatus
  <1>1. /\ item[i].status \in ActiveStatus /\ j \in Job /\ ItemOf[j] = i
        /\ item'[i].job = j /\ item'[i].status = IF running THEN "RESOLVING" ELSE "CANCELLED"
        /\ \A k \in Item \ {i} : item'[k] = item[k]
        /\ \A k \in Job \ {j} : job'[k] = job[k]
        /\ over => job'[j] = job[j]
        /\ ~over /\ running => job'[j].status = "CANCELLING"
    BY CancelItemFacts
  <1> HIDE DEF j
  <1>2. OutcomesStay
    BY <1>1 DEF OutcomesStay
  <1>3. Onward(i)
    BY <1>1 DEF Onward
  <1>4. LeftUntouched(i)
    <2>1. CASE running
      <3>1. item'[i].job = item[i].job /\ (job'[j].status \in TerminalStatus => over)
        BY <1>1, <2>1 DEF TerminalStatus, j
      <3> QED BY <1>1, <2>1, <3>1, UntouchedBeside DEF j, WaitingStatus
    <2>2. CASE ~running
      BY <1>1, <2>2 DEF LeftUntouched, Stranded, WaitingStatus
    <2> QED BY <2>1, <2>2
  <1>5. \A k \in Job : ItemOf[k] # i => job'[k] = job[k]
    BY <1>1
  <1> QED BY <1>1, <1>2, <1>3, <1>4, <1>5, OneItemMoves

LEMMA JobCommandMoves ==
  ASSUME IntakeInv, NEW kind \in {"cancel", "pause", "resume"}, NEW j \in Job,
         JobCommand(kind, j)
  PROVE  ItemStep
  <1> DEFINE i == ItemOf[j]
             direct == job[j].status \in IdleStatus
  <1>1. /\ i \in Item /\ job[j].status \in LiveStatus
        /\ item[i].job = j /\ item[i].status \in WaitingStatus
        /\ \A k \in Job \ {j} : job'[k] = job[k]
        /\ kind = "cancel" => job'[j].status = IF direct THEN "CANCELLED" ELSE "CANCELLING"
        /\ kind = "pause" => job'[j].status = IF job[j].status = "RUNNING" THEN "PAUSING" ELSE "PAUSED"
        /\ kind = "resume" => job'[j].status = "PENDING"
        /\ \A k \in Item \ {i} : item'[k] = item[k]
        /\ item'[i].job = j
        /\ kind # "cancel" => item'[i] = item[i]
        /\ kind = "cancel" => item'[i].status = IF direct THEN "CANCELLED" ELSE item[i].status
    BY JobCommandFacts
  <1> HIDE DEF direct
  <1>2. \A k \in Job : ItemOf[k] # i => job'[k] = job[k]
    BY <1>1
  <1> HIDE DEF i
  <1>3. OutcomesStay
    BY <1>1 DEF OutcomesStay, LiveStatus
  <1>4. Onward(i)
    BY <1>1 DEF Onward, WaitingStatus, ActiveStatus
  <1>5. LeftUntouched(i)
    BY <1>1 DEF LeftUntouched, Stranded, WaitingStatus, TerminalStatus
  <1> QED BY <1>1, <1>2, <1>3, <1>4, <1>5, OneItemMoves

LEMMA ClaimMoves ==
  ASSUME IntakeInv, NEW l \in Lane, ResolverClaims(l)
  PROVE  ItemStep
  <1>1. PICK r \in Reading :
          /\ item' = RecoveredItems(l, r)
          /\ ClaimNothing(l, r) \/ \E w \in Worker : ClaimJob(w, l, r, FALSE)
    BY DEF ResolverClaims
  <1>2. QueueOK
    BY DEF IntakeInv
  <1>3. \A k \in Job :
          \/ job'[k] = Swept(l, r)[k]
          \/ job'[k].status = "RUNNING" /\ Swept(l, r)[k].status \in {"PENDING", "RETRY_WAIT"}
    <2>1. CASE ClaimNothing(l, r)
      BY <1>2, <2>1, ClaimNothingQueue
    <2>2. CASE \E w \in Worker : ClaimJob(w, l, r, FALSE)
      <3>1. PICK w \in Worker : ClaimJob(w, l, r, FALSE)
        BY <2>2
      <3>2. PICK j \in Job, t \in Token \ TokensInUse, f \in Fence :
              /\ fences' = fences \union {f} /\ f.token = t
              /\ Swept(l, r)[j].status \in {"PENDING", "RETRY_WAIT"}
              /\ job'[j].status = "RUNNING" /\ job'[j].token = t
              /\ \A k \in Job \ {j} : job'[k] = Swept(l, r)[k]
        BY <1>2, <3>1, ClaimJobQueue
      <3> QED BY <3>2
    <2> QED BY <1>1, <2>1, <2>2
  <1>4. \A k \in Job :
          /\ k \notin Abandoned(l, r) => Swept(l, r)[k] = job[k]
          /\ k \in Abandoned(l, r) =>
               /\ job[k].status \in ExecutingStatus
               /\ Swept(l, r)[k].status \in {"CANCELLED", "PAUSED", "RETRY_WAIT", "FAILED"}
    BY <1>2, SweptFacts DEF Executes, ExecutingStatus
  <1>5. OutcomesStay
    BY <1>3, <1>4 DEF OutcomesStay, TerminalStatus, ExecutingStatus
  <1>6. ASSUME NEW i \in Item
        PROVE  Onward(i) /\ LeftUntouched(i)
    <2> DEFINE own == item[i].job
               after == Swept(l, r)[own].status
               taken == own \in Abandoned(l, r) /\ item[i].status \in {"QUEUED", "RESOLVING"}
    <2>1. item[i] \in ItemRow /\ (item[i].status \in WaitingStatus => own \in Job)
      BY ItemFacts DEF WaitingStatus, ActiveStatus
    <2>2. item'[i] = IF taken
                     THEN [item[i] EXCEPT !.status = IF after \in {"CANCELLED", "FAILED"} THEN after ELSE "RETRY_WAIT"]
                     ELSE item[i]
      BY <1>1 DEF RecoveredItems
    <2>3. CASE ~taken
      <3>1. item'[i] = item[i]
        BY <2>2, <2>3
      <3>2. ASSUME item[i].status \in WaitingStatus, item[i].status # "RETRY_WAIT",
                   job'[own].status \in TerminalStatus
            PROVE  job[own].status \in TerminalStatus
        <4>1. own \in Job /\ own \notin Abandoned(l, r)
          BY <2>1, <2>3, <3>2 DEF WaitingStatus
        <4> QED BY <1>3, <1>4, <3>2, <4>1 DEF TerminalStatus
      <3> QED BY <3>1, <3>2 DEF Onward, LeftUntouched, Stranded
    <2>4. CASE taken
      <3>1. own \in Job /\ after \in {"CANCELLED", "PAUSED", "RETRY_WAIT", "FAILED"}
        BY <1>4, <2>1, <2>4 DEF WaitingStatus
      <3> HIDE DEF own, after
      <3>2. /\ item'[i].job = own
            /\ item'[i].status = IF after \in {"CANCELLED", "FAILED"} THEN after ELSE "RETRY_WAIT"
        BY <2>1, <2>2, <2>4 DEF ItemRow, own
      <3>3. after \notin {"CANCELLED", "FAILED"} => job'[own].status \notin TerminalStatus
        BY <1>3, <3>1 DEF TerminalStatus, after
      <3>4. LeftUntouched(i)
        BY <3>1, <3>2, <3>3 DEF LeftUntouched, Stranded, WaitingStatus
      <3> QED BY <2>4, <3>1, <3>2, <3>4 DEF Onward, ActiveStatus
    <2> QED BY <2>3, <2>4
  <1> QED BY <1>5, <1>6 DEF ItemStep, ItemsMove

LEMMA BeginsMoves ==
  ASSUME IntakeInv, NEW f \in fences, Begins(f) \/ BeginFails(f)
  PROVE  ItemStep
  <1> DEFINE i == ItemOf[f.job]
  <1>1. QueueOK /\ item \in [Item -> ItemRow]
    BY DEF IntakeInv, IntakeTypeOK
  <1>2. job' = job
    BY DEF Begins, BeginFails, Mutate, vars
  <1>3. CASE item' = item
    BY <1>2, <1>3, NothingMoves
  <1>4. CASE /\ item' = [item EXCEPT ![i].status = "RESOLVING"]
             /\ \E r \in Reading : Mutate(f, r)
    <2>1. f.job \in Job /\ Executes(f.job)
      BY <1>1, <1>4, OwnedJob DEF Mutate
    <2>2. /\ i \in Item /\ item[i].job = f.job /\ item[i].status \in WaitingStatus
      BY <2>1, OwnedItem
    <2> HIDE DEF i
    <2>3. /\ \A k \in Item \ {i} : item'[k] = item[k]
          /\ item'[i].job = item[i].job /\ item'[i].status = "RESOLVING"
      BY <1>1, <1>4, <2>2 DEF ItemRow
    <2>4. LeftUntouched(i)
      BY <1>2, <2>2, <2>3, UntouchedBeside
    <2>5. OutcomesStay /\ Onward(i)
      BY <1>2, <2>2, <2>3 DEF OutcomesStay, Onward, WaitingStatus, ActiveStatus
    <2> QED BY <1>2, <2>2, <2>3, <2>4, <2>5, OneItemMoves
  <1> QED BY <1>3, <1>4 DEF Begins, BeginFails

LEMMA SettleWithoutItemMoves ==
  ASSUME IntakeInv, NEW f \in fences, SettleWithoutItem(f)
  PROVE  ItemStep
  <1> DEFINE i == ItemOf[f.job]
  <1>1. stage[f.token] \in UnbegunStage /\ item' = item
    BY DEF SettleWithoutItem, ItemUnchanged, UnbegunStage
  <1>2. PICK status \in {"CANCELLED", "PAUSED", "FAILED", "PENDING"} : Ends(f, status)
    BY SettledOutcome DEF IntakeInv
  <1>3. /\ f.job \in Job /\ Executes(f.job) /\ job[f.job].token = f.token
        /\ \A k \in Job \ {f.job} : job'[k] = job[k]
    BY <1>2 DEF Ends
  <1>4. i \in Item /\ item[i].job = f.job
    BY <1>3, OwnedItem
  <1>5. OutcomesStay
    BY <1>3 DEF OutcomesStay, Executes, ExecutingStatus, TerminalStatus
  <1>6. LeftUntouched(i) /\ Onward(i)
    BY <1>1, <1>3, <1>4 DEF LeftUntouched, Onward
  <1>7. \A k \in Job : ItemOf[k] # i => job'[k] = job[k]
    BY <1>3
  <1> QED BY <1>1, <1>4, <1>5, <1>6, <1>7, OneItemMoves

LEMMA FinalizeMoves ==
  ASSUME IntakeInv, NEW f \in fences, Finalize(f)
  PROVE  ItemStep
  <1> DEFINE i == ItemOf[f.job]
  <1>1. /\ item[i].job = f.job /\ item[i].status = "RESOLVING" /\ item \in [Item -> ItemRow]
    BY DEF Finalize, IntakeInv, IntakeTypeOK
  <1>2. PICK o \in Outcomes :
          /\ Ends(f, o[1])
          /\ o[2] = "DUPLICATE" => SameWork(i) # {}
          /\ \/ item' = [item EXCEPT ![i].status = o[2]]
             \/ item' = [item EXCEPT ![i].status = o[2], ![i].identified = TRUE]
    BY FinalizeOutcome DEF IntakeInv
  <1> DEFINE after == o[2]
             ending == o[1]
  <1>3. /\ f.job \in Job /\ Executes(f.job) /\ job'[f.job].status = ending
        /\ \A k \in Job \ {f.job} : job'[k] = job[k]
    BY <1>2 DEF Ends
  <1>4. i \in Item
    BY <1>3, OwnedItem
  <1>5. /\ after \in {"CANCELLED", "RETRY_WAIT", "DUPLICATE", "READY", "FAILED"}
        /\ ending \in TerminalStatus => after \notin WaitingStatus
    BY DEF Outcomes, TerminalStatus, WaitingStatus
  <1>6. OutcomesStay
    BY <1>3 DEF OutcomesStay, Executes, ExecutingStatus, TerminalStatus
  <1>7. \A k \in Job : ItemOf[k] # i => job'[k] = job[k]
    BY <1>3
  <1>8. /\ after = "DUPLICATE" => SameWork(i) # {}
        /\ \/ item' = [item EXCEPT ![i].status = after]
           \/ item' = [item EXCEPT ![i].status = after, ![i].identified = TRUE]
    BY <1>2
  <1> HIDE DEF i, after, ending
  <1>9. /\ \A k \in Item \ {i} : item'[k] = item[k]
        /\ item'[i].job = f.job /\ item'[i].status = after
    BY <1>1, <1>4, <1>8 DEF ItemRow
  <1>10. LeftUntouched(i)
    BY <1>3, <1>5, <1>9 DEF LeftUntouched, Stranded
  <1>11. CASE after = "DUPLICATE"
    <2>1. \E k \in Active \ {i} : IdentityOf[k] = IdentityOf[i]
      BY <1>8, <1>11 DEF SameWork, Active
    <2>2. SetAside(i)
      BY <1>9, <1>11, <2>1 DEF SetAside
    <2> QED BY <1>4, <1>6, <1>7, <1>9, <1>10, <2>2, OneItemMoves
  <1>12. CASE after # "DUPLICATE"
    <2>1. Onward(i)
      BY <1>1, <1>5, <1>9, <1>12 DEF Onward, ActiveStatus
    <2> QED BY <1>4, <1>6, <1>7, <1>9, <1>10, <2>1, OneItemMoves
  <1> QED BY <1>11, <1>12

LEMMA ItemSteps == IntakeInv /\ [IntakeNext]_intakeVars => ItemStep
  <1> SUFFICES ASSUME IntakeInv, [IntakeNext]_intakeVars PROVE ItemStep
    OBVIOUS
  <1>1. ASSUME NEW i \in Item,
               Submit(i) \/ ReplacementRejected(i) \/ CancelItem(i) \/ RetryItem(i) \/ EnqueueItem(i)
        PROVE  ItemStep
    BY <1>1, SubmitMoves, RejectedMoves, CancelItemMoves, RetryItemMoves, EnqueueItemMoves
  <1>2. ASSUME NEW kind \in {"cancel", "pause", "resume"}, NEW j \in Job, JobCommand(kind, j)
        PROVE  ItemStep
    BY <1>2, JobCommandMoves
  <1>3. ASSUME NEW old \in Job, NEW j \in Job, RetryJob(old, j) PROVE ItemStep
    BY <1>3, RetryJobMoves
  <1>4. ASSUME NEW l \in Lane, ResolverClaims(l) PROVE ItemStep
    BY <1>4, ClaimMoves
  <1>5. ASSUME NEW f \in fences,
               Begins(f) \/ BeginFails(f) \/ SettleWithoutItem(f) \/ Finalize(f)
        PROVE  ItemStep
    BY <1>5, BeginsMoves, SettleWithoutItemMoves, FinalizeMoves
  <1>6. ASSUME NEW f \in fences, Stops(f) PROVE ItemStep
    BY <1>6, NothingMoves DEF Stops, Forget, ItemUnchanged
  <1>7. ASSUME NEW f \in fences, NEW r \in Reading,
               Heartbeat(f, r) /\ UNCHANGED stage /\ ItemUnchanged
        PROVE  ItemStep
    <2>1. \A k \in Job : job'[k].status = job[k].status
      BY <1>7, HeartbeatQueue DEF IntakeInv
    <2> QED BY <1>7, <2>1, NothingMoves DEF ItemUnchanged
  <1>8. ASSUME Tick /\ UNCHANGED stage /\ ItemUnchanged PROVE ItemStep
    <2>1. \A k \in Job : job'[k].status = job[k].status
      BY <1>8, TickQueue DEF IntakeInv
    <2> QED BY <1>8, <2>1, NothingMoves DEF ItemUnchanged
  <1>9. ASSUME UNCHANGED intakeVars PROVE ItemStep
    BY <1>9, NothingMoves DEF intakeVars
  <1> QED BY <1>1, <1>2, <1>3, <1>4, <1>5, <1>6, <1>7, <1>8, <1>9 DEF IntakeNext

-----------------------------------------------------------------------------
(* What follows for the inbox                                              *)

\* An item put aside as a duplicate leaves an item of that work that is none: the step
\* that puts it aside has another active one at hand, and no later step can turn that one
\* into a duplicate without yet another active one.
THEOREM DuplicatesHaveOriginals == IntakeSpec => []DuplicateHasOriginal
  <1>1. IntakeInit => DuplicateHasOriginal
    BY DEF IntakeInit, NewItem, DuplicateHasOriginal
  <1>2. ItemsMove /\ DuplicateHasOriginal => DuplicateHasOriginal'
    <2> SUFFICES ASSUME ItemsMove, DuplicateHasOriginal,
                        NEW i \in Item, item'[i].status = "DUPLICATE"
                 PROVE  \E k \in Item : /\ IdentityOf[k] = IdentityOf[i]
                                        /\ item'[k].status \notin {"ABSENT", "DUPLICATE"}
      BY DEF DuplicateHasOriginal
    <2>1. CASE \A k \in Item : Onward(k)
      <3>1. item[i].status = "DUPLICATE"
        BY <2>1 DEF Onward
      <3>2. PICK k \in Item : /\ IdentityOf[k] = IdentityOf[i]
                              /\ item[k].status \notin {"ABSENT", "DUPLICATE"}
        BY <3>1 DEF DuplicateHasOriginal
      <3> QED BY <2>1, <3>2 DEF Onward
    <2>2. ASSUME NEW n \in Item, SetAside(n),
                 \A k \in Item \ {n} : item'[k].status = item[k].status
          PROVE  \E k \in Item : /\ IdentityOf[k] = IdentityOf[i]
                                 /\ item'[k].status \notin {"ABSENT", "DUPLICATE"}
      <3>1. PICK other \in Active \ {n} : IdentityOf[other] = IdentityOf[n]
        BY <2>2 DEF SetAside
      <3>2. other \in Item /\ item'[other].status \notin {"ABSENT", "DUPLICATE"}
        BY <2>2, <3>1 DEF Active, ActiveStatus
      <3>3. CASE i = n
        BY <3>1, <3>2, <3>3
      <3>4. CASE i # n
        <4>1. PICK k \in Item : /\ IdentityOf[k] = IdentityOf[i]
                                /\ item[k].status \notin {"ABSENT", "DUPLICATE"}
          BY <2>2, <3>4 DEF DuplicateHasOriginal
        <4> QED BY <2>2, <3>1, <3>2, <4>1
      <3> QED BY <3>3, <3>4
    <2>3. ASSUME NEW n \in Item, Admitted(n) \/ Refused(n),
                 \A k \in Item \ {n} : item'[k].status = item[k].status
          PROVE  \E k \in Item : /\ IdentityOf[k] = IdentityOf[i]
                                 /\ item'[k].status \notin {"ABSENT", "DUPLICATE"}
      <3>1. /\ i # n /\ item[i].status = "DUPLICATE"
            /\ item'[n].status \notin {"ABSENT", "DUPLICATE"}
        BY <2>3 DEF Admitted, Refused
      <3> QED BY <2>3, <3>1 DEF DuplicateHasOriginal
    <2> QED BY <2>1, <2>2, <2>3 DEF ItemsMove
  <1>3. IntakeInv /\ [IntakeNext]_intakeVars => ItemsMove
    BY ItemSteps DEF ItemStep
  <1> QED BY <1>1, <1>2, <1>3, IntakeInvariance, PTL DEF IntakeSpec

\* The items a step makes active were active before it, but for one that is admitted.
LEMMA ActiveItems ==
  ASSUME ItemsMove
  PROVE  \/ Active' \subseteq Active
         \/ \E i \in Item : /\ Active' \subseteq Active \union {i}
                            /\ HasCapacity \/ \E old, j \in Job : RetryJob(old, j)
  <1>1. CASE \A k \in Item : Onward(k)
    BY <1>1 DEF Onward, Active
  <1>2. ASSUME NEW i \in Item, SetAside(i) \/ Refused(i),
               \A k \in Item \ {i} : item'[k].status = item[k].status
        PROVE  Active' \subseteq Active
    BY <1>2 DEF SetAside, Refused, Active, ActiveStatus
  <1>3. ASSUME NEW i \in Item, \A k \in Item \ {i} : item'[k].status = item[k].status
        PROVE  Active' \subseteq Active \union {i}
    BY <1>3 DEF Active
  <1> QED BY <1>1, <1>2, <1>3 DEF ItemsMove, Admitted

\* Submission, replacement and the inbox's own retry keep to the capacity.
THEOREM OnlyRetryOverfills == IntakeSpec => OnlyJobRetryOverfills
  <1>1. ASSUME ItemsMove, Cardinality(Active') > Capacity, Cardinality(Active') > Cardinality(Active)
        PROVE  \E old, j \in Job : RetryJob(old, j)
    <2>1. IsFiniteSet(Active) /\ Cardinality(Active) \in Nat
      BY IntakeAssumption, FS_Subset, FS_CardinalityType DEF Active
    <2>2. IsFiniteSet(Active') /\ Cardinality(Active') \in Nat
      <3>1. Active' \in SUBSET Item
        BY DEF Active
      <3> HIDE DEF Active
      <3> QED BY <3>1, IntakeAssumption, FS_Subset, FS_CardinalityType
    <2>3. CASE Active' \subseteq Active
      <3>1. Cardinality(Active') <= Cardinality(Active)
        BY <2>1, <2>3, FS_Subset
      <3> QED BY <1>1, <2>1, <2>2, <3>1
    <2>4. ASSUME NEW i \in Item, Active' \subseteq Active \union {i}, HasCapacity
          PROVE  FALSE
      <3> DEFINE larger == Active \union {i}
      <3>1. /\ IsFiniteSet(larger)
            /\ Cardinality(larger) = IF i \in Active THEN Cardinality(Active) ELSE Cardinality(Active) + 1
        BY <2>1, FS_AddElement
      <3>2. Cardinality(Active') <= Cardinality(larger)
        BY <2>4, <3>1, FS_Subset
      <3> HIDE DEF larger
      <3>3. Cardinality(larger) <= Cardinality(Active) + 1 /\ Cardinality(larger) \in Nat
        BY <2>1, <3>1
      <3>4. Cardinality(Active) < Capacity /\ Capacity \in Nat
        BY <2>4, IntakeAssumption DEF HasCapacity
      <3> QED BY <1>1, <2>1, <2>2, <3>2, <3>3, <3>4
    <2> QED BY <1>1, <2>3, <2>4, ActiveItems
  <1>2. IntakeInv /\ [IntakeNext]_intakeVars =>
          [Cardinality(Active') > Capacity /\ Cardinality(Active') > Cardinality(Active)
             => \E old, j \in Job : RetryJob(old, j)]_intakeVars
    BY <1>1, ItemSteps DEF ItemStep
  <1> QED BY <1>2, IntakeInvariance, PTL DEF IntakeSpec, OnlyJobRetryOverfills

\* A job never ends without its item once its execution has begun on it.
THEOREM OnlyUnbegunIsStranded == IntakeSpec => OnlyUnbegunWorkIsStranded
  <1>1. IntakeInv /\ [IntakeNext]_intakeVars =>
          [\A i \in Item : Stranded(i)' /\ ~Stranded(i) =>
             \/ item[i].status = "RETRY_WAIT"
             \/ stage[job[item[i].job].token] \in {"starting", "thrown"}]_intakeVars
    BY ItemSteps DEF ItemStep, LeftUntouched, UnbegunStage
  <1> QED BY <1>1, IntakeInvariance, PTL DEF IntakeSpec, OnlyUnbegunWorkIsStranded

\* No command of the inbox revises the outcome of a job either: a retry is a new job.
THEOREM ResolverOutcomesAreFinal == IntakeSpec => TerminalIsFinal
  <1>1. IntakeInv /\ [IntakeNext]_intakeVars =>
          [\A j \in Job : job[j].status \in TerminalStatus => job'[j].status = job[j].status]_vars
    BY ItemSteps DEF ItemStep, OutcomesStay
  <1> QED BY <1>1, IntakeInvariance, PTL DEF IntakeSpec, TerminalIsFinal
=============================================================================
