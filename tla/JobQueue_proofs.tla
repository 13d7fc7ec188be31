--------------------------- MODULE JobQueue_proofs ---------------------------
(***************************************************************************)
(* Proofs about JobQueue, for every number of jobs, lanes, workers and     *)
(* tokens, every lease duration and every clock skew.                      *)
(*                                                                         *)
(* The inductive invariant has two parts.  RowOK says of each job row what *)
(* its own columns must agree on; every operation maps rows to rows, and a *)
(* lemma per mapping shows that it keeps RowOK.  LeaseBacksExecution       *)
(* relates the rows to the lease table.                                    *)
(***************************************************************************)
EXTENDS JobQueue, TLAPS

ClaimableStatus == {"PENDING", "RETRY_WAIT"}

\* What the columns of one row agree on.
RowOK(row) ==
  /\ row \in Row
  /\ row.cancelRequested => row.status \in {"CANCELLING", "CANCELLED"}
  /\ row.status \in ClaimableStatus \union {"RUNNING"} => ~row.pauseRequested
  /\ row.attempt <= row.maxAttempts
  /\ row.status = "RETRY_WAIT" => row.attempt < row.maxAttempts

\* A command was accepted for the status it saw.
CommandsOK == \A c \in commands : c.seen \in Accepts(c.kind)

IInv ==
  /\ TypeOK
  /\ \A j \in Job : RowOK(job[j])
  /\ LeaseBacksExecution
  /\ CommandsOK

-----------------------------------------------------------------------------
(* Readings of the clock, and the times they lead to, are within Time.     *)
LEMMA TimeFacts ==
  /\ Elapsed \in Int /\ Horizon \in Int /\ Elapsed \in Time
  /\ Time \subseteq Int
  /\ \A r \in Reading :
       /\ r \in Int /\ r \in Time /\ Elapsed <= r
       /\ r + LeaseDuration \in Time
       /\ \A d \in 0..MaxDelay : r + d \in Time
  <1>1. /\ ClockLag \in Int /\ ClockLag >= 0 /\ ClockLead \in Int /\ ClockLead >= 0
        /\ MaxDelay \in Int /\ MaxDelay >= 0 /\ LeaseDuration \in Int /\ LeaseDuration >= 0
    BY QueueAssumption
  <1>2. CASE LeaseDuration > MaxDelay
    BY <1>1, <1>2 DEF Elapsed, Reading, Time, Horizon, Larger
  <1>3. CASE ~(LeaseDuration > MaxDelay)
    BY <1>1, <1>3 DEF Elapsed, Reading, Time, Horizon, Larger
  <1> QED BY <1>2, <1>3

-----------------------------------------------------------------------------
(* Row lemmas                                                              *)

LEMMA PendingRowOK ==
  ASSUME NEW source \in Source, NEW at \in Time, NEW deadline \in SUBSET Time,
         NEW budget \in 0..AttemptCap
  PROVE  RowOK(PendingRow(source, at, deadline, budget))
  BY QueueAssumption, TimeFacts
  DEF RowOK, PendingRow, Row, Status, ClaimableStatus, IdleStatus, ExecutingStatus, TerminalStatus

LEMMA DetachedType ==
  ASSUME NEW row \in Row, NEW status \in Status
  PROVE  /\ Detached(row, status) \in Row
         /\ Detached(row, status).status = status
         /\ Detached(row, status).cancelRequested = row.cancelRequested
         /\ Detached(row, status).pauseRequested = row.pauseRequested
         /\ Detached(row, status).attempt = row.attempt
         /\ Detached(row, status).maxAttempts = row.maxAttempts
         /\ Detached(row, status).deadline = row.deadline
         /\ Detached(row, status).source = row.source
  BY QueueAssumption, TimeFacts DEF Detached, Row

LEMMA AbsentRowOK == RowOK(AbsentRow) /\ AbsentRow.status = "ABSENT"
  <1> DEFINE blank == PendingRow("MANUAL", Elapsed, {}, 0)
  <1>1. RowOK(blank)
    BY PendingRowOK, QueueAssumption, TimeFacts DEF Source
  <1>2. AbsentRow = [blank EXCEPT !.status = "ABSENT"]
    BY DEF AbsentRow
  <1>3. blank.cancelRequested = FALSE
    BY DEF PendingRow
  <1> HIDE DEF blank
  <1>4. AbsentRow \in Row
    BY <1>1, <1>2 DEF RowOK, Row, Status
  <1> QED BY <1>3, <1>4, <1>1, <1>2 DEF RowOK, Row, Status, ClaimableStatus

\* An execution recovered after its lease ran out.
LEMMA RecoveredRowOK ==
  ASSUME NEW row, RowOK(row), row.status \in ExecutingStatus, NEW r \in Reading
  PROVE  RowOK(RecoveredRow(row, r)) /\ RecoveredRow(row, r).status \notin ExecutingStatus
  <1> DEFINE outcome == CASE row.status = "CANCELLING" -> "CANCELLED"
                          [] row.status = "PAUSING" -> "PAUSED"
                          [] row.status = "RUNNING" ->
                               IF row.attempt < row.maxAttempts THEN "RETRY_WAIT" ELSE "FAILED"
             gone == Detached(row, outcome)
  <1>1. RecoveredRow(row, r) =
          [gone EXCEPT !.availableAt = IF outcome = "RETRY_WAIT" THEN r ELSE @]
    BY DEF RecoveredRow
  <1>2. /\ outcome \in {"CANCELLED", "PAUSED", "RETRY_WAIT", "FAILED"}
        /\ row.cancelRequested => outcome = "CANCELLED"
        /\ outcome = "RETRY_WAIT" => ~row.pauseRequested /\ row.attempt < row.maxAttempts
    <2>1. /\ row.cancelRequested => row.status = "CANCELLING"
          /\ row.status = "RUNNING" => ~row.pauseRequested
          /\ row.status \in {"RUNNING", "PAUSING", "CANCELLING"}
      BY DEF RowOK, ExecutingStatus
    <2>2. CASE row.status = "CANCELLING"
      BY <2>2
    <2>3. CASE row.status = "PAUSING"
      BY <2>1, <2>3
    <2>4. CASE row.status = "RUNNING"
      BY <2>1, <2>4
    <2> QED BY <2>1, <2>2, <2>3, <2>4
  <1> HIDE DEF outcome
  <1>3. /\ gone \in Row /\ gone.status = outcome
        /\ gone.cancelRequested = row.cancelRequested
        /\ gone.pauseRequested = row.pauseRequested
        /\ gone.attempt = row.attempt /\ gone.maxAttempts = row.maxAttempts
    BY <1>2, DetachedType DEF RowOK, Status, IdleStatus, TerminalStatus
  <1>4. r \in Time
    BY TimeFacts
  <1> HIDE DEF gone
  <1>5. [gone EXCEPT !.availableAt = IF outcome = "RETRY_WAIT" THEN r ELSE @] \in Row
    BY <1>3, <1>4 DEF Row
  <1>6. RowOK([gone EXCEPT !.availableAt = IF outcome = "RETRY_WAIT" THEN r ELSE @])
    BY <1>2, <1>3, <1>5 DEF RowOK, ClaimableStatus, Row
  <1> QED BY <1>1, <1>2, <1>3, <1>6 DEF ExecutingStatus, Row

\* The job table a claim sees: every row is fine, the abandoned executions of the
\* lane have stopped and nothing else about executions has changed.
LEMMA SweptOK ==
  ASSUME \A j \in Job : RowOK(job[j]), NEW l \in Lane, NEW r \in Reading, NEW j \in Job
  PROVE  /\ RowOK(Swept(l, r)[j])
         /\ j \in Abandoned(l, r) => Swept(l, r)[j].status \notin ExecutingStatus
         /\ j \notin Abandoned(l, r) /\ job[j].status \in ExecutingStatus =>
              Swept(l, r)[j] = job[j]
         /\ job[j].status \notin ExecutingStatus => Swept(l, r)[j].status \notin ExecutingStatus
  <1> DEFINE row == IF j \in Abandoned(l, r) THEN RecoveredRow(job[j], r) ELSE job[j]
  <1>1. RowOK(row) /\ (j \in Abandoned(l, r) => row.status \notin ExecutingStatus)
    BY RecoveredRowOK DEF Abandoned, Executing
  <1>2. Swept(l, r)[j] = IF WindowExpired(row, r) THEN Detached(row, "SKIPPED") ELSE row
    BY DEF Swept
  <1>3. CASE WindowExpired(row, r)
    <2> HIDE DEF row
    <2>1. row \in Row /\ row.status \in ClaimableStatus
      BY <1>1, <1>3 DEF RowOK, WindowExpired, ClaimableStatus
    <2>2. ~row.cancelRequested
      BY <1>1, <2>1 DEF RowOK, ClaimableStatus
    <2>3. /\ Detached(row, "SKIPPED") \in Row
          /\ Detached(row, "SKIPPED").status = "SKIPPED"
          /\ Detached(row, "SKIPPED").cancelRequested = row.cancelRequested
          /\ Detached(row, "SKIPPED").attempt = row.attempt
          /\ Detached(row, "SKIPPED").maxAttempts = row.maxAttempts
      BY <2>1, DetachedType DEF Status, TerminalStatus
    <2>4. RowOK(Detached(row, "SKIPPED"))
      BY <1>1, <2>2, <2>3 DEF RowOK, ClaimableStatus
    <2>5. job[j].status \in ExecutingStatus => j \in Abandoned(l, r)
      BY <2>1 DEF row, ClaimableStatus, ExecutingStatus
    <2> QED BY <1>2, <1>3, <2>3, <2>4, <2>5 DEF ExecutingStatus
  <1>4. CASE ~WindowExpired(row, r)
    BY <1>1, <1>2, <1>4 DEF Abandoned, Executing
  <1> QED BY <1>3, <1>4

LEMMA StartedOK ==
  ASSUME NEW row, RowOK(row), NEW w \in Worker, NEW t \in Token, NEW r \in Reading,
         NEW windowOpen \in BOOLEAN, Eligible(row, r, windowOpen)
  PROVE  /\ RowOK(Started(row, w, t, r))
         /\ Started(row, w, t, r).attempt \in 1..AttemptCap
         /\ Started(row, w, t, r).status = "RUNNING"
         /\ Started(row, w, t, r).worker = w
         /\ Started(row, w, t, r).token = t
         /\ Started(row, w, t, r).expires \in Time
  <1> DEFINE new == Started(row, w, t, r)
  <1>1. /\ row \in Row /\ row.status \in ClaimableStatus /\ ~row.cancelRequested
        /\ ~row.pauseRequested /\ row.attempt < row.maxAttempts
    BY DEF RowOK, Eligible, ClaimableStatus
  <1>2. r + LeaseDuration \in Time
    BY TimeFacts
  <1>3. row.attempt \in 0..AttemptCap /\ row.maxAttempts \in 0..AttemptCap
    BY <1>1 DEF Row
  <1>4. row.attempt + 1 \in 1..AttemptCap /\ row.attempt + 1 <= row.maxAttempts
    BY <1>1, <1>3, QueueAssumption
  <1>5. /\ new.status = "RUNNING" /\ new.worker = w /\ new.token = t
        /\ new.expires = r + LeaseDuration /\ new.attempt = row.attempt + 1
        /\ new.maxAttempts = row.maxAttempts
        /\ new.cancelRequested = row.cancelRequested /\ new.pauseRequested = row.pauseRequested
    BY <1>1 DEF Started, Row
  <1>6. new \in Row
    <2>1. row.attempt + 1 \in 0..AttemptCap
      BY <1>4, QueueAssumption
    <2> QED BY <1>1, <1>2, <2>1 DEF Started, Row, Status, ExecutingStatus
  <1> QED BY <1>1, <1>2, <1>4, <1>5, <1>6 DEF RowOK, ClaimableStatus

\* What an execution that stops leaves behind in its row.
LEMMA DetachedRowOK ==
  ASSUME NEW row, RowOK(row), NEW status \in Status \ ExecutingStatus,
         row.cancelRequested => status = "CANCELLED",
         status \in ClaimableStatus => ~row.pauseRequested,
         status = "RETRY_WAIT" => row.attempt < row.maxAttempts
  PROVE  RowOK(Detached(row, status)) /\ Detached(row, status).status \notin ExecutingStatus
  <1>1. row \in Row
    BY DEF RowOK
  <1>2. status \in Status /\ status # "RUNNING" /\ status \notin ExecutingStatus
    BY DEF ExecutingStatus
  <1> QED BY <1>1, <1>2, DetachedType DEF RowOK, ClaimableStatus

LEMMA RetryRowOK ==
  ASSUME NEW row, RowOK(row), row.status = "RUNNING", row.attempt < row.maxAttempts,
         NEW at \in Time
  PROVE  RowOK([Detached(row, "RETRY_WAIT") EXCEPT !.availableAt = at])
  <1> DEFINE gone == Detached(row, "RETRY_WAIT")
  <1>1. RowOK(gone) /\ gone.status = "RETRY_WAIT" /\ gone \in Row
    BY DetachedRowOK, DetachedType
    DEF RowOK, Status, IdleStatus, ExecutingStatus, ClaimableStatus
  <1> HIDE DEF gone
  <1>2. [gone EXCEPT !.availableAt = at] \in Row
    BY <1>1 DEF Row
  <1> QED BY <1>1, <1>2 DEF RowOK, Row, gone

LEMMA YieldRowOK ==
  ASSUME NEW row, RowOK(row), row.status = "RUNNING", row.attempt > 0, NEW at \in Time
  PROVE  RowOK([Detached(row, "RETRY_WAIT") EXCEPT !.availableAt = at, !.attempt = @ - 1])
  <1> DEFINE gone == Detached(row, "RETRY_WAIT")
             new == [gone EXCEPT !.availableAt = at, !.attempt = @ - 1]
  <1>1. /\ gone \in Row /\ gone.status = "RETRY_WAIT"
        /\ ~gone.cancelRequested /\ ~gone.pauseRequested
        /\ gone.attempt = row.attempt /\ gone.maxAttempts = row.maxAttempts
    BY DetachedType DEF RowOK, Status, IdleStatus, ClaimableStatus
  <1>2. /\ row.attempt \in 0..AttemptCap /\ row.maxAttempts \in 0..AttemptCap
        /\ row.attempt <= row.maxAttempts
    BY DEF RowOK, Row
  <1>3. /\ row.attempt - 1 \in 0..AttemptCap /\ row.attempt - 1 < row.maxAttempts
        /\ row.attempt - 1 <= row.maxAttempts
    BY <1>2, QueueAssumption
  <1> HIDE DEF gone
  <1>4. /\ new \in Row /\ new.status = "RETRY_WAIT" /\ new.attempt = row.attempt - 1
        /\ new.maxAttempts = row.maxAttempts
        /\ ~new.cancelRequested /\ ~new.pauseRequested
    BY <1>1, <1>3 DEF Row
  <1> QED BY <1>3, <1>4 DEF RowOK, gone

LEMMA CancelRowOK ==
  ASSUME NEW row, RowOK(row)
  PROVE  RowOK([Detached(row, "CANCELLED") EXCEPT !.cancelRequested = TRUE])
  <1> DEFINE gone == Detached(row, "CANCELLED")
  <1>1. RowOK(gone) /\ gone.status = "CANCELLED" /\ gone \in Row
    BY DetachedRowOK, DetachedType
    DEF RowOK, Status, IdleStatus, ExecutingStatus, TerminalStatus, ClaimableStatus
  <1> HIDE DEF gone
  <1>2. [gone EXCEPT !.cancelRequested = TRUE] \in Row
    BY <1>1 DEF Row
  <1> QED BY <1>1, <1>2 DEF RowOK, Row, ClaimableStatus, gone

\* The row of a pause that takes effect, with whatever mark it leaves.
LEMMA PauseRowOK ==
  ASSUME NEW row, RowOK(row), row.status \notin {"CANCELLING", "CANCELLED"},
         NEW mark \in BOOLEAN
  PROVE  RowOK([Detached(row, "PAUSED") EXCEPT !.pauseRequested = mark])
  <1> DEFINE gone == Detached(row, "PAUSED")
  <1>1. RowOK(gone) /\ gone.status = "PAUSED" /\ gone \in Row
    BY DetachedRowOK, DetachedType
    DEF RowOK, Status, IdleStatus, ExecutingStatus, TerminalStatus, ClaimableStatus
  <1> HIDE DEF gone
  <1>2. [gone EXCEPT !.pauseRequested = mark] \in Row
    BY <1>1 DEF Row
  <1> QED BY <1>1, <1>2 DEF RowOK, Row, ClaimableStatus, gone

LEMMA ReleaseRowOK ==
  ASSUME NEW row, RowOK(row), row.status = "RUNNING", row.attempt < AttemptCap, NEW at \in Time
  PROVE  RowOK([Detached(row, "PENDING") EXCEPT
                  !.availableAt = at, !.maxAttempts = Larger(@, row.attempt + 1)])
  <1> DEFINE gone == Detached(row, "PENDING")
             new == [gone EXCEPT !.availableAt = at, !.maxAttempts = Larger(@, row.attempt + 1)]
  <1>1. /\ gone \in Row /\ gone.status = "PENDING"
        /\ ~gone.cancelRequested /\ ~gone.pauseRequested
        /\ gone.attempt = row.attempt /\ gone.maxAttempts = row.maxAttempts
    BY DetachedType DEF RowOK, Status, IdleStatus, ClaimableStatus
  <1>2. row.attempt \in 0..AttemptCap /\ row.maxAttempts \in 0..AttemptCap
    BY DEF RowOK, Row
  <1>3. /\ Larger(row.maxAttempts, row.attempt + 1) \in 0..AttemptCap
        /\ row.attempt <= Larger(row.maxAttempts, row.attempt + 1)
    BY <1>2, QueueAssumption DEF Larger
  <1> HIDE DEF gone
  <1>4. /\ new \in Row /\ new.status = "PENDING" /\ new.attempt = row.attempt
        /\ new.maxAttempts = Larger(row.maxAttempts, row.attempt + 1)
        /\ ~new.cancelRequested /\ ~new.pauseRequested
    BY <1>1, <1>3 DEF Row
  <1> QED BY <1>3, <1>4 DEF RowOK, gone, ClaimableStatus

LEMMA ResumedOK ==
  ASSUME NEW row, RowOK(row), row.status = "PAUSED", NEW r \in Reading
  PROVE  RowOK(Resumed(row, r)) /\ Resumed(row, r).status = "PENDING"
  <1> DEFINE gone == Detached(row, "PENDING")
             new == [gone EXCEPT !.availableAt = r, !.pauseRequested = FALSE]
  <1>1. /\ gone \in Row /\ gone.status = "PENDING" /\ ~gone.cancelRequested
        /\ gone.attempt = row.attempt /\ gone.maxAttempts = row.maxAttempts
    BY DetachedType DEF RowOK, Status, IdleStatus
  <1>2. r \in Time
    BY TimeFacts
  <1> HIDE DEF gone
  <1>3. /\ new \in Row /\ new.status = "PENDING" /\ ~new.cancelRequested
        /\ ~new.pauseRequested /\ new.attempt = gone.attempt
        /\ new.maxAttempts = gone.maxAttempts
    BY <1>1, <1>2 DEF Row
  <1> QED BY <1>1, <1>3 DEF RowOK, Resumed, gone

\* A command that stops a job without an execution ends it, and one that finds an
\* execution leaves worker, token and expiry to it.
LEMMA CommandedOK ==
  ASSUME NEW row, RowOK(row)
  PROVE  /\ row.status \in Accepts("cancel") =>
              LET new == Cancelled(row, row.status)
              IN /\ RowOK(new)
                 /\ new.status \in ExecutingStatus <=> row.status \in ExecutingStatus
                 /\ row.status \in ExecutingStatus =>
                      /\ new.worker = row.worker /\ new.token = row.token
                      /\ new.expires = row.expires
         /\ row.status \in Accepts("pause") =>
              LET new == Paused(row, row.status)
              IN /\ RowOK(new)
                 /\ new.status \in ExecutingStatus <=> row.status \in ExecutingStatus
                 /\ row.status \in ExecutingStatus =>
                      /\ new.worker = row.worker /\ new.token = row.token
                      /\ new.expires = row.expires
  <1>1. row \in Row
    BY DEF RowOK
  <1>2. CASE row.status \in IdleStatus
    <2>1. RowOK(Cancelled(row, row.status)) /\ Cancelled(row, row.status).status = "CANCELLED"
      BY <1>1, <1>2, CancelRowOK, DetachedType DEF Cancelled, Row, Status, TerminalStatus
    <2>2. row.status # "PAUSED" =>
            RowOK(Paused(row, row.status)) /\ Paused(row, row.status).status = "PAUSED"
      BY <1>1, <1>2, PauseRowOK, DetachedType DEF Paused, Row, Status, IdleStatus
    <2> QED BY <1>2, <2>1, <2>2 DEF Accepts, IdleStatus, ExecutingStatus
  <1>3. CASE row.status \in {"RUNNING", "PAUSING"}
    <2>1. Cancelled(row, row.status) = [row EXCEPT !.status = "CANCELLING", !.cancelRequested = TRUE]
      BY <1>1, <1>3 DEF Cancelled, IdleStatus, Row
    <2>2. [row EXCEPT !.status = "CANCELLING", !.cancelRequested = TRUE] \in Row
      BY <1>1 DEF Row, Status, ExecutingStatus
    <2>3. row.status = "RUNNING" =>
            Paused(row, row.status) = [row EXCEPT !.status = "PAUSING", !.pauseRequested = TRUE]
      BY <1>1 DEF Paused, Row
    <2>4. [row EXCEPT !.status = "PAUSING", !.pauseRequested = TRUE] \in Row
      BY <1>1 DEF Row, Status, ExecutingStatus
    <2>5. row.status = "RUNNING" => ~row.cancelRequested
      BY DEF RowOK
    <2>6. row.status \notin IdleStatus
      BY <1>3 DEF IdleStatus
    <2>7. RowOK(Cancelled(row, row.status))
      BY <1>1, <2>1, <2>2 DEF RowOK, Row, ClaimableStatus
    <2>8. row.status = "RUNNING" => RowOK(Paused(row, row.status))
      BY <1>1, <2>3, <2>4, <2>5 DEF RowOK, Row, ClaimableStatus
    <2> QED
      BY <1>1, <1>3, <2>1, <2>3, <2>7, <2>8 DEF Accepts, ExecutingStatus, Row
  <1> QED BY <1>2, <1>3 DEF Accepts, IdleStatus

LEMMA AgedRowOK ==
  ASSUME NEW row, RowOK(row)
  PROVE  /\ RowOK(AgedRow(row))
         /\ AgedRow(row).status = row.status /\ AgedRow(row).worker = row.worker
         /\ AgedRow(row).token = row.token /\ AgedRow(row).expires = Aged(row.expires)
  <1>1. \A t \in Time : Aged(t) \in Time
    BY TimeFacts DEF Aged, Time
  <1>2. row \in Row
    BY DEF RowOK
  <1>3. /\ Aged(row.expires) \in Time /\ Aged(row.availableAt) \in Time
        /\ {Aged(d) : d \in row.deadline} \in SUBSET Time
    BY <1>1, <1>2 DEF Row
  <1>4. AgedRow(row) \in Row
    BY <1>2, <1>3 DEF AgedRow, Row
  <1>5. /\ AgedRow(row).status = row.status /\ AgedRow(row).worker = row.worker
        /\ AgedRow(row).token = row.token /\ AgedRow(row).expires = Aged(row.expires)
        /\ AgedRow(row).attempt = row.attempt /\ AgedRow(row).maxAttempts = row.maxAttempts
        /\ AgedRow(row).cancelRequested = row.cancelRequested
        /\ AgedRow(row).pauseRequested = row.pauseRequested
    BY <1>2 DEF AgedRow, Row
  <1> QED BY <1>4, <1>5 DEF RowOK

-----------------------------------------------------------------------------
(* Initial states and steps                                                *)

LEMMA InitIInv == Init => IInv
  <1> SUFFICES ASSUME Init PROVE IInv
    OBVIOUS
  <1>1. \A j \in Job : RowOK(job[j]) /\ job[j].status = "ABSENT"
    BY AbsentRowOK DEF Init
  <1>2. TypeOK
    <2>1. job \in [Job -> Row]
      BY <1>1 DEF Init, RowOK
    <2>2. NoLease \in Lease
      BY QueueAssumption, TimeFacts DEF NoLease, Lease
    <2> QED BY <2>1, <2>2 DEF TypeOK, Init
  <1>3. LeaseBacksExecution
    BY <1>1 DEF Init, LeaseBacksExecution, Executing, ExecutingStatus
  <1>4. CommandsOK
    BY DEF Init, CommandsOK
  <1> QED BY <1>1, <1>2, <1>3, <1>4 DEF IInv

\* The two tables still agree if no execution started, ended or changed hands.
LEMMA SameExecutions ==
  ASSUME LeaseBacksExecution, lease' = lease,
         \A j \in Job :
           /\ job'[j].status \in ExecutingStatus <=> job[j].status \in ExecutingStatus
           /\ job[j].status \in ExecutingStatus =>
                /\ job'[j].worker = job[j].worker /\ job'[j].token = job[j].token
                /\ job'[j].expires = job[j].expires
  PROVE  LeaseBacksExecution'
  <1>1. \A l \in Lane : Executing(l)' = Executing(l)
    BY DEF Executing
  <1> QED BY <1>1 DEF LeaseBacksExecution, Executing

\* A step that replaces one row, which neither was nor becomes an execution (or stays
\* the same execution), and nothing else but the commands.
LEMMA OneRowStep ==
  ASSUME IInv, NEW j \in Job, NEW row, RowOK(row),
         job' = [job EXCEPT ![j] = row],
         row.status \in ExecutingStatus <=> job[j].status \in ExecutingStatus,
         job[j].status \in ExecutingStatus =>
           row.worker = job[j].worker /\ row.token = job[j].token /\ row.expires = job[j].expires,
         commands' \subseteq commands, UNCHANGED <<lease, fences, writer, resolvePaused>>
  PROVE  IInv'
  <1>1. job \in [Job -> Row] /\ row \in Row
    BY DEF IInv, TypeOK, RowOK
  <1>2. \A i \in Job : job'[i] = IF i = j THEN row ELSE job[i]
    BY <1>1
  <1>3. TypeOK'
    BY <1>1 DEF IInv, TypeOK
  <1>4. \A i \in Job : RowOK(job[i])'
    BY <1>2 DEF IInv, RowOK
  <1>5. LeaseBacksExecution'
    BY <1>2, SameExecutions DEF IInv
  <1>6. CommandsOK'
    BY DEF IInv, CommandsOK, Accepts
  <1> QED BY <1>3, <1>4, <1>5, <1>6 DEF IInv

\* At most one row executes in a lane: both would be the owner of its lease.
LEMMA OneOwner ==
  ASSUME LeaseBacksExecution, NEW l \in Lane, NEW i \in Executing(l), NEW j \in Executing(l)
  PROVE  i = j
  <1>1. lease[l] = [owner |-> i, worker |-> job[i].worker, token |-> job[i].token,
                    expires |-> job[i].expires]
    BY DEF LeaseBacksExecution
  <1>2. lease[l] = [owner |-> j, worker |-> job[j].worker, token |-> job[j].token,
                    expires |-> job[j].expires]
    BY DEF LeaseBacksExecution
  <1> QED BY <1>1, <1>2

\* A fence that owns an execution is the one its lane's lease names.
LEMMA OwnerFacts ==
  ASSUME IInv, NEW f \in fences, NEW r \in Reading, Owns(f, r)
  PROVE  /\ f.job \in Job /\ f.token \in Token /\ LaneOf[f.job] \in Lane
         /\ Executing(LaneOf[f.job]) = {f.job}
         /\ lease[LaneOf[f.job]].token = f.token
         /\ RowOK(job[f.job])
  <1>1. f \in Fence
    BY DEF IInv, TypeOK
  <1>2. f.job \in Job /\ f.token \in Token /\ LaneOf[f.job] \in Lane
    BY <1>1, QueueAssumption DEF Fence
  <1>3. f.job \in Executing(LaneOf[f.job])
    BY <1>2 DEF Owns, Executing
  <1>4. Executing(LaneOf[f.job]) = {f.job}
    BY <1>2, <1>3, OneOwner DEF IInv
  <1> QED BY <1>2, <1>4 DEF Owns, IInv

LEMMA HeartbeatStep ==
  ASSUME IInv, NEW f \in fences, NEW r \in Reading, Heartbeat(f, r)
  PROVE  IInv'
  <1> DEFINE l == LaneOf[f.job]
             until == r + LeaseDuration
  <1>1. /\ f.job \in Job /\ l \in Lane /\ Executing(l) = {f.job} /\ RowOK(job[f.job])
        /\ until \in Time
    BY OwnerFacts, TimeFacts DEF Heartbeat
  <1>2. job \in [Job -> Row] /\ lease \in [Lane -> Lease]
    BY DEF IInv, TypeOK
  <1>3. /\ job' = [job EXCEPT ![f.job] = [@ EXCEPT !.expires = until]]
        /\ lease' = [lease EXCEPT ![l] = [@ EXCEPT !.expires = until]]
        /\ UNCHANGED <<fences, writer, commands, resolvePaused>>
    BY DEF Heartbeat
  <1> HIDE DEF until, l
  <1>4. /\ job'[f.job] = [job[f.job] EXCEPT !.expires = until]
        /\ \A i \in Job \ {f.job} : job'[i] = job[i]
        /\ lease'[l] = [lease[l] EXCEPT !.expires = until]
        /\ \A k \in Lane \ {l} : lease'[k] = lease[k]
    BY <1>1, <1>2, <1>3
  <1>5. /\ job'[f.job] \in Row /\ lease'[l] \in Lease
        /\ RowOK(job'[f.job])
    BY <1>1, <1>2, <1>4 DEF RowOK, Row, Lease
  <1>6. TypeOK'
    BY <1>1, <1>2, <1>3, <1>5 DEF IInv, TypeOK
  <1>7. \A i \in Job : RowOK(job[i])'
    BY <1>4, <1>5 DEF IInv, RowOK
  <1>8. LeaseBacksExecution'
    <2>1. \A k \in Lane : Executing(k)' = Executing(k)
      BY <1>1, <1>2, <1>4 DEF Executing, Row
    <2>2. ASSUME NEW k \in Lane, k # l
          PROVE  /\ \A j \in Executing(k) :
                      lease'[k] = [owner |-> j, worker |-> job'[j].worker,
                                   token |-> job'[j].token, expires |-> job'[j].expires]
                 /\ lease'[k] # NoLease => lease'[k].owner \in Executing(k)
      BY <1>1, <1>4, <2>2 DEF IInv, LeaseBacksExecution, Executing, l
    <2>3. lease[l] = [owner |-> f.job, worker |-> job[f.job].worker,
                      token |-> job[f.job].token, expires |-> job[f.job].expires]
      BY <1>1 DEF IInv, LeaseBacksExecution
    <2>4. lease'[l] = [owner |-> f.job, worker |-> job'[f.job].worker,
                       token |-> job'[f.job].token, expires |-> job'[f.job].expires]
      BY <1>1, <1>2, <1>4, <2>3 DEF Row
    <2> QED BY <1>1, <2>1, <2>2, <2>4 DEF LeaseBacksExecution
  <1>9. CommandsOK'
    BY <1>3 DEF IInv, CommandsOK, Accepts
  <1> QED BY <1>6, <1>7, <1>8, <1>9 DEF IInv

\* Whatever the outcome, ending an execution clears both of its rows.
LEMMA SettleStep ==
  ASSUME IInv, NEW f \in fences, NEW r \in Reading, NEW from, NEW row, NEW withWrite \in BOOLEAN,
         Settle(f, r, from, row, withWrite), RowOK(row), row.status \notin ExecutingStatus
  PROVE  IInv'
  <1> DEFINE l == LaneOf[f.job]
  <1>1. f.job \in Job /\ l \in Lane /\ Executing(l) = {f.job} /\ f.token \in Token
    BY OwnerFacts DEF Settle
  <1>2. /\ job \in [Job -> Row] /\ lease \in [Lane -> Lease] /\ row \in Row
        /\ NoLease \in Lease
    BY QueueAssumption, TimeFacts DEF IInv, TypeOK, RowOK, NoLease, Lease
  <1>3. /\ \A i \in Job : job'[i] = IF i = f.job THEN row ELSE job[i]
        /\ \A k \in Lane : lease'[k] = IF k = l THEN NoLease ELSE lease[k]
        /\ job' \in [Job -> Row] /\ lease' \in [Lane -> Lease]
        /\ UNCHANGED <<fences, commands, resolvePaused>>
    BY <1>1, <1>2 DEF Settle
  <1>4. writer' \in [Lane -> Token \union {NoToken}]
    BY <1>1 DEF Settle, IInv, TypeOK
  <1>5. TypeOK'
    BY <1>3, <1>4 DEF IInv, TypeOK
  <1>6. \A i \in Job : RowOK(job[i])'
    BY <1>3 DEF IInv, RowOK
  <1>7. LeaseBacksExecution'
    <2>1. Executing(l)' = {}
      BY <1>1, <1>3 DEF Executing
    <2>2. ASSUME NEW k \in Lane, k # l
          PROVE  Executing(k)' = Executing(k) /\ \A j \in Executing(k) : job'[j] = job[j]
      BY <1>3, <2>2 DEF Executing
    <2>3. ASSUME NEW k \in Lane
          PROVE  /\ \A j \in Executing(k)' :
                      lease'[k] = [owner |-> j, worker |-> job'[j].worker,
                                   token |-> job'[j].token, expires |-> job'[j].expires]
                 /\ lease'[k] # NoLease => lease'[k].owner \in Executing(k)'
      <3>1. CASE k = l
        BY <1>3, <2>1, <3>1
      <3>2. CASE k # l
        <4>1. /\ \A j \in Executing(k) :
                   lease[k] = [owner |-> j, worker |-> job[j].worker,
                               token |-> job[j].token, expires |-> job[j].expires]
              /\ lease[k] # NoLease => lease[k].owner \in Executing(k)
          BY DEF IInv, LeaseBacksExecution
        <4>2. Executing(k)' = Executing(k) /\ \A j \in Executing(k) : job'[j] = job[j]
          BY <2>2, <3>2
        <4>3. lease'[k] = lease[k]
          BY <1>3, <3>2
        <4> QED BY <4>1, <4>2, <4>3
      <3> QED BY <3>1, <3>2
    <2> QED BY <2>3 DEF LeaseBacksExecution
  <1>8. CommandsOK'
    BY <1>3 DEF IInv, CommandsOK, Accepts
  <1> QED BY <1>5, <1>6, <1>7, <1>8 DEF IInv

\* What recovery and the sweep do to executions: those of the claimed lane that are
\* abandoned are gone, together with the lane's lease, and all others are untouched.
LEMMA SweptExecutions ==
  ASSUME IInv, NEW l \in Lane, NEW r \in Reading
  PROVE  /\ \A j \in Job : RowOK(Swept(l, r)[j])
         /\ \A k \in Lane \ {l} :
              /\ {j \in Job : LaneOf[j] = k /\ Swept(l, r)[j].status \in ExecutingStatus} = Executing(k)
              /\ \A j \in Executing(k) : Swept(l, r)[j] = job[j]
              /\ RecoveredLease(l, r)[k] = lease[k]
         /\ {j \in Job : LaneOf[j] = l /\ Swept(l, r)[j].status \in ExecutingStatus}
              = Executing(l) \ Abandoned(l, r)
         /\ \A j \in Executing(l) \ Abandoned(l, r) : Swept(l, r)[j] = job[j]
         /\ RecoveredLease(l, r) \in [Lane -> Lease]
         /\ Executing(l) \ Abandoned(l, r) = {} => RecoveredLease(l, r)[l] = NoLease
              \/ (Executing(l) = {} /\ RecoveredLease(l, r) = lease)
         /\ Executing(l) \ Abandoned(l, r) # {} =>
              Abandoned(l, r) = {} /\ RecoveredLease(l, r) = lease
  <1>1. \A j \in Job : RowOK(job[j])
    BY DEF IInv
  <1>2. \A j \in Job :
          /\ RowOK(Swept(l, r)[j])
          /\ j \in Abandoned(l, r) => Swept(l, r)[j].status \notin ExecutingStatus
          /\ j \notin Abandoned(l, r) /\ job[j].status \in ExecutingStatus =>
               Swept(l, r)[j] = job[j]
          /\ job[j].status \notin ExecutingStatus => Swept(l, r)[j].status \notin ExecutingStatus
    BY <1>1, SweptOK
  <1>3. lease \in [Lane -> Lease] /\ NoLease \in Lease
    BY QueueAssumption, TimeFacts DEF IInv, TypeOK, NoLease, Lease
  <1>4. /\ RecoveredLease(l, r) \in [Lane -> Lease]
        /\ \A k \in Lane \ {l} : RecoveredLease(l, r)[k] = lease[k]
        /\ Abandoned(l, r) # {} => RecoveredLease(l, r)[l] = NoLease
    BY <1>3 DEF RecoveredLease
  <1>5. ASSUME NEW k \in Lane \ {l}
        PROVE  /\ {j \in Job : LaneOf[j] = k /\ Swept(l, r)[j].status \in ExecutingStatus} = Executing(k)
               /\ \A j \in Executing(k) : Swept(l, r)[j] = job[j]
    BY <1>2 DEF Abandoned, Executing
  <1>6. /\ {j \in Job : LaneOf[j] = l /\ Swept(l, r)[j].status \in ExecutingStatus}
             = Executing(l) \ Abandoned(l, r)
        /\ \A j \in Executing(l) \ Abandoned(l, r) : Swept(l, r)[j] = job[j]
    BY <1>2 DEF Abandoned, Executing
  <1>7. ASSUME Executing(l) \ Abandoned(l, r) # {}
        PROVE  Abandoned(l, r) = {} /\ RecoveredLease(l, r) = lease
    <2>1. PICK i \in Executing(l) : i \notin Abandoned(l, r)
      BY <1>7
    <2>2. \A j \in Executing(l) : j = i
      BY OneOwner DEF IInv
    <2>3. Abandoned(l, r) = {}
      BY <2>1, <2>2 DEF Abandoned
    <2> QED BY <2>1, <2>3 DEF RecoveredLease, Orphaned
  <1>8. ASSUME Executing(l) \ Abandoned(l, r) = {}
        PROVE  \/ RecoveredLease(l, r)[l] = NoLease
               \/ Executing(l) = {} /\ RecoveredLease(l, r) = lease
    <2>1. CASE Abandoned(l, r) # {}
      BY <1>4, <2>1
    <2>2. CASE Abandoned(l, r) = {} /\ Orphaned(l, r)
      BY <1>3, <2>2 DEF RecoveredLease
    <2>3. CASE Abandoned(l, r) = {} /\ ~Orphaned(l, r)
      BY <1>8, <2>3 DEF RecoveredLease
    <2> QED BY <2>1, <2>2, <2>3
  <1> QED BY <1>2, <1>4, <1>5, <1>6, <1>7, <1>8

LEMMA ClaimNothingStep ==
  ASSUME IInv, NEW l \in Lane, NEW r \in Reading, ClaimNothing(l, r)
  PROVE  IInv'
  <1>1. /\ job' = Swept(l, r) /\ lease' = RecoveredLease(l, r)
        /\ UNCHANGED <<fences, writer, commands, resolvePaused>>
    BY DEF ClaimNothing
  <1>2. \A j \in Job : RowOK(job[j])'
    BY <1>1, SweptExecutions DEF RowOK
  <1>3. TypeOK'
    <2>1. job' \in [Job -> Row]
      BY <1>1, <1>2 DEF Swept, RowOK
    <2>2. lease' \in [Lane -> Lease]
      BY <1>1, SweptExecutions
    <2> QED BY <1>1, <2>1, <2>2 DEF IInv, TypeOK
  <1>4. ASSUME NEW k \in Lane
        PROVE  /\ \A j \in Executing(k)' :
                    lease'[k] = [owner |-> j, worker |-> job'[j].worker,
                                 token |-> job'[j].token, expires |-> job'[j].expires]
               /\ lease'[k] # NoLease => lease'[k].owner \in Executing(k)'
    <2>1. /\ \A j \in Executing(k) :
               lease[k] = [owner |-> j, worker |-> job[j].worker,
                           token |-> job[j].token, expires |-> job[j].expires]
          /\ lease[k] # NoLease => lease[k].owner \in Executing(k)
      BY DEF IInv, LeaseBacksExecution
    <2>2. Executing(k)' = {j \in Job : LaneOf[j] = k /\ Swept(l, r)[j].status \in ExecutingStatus}
      BY <1>1 DEF Executing
    <2>3. CASE k # l
      <3>1. /\ Executing(k)' = Executing(k) /\ lease'[k] = lease[k]
            /\ \A j \in Executing(k) : job'[j] = job[j]
        BY <1>1, <2>2, <2>3, SweptExecutions
      <3> QED BY <2>1, <3>1
    <2>4. CASE k = l /\ Executing(l) \ Abandoned(l, r) # {}
      <3>1. /\ Executing(k)' = Executing(k) /\ lease'[k] = lease[k]
            /\ \A j \in Executing(k) : job'[j] = job[j]
        BY <1>1, <2>2, <2>4, SweptExecutions
      <3> QED BY <2>1, <3>1
    <2>5. CASE k = l /\ Executing(l) \ Abandoned(l, r) = {}
      <3>1. Executing(k)' = {}
        BY <2>2, <2>5, SweptExecutions
      <3>2. lease'[k] = NoLease
        BY <1>1, <2>1, <2>5, SweptExecutions
      <3> QED BY <3>1, <3>2
    <2> QED BY <2>3, <2>4, <2>5
  <1>5. LeaseBacksExecution'
    BY <1>4 DEF LeaseBacksExecution
  <1>6. CommandsOK'
    BY <1>1 DEF IInv, CommandsOK, Accepts
  <1> QED BY <1>2, <1>3, <1>5, <1>6 DEF IInv

LEMMA ClaimJobStep ==
  ASSUME IInv, NEW w \in Worker, NEW l \in Lane, NEW r \in Reading, NEW windowOpen \in BOOLEAN,
         ClaimJob(w, l, r, windowOpen)
  PROVE  IInv'
  <1>1. PICK j \in Job, t \in Token \ TokensInUse :
          /\ LaneOf[j] = l
          /\ Eligible(Swept(l, r)[j], r, windowOpen)
          /\ LET row == Started(Swept(l, r)[j], w, t, r)
             IN /\ job' = [Swept(l, r) EXCEPT ![j] = row]
                /\ lease' = [lease EXCEPT ![l] = [owner |-> j, worker |-> w, token |-> t,
                                                  expires |-> row.expires]]
                /\ fences' = fences \union {[job |-> j, worker |-> w, token |-> t,
                                             attempt |-> row.attempt]}
    BY DEF ClaimJob
  <1> DEFINE row == Started(Swept(l, r)[j], w, t, r)
  <1>2. /\ RowOK(row) /\ row \in Row /\ row.attempt \in 1..AttemptCap /\ row.status = "RUNNING"
        /\ row.worker = w /\ row.token = t /\ row.expires \in Time
    BY <1>1, SweptExecutions, StartedOK DEF RowOK
  <1> HIDE DEF row
  <1>3. /\ UNCHANGED <<writer, commands, resolvePaused>>
        /\ Executing(l) \ Abandoned(l, r) = {}
    BY DEF ClaimJob, LaneIsFree
  <1>4. lease \in [Lane -> Lease]
        /\ [owner |-> j, worker |-> w, token |-> t, expires |-> row.expires] \in Lease
    BY <1>2 DEF IInv, TypeOK, Lease
  <1>5. /\ job' = [Swept(l, r) EXCEPT ![j] = row]
        /\ \A i \in Job : job'[i] = IF i = j THEN row ELSE Swept(l, r)[i]
    BY <1>1 DEF row, Swept
  <1>6. \A i \in Job : RowOK(job[i])'
    BY <1>2, <1>5, SweptExecutions DEF RowOK
  <1>7. TypeOK'
    <2>1. job' \in [Job -> Row]
      BY <1>5, <1>6 DEF Swept, RowOK
    <2>2. lease' \in [Lane -> Lease]
      BY <1>1, <1>4 DEF row
    <2>3. fences' \subseteq Fence
      BY <1>1, <1>2 DEF IInv, TypeOK, Fence, row
    <2> QED BY <1>3, <2>1, <2>2, <2>3 DEF IInv, TypeOK
  <1>8. ASSUME NEW k \in Lane
        PROVE  /\ \A i \in Executing(k)' :
                    lease'[k] = [owner |-> i, worker |-> job'[i].worker,
                                 token |-> job'[i].token, expires |-> job'[i].expires]
               /\ lease'[k] # NoLease => lease'[k].owner \in Executing(k)'
    <2>1. CASE k = l
      <3>1. {i \in Job : LaneOf[i] = l /\ Swept(l, r)[i].status \in ExecutingStatus} = {}
        BY <1>3, SweptExecutions
      <3>2. Executing(l)' = {j}
        BY <1>1, <1>2, <1>5, <3>1 DEF Executing, ExecutingStatus
      <3>3. lease'[l] = [owner |-> j, worker |-> row.worker, token |-> row.token,
                         expires |-> row.expires]
        BY <1>1, <1>2, <1>4 DEF row
      <3> QED BY <1>5, <2>1, <3>2, <3>3
    <2>2. CASE k # l
      <3>1. /\ \A i \in Executing(k) :
                 lease[k] = [owner |-> i, worker |-> job[i].worker,
                             token |-> job[i].token, expires |-> job[i].expires]
            /\ lease[k] # NoLease => lease[k].owner \in Executing(k)
        BY DEF IInv, LeaseBacksExecution
      <3>2. /\ {i \in Job : LaneOf[i] = k /\ Swept(l, r)[i].status \in ExecutingStatus}
                 = Executing(k)
            /\ \A i \in Executing(k) : Swept(l, r)[i] = job[i]
        BY <2>2, SweptExecutions
      <3>3. Executing(k)' = Executing(k) /\ \A i \in Executing(k) : job'[i] = job[i]
        BY <1>1, <1>5, <2>2, <3>2 DEF Executing
      <3>4. lease'[k] = lease[k]
        BY <1>1, <1>4, <2>2
      <3> QED BY <3>1, <3>3, <3>4
    <2> QED BY <2>1, <2>2
  <1>9. LeaseBacksExecution'
    BY <1>8 DEF LeaseBacksExecution
  <1>10. CommandsOK'
    BY <1>3 DEF IInv, CommandsOK, Accepts
  <1> QED BY <1>6, <1>7, <1>9, <1>10 DEF IInv

LEMMA TickStep ==
  ASSUME IInv, Tick
  PROVE  IInv'
  <1>1. /\ \A j \in Job : job'[j] = AgedRow(job[j])
        /\ \A l \in Lane : lease'[l] = [lease[l] EXCEPT !.expires = Aged(@)]
        /\ UNCHANGED <<fences, writer, commands, resolvePaused>>
    BY DEF Tick
  <1>2. \A j \in Job :
          /\ RowOK(job'[j])
          /\ job'[j].status = job[j].status /\ job'[j].worker = job[j].worker
          /\ job'[j].token = job[j].token /\ job'[j].expires = Aged(job[j].expires)
    <2> SUFFICES ASSUME NEW j \in Job
                 PROVE  /\ RowOK(job'[j])
                        /\ job'[j].status = job[j].status /\ job'[j].worker = job[j].worker
                        /\ job'[j].token = job[j].token
                        /\ job'[j].expires = Aged(job[j].expires)
      OBVIOUS
    <2>1. RowOK(job[j]) /\ job'[j] = AgedRow(job[j])
      BY <1>1 DEF IInv
    <2> QED BY <2>1, AgedRowOK
  <1>3. lease \in [Lane -> Lease] /\ \A t \in Time : Aged(t) \in Time
    BY TimeFacts DEF IInv, TypeOK, Aged, Time
  <1>4. ASSUME NEW l \in Lane PROVE lease'[l] \in Lease
    <2>1. lease[l] \in Lease /\ lease'[l] = [lease[l] EXCEPT !.expires = Aged(@)]
      BY <1>1, <1>3
    <2>2. Aged(lease[l].expires) \in Time
      BY <1>3, <2>1 DEF Lease
    <2> QED BY <2>1, <2>2 DEF Lease
  <1>5. TypeOK'
    <2>1. job' \in [Job -> Row]
      BY <1>1, <1>2 DEF Tick, RowOK
    <2>2. lease' \in [Lane -> Lease]
      BY <1>4 DEF Tick
    <2> QED BY <1>1, <2>1, <2>2 DEF IInv, TypeOK
  <1>6. LeaseBacksExecution'
    <2> SUFFICES ASSUME NEW l \in Lane
                 PROVE  /\ \A j \in Executing(l)' :
                             lease'[l] = [owner |-> j, worker |-> job'[j].worker,
                                          token |-> job'[j].token, expires |-> job'[j].expires]
                        /\ lease'[l] # NoLease => lease'[l].owner \in Executing(l)'
      BY DEF LeaseBacksExecution
    <2>1. /\ \A j \in Executing(l) :
               lease[l] = [owner |-> j, worker |-> job[j].worker,
                           token |-> job[j].token, expires |-> job[j].expires]
          /\ lease[l] # NoLease => lease[l].owner \in Executing(l)
      BY DEF IInv, LeaseBacksExecution
    <2>2. Executing(l)' = Executing(l)
      BY <1>2 DEF Executing
    <2>3. lease'[l] = [lease[l] EXCEPT !.expires = Aged(@)] /\ lease[l] \in Lease
      BY <1>1, <1>3
    <2>4. CASE lease[l] = NoLease
      <3>1. lease'[l] = NoLease
        <4>1. Aged(Elapsed) = Elapsed
          BY TimeFacts DEF Aged
        <4> QED BY <2>3, <2>4, <4>1 DEF NoLease
      <3>2. Executing(l) = {}
        <4>1. ASSUME NEW j \in Executing(l) PROVE FALSE
          <5>1. lease[l] = [owner |-> j, worker |-> job[j].worker,
                            token |-> job[j].token, expires |-> job[j].expires]
            BY <2>1
          <5>2. lease[l].owner = j
            BY <5>1
          <5> QED BY <2>4, <5>2, QueueAssumption DEF NoLease, Executing
        <4> QED BY <4>1
      <3> QED BY <2>2, <3>1, <3>2
    <2>5. CASE lease[l] # NoLease
      <3>1. \A j \in Executing(l) :
              lease'[l] = [owner |-> j, worker |-> job[j].worker,
                           token |-> job[j].token, expires |-> Aged(job[j].expires)]
        <4> SUFFICES ASSUME NEW j \in Executing(l)
                     PROVE  lease'[l] = [owner |-> j, worker |-> job[j].worker,
                                         token |-> job[j].token,
                                         expires |-> Aged(job[j].expires)]
          OBVIOUS
        <4>1. lease[l] = [owner |-> j, worker |-> job[j].worker,
                          token |-> job[j].token, expires |-> job[j].expires]
          BY <2>1
        <4>2. lease[l].expires = job[j].expires
          BY <4>1
        <4>3. lease'[l] = [lease[l] EXCEPT !.expires = Aged(job[j].expires)]
          BY <2>3, <4>2
        <4>4. [lease[l] EXCEPT !.expires = Aged(job[j].expires)] =
                [owner |-> j, worker |-> job[j].worker, token |-> job[j].token,
                 expires |-> Aged(job[j].expires)]
          BY <4>1
        <4> QED BY <4>3, <4>4
      <3>2. lease'[l].owner = lease[l].owner
        BY <2>3 DEF Lease
      <3>3. \A j \in Executing(l) : j \in Job
        BY DEF Executing
      <3> QED BY <1>2, <2>1, <2>2, <2>5, <3>1, <3>2, <3>3
    <2> QED BY <2>4, <2>5
  <1>7. \A j \in Job : RowOK(job[j])'
    BY <1>2 DEF RowOK
  <1>8. CommandsOK'
    BY <1>1 DEF IInv, CommandsOK, Accepts
  <1> QED BY <1>5, <1>6, <1>7, <1>8 DEF IInv

\* A submitted job: an absent row becomes a waiting one.
LEMMA NewRowStep ==
  ASSUME IInv, NEW j \in Job, job[j].status = "ABSENT",
         NEW source \in Source, NEW at \in Time, NEW deadline \in SUBSET Time,
         NEW budget \in 0..AttemptCap,
         job' = [job EXCEPT ![j] = PendingRow(source, at, deadline, budget)],
         UNCHANGED <<lease, fences, writer, commands, resolvePaused>>
  PROVE  IInv'
  <1> DEFINE row == PendingRow(source, at, deadline, budget)
  <1>1. RowOK(row)
    BY PendingRowOK
  <1>2. row.status = "PENDING"
    BY DEF PendingRow
  <1>3. /\ row.status \notin ExecutingStatus /\ job[j].status \notin ExecutingStatus
    BY <1>2 DEF ExecutingStatus
  <1> HIDE DEF row
  <1>4. job' = [job EXCEPT ![j] = row]
    BY DEF row
  <1> QED BY <1>1, <1>3, <1>4, OneRowStep

LEMMA RequestFacts ==
  ASSUME NEW q \in Requests, NEW r \in Reading
  PROVE  /\ q.source \in Source /\ r + q.delay \in Time /\ q.budget \in 0..AttemptCap
         /\ {r + d : d \in q.deadline} \in SUBSET Time
  <1>1. q \in Request
    BY QueueAssumption
  <1>2. /\ q.source \in Source /\ q.delay \in 0..MaxDelay /\ q.deadline \subseteq 0..MaxDelay
        /\ q.budget \in 1..AttemptCap
    BY <1>1 DEF Request, Source
  <1>3. \A d \in 0..MaxDelay : r + d \in Time
    BY TimeFacts
  <1> QED BY <1>2, <1>3, QueueAssumption

LEMMA ExecutionStep ==
  ASSUME IInv, NEW f \in fences, Execution(f)
  PROVE  IInv'
  <1>1. ASSUME NEW r \in Reading, Heartbeat(f, r) PROVE IInv'
    BY <1>1, HeartbeatStep
  <1>2. ASSUME NEW r \in Reading, Mutate(f, r) PROVE IInv'
    <2>1. /\ UNCHANGED <<job, lease, fences, commands, resolvePaused>>
          /\ writer' = [writer EXCEPT ![LaneOf[f.job]] = f.token] /\ f.token \in Token
      BY <1>2, OwnerFacts DEF Mutate
    <2>2. TypeOK'
      BY <2>1 DEF IInv, TypeOK
    <2>3. LeaseBacksExecution' /\ CommandsOK' /\ \A j \in Job : RowOK(job[j])'
      BY <2>1 DEF IInv, LeaseBacksExecution, Executing, CommandsOK, Accepts, RowOK
    <2> QED BY <2>2, <2>3 DEF IInv
  <1>3. ASSUME NEW r \in Reading, NEW j \in Job, NEW q \in Requests, EnqueueChild(f, r, j, q)
        PROVE  IInv'
    <2>1. /\ r + q.delay \in Time /\ q.budget \in 0..AttemptCap /\ "SYSTEM" \in Source
          /\ {r + d : d \in q.deadline} \in SUBSET Time
      BY RequestFacts DEF Source
    <2> QED BY <1>3, <2>1, NewRowStep DEF EnqueueChild
  <1>4. ASSUME NEW r \in Reading, NEW outcome \in {"COMPLETED", "FAILED", "SKIPPED"},
               NEW withWrite \in BOOLEAN, Conclude(f, r, outcome, withWrite)
        PROVE  IInv'
    <2>1. RowOK(job[f.job]) /\ job[f.job].status = "RUNNING"
      BY <1>4, OwnerFacts DEF Conclude, Settle
    <2>2. /\ RowOK(Detached(job[f.job], outcome))
          /\ Detached(job[f.job], outcome).status \notin ExecutingStatus
      <3>1. ~job[f.job].cancelRequested
        BY <2>1 DEF RowOK
      <3>2. outcome \in Status \ ExecutingStatus /\ outcome \notin ClaimableStatus
        BY DEF Status, ExecutingStatus, TerminalStatus, ClaimableStatus
      <3>3. outcome # "RETRY_WAIT"
        OBVIOUS
      <3> QED BY <2>1, <3>1, <3>2, <3>3, DetachedRowOK
    <2> QED BY <1>4, <2>2, SettleStep DEF Conclude
  <1>5. ASSUME NEW r \in Reading, NEW delay \in 0..MaxDelay, NEW withWrite \in BOOLEAN,
               Retry(f, r, delay, withWrite)
        PROVE  IInv'
    <2> DEFINE row == [Detached(job[f.job], "RETRY_WAIT") EXCEPT !.availableAt = r + delay]
    <2>1. RowOK(job[f.job]) /\ job[f.job].status = "RUNNING"
      BY <1>5, OwnerFacts DEF Retry, Settle
    <2>2. job[f.job].attempt < job[f.job].maxAttempts /\ r + delay \in Time
      BY <1>5, TimeFacts DEF Retry
    <2>3. RowOK(row)
      BY <2>1, <2>2, RetryRowOK
    <2>4. row.status = "RETRY_WAIT"
      BY <2>1, DetachedType DEF RowOK, Row, Status, IdleStatus
    <2> QED BY <1>5, <2>3, <2>4, SettleStep DEF Retry, ExecutingStatus
  <1>6. ASSUME NEW r \in Reading, NEW delay \in 0..MaxDelay, Yield(f, r, delay)
        PROVE  IInv'
    <2> DEFINE row == [Detached(job[f.job], "RETRY_WAIT") EXCEPT !.availableAt = r + delay,
                                                                 !.attempt = @ - 1]
    <2>1. RowOK(job[f.job]) /\ job[f.job].status = "RUNNING"
      BY <1>6, OwnerFacts DEF Yield, Settle
    <2>2. job[f.job].attempt > 0 /\ r + delay \in Time
      BY <1>6, TimeFacts DEF Yield
    <2>3. RowOK(row)
      BY <2>1, <2>2, YieldRowOK
    <2>4. row.status = "RETRY_WAIT"
      BY <2>1, DetachedType DEF RowOK, Row, Status, IdleStatus
    <2> QED BY <1>6, <2>3, <2>4, SettleStep DEF Yield, ExecutingStatus
  <1>7. ASSUME NEW r \in Reading, NEW withWrite \in BOOLEAN, Cancel(f, r, withWrite)
        PROVE  IInv'
    <2> DEFINE row == [Detached(job[f.job], "CANCELLED") EXCEPT !.cancelRequested = TRUE]
    <2>1. RowOK(job[f.job])
      BY <1>7, OwnerFacts DEF Cancel, Settle
    <2>2. RowOK(row)
      BY <2>1, CancelRowOK
    <2>3. row.status = "CANCELLED"
      BY <2>1, DetachedType DEF RowOK, Row, Status, TerminalStatus
    <2> QED BY <1>7, <2>2, <2>3, SettleStep DEF Cancel, ExecutingStatus
  <1>8. ASSUME NEW r \in Reading, NEW withWrite \in BOOLEAN, Pause(f, r, withWrite)
        PROVE  IInv'
    <2> DEFINE mark == job[f.job].pauseRequested \/ job[f.job].status = "PAUSING"
               row == [Detached(job[f.job], "PAUSED") EXCEPT !.pauseRequested = mark]
    <2>1. RowOK(job[f.job]) /\ job[f.job].status \in {"RUNNING", "PAUSING"}
      BY <1>8, OwnerFacts DEF Pause, Settle
    <2>2. mark \in BOOLEAN
      BY <2>1 DEF RowOK, Row
    <2>3. /\ RowOK(row) /\ Detached(job[f.job], "PAUSED").pauseRequested = job[f.job].pauseRequested
          /\ Detached(job[f.job], "PAUSED") \in Row
          /\ Detached(job[f.job], "PAUSED").status = "PAUSED"
      BY <2>1, <2>2, PauseRowOK, DetachedType DEF RowOK, Status, IdleStatus
    <2>4. row.status = "PAUSED"
      BY <2>3 DEF Row
    <2>5. row = [Detached(job[f.job], "PAUSED") EXCEPT
                   !.pauseRequested = @ \/ job[f.job].status = "PAUSING"]
      BY <2>3
    <2> HIDE DEF row
    <2>6. Settle(f, r, IF withWrite THEN {"RUNNING", "PAUSING"} ELSE {"PAUSING"}, row, withWrite)
      BY <1>8, <2>5 DEF Pause
    <2>7. RowOK(row) /\ row.status \notin ExecutingStatus
      BY <2>3, <2>4 DEF ExecutingStatus
    <2> QED BY <2>6, <2>7, SettleStep
  <1>9. ASSUME NEW r \in Reading, NEW withWrite \in BOOLEAN, Release(f, r, withWrite)
        PROVE  IInv'
    <2> DEFINE row == [Detached(job[f.job], "PENDING") EXCEPT
                         !.availableAt = r, !.maxAttempts = Larger(@, job[f.job].attempt + 1)]
    <2>1. RowOK(job[f.job]) /\ job[f.job].status = "RUNNING" /\ job[f.job].attempt < AttemptCap
      BY <1>9, OwnerFacts DEF Release, Settle
    <2>2. r \in Time
      BY TimeFacts
    <2>3. RowOK(row)
      BY <2>1, <2>2, ReleaseRowOK
    <2>4. row.status = "PENDING"
      BY <2>1, DetachedType DEF RowOK, Row, Status, IdleStatus
    <2> QED BY <1>9, <2>3, <2>4, SettleStep DEF Release, ExecutingStatus
  <1>10. ASSUME Forget(f) PROVE IInv'
    <2>1. TypeOK'
      BY <1>10 DEF Forget, IInv, TypeOK
    <2>2. LeaseBacksExecution' /\ CommandsOK' /\ \A j \in Job : RowOK(job[j])'
      BY <1>10 DEF Forget, IInv, LeaseBacksExecution, Executing, CommandsOK, Accepts, RowOK
    <2> QED BY <2>1, <2>2 DEF IInv
  <1> QED
    BY <1>1, <1>2, <1>3, <1>4, <1>5, <1>6, <1>7, <1>8, <1>9, <1>10 DEF Execution

LEMMA AppStep ==
  ASSUME IInv, App
  PROVE  IInv'
  <1>1. ASSUME NEW j \in Job, NEW q \in Requests, NEW r \in Reading, Enqueue(j, q, r)
        PROVE  IInv'
    BY <1>1, RequestFacts, NewRowStep DEF Enqueue
  <1>2. ASSUME NEW old \in Job, NEW j \in Job, NEW r \in Reading, RetryAsNewJob(old, j, r)
        PROVE  IInv'
    <2>1. job[old].maxAttempts \in 0..AttemptCap
      BY DEF IInv, TypeOK, Row
    <2>2. r \in Time /\ "RETRY" \in Source
      BY TimeFacts DEF Source
    <2> QED BY <1>2, <2>1, <2>2, NewRowStep DEF RetryAsNewJob
  <1>3. ASSUME NEW kind \in {"cancel", "pause", "resume"}, NEW j \in Job, ReadForCommand(kind, j)
        PROVE  IInv'
    <2> DEFINE c == [kind |-> kind, job |-> j, seen |-> job[j].status]
    <2>1. c \in Command
      BY DEF IInv, TypeOK, Row, Command
    <2>2. TypeOK'
      BY <1>3, <2>1 DEF ReadForCommand, IInv, TypeOK
    <2>3. CommandsOK'
      <3>1. commands' = commands \union {c} /\ c.seen \in Accepts(c.kind)
        BY <1>3 DEF ReadForCommand
      <3> HIDE DEF c
      <3> QED BY <3>1 DEF IInv, CommandsOK, Accepts
    <2>4. LeaseBacksExecution' /\ \A i \in Job : RowOK(job[i])'
      BY <1>3 DEF ReadForCommand, IInv, LeaseBacksExecution, Executing, RowOK
    <2> QED BY <2>2, <2>3, <2>4 DEF IInv
  <1>4. ASSUME NEW c \in commands, NEW r \in Reading, ApplyCommand(c, r)
        PROVE  IInv'
    <2>1. /\ c.job \in Job /\ c.kind \in {"cancel", "pause", "resume"}
          /\ c.seen \in Accepts(c.kind)
      BY DEF IInv, TypeOK, Command, CommandsOK
    <2>2. /\ UNCHANGED <<lease, fences, writer, resolvePaused>> /\ commands' \subseteq commands
          /\ job \in [Job -> Row] /\ RowOK(job[c.job])
      BY <1>4, <2>1 DEF ApplyCommand, IInv, TypeOK
    <2>3. CASE ~Unchanged(c)
      <3>1. job' = job
        BY <1>4, <2>3 DEF ApplyCommand
      <3>2. TypeOK' /\ CommandsOK'
        BY <2>2, <3>1 DEF IInv, TypeOK, CommandsOK, Accepts
      <3>3. LeaseBacksExecution' /\ \A i \in Job : RowOK(job[i])'
        BY <2>2, <3>1 DEF IInv, LeaseBacksExecution, Executing, RowOK
      <3> QED BY <3>2, <3>3 DEF IInv
    <2>4. CASE Unchanged(c) /\ c.kind = "cancel"
      <3>1. /\ job' = [job EXCEPT ![c.job] = Cancelled(job[c.job], job[c.job].status)]
            /\ job[c.job].status \in Accepts("cancel")
        BY <1>4, <2>1, <2>2, <2>4 DEF ApplyCommand, Unchanged
      <3> QED BY <2>1, <2>2, <3>1, CommandedOK, OneRowStep
    <2>5. CASE Unchanged(c) /\ c.kind = "pause"
      <3>1. /\ job' = [job EXCEPT ![c.job] = Paused(job[c.job], job[c.job].status)]
            /\ job[c.job].status \in Accepts("pause")
        BY <1>4, <2>1, <2>2, <2>5 DEF ApplyCommand, Unchanged
      <3> QED BY <2>1, <2>2, <3>1, CommandedOK, OneRowStep
    <2>6. CASE Unchanged(c) /\ c.kind = "resume"
      <3>1. /\ job' = [job EXCEPT ![c.job] = Resumed(job[c.job], r)]
            /\ job[c.job].status = "PAUSED"
        BY <1>4, <2>1, <2>2, <2>6 DEF ApplyCommand, Unchanged, Accepts
      <3>2. RowOK(Resumed(job[c.job], r)) /\ Resumed(job[c.job], r).status = "PENDING"
        BY <2>2, <3>1, ResumedOK
      <3>3. /\ Resumed(job[c.job], r).status \notin ExecutingStatus
            /\ job[c.job].status \notin ExecutingStatus
        BY <3>1, <3>2 DEF ExecutingStatus
      <3> QED BY <2>1, <2>2, <3>1, <3>2, <3>3, OneRowStep
    <2> QED BY <2>1, <2>3, <2>4, <2>5, <2>6
  <1>5. ASSUME NEW j \in Job, RequestCancellation(j)
        PROVE  IInv'
    <2>1. /\ job' = [job EXCEPT ![j] = Cancelled(job[j], job[j].status)]
          /\ job[j].status \in Accepts("cancel")
          /\ UNCHANGED <<fences, writer, commands, resolvePaused>>
      BY <1>5 DEF RequestCancellation, IInv, TypeOK
    <2>2. ASSUME NEW l \in Lane PROVE lease'[l] = lease[l]
      <3>1. lease'[l] = IF job[j].status \in IdleStatus /\ lease[l].owner = j
                        THEN NoLease ELSE lease[l]
        BY <1>5 DEF RequestCancellation
      <3>2. lease[l] # NoLease => lease[l].owner \in Executing(l)
        BY DEF IInv, LeaseBacksExecution
      <3>3. job[j].status \in IdleStatus => j \notin Executing(l)
        BY DEF IdleStatus, ExecutingStatus, Executing
      <3> QED BY <3>1, <3>2, <3>3
    <2>3. lease' = lease
      BY <1>5, <2>2 DEF RequestCancellation, IInv, TypeOK
    <2>4. RowOK(job[j])
      BY DEF IInv
    <2> QED BY <2>1, <2>3, <2>4, CommandedOK, OneRowStep
  <1>6. ASSUME SetResolvePaused PROVE IInv'
    <2>1. TypeOK' /\ CommandsOK'
      BY <1>6 DEF SetResolvePaused, IInv, TypeOK, CommandsOK, Accepts
    <2>2. LeaseBacksExecution' /\ \A i \in Job : RowOK(job[i])'
      BY <1>6 DEF SetResolvePaused, IInv, LeaseBacksExecution, Executing, RowOK
    <2> QED BY <2>1, <2>2 DEF IInv
  <1> QED BY <1>1, <1>2, <1>3, <1>4, <1>5, <1>6 DEF App

LEMMA NextIInv == IInv /\ [Next]_vars => IInv'
  <1> SUFFICES ASSUME IInv, [Next]_vars PROVE IInv'
    OBVIOUS
  <1>1. ASSUME NEW l \in Lane, Claim(l) PROVE IInv'
    BY <1>1, ClaimNothingStep, ClaimJobStep DEF Claim
  <1>2. ASSUME NEW f \in fences, Execution(f) PROVE IInv'
    BY <1>2, ExecutionStep
  <1>3. CASE App
    BY <1>3, AppStep
  <1>4. CASE Tick
    BY <1>4, TickStep
  <1>5. CASE UNCHANGED vars
    <2>1. TypeOK' /\ CommandsOK'
      BY <1>5 DEF vars, IInv, TypeOK, CommandsOK, Accepts
    <2>2. LeaseBacksExecution' /\ \A i \in Job : RowOK(job[i])'
      BY <1>5 DEF vars, IInv, LeaseBacksExecution, Executing, RowOK
    <2> QED BY <2>1, <2>2 DEF IInv
  <1> QED BY <1>1, <1>2, <1>3, <1>4, <1>5 DEF Next

-----------------------------------------------------------------------------
(* Theorems                                                                *)

\* The invariant holds in every reachable state, whatever the clocks show and
\* however late a process that lost its lease comes back.
THEOREM Invariance == Spec => []IInv
  BY InitIInv, NextIInv, PTL DEF Spec

\* Every column stays in its range; in particular no lease runs further into the
\* future than a heartbeat can put it.
THEOREM TypeCorrectness == Spec => []TypeOK
  <1>1. IInv => TypeOK
    BY DEF IInv
  <1> QED BY <1>1, Invariance, PTL

\* A lane never executes two jobs, with no assumption on how clocks, lease duration
\* and stalls relate: the claim checks and the fences suffice.
THEOREM MutualExclusion == Spec => []OneExecutionPerLane
  <1>1. IInv => OneExecutionPerLane
    BY OneOwner DEF IInv, OneExecutionPerLane
  <1> QED BY <1>1, Invariance, PTL

\* The lease table and the job table agree about every execution, after any
\* interleaving of claims, heartbeats, settlements, recoveries and commands.
THEOREM TablesAgree == Spec => []LeaseBacksExecution
  <1>1. IInv => LeaseBacksExecution
    BY DEF IInv
  <1> QED BY <1>1, Invariance, PTL

\* A job whose cancellation was recorded can only end CANCELLED.
THEOREM CancellationIsFinal == Spec => []CancelIsFinal
  <1>1. IInv => CancelIsFinal
    BY DEF IInv, RowOK, CancelIsFinal
  <1> QED BY <1>1, Invariance, PTL

\* No execution starts with the pause request of an earlier one.
THEOREM NoStalePause == Spec => []RunningHasNoStaleRequest
  <1>1. IInv => RunningHasNoStaleRequest
    BY DEF IInv, RowOK, RunningHasNoStaleRequest, ClaimableStatus
  <1> QED BY <1>1, Invariance, PTL

\* Attempts stay within the budget and a job waiting for its retry can have it.
THEOREM AttemptsBounded == Spec => []AttemptsWithinBudget
  <1>1. IInv => AttemptsWithinBudget
    BY DEF IInv, RowOK, AttemptsWithinBudget
  <1> QED BY <1>1, Invariance, PTL

\* What a finished row looks like after any step.
LEMMA TerminalStep ==
  ASSUME IInv, [Next]_vars, NEW j \in Job, job[j].status \in TerminalStatus
  PROVE  job'[j].status = job[j].status
  <1>1. /\ job[j].status \notin ExecutingStatus /\ job[j].status \notin ClaimableStatus
        /\ job[j].status # "ABSENT" /\ job[j].status \notin IdleStatus
        /\ job \in [Job -> Row]
    BY DEF TerminalStatus, ExecutingStatus, ClaimableStatus, IdleStatus, IInv, TypeOK
  <1>2. ASSUME NEW l \in Lane, NEW r \in Reading PROVE Swept(l, r)[j] = job[j]
    BY <1>1 DEF Swept, Abandoned, Executing, WindowExpired, ClaimableStatus
  <1>3. ASSUME NEW i \in Job, NEW row, job' = [job EXCEPT ![i] = row],
               job[i].status \notin TerminalStatus
        PROVE  job'[j] = job[j]
    BY <1>1, <1>3
  <1>4. ASSUME NEW l \in Lane, Claim(l) PROVE job'[j].status = job[j].status
    <2>1. ASSUME NEW r \in Reading, ClaimNothing(l, r) PROVE job'[j].status = job[j].status
      BY <1>2, <2>1 DEF ClaimNothing
    <2>2. ASSUME NEW r \in Reading, NEW w \in Worker, NEW windowOpen \in BOOLEAN,
                 ClaimJob(w, l, r, windowOpen)
          PROVE  job'[j].status = job[j].status
      <3>1. PICK i, row : /\ i \in Job /\ Eligible(Swept(l, r)[i], r, windowOpen)
                           /\ job' = [Swept(l, r) EXCEPT ![i] = row]
        BY <2>2 DEF ClaimJob
      <3>2. i # j
        BY <1>1, <1>2, <3>1 DEF Eligible, ClaimableStatus
      <3> QED BY <1>2, <3>1, <3>2 DEF Swept
    <2> QED BY <1>4, <2>1, <2>2 DEF Claim
  <1>5. ASSUME NEW f \in fences, Execution(f) PROVE job'[j].status = job[j].status
    <2>1. ASSUME NEW r \in Reading, Owns(f, r)
          PROVE  f.job \in Job /\ job[f.job].status \notin TerminalStatus
      BY <2>1, OwnerFacts DEF Owns, ExecutingStatus, TerminalStatus
    <2>2. ASSUME NEW r \in Reading, NEW from, NEW row, NEW withWrite,
                 Settle(f, r, from, row, withWrite)
          PROVE  job'[j].status = job[j].status
      BY <1>3, <2>1, <2>2 DEF Settle
    <2>3. ASSUME NEW r \in Reading, Heartbeat(f, r) PROVE job'[j].status = job[j].status
      BY <1>1, <2>1, <2>3 DEF Heartbeat
    <2>4. ASSUME NEW r \in Reading, NEW i \in Job, NEW q \in Requests, EnqueueChild(f, r, i, q)
          PROVE  job'[j].status = job[j].status
      BY <1>1, <2>4 DEF EnqueueChild
    <2>5. (\E r \in Reading : Mutate(f, r)) \/ Forget(f) => job'[j].status = job[j].status
      BY DEF Mutate, Forget
    <2> QED
      BY <1>5, <2>2, <2>3, <2>4, <2>5
      DEF Execution, Conclude, Retry, Yield, Cancel, Pause, Release
  <1>6. CASE App
    <2>1. ASSUME NEW i \in Job, NEW q \in Requests, NEW r \in Reading, Enqueue(i, q, r)
          PROVE  job'[j].status = job[j].status
      BY <1>1, <2>1 DEF Enqueue
    <2>2. ASSUME NEW old \in Job, NEW i \in Job, NEW r \in Reading, RetryAsNewJob(old, i, r)
          PROVE  job'[j].status = job[j].status
      BY <1>1, <2>2 DEF RetryAsNewJob
    <2>3. ASSUME NEW c \in commands, NEW r \in Reading, ApplyCommand(c, r)
          PROVE  job'[j].status = job[j].status
      <3>1. c.job \in Job /\ c.seen \in IdleStatus \union {"RUNNING", "PAUSING"}
        BY DEF IInv, TypeOK, CommandsOK, Command, Accepts, IdleStatus
      <3>2. CASE Unchanged(c)
        <4>1. job[c.job].status \notin TerminalStatus
          BY <3>1, <3>2 DEF Unchanged, TerminalStatus, IdleStatus
        <4>2. PICK row : job' = [job EXCEPT ![c.job] = row]
          BY <2>3, <3>2 DEF ApplyCommand
        <4> QED BY <1>3, <3>1, <4>1, <4>2
      <3>3. CASE ~Unchanged(c)
        BY <2>3, <3>3 DEF ApplyCommand
      <3> QED BY <3>2, <3>3
    <2>4. ASSUME NEW i \in Job, RequestCancellation(i)
          PROVE  job'[j].status = job[j].status
      <3>1. job[i].status \notin TerminalStatus
        BY <2>4 DEF RequestCancellation, Accepts, IdleStatus, TerminalStatus
      <3> QED BY <1>3, <2>4, <3>1 DEF RequestCancellation
    <2>5. (\E kind \in {"cancel", "pause", "resume"}, i \in Job : ReadForCommand(kind, i))
            \/ SetResolvePaused => job'[j].status = job[j].status
      BY DEF ReadForCommand, SetResolvePaused
    <2> QED BY <1>6, <2>1, <2>2, <2>3, <2>4, <2>5 DEF App
  <1>7. CASE Tick
    <2>1. RowOK(job[j]) /\ job'[j] = AgedRow(job[j])
      BY <1>7 DEF Tick, IInv
    <2> QED BY <2>1, AgedRowOK
  <1>8. CASE UNCHANGED vars
    BY <1>8 DEF vars
  <1> QED BY <1>4, <1>5, <1>6, <1>7, <1>8 DEF Next

\* The outcome of a job is never revised, by a late fence, a late command or recovery.
THEOREM OutcomesAreFinal == Spec => TerminalIsFinal
  <1>1. IInv /\ [Next]_vars =>
          [\A j \in Job : job[j].status \in TerminalStatus => job'[j].status = job[j].status]_vars
    BY TerminalStep
  <1> QED BY <1>1, Invariance, PTL DEF Spec, TerminalIsFinal

-----------------------------------------------------------------------------
(* Refinement                                                              *)

Holder == [l \in Lane |-> lease[l].token]

LEMMA RefinementInit == Init => Lanes!Init
  <1> SUFFICES ASSUME Init PROVE Lanes!Init
    OBVIOUS
  <1>1. \A l \in Lane : lease[l].token = NoToken
    BY DEF Init, NoLease
  <1> QED BY <1>1 DEF Init, Lanes!Init, Lanes!Vacant

\* Every step of the queue is a step of lane ownership or changes nothing of it.
LEMMA RefinementStep == IInv /\ [Next]_vars => [Lanes!Next]_(Lanes!laneVars)
  <1> SUFFICES ASSUME IInv, [Next]_vars PROVE [Lanes!Next]_(Lanes!laneVars)
    OBVIOUS
  <1>1. /\ lease \in [Lane -> Lease] /\ writer \in [Lane -> Token \union {NoToken}]
        /\ NoLease.token = NoToken /\ NoToken \notin Token
    BY QueueAssumption DEF IInv, TypeOK, NoLease
  <1>2. ASSUME \A l \in Lane : lease'[l].token = lease[l].token, writer' = writer
        PROVE  UNCHANGED Lanes!laneVars
    BY <1>2 DEF Lanes!laneVars
  <1>3. ASSUME NEW l \in Lane, Claim(l) PROVE [Lanes!Next]_(Lanes!laneVars)
    <2>1. ASSUME NEW r \in Reading, ClaimNothing(l, r) PROVE [Lanes!Next]_(Lanes!laneVars)
      <3>1. CASE RecoveredLease(l, r) = lease
        BY <1>2, <2>1, <3>1 DEF ClaimNothing
      <3>2. CASE RecoveredLease(l, r) = [lease EXCEPT ![l] = NoLease]
        <4>1. Lanes!Leave(l)
          BY <1>1, <2>1, <3>2 DEF ClaimNothing, Lanes!Leave
        <4> QED BY <4>1 DEF Lanes!Next
      <3> QED BY <3>1, <3>2 DEF RecoveredLease
    <2>2. ASSUME NEW r \in Reading, NEW w \in Worker, NEW windowOpen \in BOOLEAN,
                 ClaimJob(w, l, r, windowOpen)
          PROVE  [Lanes!Next]_(Lanes!laneVars)
      <3>1. PICK t, j, e :
              /\ t \in Token \ TokensInUse
              /\ lease' = [lease EXCEPT ![l] = [owner |-> j, worker |-> w, token |-> t, expires |-> e]]
        BY <2>2 DEF ClaimJob
      <3>2. \A k \in Lane : t # lease[k].token /\ t # writer[k]
        BY <3>1 DEF TokensInUse
      <3>3. writer' = writer
        BY <2>2 DEF ClaimJob
      <3>4. [k \in Lane |-> lease'[k].token] = [[k \in Lane |-> lease[k].token] EXCEPT ![l] = t]
        BY <1>1, <3>1
      <3>5. Lanes!Acquire(l, t)
        BY <3>2, <3>3, <3>4 DEF Lanes!Acquire
      <3> QED BY <3>1, <3>5 DEF Lanes!Next
    <2> QED BY <1>3, <2>1, <2>2 DEF Claim
  <1>4. ASSUME NEW f \in fences, Execution(f) PROVE [Lanes!Next]_(Lanes!laneVars)
    <2> DEFINE l == LaneOf[f.job]
    <2>1. ASSUME NEW r \in Reading, Owns(f, r)
          PROVE  l \in Lane /\ lease[l].token = f.token /\ f.token # NoToken
      BY <1>1, <2>1, OwnerFacts
    <2>2. ASSUME NEW r \in Reading, NEW from, NEW row, NEW withWrite,
                 Settle(f, r, from, row, withWrite)
          PROVE  [Lanes!Next]_(Lanes!laneVars)
      <3>1. l \in Lane /\ lease[l].token = f.token /\ f.token # NoToken
        BY <2>1, <2>2 DEF Settle
      <3>2. [k \in Lane |-> lease'[k].token]
              = [[k \in Lane |-> lease[k].token] EXCEPT ![l] = NoToken]
        BY <1>1, <2>2, <3>1 DEF Settle
      <3>3. CASE withWrite
        <4>1. Lanes!WriteAndLeave(l)
          BY <2>2, <3>1, <3>2, <3>3 DEF Settle, Lanes!WriteAndLeave
        <4> QED BY <3>1, <4>1 DEF Lanes!Next
      <3>4. CASE ~withWrite
        <4>1. Lanes!Leave(l)
          BY <2>2, <3>2, <3>4 DEF Settle, Lanes!Leave
        <4> QED BY <3>1, <4>1 DEF Lanes!Next
      <3> QED BY <3>3, <3>4
    <2>3. ASSUME NEW r \in Reading, Heartbeat(f, r) PROVE [Lanes!Next]_(Lanes!laneVars)
      <3>1. \A k \in Lane : lease'[k].token = lease[k].token
        BY <1>1, <2>3 DEF Heartbeat, Lease
      <3> QED BY <1>2, <2>3, <3>1 DEF Heartbeat
    <2>4. ASSUME NEW r \in Reading, Mutate(f, r) PROVE [Lanes!Next]_(Lanes!laneVars)
      <3>1. l \in Lane /\ lease[l].token = f.token /\ f.token # NoToken
        BY <2>1, <2>4 DEF Mutate
      <3>2. Lanes!Write(l)
        BY <2>4, <3>1 DEF Mutate, Lanes!Write
      <3> QED BY <3>1, <3>2 DEF Lanes!Next
    <2>5. (\E r \in Reading, j \in Job, q \in Requests : EnqueueChild(f, r, j, q)) \/ Forget(f)
            => UNCHANGED Lanes!laneVars
      BY <1>2 DEF EnqueueChild, Forget
    <2> QED
      BY <1>4, <2>2, <2>3, <2>4, <2>5
      DEF Execution, Conclude, Retry, Yield, Cancel, Pause, Release
  <1>5. CASE App
    <2>1. ASSUME NEW j \in Job, RequestCancellation(j) PROVE UNCHANGED Lanes!laneVars
      <3>1. ASSUME NEW l \in Lane PROVE lease'[l] = lease[l]
        <4>1. lease'[l] = IF job[j].status \in IdleStatus /\ lease[l].owner = j
                          THEN NoLease ELSE lease[l]
          BY <2>1 DEF RequestCancellation
        <4>2. lease[l] # NoLease => lease[l].owner \in Executing(l)
          BY DEF IInv, LeaseBacksExecution
        <4>3. job[j].status \in IdleStatus => j \notin Executing(l)
          BY DEF IdleStatus, ExecutingStatus, Executing
        <4> QED BY <4>1, <4>2, <4>3
      <3> QED BY <1>2, <2>1, <3>1 DEF RequestCancellation
    <2>2. (App /\ ~\E j \in Job : RequestCancellation(j)) => lease' = lease /\ writer' = writer
      BY DEF App, Enqueue, RetryAsNewJob, ReadForCommand, ApplyCommand, SetResolvePaused
    <2> QED BY <1>2, <1>5, <2>1, <2>2
  <1>6. CASE Tick
    <2>1. \A l \in Lane : lease'[l].token = lease[l].token
      BY <1>1, <1>6 DEF Tick, Lease
    <2> QED BY <1>2, <1>6, <2>1 DEF Tick
  <1>7. CASE UNCHANGED vars
    BY <1>2, <1>7 DEF vars
  <1> QED BY <1>3, <1>4, <1>5, <1>6, <1>7 DEF Next

\* The queue implements lane ownership: a fenced write commits only under the token
\* that holds the lane at that moment, and a new holder's token is one under which
\* nothing was written, so writes of a superseded execution never follow.
THEOREM Refinement == Spec => ImplementsLaneOwnership
  <1>1. Spec => Lanes!Init
    BY RefinementInit DEF Spec
  <1>2. Spec => [][Lanes!Next]_(Lanes!laneVars)
    BY RefinementStep, Invariance, PTL DEF Spec
  <1> QED BY <1>1, <1>2 DEF ImplementsLaneOwnership, Lanes!Spec

-----------------------------------------------------------------------------
(* The life cycle                                                          *)

\* The edges of the life cycle, one clause per status.
LEMMA Edges ==
  /\ Lifecycle!Successors("ABSENT") = {"PENDING"}
  /\ \A s \in {"PENDING", "RETRY_WAIT"} :
       Lifecycle!Successors(s) = {"RUNNING", "PAUSED", "CANCELLED", "SKIPPED"}
  /\ Lifecycle!Successors("PAUSED") = {"PENDING", "CANCELLED"}
  /\ Lifecycle!Successors("RUNNING")
       = {"PENDING", "RETRY_WAIT", "RUNNING", "PAUSING", "CANCELLING", "PAUSED",
          "COMPLETED", "FAILED", "SKIPPED", "CANCELLED"}
  /\ Lifecycle!Successors("PAUSING") = {"PAUSED", "CANCELLING", "CANCELLED"}
  /\ Lifecycle!Successors("CANCELLING") = {"CANCELLED"}
  BY DEF Lifecycle!Successors, Lifecycle!Status, Lifecycle!LiveStatus,
         Lifecycle!WaitingStatus, Lifecycle!ExecutingStatus, Lifecycle!TerminalStatus

\* The edges recovery and the sweep take.
LEMMA SweptEdge ==
  ASSUME NEW l \in Lane, NEW r \in Reading, NEW j \in Job, RowOK(job[j])
  PROVE  \/ Swept(l, r)[j].status = job[j].status
         \/ Swept(l, r)[j].status \in Lifecycle!Successors(job[j].status)
  <1> DEFINE row == IF j \in Abandoned(l, r) THEN RecoveredRow(job[j], r) ELSE job[j]
  <1>1. Swept(l, r)[j] = IF WindowExpired(row, r) THEN Detached(row, "SKIPPED") ELSE row
    BY DEF Swept
  <1>2. CASE j \in Abandoned(l, r)
    <2>1. job[j].status \in {"RUNNING", "PAUSING", "CANCELLING"}
      BY <1>2 DEF Abandoned, Executing, ExecutingStatus
    <2>2. /\ row \in Row
          /\ job[j].status = "RUNNING" => row.status \in {"RETRY_WAIT", "FAILED"}
          /\ job[j].status = "PAUSING" => row.status = "PAUSED"
          /\ job[j].status = "CANCELLING" => row.status = "CANCELLED"
      <3> DEFINE outcome == CASE job[j].status = "CANCELLING" -> "CANCELLED"
                              [] job[j].status = "PAUSING" -> "PAUSED"
                              [] job[j].status = "RUNNING" ->
                                   IF job[j].attempt < job[j].maxAttempts THEN "RETRY_WAIT"
                                   ELSE "FAILED"
                 gone == Detached(job[j], outcome)
      <3>1. row = [gone EXCEPT !.availableAt = IF outcome = "RETRY_WAIT" THEN r ELSE @]
        BY <1>2 DEF RecoveredRow
      <3>2. outcome \in {"CANCELLED", "PAUSED", "RETRY_WAIT", "FAILED"}
        BY <2>1
      <3>3. gone \in Row /\ gone.status = outcome
        <4> HIDE DEF outcome
        <4> QED BY <3>2, DetachedType DEF RowOK, Status, IdleStatus, TerminalStatus
      <3>4. row \in Row
        BY <1>2, <2>1, RecoveredRowOK DEF RowOK, ExecutingStatus
      <3>5. row.status = outcome
        <4> HIDE DEF outcome, gone, row
        <4> QED BY <3>1, <3>3 DEF Row
      <3> HIDE DEF row, gone
      <3> QED BY <2>1, <3>4, <3>5
    <2>3. WindowExpired(row, r) =>
            job[j].status = "RUNNING" /\ Detached(row, "SKIPPED").status = "SKIPPED"
      <3> HIDE DEF row
      <3>1. WindowExpired(row, r) => row.status \in {"PENDING", "RETRY_WAIT"}
        BY DEF WindowExpired
      <3>2. Detached(row, "SKIPPED").status = "SKIPPED"
        BY <2>2, DetachedType DEF Status, TerminalStatus
      <3> QED BY <2>1, <2>2, <3>1, <3>2
    <2> HIDE DEF row
    <2> QED BY <1>1, <2>1, <2>2, <2>3, Edges
  <1>3. CASE j \notin Abandoned(l, r)
    <2>1. WindowExpired(job[j], r) => job[j].status \in {"PENDING", "RETRY_WAIT"}
      BY DEF WindowExpired
    <2>2. Detached(job[j], "SKIPPED").status = "SKIPPED"
      BY DetachedType DEF RowOK, Status, TerminalStatus
    <2> QED BY <1>1, <1>3, <2>1, <2>2, Edges
  <1> QED BY <1>2, <1>3

\* A step leaves the status of a job alone or takes it along an edge.
LEMMA LifecycleStep ==
  ASSUME IInv, [Next]_vars, NEW j \in Job
  PROVE  \/ job'[j].status = job[j].status
         \/ job'[j].status \in Lifecycle!Successors(job[j].status)
  <1> DEFINE Edge(s) == s = job[j].status \/ s \in Lifecycle!Successors(job[j].status)
  <1> SUFFICES Edge(job'[j].status)
    OBVIOUS
  <1>1. RowOK(job[j]) /\ job[j] \in Row /\ job \in [Job -> Row]
    BY DEF IInv, RowOK, TypeOK
  <1>2. ASSUME NEW i \in Job, NEW row, job' = [job EXCEPT ![i] = row],
               i = j => Edge(row.status)
        PROVE  Edge(job'[j].status)
    BY <1>1, <1>2
  <1>3. ASSUME NEW l \in Lane, Claim(l) PROVE Edge(job'[j].status)
    <2>1. ASSUME NEW r \in Reading, ClaimNothing(l, r) PROVE Edge(job'[j].status)
      BY <1>1, <2>1, SweptEdge DEF ClaimNothing
    <2>2. ASSUME NEW r \in Reading, NEW w \in Worker, NEW windowOpen \in BOOLEAN,
                 ClaimJob(w, l, r, windowOpen)
          PROVE  Edge(job'[j].status)
      <3>1. PICK i, t : /\ i \in Job /\ Eligible(Swept(l, r)[i], r, windowOpen)
                         /\ job' = [Swept(l, r) EXCEPT ![i] = Started(Swept(l, r)[i], w, t, r)]
        BY <2>2 DEF ClaimJob
      <3>2. CASE i # j
        BY <1>1, <3>1, <3>2, SweptEdge DEF Swept
      <3>3. CASE i = j
        <4>1. Swept(l, r)[j].status \in {"PENDING", "RETRY_WAIT"}
          BY <3>1, <3>3 DEF Eligible
        <4>2. job'[j] = Started(Swept(l, r)[j], w, t, r)
          BY <3>1, <3>3 DEF Swept
        <4>3. Swept(l, r)[j] \in Row
          BY <1>1, SweptOK DEF IInv, RowOK
        <4>4. job'[j].status = "RUNNING"
          BY <4>2, <4>3 DEF Started, Row
        <4>5. job[j].status \in {"PENDING", "RETRY_WAIT", "RUNNING"}
          <5>1. job[j].status \in {"ABSENT", "PENDING", "RETRY_WAIT", "PAUSED", "RUNNING", "PAUSING",
                                   "CANCELLING", "COMPLETED", "FAILED", "SKIPPED", "CANCELLED"}
            BY <1>1 DEF Row, Status, IdleStatus, ExecutingStatus, TerminalStatus
          <5>2. job[j].status \in {"COMPLETED", "FAILED", "SKIPPED", "CANCELLED", "ABSENT", "PAUSED"}
                  => Swept(l, r)[j] = job[j]
            BY DEF Swept, Abandoned, Executing, ExecutingStatus, WindowExpired
          <5>3. \/ Swept(l, r)[j].status = job[j].status
                \/ Swept(l, r)[j].status \in Lifecycle!Successors(job[j].status)
            BY <1>1, SweptEdge
          <5> QED BY <4>1, <5>1, <5>2, <5>3, Edges
        <4> QED BY <4>4, <4>5, Edges
      <3> QED BY <3>2, <3>3
    <2> QED BY <1>3, <2>1, <2>2 DEF Claim
  <1>4. ASSUME NEW f \in fences, Execution(f) PROVE Edge(job'[j].status)
    <2>1. ASSUME NEW r \in Reading, Owns(f, r) PROVE f.job \in Job
      BY <2>1, OwnerFacts
    <2>2. ASSUME NEW r \in Reading, NEW withWrite \in BOOLEAN,
                 \E outcome \in {"COMPLETED", "FAILED", "SKIPPED"} : Conclude(f, r, outcome, withWrite)
          PROVE  Edge(job'[j].status)
      <3>1. PICK outcome \in {"COMPLETED", "FAILED", "SKIPPED"} : Conclude(f, r, outcome, withWrite)
        BY <2>2
      <3>2. f.job \in Job /\ job[f.job].status = "RUNNING"
            /\ job' = [job EXCEPT ![f.job] = Detached(job[f.job], outcome)]
        BY <2>1, <3>1 DEF Conclude, Settle
      <3>3. Detached(job[f.job], outcome).status = outcome
        BY <1>1, <3>2, DetachedType DEF Status, TerminalStatus
      <3> QED BY <1>2, <3>2, <3>3, Edges
    <2>3. ASSUME NEW r \in Reading, NEW withWrite \in BOOLEAN, NEW delay \in 0..MaxDelay,
                 Retry(f, r, delay, withWrite) \/ Yield(f, r, delay)
          PROVE  Edge(job'[j].status)
      <3>1. PICK row : /\ f.job \in Job /\ job[f.job].status = "RUNNING"
                       /\ job' = [job EXCEPT ![f.job] = row]
                       /\ \/ row = [Detached(job[f.job], "RETRY_WAIT") EXCEPT !.availableAt = r + delay]
                          \/ row = [Detached(job[f.job], "RETRY_WAIT") EXCEPT
                                      !.availableAt = r + delay, !.attempt = @ - 1]
        BY <2>1, <2>3 DEF Retry, Yield, Settle
      <3>2. Detached(job[f.job], "RETRY_WAIT").status = "RETRY_WAIT"
            /\ Detached(job[f.job], "RETRY_WAIT") \in Row
        BY <1>1, <3>1, DetachedType DEF Status, IdleStatus
      <3>3. row.status = "RETRY_WAIT"
        BY <3>1, <3>2 DEF Row
      <3> QED BY <1>2, <3>1, <3>3, Edges
    <2>4. ASSUME NEW r \in Reading, NEW withWrite \in BOOLEAN, Cancel(f, r, withWrite)
          PROVE  Edge(job'[j].status)
      <3> DEFINE gone == Detached(job[f.job], "CANCELLED")
      <3>1. /\ f.job \in Job /\ job[f.job].status \in {"RUNNING", "PAUSING", "CANCELLING"}
            /\ job' = [job EXCEPT ![f.job] = [gone EXCEPT !.cancelRequested = TRUE]]
        BY <2>1, <2>4 DEF Cancel, Settle, ExecutingStatus
      <3>2. gone.status = "CANCELLED" /\ gone \in Row
        BY <1>1, <3>1, DetachedType DEF Status, TerminalStatus
      <3> HIDE DEF gone
      <3>3. [gone EXCEPT !.cancelRequested = TRUE].status = "CANCELLED"
        BY <3>2 DEF Row
      <3> QED BY <1>2, <3>1, <3>3, Edges
    <2>5. ASSUME NEW r \in Reading, NEW withWrite \in BOOLEAN, Pause(f, r, withWrite)
          PROVE  Edge(job'[j].status)
      <3> DEFINE gone == Detached(job[f.job], "PAUSED")
                 asked == job[f.job].status = "PAUSING"
      <3>1. /\ f.job \in Job /\ job[f.job].status \in {"RUNNING", "PAUSING"}
            /\ job' = [job EXCEPT ![f.job] = [gone EXCEPT !.pauseRequested = @ \/ asked]]
        BY <2>1, <2>5 DEF Pause, Settle
      <3>2. gone.status = "PAUSED" /\ gone \in Row
        BY <1>1, <3>1, DetachedType DEF Status, IdleStatus
      <3> HIDE DEF gone, asked
      <3>3. [gone EXCEPT !.pauseRequested = @ \/ asked].status = "PAUSED"
        BY <3>2 DEF Row
      <3> QED BY <1>2, <3>1, <3>3, Edges
    <2>6. ASSUME NEW r \in Reading, NEW withWrite \in BOOLEAN, Release(f, r, withWrite)
          PROVE  Edge(job'[j].status)
      <3> DEFINE gone == Detached(job[f.job], "PENDING")
      <3>1. PICK budget : /\ f.job \in Job /\ job[f.job].status = "RUNNING"
                           /\ job' = [job EXCEPT ![f.job] =
                                        [gone EXCEPT !.availableAt = r, !.maxAttempts = budget]]
        BY <2>1, <2>6 DEF Release, Settle
      <3>2. gone.status = "PENDING" /\ gone \in Row
        BY <1>1, <3>1, DetachedType DEF Status, IdleStatus
      <3> HIDE DEF gone
      <3>3. [gone EXCEPT !.availableAt = r, !.maxAttempts = budget].status = "PENDING"
        BY <3>2 DEF Row
      <3> QED BY <1>2, <3>1, <3>3, Edges
    <2>7. ASSUME NEW r \in Reading, Heartbeat(f, r) PROVE Edge(job'[j].status)
      BY <1>1, <2>1, <2>7 DEF Heartbeat, Row
    <2>8. ASSUME NEW r \in Reading, NEW i \in Job, NEW q \in Requests, EnqueueChild(f, r, i, q)
          PROVE  Edge(job'[j].status)
      BY <1>1, <1>2, <2>8, Edges DEF EnqueueChild, PendingRow
    <2>9. (\E r \in Reading : Mutate(f, r)) \/ Forget(f) => job' = job
      BY DEF Mutate, Forget
    <2> QED
      BY <1>4, <2>2, <2>3, <2>4, <2>5, <2>6, <2>7, <2>8, <2>9 DEF Execution
  <1>5. CASE App
    <2>1. ASSUME NEW i \in Job, NEW q \in Requests, NEW r \in Reading, Enqueue(i, q, r)
          PROVE  Edge(job'[j].status)
      BY <1>1, <1>2, <2>1, Edges DEF Enqueue, PendingRow
    <2>2. ASSUME NEW old \in Job, NEW i \in Job, NEW r \in Reading, RetryAsNewJob(old, i, r)
          PROVE  Edge(job'[j].status)
      BY <1>1, <1>2, <2>2, Edges DEF RetryAsNewJob, PendingRow
    <2>3. ASSUME NEW i \in Job, job[i].status \in Accepts("cancel"),
                 job' = [job EXCEPT ![i] = Cancelled(@, job[i].status)]
          PROVE  Edge(job'[j].status)
      <3> DEFINE row == IF job[i].status \in IdleStatus THEN Detached(job[i], "CANCELLED")
                        ELSE [job[i] EXCEPT !.status = "CANCELLING"]
      <3>1. /\ job[i].status \in {"PENDING", "RETRY_WAIT", "PAUSED", "RUNNING", "PAUSING"}
            /\ job[i] \in Row
        BY <1>1, <2>3 DEF Accepts, IdleStatus
      <3>2. /\ row \in Row
            /\ job[i].status \in IdleStatus => row.status = "CANCELLED"
            /\ job[i].status \notin IdleStatus => row.status = "CANCELLING"
        BY <3>1, DetachedType DEF Row, Status, TerminalStatus, ExecutingStatus
      <3>3. Cancelled(job[i], job[i].status) = [row EXCEPT !.cancelRequested = TRUE]
        BY DEF Cancelled
      <3> HIDE DEF row
      <3>4. Cancelled(job[i], job[i].status).status = row.status
        BY <3>2, <3>3 DEF Row
      <3>5. i = j => Edge(Cancelled(job[i], job[i].status).status)
        BY <3>1, <3>2, <3>4, Edges DEF IdleStatus
      <3> QED BY <1>2, <2>3, <3>5
    <2>4. ASSUME NEW i \in Job, job[i].status \in Accepts("pause"),
                 job' = [job EXCEPT ![i] = Paused(@, job[i].status)]
          PROVE  Edge(job'[j].status)
      <3> DEFINE row == IF job[i].status = "RUNNING" THEN [job[i] EXCEPT !.status = "PAUSING"]
                        ELSE Detached(job[i], "PAUSED")
      <3>1. job[i].status \in {"PENDING", "RETRY_WAIT", "RUNNING"} /\ job[i] \in Row
        BY <1>1, <2>4 DEF Accepts
      <3>2. /\ row \in Row
            /\ job[i].status = "RUNNING" => row.status = "PAUSING"
            /\ job[i].status # "RUNNING" => row.status = "PAUSED"
        BY <3>1, DetachedType DEF Row, Status, IdleStatus, ExecutingStatus
      <3>3. Paused(job[i], job[i].status) = [row EXCEPT !.pauseRequested = TRUE]
        BY DEF Paused
      <3> HIDE DEF row
      <3>4. Paused(job[i], job[i].status).status = row.status
        BY <3>2, <3>3 DEF Row
      <3>5. i = j => Edge(Paused(job[i], job[i].status).status)
        BY <3>1, <3>2, <3>4, Edges
      <3> QED BY <1>2, <2>4, <3>5
    <2>5. ASSUME NEW i \in Job, NEW r \in Reading, job[i].status \in Accepts("resume"),
                 job' = [job EXCEPT ![i] = Resumed(@, r)]
          PROVE  Edge(job'[j].status)
      <3>1. job[i].status = "PAUSED" /\ job[i] \in Row
        BY <1>1, <2>5 DEF Accepts
      <3>2. Detached(job[i], "PENDING").status = "PENDING" /\ Detached(job[i], "PENDING") \in Row
        BY <3>1, DetachedType DEF Status, IdleStatus
      <3>3. Resumed(job[i], r).status = "PENDING"
        BY <3>2 DEF Resumed, Row
      <3> QED BY <1>2, <2>5, <3>1, <3>3, Edges
    <2>6. ASSUME NEW c \in commands, NEW r \in Reading, ApplyCommand(c, r)
          PROVE  Edge(job'[j].status)
      <3>1. c.job \in Job /\ c.seen \in Accepts(c.kind) /\ c.kind \in {"cancel", "pause", "resume"}
        BY DEF IInv, TypeOK, CommandsOK, Command
      <3>2. CASE Unchanged(c)
        <4>1. job[c.job].status = c.seen
          BY <3>2 DEF Unchanged
        <4>2. \/ c.kind = "cancel" /\ job' = [job EXCEPT ![c.job] = Cancelled(@, c.seen)]
              \/ c.kind = "pause" /\ job' = [job EXCEPT ![c.job] = Paused(@, c.seen)]
              \/ c.kind = "resume" /\ job' = [job EXCEPT ![c.job] = Resumed(@, r)]
          BY <2>6, <3>1, <3>2 DEF ApplyCommand
        <4> QED BY <2>3, <2>4, <2>5, <3>1, <4>1, <4>2
      <3>3. CASE ~Unchanged(c)
        BY <2>6, <3>3 DEF ApplyCommand
      <3> QED BY <3>2, <3>3
    <2>7. ASSUME NEW i \in Job, RequestCancellation(i) PROVE Edge(job'[j].status)
      BY <2>3, <2>7 DEF RequestCancellation
    <2>8. (\E kind \in {"cancel", "pause", "resume"}, i \in Job : ReadForCommand(kind, i))
            \/ SetResolvePaused => job' = job
      BY DEF ReadForCommand, SetResolvePaused
    <2> QED BY <1>5, <2>1, <2>2, <2>6, <2>7, <2>8 DEF App
  <1>6. CASE Tick
    <2>1. RowOK(job[j]) /\ job'[j] = AgedRow(job[j])
      BY <1>6 DEF Tick, IInv
    <2> QED BY <2>1, AgedRowOK
  <1>7. CASE UNCHANGED vars
    BY <1>7 DEF vars
  <1> QED BY <1>3, <1>4, <1>5, <1>6, <1>7 DEF Next

LEMMA LifecycleTypes ==
  IInv => /\ [j \in Job |-> job[j].status] \in [Job -> Lifecycle!Status]
          /\ Lifecycle!OneExecutes
  <1> SUFFICES ASSUME IInv
               PROVE  /\ [j \in Job |-> job[j].status] \in [Job -> Lifecycle!Status]
                      /\ Lifecycle!OneExecutes
    OBVIOUS
  <1>1. \A j \in Job : job[j].status \in Lifecycle!Status
    BY DEF IInv, TypeOK, Row, Status, IdleStatus, ExecutingStatus, TerminalStatus,
           Lifecycle!Status, Lifecycle!LiveStatus, Lifecycle!WaitingStatus,
           Lifecycle!ExecutingStatus, Lifecycle!TerminalStatus
  <1>2. OneExecutionPerLane
    BY OneOwner DEF IInv, OneExecutionPerLane
  <1>3. ASSUME NEW i \in Job, NEW j \in Job, LaneOf[i] = LaneOf[j],
               job[i].status \in ExecutingStatus, job[j].status \in ExecutingStatus
        PROVE  i = j
    <2>1. LaneOf[i] \in Lane /\ i \in Executing(LaneOf[i]) /\ j \in Executing(LaneOf[i])
      BY <1>3, QueueAssumption DEF Executing
    <2> QED BY <1>2, <2>1 DEF OneExecutionPerLane
  <1> QED BY <1>1, <1>3 DEF Lifecycle!OneExecutes, Lifecycle!ExecutingStatus, ExecutingStatus

\* The queue implements the life cycle the domain executors are built on: whatever
\* transaction runs, every job takes an edge or stays, and a lane has one execution.
THEOREM LifecycleRefinement == Spec => ImplementsJobLifecycle
  <1>1. Init => Lifecycle!Init
    BY DEF Init, Lifecycle!Init, AbsentRow, PendingRow
  <1>2. IInv /\ IInv' /\ [Next]_vars => [Lifecycle!Next]_([j \in Job |-> job[j].status])
    <2> SUFFICES ASSUME IInv, IInv', [Next]_vars PROVE Lifecycle!Next
      OBVIOUS
    <2>1. /\ ([j \in Job |-> job[j].status] \in [Job -> Lifecycle!Status])'
          /\ Lifecycle!OneExecutes'
      BY LifecycleTypes, PTL
    <2> QED BY <2>1, LifecycleStep DEF Lifecycle!Next
  <1> QED BY <1>1, <1>2, Invariance, PTL DEF Spec, ImplementsJobLifecycle, Lifecycle!Spec

-----------------------------------------------------------------------------
(* Executions                                                              *)

\* Row j executes on: the same execution, with no more time than before, and a request
\* to stop it is not taken back.
GoesOn(j) ==
  /\ job[j].status \in ExecutingStatus
  /\ job'[j].worker = job[j].worker /\ job'[j].token = job[j].token
  /\ job'[j].attempt = job[j].attempt /\ job'[j].maxAttempts = job[j].maxAttempts
  /\ job'[j].expires <= job[j].expires
  /\ job'[j].status = "RUNNING" => job[j].status = "RUNNING"

\* Row j starts to execute, under a token that nothing refers to.
Starts(j) ==
  \E f \in Fence :
    /\ f = [job |-> j, worker |-> job'[j].worker, token |-> job'[j].token,
            attempt |-> job'[j].attempt]
    /\ f.token \notin TokensInUse
    /\ fences' = fences \union {f}

\* Nothing executes but what did or has just been started.
NoRevival == \A j \in Job : job'[j].status \in ExecutingStatus => GoesOn(j) \/ Starts(j)

LEMMA SameRowGoesOn ==
  ASSUME TypeOK, NEW j \in Job, job'[j] = job[j], job[j].status \in ExecutingStatus
  PROVE  GoesOn(j)
  <1>1. job[j].expires \in Int
    BY TimeFacts DEF TypeOK, Row
  <1> QED BY <1>1 DEF GoesOn

LEMMA OneRowNoRevival ==
  ASSUME TypeOK, NEW i \in Job, NEW row, job' = [job EXCEPT ![i] = row],
         row.status \notin ExecutingStatus
  PROVE  NoRevival
  BY SameRowGoesOn DEF NoRevival, TypeOK

LEMMA ClaimNoRevival ==
  ASSUME IInv, NEW l \in Lane, Claim(l)
  PROVE  NoRevival
  <1>1. \A j \in Job : RowOK(job[j])
    BY DEF IInv
  <1>2. ASSUME NEW r \in Reading, NEW j \in Job, Swept(l, r)[j].status \in ExecutingStatus
        PROVE  Swept(l, r)[j] = job[j]
    BY <1>1, <1>2, SweptOK
  <1>3. ASSUME NEW r \in Reading, ClaimNothing(l, r) PROVE NoRevival
    BY <1>2, <1>3, SameRowGoesOn DEF ClaimNothing, NoRevival, IInv
  <1>4. ASSUME NEW r \in Reading, NEW w \in Worker, NEW windowOpen \in BOOLEAN,
               ClaimJob(w, l, r, windowOpen)
        PROVE  NoRevival
    <2>1. PICK i \in Job, t \in Token \ TokensInUse :
            /\ Eligible(Swept(l, r)[i], r, windowOpen)
            /\ LET row == Started(Swept(l, r)[i], w, t, r)
               IN /\ job' = [Swept(l, r) EXCEPT ![i] = row]
                  /\ fences' = fences \union {[job |-> i, worker |-> w, token |-> t,
                                               attempt |-> row.attempt]}
      BY <1>4 DEF ClaimJob
    <2> DEFINE row == Started(Swept(l, r)[i], w, t, r)
    <2>2. row.worker = w /\ row.token = t /\ row.attempt \in 1..AttemptCap
      BY <1>1, <2>1, SweptOK, StartedOK
    <2>3. \A j \in Job : job'[j] = IF j = i THEN row ELSE Swept(l, r)[j]
      BY <2>1 DEF Swept
    <2>4. fences' = fences \union {[job |-> i, worker |-> w, token |-> t,
                                    attempt |-> row.attempt]}
      BY <2>1
    <2> HIDE DEF row
    <2>5. [job |-> i, worker |-> w, token |-> t, attempt |-> row.attempt] \in Fence
      BY <2>2 DEF Fence
    <2>6. Starts(i)
      BY <2>1, <2>2, <2>3, <2>4, <2>5 DEF Starts
    <2> QED BY <1>2, <2>3, <2>6, SameRowGoesOn DEF NoRevival, IInv
  <1> QED BY <1>3, <1>4 DEF Claim

\* A fenced call other than a heartbeat ends its execution or changes no row but the
\* child's.
LEMMA CallNoRevival ==
  ASSUME IInv, NEW f \in fences, NEW r \in Reading, NEW withWrite \in BOOLEAN,
         \/ Mutate(f, r) \/ Forget(f)
         \/ \E j \in Job, q \in Requests : EnqueueChild(f, r, j, q)
         \/ \E outcome \in {"COMPLETED", "FAILED", "SKIPPED"} : Conclude(f, r, outcome, withWrite)
         \/ \E delay \in 0..MaxDelay : Retry(f, r, delay, withWrite) \/ Yield(f, r, delay)
         \/ Cancel(f, r, withWrite) \/ Pause(f, r, withWrite) \/ Release(f, r, withWrite)
  PROVE  NoRevival
  <1>1. TypeOK /\ job \in [Job -> Row]
    BY DEF IInv, TypeOK
  <1>2. ASSUME NEW write \in BOOLEAN, NEW from, NEW status \in Status \ ExecutingStatus,
               NEW row, Settle(f, r, from, row, write),
               f.job \in Job => row.status = Detached(job[f.job], status).status
        PROVE  NoRevival
    <2>1. f.job \in Job
      BY <1>2, OwnerFacts DEF Settle
    <2>2. row.status \notin ExecutingStatus
      BY <1>1, <1>2, <2>1, DetachedType
    <2> QED BY <1>1, <1>2, <2>1, <2>2, OneRowNoRevival DEF Settle
  <1>3. ASSUME NEW row \in Row, NEW at, NEW attempt, NEW maxAttempts, NEW mark
        PROVE  /\ [row EXCEPT !.availableAt = at].status = row.status
               /\ [row EXCEPT !.availableAt = at, !.attempt = attempt].status = row.status
               /\ [row EXCEPT !.availableAt = at, !.maxAttempts = maxAttempts].status = row.status
               /\ [row EXCEPT !.cancelRequested = mark].status = row.status
               /\ [row EXCEPT !.pauseRequested = mark].status = row.status
    BY DEF Row
  <1>4. ASSUME NEW status \in Status, f.job \in Job PROVE Detached(job[f.job], status) \in Row
    BY <1>1, <1>4, DetachedType
  <1>5. {"COMPLETED", "FAILED", "SKIPPED", "RETRY_WAIT", "CANCELLED", "PAUSED", "PENDING"}
          \subseteq Status \ ExecutingStatus
    BY DEF Status, IdleStatus, TerminalStatus, ExecutingStatus
  <1>6. CASE Mutate(f, r) \/ Forget(f)
    BY <1>1, <1>6, SameRowGoesOn DEF Mutate, Forget, NoRevival
  <1>7. CASE \E j \in Job, q \in Requests : EnqueueChild(f, r, j, q)
    <2>1. PICK j \in Job, q \in Requests : EnqueueChild(f, r, j, q)
      BY <1>7
    <2> DEFINE row == PendingRow("SYSTEM", r + q.delay, {r + d : d \in q.deadline}, q.budget)
    <2>2. row.status \notin ExecutingStatus
      BY DEF PendingRow, ExecutingStatus
    <2>3. job' = [job EXCEPT ![j] = row]
      BY <2>1 DEF EnqueueChild
    <2> HIDE DEF row
    <2> QED BY <1>1, <2>2, <2>3, OneRowNoRevival
  <1>8. CASE \E outcome \in {"COMPLETED", "FAILED", "SKIPPED"} : Conclude(f, r, outcome, withWrite)
    BY <1>2, <1>5, <1>8 DEF Conclude
  <1>9. CASE \E delay \in 0..MaxDelay : Retry(f, r, delay, withWrite) \/ Yield(f, r, delay)
    <2>1. PICK delay \in 0..MaxDelay : Retry(f, r, delay, withWrite) \/ Yield(f, r, delay)
      BY <1>9
    <2> DEFINE gone == Detached(job[f.job], "RETRY_WAIT")
               retried == [gone EXCEPT !.availableAt = r + delay]
               yielded == [gone EXCEPT !.availableAt = r + delay, !.attempt = @ - 1]
    <2>2. f.job \in Job => retried.status = gone.status /\ yielded.status = gone.status
      BY <1>3, <1>4, <1>5
    <2>3. Settle(f, r, {"RUNNING"}, retried, withWrite) \/ Settle(f, r, {"RUNNING"}, yielded, TRUE)
      BY <2>1 DEF Retry, Yield
    <2> HIDE DEF retried, yielded
    <2> QED BY <1>2, <1>5, <2>2, <2>3
  <1>10. CASE Cancel(f, r, withWrite)
    <2> DEFINE gone == Detached(job[f.job], "CANCELLED")
               row == [gone EXCEPT !.cancelRequested = TRUE]
    <2>1. f.job \in Job => row.status = gone.status
      BY <1>3, <1>4, <1>5
    <2>2. Settle(f, r, IF withWrite THEN {"RUNNING", "CANCELLING"} ELSE ExecutingStatus, row, withWrite)
      BY <1>10 DEF Cancel
    <2> HIDE DEF row
    <2> QED BY <1>2, <1>5, <2>1, <2>2
  <1>11. CASE Pause(f, r, withWrite)
    <2> DEFINE gone == Detached(job[f.job], "PAUSED")
               asked == job[f.job].status = "PAUSING"
               row == [gone EXCEPT !.pauseRequested = @ \/ asked]
    <2>1. f.job \in Job => row.status = gone.status
      <3>1. f.job \in Job => gone \in Row
        BY <1>4, <1>5
      <3> HIDE DEF gone, asked
      <3> QED BY <3>1 DEF Row
    <2>2. Settle(f, r, IF withWrite THEN {"RUNNING", "PAUSING"} ELSE {"PAUSING"}, row, withWrite)
      BY <1>11 DEF Pause
    <2> HIDE DEF row
    <2> QED BY <1>2, <1>5, <2>1, <2>2
  <1>12. CASE Release(f, r, withWrite)
    <2> DEFINE gone == Detached(job[f.job], "PENDING")
               row == [gone EXCEPT !.availableAt = r, !.maxAttempts = Larger(@, job[f.job].attempt + 1)]
    <2>1. f.job \in Job => row.status = gone.status
      BY <1>3, <1>4, <1>5
    <2>2. Settle(f, r, {"RUNNING"}, row, withWrite)
      BY <1>12 DEF Release
    <2> HIDE DEF row
    <2> QED BY <1>2, <1>5, <2>1, <2>2
  <1> QED BY <1>6, <1>7, <1>8, <1>9, <1>10, <1>11, <1>12

LEMMA AppNoRevival ==
  ASSUME IInv, App
  PROVE  NoRevival
  <1>1. TypeOK /\ job \in [Job -> Row] /\ \A j \in Job : RowOK(job[j])
    BY DEF IInv, TypeOK
  <1>2. ASSUME NEW i \in Job, NEW source, NEW at, NEW deadline, NEW budget,
               job' = [job EXCEPT ![i] = PendingRow(source, at, deadline, budget)]
        PROVE  NoRevival
    <2> DEFINE row == PendingRow(source, at, deadline, budget)
    <2>1. row.status \notin ExecutingStatus
      BY DEF PendingRow, ExecutingStatus
    <2> HIDE DEF row
    <2>2. job' = [job EXCEPT ![i] = row]
      BY <1>2 DEF row
    <2> QED BY <1>1, <2>1, <2>2, OneRowNoRevival
  <1>3. ASSUME NEW i \in Job, NEW row, job' = [job EXCEPT ![i] = row],
               row.status \in ExecutingStatus => row.status # "RUNNING" /\ job[i].status \in ExecutingStatus,
               job[i].status \in ExecutingStatus =>
                 /\ row.worker = job[i].worker /\ row.token = job[i].token
                 /\ row.attempt = job[i].attempt /\ row.maxAttempts = job[i].maxAttempts
                 /\ row.expires = job[i].expires
        PROVE  NoRevival
    <2>1. job[i].expires \in Int
      BY <1>1, TimeFacts DEF Row
    <2>2. \A j \in Job : job'[j] = IF j = i THEN row ELSE job[j]
      BY <1>1, <1>3
    <2>3. row.status \in ExecutingStatus => GoesOn(i)
      BY <1>3, <2>1, <2>2 DEF GoesOn
    <2> QED BY <1>1, <2>2, <2>3, SameRowGoesOn DEF NoRevival
  <1>4. ASSUME NEW i \in Job, job[i].status \in Accepts("cancel"),
               job' = [job EXCEPT ![i] = Cancelled(job[i], job[i].status)]
        PROVE  NoRevival
    <2>1. CASE job[i].status \in IdleStatus
      <3>1. Cancelled(job[i], job[i].status).status = "CANCELLED"
        BY <1>1, <2>1, DetachedType DEF Cancelled, Row, Status, TerminalStatus
      <3> QED BY <1>1, <1>4, <3>1, OneRowNoRevival DEF ExecutingStatus
    <2>2. CASE job[i].status \in {"RUNNING", "PAUSING"}
      <3>1. Cancelled(job[i], job[i].status)
              = [job[i] EXCEPT !.status = "CANCELLING", !.cancelRequested = TRUE]
        BY <1>1, <2>2 DEF Cancelled, IdleStatus, Row
      <3>2. job[i] \in Row
        BY <1>1
      <3> QED BY <1>3, <1>4, <2>2, <3>1, <3>2 DEF Row, ExecutingStatus
    <2> QED BY <1>4, <2>1, <2>2 DEF Accepts
  <1>5. ASSUME NEW i \in Job, job[i].status \in Accepts("pause"),
               job' = [job EXCEPT ![i] = Paused(job[i], job[i].status)]
        PROVE  NoRevival
    <2>1. CASE job[i].status \in {"PENDING", "RETRY_WAIT"}
      <3>1. Paused(job[i], job[i].status).status = "PAUSED"
        BY <1>1, <2>1, DetachedType DEF Paused, Row, Status, IdleStatus
      <3> QED BY <1>1, <1>5, <3>1, OneRowNoRevival DEF ExecutingStatus
    <2>2. CASE job[i].status = "RUNNING"
      <3>1. Paused(job[i], job[i].status)
              = [job[i] EXCEPT !.status = "PAUSING", !.pauseRequested = TRUE]
        BY <1>1, <2>2 DEF Paused, Row
      <3>2. job[i] \in Row
        BY <1>1
      <3> QED BY <1>3, <1>5, <2>2, <3>1, <3>2 DEF Row, ExecutingStatus
    <2> QED BY <1>5, <2>1, <2>2 DEF Accepts
  <1>6. ASSUME NEW i \in Job, NEW r \in Reading, job[i].status \in Accepts("resume"),
               job' = [job EXCEPT ![i] = Resumed(job[i], r)]
        PROVE  NoRevival
    <2>1. Resumed(job[i], r).status = "PENDING"
      BY <1>1, <1>6, ResumedOK DEF Accepts
    <2> QED BY <1>1, <1>6, <2>1, OneRowNoRevival DEF ExecutingStatus
  <1>7. job' = job => NoRevival
    BY <1>1, SameRowGoesOn DEF NoRevival
  <1>8. ASSUME NEW c \in commands, NEW r \in Reading, ApplyCommand(c, r) PROVE NoRevival
    <2>1. c.job \in Job /\ c.seen \in Accepts(c.kind) /\ c.kind \in {"cancel", "pause", "resume"}
      BY DEF IInv, TypeOK, CommandsOK, Command
    <2>2. CASE Unchanged(c)
      <3>1. job[c.job].status = c.seen
        BY <2>2 DEF Unchanged
      <3>2. \/ c.kind = "cancel" /\ job' = [job EXCEPT ![c.job] = Cancelled(job[c.job], c.seen)]
            \/ c.kind = "pause" /\ job' = [job EXCEPT ![c.job] = Paused(job[c.job], c.seen)]
            \/ c.kind = "resume" /\ job' = [job EXCEPT ![c.job] = Resumed(job[c.job], r)]
        BY <1>1, <1>8, <2>1, <2>2 DEF ApplyCommand
      <3> QED BY <1>4, <1>5, <1>6, <2>1, <3>1, <3>2
    <2> QED BY <1>7, <1>8, <2>2 DEF ApplyCommand
  <1>9. ASSUME NEW i \in Job, RequestCancellation(i) PROVE NoRevival
    BY <1>1, <1>4, <1>9 DEF RequestCancellation
  <1>10. (\E kind \in {"cancel", "pause", "resume"}, i \in Job : ReadForCommand(kind, i))
           \/ SetResolvePaused => job' = job
    BY DEF ReadForCommand, SetResolvePaused
  <1>11. ASSUME NEW i \in Job, NEW q \in Requests, NEW r \in Reading, Enqueue(i, q, r)
         PROVE  NoRevival
    BY <1>2, <1>11 DEF Enqueue
  <1>12. ASSUME NEW old \in Job, NEW i \in Job, NEW r \in Reading, RetryAsNewJob(old, i, r)
         PROVE  NoRevival
    BY <1>2, <1>12 DEF RetryAsNewJob
  <1> QED BY <1>7, <1>8, <1>9, <1>10, <1>11, <1>12 DEF App

LEMMA TickNoRevival ==
  ASSUME IInv, Tick
  PROVE  NoRevival
  <1> SUFFICES ASSUME NEW j \in Job, job'[j].status \in ExecutingStatus PROVE GoesOn(j)
    BY DEF NoRevival
  <1>1. job'[j] = AgedRow(job[j]) /\ job[j] \in Row /\ RowOK(job[j])
    <2>1. RowOK(job[j])
      BY DEF IInv
    <2> QED BY <2>1 DEF Tick, RowOK
  <1>2. job[j].expires \in Int /\ Elapsed \in Int
    BY <1>1, TimeFacts DEF Row
  <1>3. /\ job'[j].status = job[j].status /\ job'[j].worker = job[j].worker
        /\ job'[j].token = job[j].token /\ job'[j].expires = Aged(job[j].expires)
    BY <1>1, AgedRowOK
  <1>4. job'[j].attempt = job[j].attempt /\ job'[j].maxAttempts = job[j].maxAttempts
    BY <1>1 DEF AgedRow, Row
  <1> QED BY <1>2, <1>3, <1>4 DEF GoesOn, Aged

\* A heartbeat needs a live lease to renew it.
LEMMA HeartbeatGoesOn ==
  ASSUME IInv, NEW f \in fences, NEW r \in Reading, Heartbeat(f, r), NEW j \in Job
  PROVE  /\ job'[j].status = job[j].status
         /\ job'[j].worker = job[j].worker /\ job'[j].token = job[j].token
         /\ job'[j].attempt = job[j].attempt /\ job'[j].maxAttempts = job[j].maxAttempts
         /\ j # f.job => job'[j] = job[j]
         /\ j = f.job => job[j].expires > r
  BY OwnerFacts DEF Heartbeat, Owns, IInv, TypeOK, Row

\* The rows that carry the execution of f.
Carries(f) ==
  /\ job[f.job].status \in ExecutingStatus
  /\ job[f.job].worker = f.worker /\ job[f.job].token = f.token
  /\ job[f.job].attempt = f.attempt

LEMMA OwnsMeansCarries ==
  ASSUME IInv, NEW f \in Fence, NEW r \in Reading
  PROVE  Owns(f, r) <=> Carries(f) /\ job[f.job].expires > r
  <1>1. f.job \in Job /\ LaneOf[f.job] \in Lane
    BY QueueAssumption DEF Fence
  <1>2. job[f.job].status \in ExecutingStatus =>
          lease[LaneOf[f.job]] = [owner |-> f.job, worker |-> job[f.job].worker,
                                  token |-> job[f.job].token, expires |-> job[f.job].expires]
    BY <1>1 DEF IInv, LeaseBacksExecution, Executing
  <1> QED BY <1>1, <1>2 DEF Owns, Carries

\* A token in use is never given to another execution, so a fence whose rows are gone
\* stays without them.
LEMMA CarriesStep ==
  ASSUME IInv, NEW f \in fences, NoRevival, Carries(f)'
  PROVE  /\ Carries(f) /\ GoesOn(f.job)
  <1>1. f \in Fence /\ f.job \in Job
    BY DEF IInv, TypeOK, Fence
  <1>2. GoesOn(f.job) \/ Starts(f.job)
    BY <1>1 DEF NoRevival, Carries
  <1>3. ~Starts(f.job)
    <2>1. f.token \in TokensInUse /\ job'[f.job].token = f.token
      BY DEF TokensInUse, Carries
    <2> QED BY <2>1 DEF Starts
  <1> QED BY <1>2, <1>3 DEF GoesOn, Carries

LEMMA NextNoRevival ==
  ASSUME IInv, [Next]_vars, ~\E f \in fences, r \in Reading : Heartbeat(f, r)
  PROVE  NoRevival
  <1>1. ASSUME NEW f \in fences, Execution(f) PROVE NoRevival
    <2>1. ASSUME Forget(f) PROVE NoRevival
      BY <2>1, SameRowGoesOn DEF Forget, NoRevival, IInv
    <2>2. ASSUME ~Forget(f) PROVE NoRevival
      BY <1>1, <2>2, CallNoRevival DEF Execution
    <2> QED BY <2>1, <2>2
  <1>2. CASE UNCHANGED vars
    BY <1>2, SameRowGoesOn DEF vars, NoRevival, IInv
  <1> QED BY <1>1, <1>2, ClaimNoRevival, AppNoRevival, TickNoRevival DEF Next

\* No operation gives a lost execution its lease back.
LEMMA OwnedBefore ==
  ASSUME IInv, [Next]_vars, NEW f \in fences, Owns(f, Elapsed)'
  PROVE  Owns(f, Elapsed)
  <1>1. f \in Fence /\ f.job \in Job /\ Elapsed \in Reading
    BY QueueAssumption DEF IInv, TypeOK, Fence, Reading, Elapsed
  <1>2. /\ Carries(f)' /\ job'[f.job].expires > Elapsed
        /\ job'[f.job].expires \in Int /\ job[f.job].expires \in Int /\ Elapsed \in Int
    <2>1. IInv'
      BY NextIInv
    <2>2. job'[f.job] \in Row /\ job[f.job] \in Row
      BY <1>1, <2>1 DEF IInv, TypeOK
    <2> QED BY <2>2, TimeFacts DEF Owns, Carries, Row
  <1>3. ASSUME NEW g \in fences, NEW r \in Reading, Heartbeat(g, r)
        PROVE  Carries(f) /\ job[f.job].expires > Elapsed
    <2>1. Carries(f)
      BY <1>1, <1>2, <1>3, HeartbeatGoesOn DEF Carries
    <2>2. f.job # g.job => job[f.job].expires > Elapsed
      BY <1>1, <1>2, <1>3, HeartbeatGoesOn
    <2>3. f.job = g.job => job[f.job].expires > r /\ r \in Int /\ Elapsed <= r
      BY <1>1, <1>3, HeartbeatGoesOn, TimeFacts
    <2> QED BY <1>2, <2>1, <2>2, <2>3
  <1>4. ASSUME NoRevival PROVE Carries(f) /\ job[f.job].expires > Elapsed
    BY <1>2, <1>4, CarriesStep DEF GoesOn
  <1>5. Carries(f) /\ job[f.job].expires > Elapsed
    BY <1>3, <1>4, NextNoRevival
  <1> QED BY <1>1, <1>5, OwnsMeansCarries

\* A refusal is for good: no operation of anyone gives a lost execution its lease back,
\* whatever the clocks of claimers and of the execution itself show.
THEOREM RefusalsAreFinal == Spec => LostStaysLost
  <1>1. IInv /\ [Next]_vars => [\A f \in fences : Owns(f, Elapsed)' => Owns(f, Elapsed)]_vars
    BY OwnedBefore
  <1> QED BY <1>1, Invariance, PTL DEF Spec, LostStaysLost

=============================================================================
