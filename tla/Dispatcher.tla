----------------------------- MODULE Dispatcher -----------------------------
(***************************************************************************)
(* The worker process on top of the queue: one CentralDispatcher per       *)
(* process and lane (pixishelf-worker/src/dispatcher.ts), the process that *)
(* starts and stops them (worker-application.ts, main.ts), and the         *)
(* executor and the monitor that run side by side during an execution.     *)
(*                                                                         *)
(* Every call a dispatcher makes to the queue is an action of JobQueue,    *)
(* presented with the fence the dispatcher got from its claim; control     *)
(* decisions between two calls are made on what the last call returned.    *)
(*                                                                         *)
(* A dispatcher is at                                                      *)
(*   polling      between executions (top of runLoop, or waiting)          *)
(*   claimed      its claim has committed, the reply is not yet handled    *)
(*   executing    the executor runs, and the monitor with it               *)
(*   controlling  the executor ended; about to read the control once more  *)
(*   settling     about to settle with its outcome                         *)
(*   rechecking   the fence refused the settlement; reads the control      *)
(*   leaving      done with the execution, about to take the next turn     *)
(*   exited       the loop has ended                                       *)
(*                                                                         *)
(* Abstractions.  Ending an execution awaits the monitor, and a monitor    *)
(* call in flight when the signal aborts may still commit: such a call is  *)
(* ordered before the abort.  A call that keeps failing for a transient    *)
(* reason until its loop gives up is one fault, whenever it comes; retries *)
(* that succeed in the end are the call itself.  raiseFatal and the        *)
(* shutdown it requests are one step, so stopping is a state of the        *)
(* process.                                                                *)
(***************************************************************************)
EXTENDS JobQueue

CONSTANTS
  Process,    \* worker processes, each restarted by its container when gone
  WorkerOf,   \* WorkerOf[p] : the worker id configured for process p
  MaxFaults,  \* bound: crashes, lost replies and failing calls
  MaxStops    \* bound: shutdown signals

ASSUME DispatcherAssumption ==
  /\ WorkerOf \in [Process -> Worker]
  /\ MaxFaults \in Nat /\ MaxStops \in Nat

VARIABLES
  process,  \* process[p] : up, draining, failed (draining after a fatal error) or gone
  disp,     \* disp[d] : the dispatcher d = <<process, lane>>
  faults,   \* what went wrong so far: crashes, lost replies, failing calls, ignored signals,
            \* and refusals that another reading of the clock contradicts
  stops     \* shutdown signals so far

dispatcherVars == <<process, disp, faults, stops>>
allVars == <<job, lease, fences, writer, commands, resolvePaused, process, disp, faults, stops>>

Dispatchers == Process \X Lane

NoFence == [job |-> NoJob, worker |-> NoWorker, token |-> NoToken, attempt |-> 0]

ExecutorOutcome == {"COMPLETED", "FAILED", "SKIPPED", "retry"}
Outcome == ExecutorOutcome \union {"cancelled", "paused", "released"}
Interruption == {"LEASE_LOST", "CANCEL_REQUESTED", "PAUSE_REQUESTED", "SHUTDOWN"}

DispatcherState ==
  [at : {"polling", "claimed", "executing", "controlling", "settling", "rechecking",
         "leaving", "exited"},
   fence : Fence \union {NoFence},
   outcome : Outcome \union {"none"},
   reason : Interruption \union {"none"},          \* why the signal is aborted
   monitor : {"heartbeat", "control", "off"},      \* the monitor's next call
   finalization : {"none", "done", "rejected", "unknown"}]

Idle(at) ==
  [at |-> at, fence |-> NoFence, outcome |-> "none", reason |-> "none",
   monitor |-> "off", finalization |-> "none"]

At(d, place) == disp[d].at = place
FenceOf(d) == disp[d].fence
RowOf(d) == job[FenceOf(d).job]
Stopping(d) == process[d[1]] # "up"

\* Process p fails: its dispatchers stop and its forced termination is armed.
RaiseFatal(p) == process' = [process EXCEPT ![p] = "failed"]

Fault ==
  /\ faults < MaxFaults
  /\ faults' = faults + 1
  /\ UNCHANGED stops

\* A fault is fatal when it is not transient or comes too often in a row.
PerhapsFatal(p) == UNCHANGED process \/ RaiseFatal(p)

\* An executor that ignores its signal, or clocks that disagree: counted and not bounded.
UnboundedFault ==
  /\ faults' = IF faults > MaxFaults THEN faults ELSE faults + 1
  /\ UNCHANGED stops

Untroubled == UNCHANGED <<process, faults, stops>>

-----------------------------------------------------------------------------
(* The loop: claim and start                                               *)

PollNothing(d) ==
  /\ At(d, "polling") /\ ~Stopping(d)
  /\ \E r \in Reading : ClaimNothing(d[2], r)
  /\ UNCHANGED disp /\ Untroubled

PollJob(d) ==
  /\ At(d, "polling") /\ ~Stopping(d)
  /\ \E r \in Reading, windowOpen \in BOOLEAN : ClaimJob(WorkerOf[d[1]], d[2], r, windowOpen)
  /\ \E f \in fences' \ fences :
       disp' = [disp EXCEPT ![d].at = "claimed", ![d].fence = f]
  /\ Untroubled

\* The claim fails fatally.
PollFails(d) ==
  /\ At(d, "polling") /\ ~Stopping(d)
  /\ Fault /\ RaiseFatal(d[1])
  /\ UNCHANGED <<vars, disp>>

\* The claim committed and its reply got lost: nobody knows the execution.
ClaimReplyLost(d) ==
  /\ At(d, "claimed")
  /\ Forget(FenceOf(d))
  /\ disp' = [disp EXCEPT ![d] = Idle("polling")]
  /\ Fault /\ PerhapsFatal(d[1])

\* A loop that ends when it is stopped, whatever its last claim returned.
HandleReplyBug(d) ==
  /\ At(d, "claimed")
  /\ disp' = [disp EXCEPT ![d] =
       IF Stopping(d) THEN [@ EXCEPT !.at = "leaving"]
       ELSE [@ EXCEPT !.at = "executing", !.monitor = "heartbeat"]]
  /\ UNCHANGED vars /\ Untroubled

\* A job claimed while the dispatcher was being stopped is handed back; one whose
\* payload or definition version is not understood fails.
HandleReply(d) ==
  /\ At(d, "claimed")
  /\ \/ /\ Stopping(d)
        /\ disp' = [disp EXCEPT ![d].at = "settling", ![d].outcome = "released"]
     \/ /\ ~Stopping(d)
        /\ \/ disp' = [disp EXCEPT ![d].at = "executing", ![d].monitor = "heartbeat"]
           \/ disp' = [disp EXCEPT ![d].at = "settling", ![d].outcome = "FAILED"]
  /\ UNCHANGED vars /\ Untroubled

LoopExits(d) ==
  /\ At(d, "polling") /\ Stopping(d)
  /\ disp' = [disp EXCEPT ![d].at = "exited"]
  /\ UNCHANGED vars /\ Untroubled

-----------------------------------------------------------------------------
(* The monitor                                                             *)

\* The directive in a job row (executionDirective).
Directive(row) ==
  IF row.status = "CANCELLING" \/ row.cancelRequested THEN "CANCEL_REQUESTED"
  ELSE IF row.status = "PAUSING" \/ row.pauseRequested THEN "PAUSE_REQUESTED"
  ELSE "CONTINUE"

\* The signal keeps its first reason, and the monitor ends with it.
Aborted(state, reason) ==
  [state EXCEPT !.reason = IF @ = "none" THEN reason ELSE @, !.monitor = "off"]

MonitorHeartbeats(d) ==
  /\ At(d, "executing") /\ disp[d].monitor = "heartbeat"
  /\ \E r \in Reading : Heartbeat(FenceOf(d), r)
  /\ disp' = [disp EXCEPT ![d].monitor = "control"]
  /\ Untroubled

\* A monitor that ends without telling the executor that the lease is gone.
MonitorLosesLeaseBug(d) ==
  /\ At(d, "executing") /\ disp[d].monitor # "off"
  /\ \E r \in Reading : ~Owns(FenceOf(d), r)
  /\ disp' = [disp EXCEPT ![d].monitor = "off"]
  /\ UNCHANGED vars /\ Untroubled

\* Either call of the monitor is refused by the fence.
MonitorLosesLease(d) ==
  /\ At(d, "executing") /\ disp[d].monitor # "off"
  /\ \E r \in Reading : ~Owns(FenceOf(d), r)
  /\ disp' = [disp EXCEPT ![d] = Aborted(@, "LEASE_LOST")]
  /\ UNCHANGED vars /\ Untroubled

\* A monitor that reads the control and does not act on it.
MonitorReadsControlBug(d) ==
  /\ At(d, "executing") /\ disp[d].monitor = "control"
  /\ \E r \in Reading : Owns(FenceOf(d), r)
  /\ disp' = [disp EXCEPT ![d].monitor = "heartbeat"]
  /\ UNCHANGED vars /\ Untroubled

MonitorReadsControl(d) ==
  /\ At(d, "executing") /\ disp[d].monitor = "control"
  /\ \E r \in Reading : Owns(FenceOf(d), r)
  /\ disp' = [disp EXCEPT ![d] =
       IF Directive(RowOf(d)) = "CONTINUE" THEN [@ EXCEPT !.monitor = "heartbeat"]
       ELSE Aborted(@, Directive(RowOf(d)))]
  /\ UNCHANGED vars /\ Untroubled

\* A transient failure that outlasts the lease counts as its loss; another failure
\* is fatal and ends the monitor without an abort.
MonitorFails(d) ==
  /\ At(d, "executing") /\ disp[d].monitor # "off"
  /\ Fault
  /\ \/ /\ disp' = [disp EXCEPT ![d] = Aborted(@, "LEASE_LOST")]
        /\ UNCHANGED process
     \/ /\ disp' = [disp EXCEPT ![d].monitor = "off"]
        /\ RaiseFatal(d[1])
  /\ UNCHANGED vars

-----------------------------------------------------------------------------
(* The executor                                                            *)

\* A settlement that lets work which just ended outrun a pause.
SettlesAsBug(f, r, outcome, withWrite) ==
  \/ /\ outcome \in TerminalStatus
     /\ Settle(f, r, {"RUNNING", "PAUSING"}, Detached(job[f.job], outcome), withWrite)
  \/ outcome = "retry" /\ \E delay \in 0..MaxDelay : Retry(f, r, delay, withWrite)
  \/ outcome = "cancelled" /\ Cancel(f, r, withWrite)
  \/ outcome = "paused" /\ Pause(f, r, withWrite)
  \/ outcome = "released" /\ Release(f, r, withWrite)

\* The transition an outcome asks of the queue.
SettlesAs(f, r, outcome, withWrite) ==
  \/ outcome \in TerminalStatus /\ Conclude(f, r, outcome, withWrite)
  \/ outcome = "retry" /\ \E delay \in 0..MaxDelay : Retry(f, r, delay, withWrite)
  \/ outcome = "cancelled" /\ Cancel(f, r, withWrite)
  \/ outcome = "paused" /\ Pause(f, r, withWrite)
  \/ outcome = "released" /\ Release(f, r, withWrite)

\* A fenced mutation or a child; refused ones change nothing.
ExecutorWorks(d) ==
  /\ At(d, "executing")
  /\ \E r \in Reading :
       \/ Mutate(FenceOf(d), r)
       \/ \E j \in Job, q \in Requests : EnqueueChild(FenceOf(d), r, j, q)
  /\ UNCHANGED disp /\ Untroubled

\* finalizeInTransaction, once per execution: the executor concludes, gives way to a
\* control, or hands its job back when it is to stop or has to wait.  The reply may get
\* lost.
ExecutorFinalizes(d) ==
  /\ At(d, "executing") /\ disp[d].finalization = "none"
  /\ \E r \in Reading :
       \/ \E outcome \in Outcome : SettlesAs(FenceOf(d), r, outcome, TRUE)
       \/ \E delay \in 0..MaxDelay : Yield(FenceOf(d), r, delay)
  /\ \/ disp' = [disp EXCEPT ![d].finalization = "done"] /\ Untroubled
     \/ disp' = [disp EXCEPT ![d].finalization = "unknown"] /\ Fault /\ UNCHANGED process

\* Some clock takes the lease of a running job for live that another has refused.
Contradicted(d) == Owns(FenceOf(d), Elapsed) /\ RowOf(d).status = "RUNNING"

\* The fence refuses the finalization: the lease is gone, or a command changed the
\* status and the executor does not look at it (executors check their budget).
FinalizationRejected(d) ==
  /\ At(d, "executing") /\ disp[d].finalization = "none"
  /\ \E r \in Reading : ~Owns(FenceOf(d), r) \/ RowOf(d).status # "RUNNING"
  /\ disp' = [disp EXCEPT ![d].finalization = "rejected"]
  /\ IF Contradicted(d) THEN UnboundedFault ELSE UNCHANGED <<faults, stops>>
  /\ UNCHANGED <<vars, process>>

FinalizationFails(d) ==
  /\ At(d, "executing") /\ disp[d].finalization = "none"
  /\ disp' = [disp EXCEPT ![d].finalization = "unknown"]
  /\ Fault /\ UNCHANGED process
  /\ UNCHANGED vars

\* outcomeForInterruption
Interrupted(reason) ==
  CASE reason = "CANCEL_REQUESTED" -> "cancelled"
    [] reason = "PAUSE_REQUESTED" -> "paused"
    [] reason \in {"SHUTDOWN", "LEASE_LOST"} -> "released"

\* normalizeRetryOutcome
Normalized(f, outcome) ==
  IF outcome = "retry" /\ ~(f.attempt < job[f.job].maxAttempts) THEN "FAILED" ELSE outcome

\* The executor returns or throws, of itself or because of the signal.  A finalized
\* execution is over; one whose finalization failed is left to the recovery of its
\* lease, and so is one that lost its lease.
ExecutorEnds(d) ==
  /\ At(d, "executing")
  /\ \E result \in ExecutorOutcome :
       LET outcome == IF disp[d].reason = "none" THEN result ELSE Interrupted(disp[d].reason)
           over == disp[d].finalization # "none" \/ disp[d].reason = "LEASE_LOST"
       IN disp' = [disp EXCEPT ![d].monitor = "off",
                               ![d].at = IF over THEN "leaving" ELSE "controlling",
                               ![d].outcome = IF over THEN "none"
                                              ELSE Normalized(FenceOf(d), outcome)]
  /\ IF disp[d].finalization = "unknown" THEN RaiseFatal(d[1]) ELSE UNCHANGED process
  /\ UNCHANGED <<vars, faults, stops>>

-----------------------------------------------------------------------------
(* Settlement                                                              *)

\* The queue would take this settlement.
Acceptable(f, r, outcome) ==
  /\ Owns(f, r)
  /\ job[f.job].status \in CASE outcome = "cancelled" -> ExecutingStatus
                             [] outcome = "paused" -> {"PAUSING"}
                             [] outcome \notin {"cancelled", "paused"} -> {"RUNNING"}
  /\ outcome = "retry" => job[f.job].attempt < job[f.job].maxAttempts

\* controlledOutcome
Controlled(row, outcome) ==
  CASE Directive(row) = "CANCEL_REQUESTED" -> "cancelled"
    [] Directive(row) = "PAUSE_REQUESTED" -> "paused"
    [] Directive(row) = "CONTINUE" -> outcome

\* applyFinalControl: a last look at the row, or the end when the fence is refused.
FinalControl(d) ==
  /\ At(d, "controlling")
  /\ \E r \in Reading :
       disp' = [disp EXCEPT ![d] =
         IF Owns(FenceOf(d), r)
         THEN [@ EXCEPT !.at = "settling", !.outcome = Controlled(RowOf(d), disp[d].outcome)]
         ELSE [@ EXCEPT !.at = "leaving"]]
  /\ UNCHANGED vars /\ Untroubled

\* The settlement commits; a lost reply makes the dispatcher settle again.
Settles(d) ==
  /\ At(d, "settling")
  /\ \E r \in Reading : SettlesAs(FenceOf(d), r, disp[d].outcome, FALSE)
  /\ \/ disp' = [disp EXCEPT ![d].at = "leaving"] /\ Untroubled
     \/ UNCHANGED disp /\ Fault /\ UNCHANGED process

SettlementRejected(d) ==
  /\ At(d, "settling")
  /\ \E r \in Reading : ~Acceptable(FenceOf(d), r, disp[d].outcome)
  /\ disp' = [disp EXCEPT ![d].at = "rechecking"]
  /\ UNCHANGED vars /\ Untroubled

\* A command that came in between explains the refusal and replaces the outcome;
\* without one the dispatcher gives up the process.
CanExplain(d, r) ==
  /\ Owns(FenceOf(d), r)
  /\ Controlled(RowOf(d), disp[d].outcome) # disp[d].outcome

Recheck(d) ==
  /\ At(d, "rechecking")
  /\ \E r \in Reading :
       \/ /\ CanExplain(d, r)
          /\ disp' = [disp EXCEPT ![d].at = "settling", ![d].outcome = Controlled(RowOf(d), @)]
          /\ Untroubled
       \/ /\ ~CanExplain(d, r)
          /\ disp' = [disp EXCEPT ![d].at = "leaving"]
          /\ IF Owns(FenceOf(d), r) THEN RaiseFatal(d[1]) /\ UnboundedFault ELSE Untroubled
  /\ UNCHANGED vars

\* One of these calls fails without effect and is given up.
SettlementFails(d) ==
  /\ disp[d].at \in {"controlling", "settling", "rechecking"}
  /\ disp' = [disp EXCEPT ![d].at = "leaving"]
  /\ Fault /\ PerhapsFatal(d[1])
  /\ UNCHANGED vars

\* The next turn keeps the fence of the last one in use.
LeaveBug(d) ==
  /\ At(d, "leaving")
  /\ disp' = [disp EXCEPT ![d] = Idle("polling")]
  /\ UNCHANGED vars /\ Untroubled

Leave(d) ==
  /\ At(d, "leaving")
  /\ Forget(FenceOf(d))
  /\ disp' = [disp EXCEPT ![d] = Idle("polling")]
  /\ Untroubled

-----------------------------------------------------------------------------
(* The process                                                             *)

\* SIGTERM or SIGINT.
Signal(p) ==
  /\ process[p] = "up" /\ stops < MaxStops
  /\ process' = [process EXCEPT ![p] = "draining"]
  /\ stops' = stops + 1
  /\ UNCHANGED <<vars, disp, faults>>

\* The drain grace of stop is over: the executor is asked to stop.
DrainExpires(d) ==
  /\ At(d, "executing") /\ Stopping(d) /\ disp[d].reason = "none"
  /\ disp' = [disp EXCEPT ![d] = Aborted(@, "SHUTDOWN")]
  /\ UNCHANGED vars /\ Untroubled

\* The grace for an aborted executor is over: the process cannot go on.
IgnoresAbort(d) ==
  /\ At(d, "executing") /\ disp[d].reason # "none"
  /\ process[d[1]] \in {"up", "draining"}
  /\ RaiseFatal(d[1])
  /\ UnboundedFault
  /\ UNCHANGED <<vars, disp>>

\* A settlement takes longer than the graces of stop.
StopIsOverdue(d) ==
  /\ disp[d].at \in {"controlling", "settling", "rechecking"}
  /\ process[d[1]] = "draining"
  /\ Fault /\ RaiseFatal(d[1])
  /\ UNCHANGED <<vars, disp>>

\* A draining process ends when its loops have; a failed one ends with them or is
\* terminated before.
ProcessEnds(p) ==
  /\ \/ /\ process[p] = "draining"
        /\ \A l \in Lane : At(<<p, l>>, "exited")
     \/ process[p] = "failed"
  /\ process' = [process EXCEPT ![p] = "gone"]
  /\ UNCHANGED <<vars, disp, faults, stops>>

Crash(p) ==
  /\ process[p] # "gone" /\ faults < MaxFaults
  /\ process' = [process EXCEPT ![p] = "gone"]
  /\ faults' = faults + 1
  /\ UNCHANGED <<vars, disp, stops>>

\* What a process knew of its executions goes with it.
Vanish(d) ==
  /\ process[d[1]] = "gone" /\ ~At(d, "exited")
  /\ IF FenceOf(d) \in fences THEN Forget(FenceOf(d)) ELSE UNCHANGED vars
  /\ disp' = [disp EXCEPT ![d] = Idle("exited")]
  /\ Untroubled

Restart(p) ==
  /\ process[p] = "gone" /\ \A l \in Lane : At(<<p, l>>, "exited")
  /\ process' = [process EXCEPT ![p] = "up"]
  /\ disp' = [d \in Dispatchers |-> IF d[1] = p THEN Idle("polling") ELSE disp[d]]
  /\ UNCHANGED <<vars, faults, stops>>

-----------------------------------------------------------------------------
DispatcherInit ==
  /\ Init
  /\ process = [p \in Process |-> "up"]
  /\ disp = [d \in Dispatchers |-> Idle("polling")]
  /\ faults = 0 /\ stops = 0

Alive(d) == process[d[1]] # "gone"

Poll(d) == Alive(d) /\ (PollNothing(d) \/ PollJob(d))

Monitor(d) ==
  Alive(d) /\ (MonitorHeartbeats(d) \/ MonitorLosesLease(d) \/ MonitorReadsControl(d))

Executor(d) ==
  Alive(d) /\ (ExecutorWorks(d) \/ ExecutorFinalizes(d) \/ FinalizationRejected(d)
                 \/ FinalizationFails(d) \/ ExecutorEnds(d))

\* The dispatcher's own straight-line code.
Proceed(d) ==
  Alive(d) /\ (HandleReply(d) \/ LoopExits(d) \/ FinalControl(d) \/ Settles(d)
                 \/ SettlementRejected(d) \/ Recheck(d) \/ Leave(d))

Timeout(d) == Alive(d) /\ (DrainExpires(d) \/ IgnoresAbort(d))

Trouble(d) ==
  Alive(d) /\ (PollFails(d) \/ ClaimReplyLost(d) \/ MonitorFails(d) \/ SettlementFails(d)
                 \/ StopIsOverdue(d))

DispatcherNext ==
  \/ \E d \in Dispatchers :
       Poll(d) \/ Monitor(d) \/ Executor(d) \/ Proceed(d) \/ Timeout(d) \/ Trouble(d) \/ Vanish(d)
  \/ \E p \in Process : Signal(p) \/ ProcessEnds(p) \/ Crash(p) \/ Restart(p)
  \/ App /\ UNCHANGED dispatcherVars
  \/ Tick /\ UNCHANGED dispatcherVars

DispatcherSpec == DispatcherInit /\ [][DispatcherNext]_allVars

\* Time passes; the event loop runs the dispatcher, its monitor and its timers; a
\* failed process is terminated; a process that is gone is restarted by its
\* container (restart: unless-stopped).  An executor promises nothing.
FairDispatcherSpec ==
  /\ DispatcherSpec
  /\ WF_allVars(Tick /\ UNCHANGED dispatcherVars)
  /\ \A d \in Dispatchers :
       /\ WF_allVars(Poll(d)) /\ WF_allVars(Monitor(d)) /\ WF_allVars(Proceed(d))
       /\ WF_allVars(Timeout(d)) /\ WF_allVars(Vanish(d))
  /\ \A p \in Process : WF_allVars(ProcessEnds(p)) /\ WF_allVars(Restart(p))

-----------------------------------------------------------------------------
(* Properties                                                              *)

\* Types, and who knows which fence: the fences in use are exactly those that the
\* dispatchers hold, one each, and a dispatcher holds one while it is not between
\* executions.
DispatcherTypeOK ==
  /\ process \in [Process -> {"up", "draining", "failed", "gone"}]
  /\ disp \in [Dispatchers -> DispatcherState]
  /\ faults \in 0..(MaxFaults + 1) /\ stops \in 0..MaxStops
  /\ fences = {FenceOf(d) : d \in Dispatchers} \ {NoFence}
  /\ \A d \in Dispatchers : FenceOf(d) = NoFence <=> disp[d].at \in {"polling", "exited"}

\* "Fenced settlement was rejected while the job remained RUNNING" (settleWithRetry)
\* cannot happen: whenever the fence refuses a settlement of a lease that no clock takes
\* for expired, a command explains it, however commands, settlement and the two reads of
\* the control interleave.  It is about settlements only: a finalization that throws of
\* itself is fatal whatever made it throw (FinalizationFails).
RefusalIsExplained ==
  \A d \in Dispatchers :
    At(d, "rechecking") /\ Owns(FenceOf(d), ClockLead) => CanExplain(d, ClockLead)

\* A running job whose lease no clock takes for expired has a dispatcher that will finish
\* or hand back that very execution, as long as nothing failed: stopping a worker at any
\* moment, with a claim in flight or an executor that hands back, strands no job until
\* its lease expires.
RunningJobIsHeld ==
  faults = 0 =>
    \A j \in Job : job[j].status = "RUNNING" /\ job[j].expires > ClockLead =>
      \E d \in Dispatchers :
        /\ FenceOf(d).token = job[j].token
        /\ disp[d].at \in {"claimed", "executing", "controlling", "settling", "rechecking"}

\* A cancel or pause of a running job takes effect, whatever its executor does and
\* whether or not its process survives.
Requested(j) == job[j].status \in {"PAUSING", "CANCELLING"}
CommandsTakeEffect == \A j \in Job : Requested(j) ~> ~Requested(j)

\* An executor whose lease is gone does not work on for ever, even one that ignores
\* its signal: it ends or its process does.
WorksWithoutLease(d) == At(d, "executing") /\ ~Owns(FenceOf(d), 0)
UnleasedExecutorStops == \A d \in Dispatchers : WorksWithoutLease(d) ~> ~WorksWithoutLease(d)

\* The dispatchers use the queue as its specification allows: what is proved of
\* JobQueue for arbitrary callers holds under the real worker.
ImplementsJobQueue == Spec
=============================================================================
