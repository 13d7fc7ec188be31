---------------------------- MODULE JobLifecycle ----------------------------
(***************************************************************************)
(* What the queue promises to the services and executors that use it: every *)
(* job moves along the edges of its life cycle, a finished job stays as it  *)
(* is, and a lane executes at most one job at a time.                       *)
(*                                                                         *)
(* Attempts, clocks, leases and fences are abstracted: whether a lost       *)
(* execution is tried again or has failed is open, and so is the order of   *)
(* the queue.  JobQueue implements this specification                       *)
(* (JobQueue!ImplementsJobLifecycle); the modules of the business jobs are  *)
(* built on it.                                                             *)
(***************************************************************************)
CONSTANTS
  Job,     \* rows of system_jobs
  Lane,    \* execution lanes
  LaneOf   \* LaneOf[j] : the lane of job j

VARIABLE status  \* status[j] : system_jobs.status

WaitingStatus == {"PENDING", "RETRY_WAIT"}
ExecutingStatus == {"RUNNING", "PAUSING", "CANCELLING"}
LiveStatus == WaitingStatus \union ExecutingStatus \union {"PAUSED"}
TerminalStatus == {"COMPLETED", "FAILED", "SKIPPED", "CANCELLED"}
Status == {"ABSENT"} \union LiveStatus \union TerminalStatus

\* What a transaction of the queue or a command may make of a job in each status.
Successors(s) ==
  CASE s = "ABSENT" -> {"PENDING"}
    [] s \in WaitingStatus -> {"RUNNING", "PAUSED", "CANCELLED", "SKIPPED"}
    [] s = "PAUSED" -> {"PENDING", "CANCELLED"}
    [] s = "RUNNING" -> (Status \ {"ABSENT"})
    [] s = "PAUSING" -> {"PAUSED", "CANCELLING", "CANCELLED"}
    [] s = "CANCELLING" -> {"CANCELLED"}
    [] s \in TerminalStatus -> {}

OneExecutes ==
  \A i, j \in Job : /\ status[i] \in ExecutingStatus /\ status[j] \in ExecutingStatus
                    /\ LaneOf[i] = LaneOf[j]
                    => i = j

Init == status = [j \in Job |-> "ABSENT"]

\* One transaction may move several jobs: a claim recovers a lost execution, sweeps
\* jobs whose window closed and starts another job.
Next ==
  /\ status' \in [Job -> Status]
  /\ \A j \in Job : status'[j] # status[j] => status'[j] \in Successors(status[j])
  /\ OneExecutes'

Spec == Init /\ [][Next]_status
=============================================================================
