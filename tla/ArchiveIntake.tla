--------------------------- MODULE ArchiveIntake ---------------------------
(***************************************************************************)
(* The archive inbox: rows of archive_intake_items together with the       *)
(* resolver jobs that work on them.                                        *)
(*                                                                         *)
(* Three programs write an item: the App's inbox commands                  *)
(* (services/archive-intake), the generic job commands, which know of      *)
(* resolver jobs (job-command-service.ts), and the worker: the resolver    *)
(* executor (job-executors/src/archive/resolver-executor.ts) and the       *)
(* recovery of its lane's lease (queue-repository.ts).  Each writes item   *)
(* and job in one transaction.  The job's rows and operations are those of *)
(* JobQueue; its other lane and its automatic jobs do not occur here.      *)
(*                                                                         *)
(* The dispatcher is reduced to what an item can notice.  An execution     *)
(* whose first transaction failed is settled by the dispatcher without its *)
(* item; one whose finalization failed is left to the recovery.            *)
(*                                                                         *)
(* Abstractions.  Two items with the same UrlOf carry the same link; items *)
(* with the same IdentityOf turn out to be the same work once resolved     *)
(* (providerKey and externalId).  Whether a resolved snapshot has expired  *)
(* and whether a failure may be retried are left open, so READY may be     *)
(* taken for STALE.  The order of the queue is left open, and so is        *)
(* whether it is paused: the switch only keeps the lane from claiming.     *)
(* Enqueueing into the archive ends the item's story here.                 *)
(***************************************************************************)
EXTENDS JobQueue

CONSTANTS
  Item,        \* inbox items
  ItemOf,      \* ItemOf[j] : the item in the payload of job j
  UrlOf,       \* UrlOf[i] : the submitted link
  IdentityOf,  \* IdentityOf[i] : the work that link leads to
  Capacity,    \* INTAKE_CAPACITY
  ResolveRequest,  \* the job of an item, submitted or retried (MANUAL also stands for RETRY)
  MaxFaults      \* bound: first transactions that fail

\* The jobs are those of the resolver, one link leads to one work, and the inbox is a table.
ASSUME IntakeAssumption ==
  /\ ItemOf \in [Job -> Item]
  /\ \A j \in Job : LaneOf[j] = ResolveLane
  /\ \A i, k \in Item : UrlOf[i] = UrlOf[k] => IdentityOf[i] = IdentityOf[k]
  /\ IsFiniteSet(Item)
  /\ Capacity \in Nat /\ MaxFaults \in Nat
  /\ ResolveRequest \in Requests
  /\ ResolveRequest.source = "MANUAL" /\ ResolveRequest.deadline = {}

VARIABLES
  item,   \* archive_intake_items
  stage,  \* stage[t] : how far the execution with token t has come
  faults  \* failed first transactions so far

intakeVars == <<job, lease, fences, writer, commands, resolvePaused, item, stage, faults>>

ActiveStatus == {"QUEUED", "RESOLVING", "RETRY_WAIT", "READY"}
WaitingStatus == {"QUEUED", "RESOLVING", "RETRY_WAIT"}

ItemRow ==
  [status : ActiveStatus \union {"ABSENT", "ENQUEUED", "FAILED", "CANCELLED", "DUPLICATE"},
   job : Job \union {NoJob},         \* currentSystemJobId
   cancelRequested : BOOLEAN,
   identified : BOOLEAN]             \* providerKey and externalId are set

NewItem(status, j) ==
  [status |-> status, job |-> j, cancelRequested |-> FALSE, identified |-> FALSE]

Active == {i \in Item : item[i].status \in ActiveStatus}
HasCapacity == Cardinality(Active) < Capacity

\* The unique index on the links of active items.
LinkIsFree(i) == \A k \in Active \ {i} : UrlOf[k] # UrlOf[i]

\* A lookup that finds the item itself.
SameWorkBug(i) ==
  {k \in Item : /\ item[k].identified /\ IdentityOf[k] = IdentityOf[i]
                /\ item[k].status \in ActiveStatus \ {"QUEUED"}}

\* The others of the same work in the unique index on the identities of active items;
\* a queued item is not in it.
SameWork(i) ==
  {k \in Item \ {i} : /\ item[k].identified /\ IdentityOf[k] = IdentityOf[i]
                      /\ item[k].status \in ActiveStatus \ {"QUEUED"}}

\* The index refuses to take item i in.
Collides(i) == item[i].identified /\ SameWork(i) # {}

ItemUnchanged == UNCHANGED <<item, faults>>
StageUnchanged == UNCHANGED <<stage, faults>>

-----------------------------------------------------------------------------
(* Inbox commands                                                          *)

\* createArchiveIntakeSubmission, per link, and replaceArchiveIntakeItem: an active
\* item with the same link makes the new one a record of the duplicate.
Submit(i) ==
  /\ item[i].status = "ABSENT"
  /\ \/ /\ ~LinkIsFree(i)
        /\ item' = [item EXCEPT ![i] = NewItem("DUPLICATE", NoJob)]
        /\ UNCHANGED vars
     \/ /\ LinkIsFree(i) /\ HasCapacity
        /\ \E j \in Job, r \in Reading :
             /\ ItemOf[j] = i
             /\ Enqueue(j, ResolveRequest, r)
             /\ item' = [item EXCEPT ![i] = NewItem("QUEUED", j)]
  /\ StageUnchanged

\* A replacement that finds the inbox full is kept as a failure.
ReplacementRejected(i) ==
  /\ item[i].status = "ABSENT" /\ LinkIsFree(i) /\ ~HasCapacity
  /\ \E old \in Item : item[old].status = "FAILED" /\ UrlOf[old] # UrlOf[i]
  /\ item' = [item EXCEPT ![i] = NewItem("FAILED", NoJob)]
  /\ UNCHANGED vars /\ StageUnchanged

\* A cancellation that leaves a job alone which has not touched the item.
CancelItemBug(i) ==
  LET running == item[i].status = "RESOLVING"
  IN /\ item[i].status \in ActiveStatus
     /\ job' = IF running THEN [job EXCEPT ![item[i].job] = Cancelled(@, "RUNNING")] ELSE job
     /\ item' = [item EXCEPT ![i].cancelRequested = TRUE,
                             ![i].status = IF running THEN @ ELSE "CANCELLED"]
     /\ UNCHANGED <<lease, fences, writer, commands, resolvePaused>> /\ StageUnchanged

\* cancelIntakeItem.  The item's status decides how the job is cancelled: a job
\* whose execution has not touched the item yet is ended on the spot.
CancelItem(i) ==
  LET j == item[i].job
      running == item[i].status = "RESOLVING"
      over == job[j].status \in TerminalStatus
  IN /\ item[i].status \in ActiveStatus
     /\ running /\ ~over => Executing(LaneOf[j]) \subseteq {j}
     /\ job' = IF over THEN job
               ELSE [job EXCEPT ![j] = Cancelled(@, IF running THEN "RUNNING" ELSE "PENDING")]
     /\ item' = [item EXCEPT ![i].cancelRequested = TRUE,
                             ![i].status = IF running THEN @ ELSE "CANCELLED"]
     /\ UNCHANGED <<lease, fences, writer, commands, resolvePaused>> /\ StageUnchanged

\* A retry that keeps what the item said before.
RequeuedBug(row, j) == [row EXCEPT !.job = j, !.cancelRequested = FALSE]

Requeued(row, j) ==
  [row EXCEPT !.status = "QUEUED", !.job = j, !.cancelRequested = FALSE]

\* A retry that does not look at the capacity.
RetryItemBug(i) ==
  /\ item[i].status \in {"FAILED", "CANCELLED", "READY"}
  /\ LinkIsFree(i)
  /\ \E j \in Job, r \in Reading :
       /\ ItemOf[j] = i
       /\ Enqueue(j, ResolveRequest, r)
       /\ item' = [item EXCEPT ![i] = Requeued(@, j)]
  /\ StageUnchanged

\* retryIntakeItem, with a new job; READY stands for a snapshot that has expired.
RetryItem(i) ==
  /\ item[i].status \in {"FAILED", "CANCELLED", "READY"}
  /\ item[i].status # "READY" => HasCapacity
  /\ LinkIsFree(i)
  /\ item[i].identified =>
       \A k \in Active \ {i} : ~(item[k].identified /\ IdentityOf[k] = IdentityOf[i])
  /\ \E j \in Job, r \in Reading :
       /\ ItemOf[j] = i
       /\ Enqueue(j, ResolveRequest, r)
       /\ item' = [item EXCEPT ![i] = Requeued(@, j)]
  /\ StageUnchanged

\* enqueueOne: the item becomes an archive import, or joins an active one.
EnqueueItem(i) ==
  /\ item[i].status = "READY"
  /\ item' = [item EXCEPT ![i].status = "ENQUEUED"]
  /\ UNCHANGED vars /\ StageUnchanged

-----------------------------------------------------------------------------
(* Job commands on a resolver job                                          *)

\* cancelJobCommand takes the item along; pause and resume leave it alone.  Each takes
\* effect only if the status is still the one it read, so read and update are one step.
JobCommand(kind, j) ==
  LET c == [kind |-> kind, job |-> j, seen |-> job[j].status]
      bound == {i \in Item : item[i].job = j}
      direct == c.seen \in IdleStatus
  IN /\ job[j].status \in Accepts(kind)
     /\ \E r \in Reading : ApplyCommand(c, r)
     /\ IF kind = "cancel"
        THEN /\ bound # {}
             /\ item' = [i \in Item |->
                  IF i \notin bound THEN item[i]
                  ELSE [item[i] EXCEPT !.cancelRequested = TRUE,
                                       !.status = IF direct THEN "CANCELLED" ELSE @]]
        ELSE UNCHANGED item
     /\ StageUnchanged

\* retryJobCommand binds the item to the new job; it asks for no capacity.
RetryJob(old, j) ==
  /\ ItemOf[j] = ItemOf[old]
  /\ \E r \in Reading : RetryAsNewJob(old, j, r)
  /\ LET i == ItemOf[old]
     IN /\ item[i].job = old /\ item[i].status \in {"FAILED", "CANCELLED"}
        /\ LinkIsFree(i)
        /\ item' = [item EXCEPT ![i] = Requeued(@, j)]
  /\ StageUnchanged

-----------------------------------------------------------------------------
(* The resolver lane                                                       *)

\* A recovery that leaves the items to the next execution.
RecoveredItemsBug(l, r) == item

\* recoverExpiredExecutionInTransaction takes the recovered job's item along.
RecoveredItems(l, r) ==
  [i \in Item |->
     IF item[i].job \in Abandoned(l, r) /\ item[i].status \in {"QUEUED", "RESOLVING"}
     THEN LET outcome == Swept(l, r)[item[i].job].status
          IN [item[i] EXCEPT
                !.status = IF outcome \in {"CANCELLED", "FAILED"} THEN outcome ELSE "RETRY_WAIT"]
     ELSE item[i]]

\* The index refuses what the recovery writes, and the claim with it is rolled back.
RecoveryCollides(l, r) ==
  \E i \in Item : Collides(i) /\ RecoveredItems(l, r)[i].status = "RETRY_WAIT"

ResolverClaims(l) ==
  \E r \in Reading :
    /\ ~RecoveryCollides(l, r)
    /\ item' = RecoveredItems(l, r)
    /\ UNCHANGED faults
    /\ \/ ClaimNothing(l, r) /\ UNCHANGED stage
       \/ /\ \E w \in Worker : ClaimJob(w, l, r, FALSE)
          /\ \E f \in fences' \ fences : stage' = [stage EXCEPT ![f.token] = "starting"]

\* The first transaction of executeArchiveResolveItem takes the item by its status.
\* It fails when the index refuses the item.
Begins(f) ==
  LET i == ItemOf[f.job]
  IN /\ stage[f.token] = "starting"
     /\ item[i].job = f.job /\ item[i].status \in WaitingStatus /\ ~item[i].cancelRequested
     /\ \E r \in Reading :
          IF Collides(i)
          THEN Owns(f, r) /\ job[f.job].status = "RUNNING" /\ UNCHANGED vars
          ELSE Mutate(f, r)
     /\ item' = IF Collides(i) THEN item ELSE [item EXCEPT ![i].status = "RESOLVING"]
     /\ stage' = [stage EXCEPT ![f.token] = IF Collides(i) THEN "thrown" ELSE "resolving"]
     /\ UNCHANGED faults

\* The first transaction fails, or commits and its reply gets lost.
BeginFails(f) ==
  LET i == ItemOf[f.job]
  IN /\ stage[f.token] = "starting" /\ faults < MaxFaults
     /\ \/ UNCHANGED vars /\ UNCHANGED item
        \/ /\ ~Collides(i)
           /\ \E r \in Reading : Mutate(f, r)
           /\ item' = [item EXCEPT ![i].status = "RESOLVING"]
     /\ stage' = [stage EXCEPT ![f.token] = "thrown"]
     /\ faults' = faults + 1

\* The dispatcher settles without the item: for an executor whose first transaction
\* threw, by the job row's own directive (a command makes the fence refuse it), and to
\* hand back a job it was told to stop.
SettleWithoutItem(f) ==
  /\ stage[f.token] \in {"starting", "thrown"}
  /\ \E r \in Reading :
       CASE job[f.job].status = "CANCELLING" -> Cancel(f, r, FALSE)
         [] job[f.job].status = "PAUSING" -> Pause(f, r, FALSE)
         [] job[f.job].status \notin {"CANCELLING", "PAUSING"} ->
              \/ stage[f.token] = "thrown" /\ Conclude(f, r, "FAILED", FALSE)
              \/ Release(f, r, FALSE)
  /\ stage' = [stage EXCEPT ![f.token] = "none"]
  /\ ItemUnchanged

\* A finalization that moves the item on without asking what was requested.
FinalizeBug(f) ==
  LET i == ItemOf[f.job]
  IN /\ stage[f.token] = "resolving"
     /\ item[i].job = f.job /\ item[i].status = "RESOLVING"
     /\ \E r \in Reading : Settle(f, r, ExecutingStatus, Detached(job[f.job], "COMPLETED"), TRUE)
     /\ item' = [item EXCEPT ![i].status = "READY", ![i].identified = TRUE]
     /\ stage' = [stage EXCEPT ![f.token] = "none"]
     /\ UNCHANGED faults

\* finalizeResolved and finalizeResolutionError: the outcome of the job and the new
\* status of the item commit together.
Finalize(f) ==
  LET i == ItemOf[f.job]
      Becomes(status) == item' = [item EXCEPT ![i].status = status]
      Resolved(status) == item' = [item EXCEPT ![i].status = status, ![i].identified = TRUE]
  IN /\ stage[f.token] = "resolving"
     /\ item[i].job = f.job /\ item[i].status = "RESOLVING"
     /\ \E r \in Reading :
          CASE job[f.job].status = "CANCELLING" -> Becomes("CANCELLED") /\ Cancel(f, r, TRUE)
            [] job[f.job].status = "PAUSING" -> Becomes("RETRY_WAIT") /\ Pause(f, r, TRUE)
            [] job[f.job].status \notin {"CANCELLING", "PAUSING"} ->
                 \/ /\ IF SameWork(i) # {} THEN Resolved("DUPLICATE")
                       ELSE ~item[i].cancelRequested /\ Resolved("READY")
                    /\ Conclude(f, r, "COMPLETED", TRUE)
                 \/ /\ Becomes("RETRY_WAIT")
                    /\ Release(f, r, TRUE) \/ Retry(f, r, 0, TRUE) \/ Yield(f, r, 0)
                 \/ Becomes("FAILED") /\ Conclude(f, r, "FAILED", TRUE)
     /\ stage' = [stage EXCEPT ![f.token] = "none"]
     /\ UNCHANGED faults

\* An end that leaves the bookkeeping of the execution behind.
StopsBug(f) == Forget(f) /\ UNCHANGED stage /\ ItemUnchanged

\* The execution is over, its finalization failed, or its process is gone.
Stops(f) ==
  /\ Forget(f)
  /\ stage' = [stage EXCEPT ![f.token] = "none"]
  /\ ItemUnchanged

-----------------------------------------------------------------------------
IntakeInit ==
  /\ Init
  /\ item = [i \in Item |-> NewItem("ABSENT", NoJob)]
  /\ stage = [t \in Token |-> "none"]
  /\ faults = 0

IntakeNext ==
  \/ \E i \in Item :
       Submit(i) \/ ReplacementRejected(i) \/ CancelItem(i) \/ RetryItem(i) \/ EnqueueItem(i)
  \/ \E kind \in {"cancel", "pause", "resume"}, j \in Job : JobCommand(kind, j)
  \/ \E old, j \in Job : RetryJob(old, j)
  \/ \E l \in Lane : ResolverClaims(l)
  \/ \E f \in fences :
       Begins(f) \/ BeginFails(f) \/ SettleWithoutItem(f) \/ Finalize(f) \/ Stops(f)
  \/ \E f \in fences, r \in Reading : Heartbeat(f, r) /\ UNCHANGED stage /\ ItemUnchanged
  \/ Tick /\ UNCHANGED stage /\ ItemUnchanged

IntakeSpec == IntakeInit /\ [][IntakeNext]_intakeVars

-----------------------------------------------------------------------------
(* Properties                                                              *)

IntakeTypeOK ==
  /\ item \in [Item -> ItemRow]
  /\ stage \in [Token -> {"none", "starting", "resolving", "thrown"}]
  /\ faults \in 0..MaxFaults
  /\ \A t \in Token : stage[t] # "none" => \E f \in fences : f.token = t

\* No job works on an item in vain: a job that is not over is its item's current job,
\* and the item waits for it.  So a running execution always finds its item as the
\* first transaction expects it, and a retried item never has two jobs at work.
LiveJobServesItem ==
  \A j \in Job : job[j].status \notin TerminalStatus \union {"ABSENT"} =>
    /\ item[ItemOf[j]].job = j
    /\ item[ItemOf[j]].status \in WaitingStatus
    /\ job[j].status \in {"RUNNING", "PAUSING"} => ~item[ItemOf[j]].cancelRequested

\* At most one item is RESOLVING, and only while its job executes, unless a first
\* transaction failed: every way out of an execution, the recovery included, takes the item along.
ResolvingItemExecutes ==
  faults = 0 =>
    \A i \in Item : item[i].status = "RESOLVING" =>
      /\ job[item[i].job].status \in ExecutingStatus
      /\ \A k \in Item : item[k].status = "RESOLVING" => k = i

\* Once the cancellation of an item is recorded it is not offered for archiving, unless
\* somebody retries it, however cancellation and resolution race.
CancelledItemStaysOut ==
  \A i \in Item : item[i].cancelRequested => item[i].status \notin {"READY", "ENQUEUED"}

\* The inbox tells the truth about the work behind it: an item is offered for archiving
\* only when its job completed, and shown as failed only when its job did.
ItemAgreesWithJob ==
  \A i \in Item : item[i].job # NoJob =>
    /\ item[i].status \in {"READY", "ENQUEUED", "DUPLICATE"} => job[item[i].job].status = "COMPLETED"
    /\ item[i].status = "FAILED" => job[item[i].job].status = "FAILED"

\* No work is a duplicate of nothing: an item put aside as a duplicate, by its link or by
\* what the link led to, leaves another item of that work that was not, through every
\* later retry and every race of two resolutions.
DuplicateHasOriginal ==
  \A i \in Item : item[i].status = "DUPLICATE" =>
    \E k \in Item : /\ IdentityOf[k] = IdentityOf[i]
                    /\ item[k].status \notin {"ABSENT", "DUPLICATE"}

\* Only the generic retry of a job takes the inbox beyond its capacity.
OnlyJobRetryOverfills ==
  [][Cardinality(Active') > Capacity /\ Cardinality(Active') > Cardinality(Active)
       => \E old, j \in Job : RetryJob(old, j)]_intakeVars

\* An item whose job is over without it.
Stranded(i) == item[i].status \in WaitingStatus /\ job[item[i].job].status \in TerminalStatus

\* Only work that its execution had not begun on is ever left behind: by a dispatcher
\* settling without the item, or by the recovery of a last attempt whose item still
\* waited for its retry.  Whatever ends an execution later, and every command, takes
\* the item along.
OnlyUnbegunWorkIsStranded ==
  [][\A i \in Item : Stranded(i)' /\ ~Stranded(i) =>
       \/ item[i].status = "RETRY_WAIT"
       \/ stage[job[item[i].job].token] \in {"starting", "thrown"}]_intakeVars

\* "After a restart of the worker or the expiry of its lease the queue recovers"
\* (docs/architecture/background-job-business-flows.md, step 7): a recovery that is due
\* can commit.
LostExecutionIsRecoverable ==
  \A l \in Lane : Abandoned(l, 0) # {} => ~RecoveryCollides(l, 0)
=============================================================================
