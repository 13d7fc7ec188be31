-------------------------- MODULE Dispatcher_proofs --------------------------
(***************************************************************************)
(* Proofs about Dispatcher, for every number of processes, lanes and jobs  *)
(* and every bound on faults and stops.                                    *)
(*                                                                         *)
(* The worker implements the queue's specification: each call a dispatcher *)
(* makes is one the queue allows to the holder of the fence, because the   *)
(* fences in use are exactly those the dispatchers hold, one each.  The    *)
(* invariants of JobQueue_proofs therefore hold of the worker too, and the *)
(* dispatchers' own invariants are built on them.                          *)
(***************************************************************************)
EXTENDS Dispatcher, JobQueue_proofs

\* No two dispatchers know the same execution.
FencesDistinct ==
  \A d, e \in Dispatchers : FenceOf(d) # NoFence /\ FenceOf(d) = FenceOf(e) => d = e

\* Between executions, and until the claim's reply is handled, nothing is left of
\* the last one.
FreshWhenIdle ==
  \A d \in Dispatchers :
    disp[d].at \in {"polling", "claimed", "exited"} =>
      /\ disp[d].reason = "none" /\ disp[d].outcome = "none"
      /\ disp[d].finalization = "none"

DInv == IInv /\ DispatcherTypeOK /\ FencesDistinct /\ FreshWhenIdle

-----------------------------------------------------------------------------
(* States of a dispatcher                                                  *)

\* Dispatcher d goes to state s.  It keeps its fence, gives it up, or takes one
\* nobody has.
GoesTo(d, s) ==
  /\ disp' = [disp EXCEPT ![d] = s]
  /\ s.fence = NoFence <=> s.at \in {"polling", "exited"}
  /\ s.fence = FenceOf(d) \/ s.fence \notin fences
  /\ fences' = (fences \ {FenceOf(d)}) \union ({s.fence} \ {NoFence})
  /\ s.at \in {"polling", "claimed", "exited"} =>
       s.reason = "none" /\ s.outcome = "none" /\ s.finalization = "none"

LEMMA FenceFacts ==
  ASSUME DispatcherTypeOK, IInv, NEW d \in Dispatchers
  PROVE  /\ NoFence \notin Fence /\ NoFence \notin fences
         /\ disp[d] \in DispatcherState
         /\ FenceOf(d) # NoFence => FenceOf(d) \in fences /\ FenceOf(d) \in Fence
         /\ disp[d].at \notin {"polling", "exited"} => FenceOf(d) \in fences
  <1>1. NoFence \notin Fence
    BY QueueAssumption DEF NoFence, Fence
  <1>2. NoFence \notin fences
    BY <1>1 DEF IInv, TypeOK
  <1>3. disp[d] \in DispatcherState
    BY DEF DispatcherTypeOK
  <1>4. FenceOf(d) # NoFence => FenceOf(d) \in fences
    BY DEF DispatcherTypeOK
  <1> QED BY <1>1, <1>2, <1>3, <1>4 DEF DispatcherTypeOK, IInv, TypeOK

LEMMA IdleState ==
  ASSUME NEW at \in {"polling", "exited"}
  PROVE  /\ Idle(at) \in DispatcherState /\ Idle(at).at = at /\ Idle(at).fence = NoFence
         /\ Idle(at).reason = "none" /\ Idle(at).outcome = "none"
         /\ Idle(at).finalization = "none"
  BY DEF Idle, DispatcherState

\* The invariants of the dispatchers survive a step of one of them.
LEMMA GoesToKeeps ==
  ASSUME IInv, DispatcherTypeOK, FencesDistinct, FreshWhenIdle,
         NEW d \in Dispatchers, NEW s \in DispatcherState, GoesTo(d, s)
  PROVE  /\ disp' \in [Dispatchers -> DispatcherState]
         /\ fences' = {FenceOf(e)' : e \in Dispatchers} \ {NoFence}
         /\ \A e \in Dispatchers : FenceOf(e)' = NoFence <=> disp'[e].at \in {"polling", "exited"}
         /\ FencesDistinct' /\ FreshWhenIdle'
  <1>1. disp \in [Dispatchers -> DispatcherState]
    BY DEF DispatcherTypeOK
  <1>2. /\ disp' \in [Dispatchers -> DispatcherState]
        /\ \A e \in Dispatchers : disp'[e] = IF e = d THEN s ELSE disp[e]
        /\ \A e \in Dispatchers : FenceOf(e)' = IF e = d THEN s.fence ELSE FenceOf(e)
    BY <1>1 DEF GoesTo, FenceOf
  <1>3. /\ fences = {FenceOf(e) : e \in Dispatchers} \ {NoFence}
        /\ \A e \in Dispatchers : FenceOf(e) = NoFence <=> disp[e].at \in {"polling", "exited"}
    BY DEF DispatcherTypeOK
  <1>4. /\ s.fence = NoFence <=> s.at \in {"polling", "exited"}
        /\ s.fence = FenceOf(d) \/ s.fence \notin fences
        /\ fences' = (fences \ {FenceOf(d)}) \union ({s.fence} \ {NoFence})
        /\ s.at \in {"polling", "claimed", "exited"} =>
             s.reason = "none" /\ s.outcome = "none" /\ s.finalization = "none"
    BY DEF GoesTo
  <1>5. \A e \in Dispatchers \ {d} : FenceOf(e) = NoFence \/ FenceOf(e) # FenceOf(d)
    BY DEF FencesDistinct
  <1>6. fences' = {FenceOf(e)' : e \in Dispatchers} \ {NoFence}
    <2>1. ASSUME NEW f \in fences' PROVE f \in {FenceOf(e)' : e \in Dispatchers} \ {NoFence}
      <3>1. CASE f = s.fence /\ s.fence # NoFence
        <4>1. f = FenceOf(d)'
          BY <1>2, <3>1
        <4> QED BY <3>1, <4>1
      <3>2. CASE f \in fences \ {FenceOf(d)}
        <4>1. f # NoFence /\ f \in {FenceOf(e) : e \in Dispatchers}
          BY <1>3, <3>2
        <4>2. PICK e \in Dispatchers : f = FenceOf(e)
          BY <4>1
        <4>3. e # d
          BY <3>2, <4>2
        <4>4. f = FenceOf(e)'
          BY <1>2, <4>2, <4>3
        <4> QED BY <4>1, <4>4
      <3> QED BY <1>4, <2>1, <3>1, <3>2
    <2>2. ASSUME NEW e \in Dispatchers, FenceOf(e)' # NoFence PROVE FenceOf(e)' \in fences'
      BY <1>2, <1>3, <1>4, <1>5, <2>2
    <2> QED BY <2>1, <2>2
  <1>7. \A e \in Dispatchers : FenceOf(e)' = NoFence <=> disp'[e].at \in {"polling", "exited"}
    BY <1>2, <1>3, <1>4
  <1>8. FencesDistinct'
    <2> SUFFICES ASSUME NEW e \in Dispatchers, NEW g \in Dispatchers,
                        FenceOf(e)' # NoFence, FenceOf(e)' = FenceOf(g)'
                 PROVE  e = g
      BY DEF FencesDistinct
    <2>1. \A x \in Dispatchers \ {d} : FenceOf(x) # NoFence => FenceOf(x) \in fences
      BY <1>3
    <2>2. CASE e = d \/ g = d
      BY <1>2, <1>4, <1>5, <2>1, <2>2
    <2>3. CASE e # d /\ g # d
      BY <1>2, <2>3 DEF FencesDistinct
    <2> QED BY <2>2, <2>3
  <1>9. FreshWhenIdle'
    BY <1>2, <1>4 DEF FreshWhenIdle
  <1> QED BY <1>2, <1>6, <1>7, <1>8, <1>9

-----------------------------------------------------------------------------
(* The actions of a dispatcher, seen by the queue                          *)

LEMMA KeepsFence ==
  ASSUME DispatcherTypeOK, NEW d \in Dispatchers, NEW s \in DispatcherState,
         disp' = [disp EXCEPT ![d] = s], s.fence = FenceOf(d),
         s.at \notin {"polling", "claimed", "exited"},
         disp[d].at \notin {"polling", "exited"}, fences' = fences
  PROVE  GoesTo(d, s)
  <1>1. FenceOf(d) # NoFence /\ FenceOf(d) \in fences
    BY DEF DispatcherTypeOK
  <1> QED BY <1>1 DEF GoesTo

LEMMA DropsFence ==
  ASSUME IInv, DispatcherTypeOK, NEW d \in Dispatchers, NEW place \in {"polling", "exited"},
         disp' = [disp EXCEPT ![d] = Idle(place)], fences' = fences \ {FenceOf(d)}
  PROVE  GoesTo(d, Idle(place))
  <1>1. NoFence \notin fences
    BY FenceFacts
  <1>2. Idle(place).at = place /\ Idle(place).fence = NoFence /\ Idle(place).reason = "none"
        /\ Idle(place).outcome = "none" /\ Idle(place).finalization = "none"
    BY IdleState
  <1> QED BY <1>1, <1>2 DEF GoesTo

\* What the settling calls of the queue are to the queue.
LEMMA CallsAreSteps ==
  ASSUME NEW f \in fences, NEW r \in Reading
  PROVE  /\ Heartbeat(f, r) \/ Mutate(f, r) => Next /\ fences' = fences
         /\ \A j \in Job, q \in Requests : EnqueueChild(f, r, j, q) => Next /\ fences' = fences
         /\ \A delay \in 0..MaxDelay : Yield(f, r, delay) => Next /\ fences' = fences
         /\ \A outcome \in Outcome \union {"none"}, withWrite \in BOOLEAN :
              SettlesAs(f, r, outcome, withWrite) => Next /\ fences' = fences
         /\ Forget(f) => Next
  <1>1. Heartbeat(f, r) \/ Mutate(f, r) => Next /\ fences' = fences
    BY DEF Next, Execution, Heartbeat, Mutate
  <1>2. \A j \in Job, q \in Requests : EnqueueChild(f, r, j, q) => Next /\ fences' = fences
    BY DEF Next, Execution, EnqueueChild
  <1>3. \A delay \in 0..MaxDelay : Yield(f, r, delay) => Next /\ fences' = fences
    BY DEF Next, Execution, Yield, Settle
  <1>4. ASSUME NEW outcome \in Outcome \union {"none"}, NEW withWrite \in BOOLEAN,
               SettlesAs(f, r, outcome, withWrite)
        PROVE  Next /\ fences' = fences
    <2>1. \/ outcome \in {"COMPLETED", "FAILED", "SKIPPED"} /\ Conclude(f, r, outcome, withWrite)
          \/ \E delay \in 0..MaxDelay : Retry(f, r, delay, withWrite)
          \/ Cancel(f, r, withWrite) \/ Pause(f, r, withWrite) \/ Release(f, r, withWrite)
      BY <1>4 DEF SettlesAs, Outcome, ExecutorOutcome, TerminalStatus
    <2>2. Execution(f)
      BY <2>1 DEF Execution
    <2>3. fences' = fences
      BY <2>1 DEF Conclude, Retry, Cancel, Pause, Release, Settle
    <2> QED BY <2>2, <2>3 DEF Next
  <1>5. Forget(f) => Next
    BY DEF Next, Execution
  <1> QED BY <1>1, <1>2, <1>3, <1>4, <1>5

\* What every step of dispatcher d comes to: a step of the queue or none, and a state
\* of its own.
StepOf(d) ==
  /\ [Next]_vars
  /\ \/ \E s \in DispatcherState : GoesTo(d, s)
     \/ UNCHANGED <<disp, fences>>

LEMMA PollStep ==
  ASSUME IInv, DispatcherTypeOK, FencesDistinct, FreshWhenIdle, NEW d \in Dispatchers,
         PollNothing(d) \/ PollJob(d)
  PROVE  StepOf(d)
  <1>1. d[1] \in Process /\ d[2] \in Lane /\ WorkerOf[d[1]] \in Worker
    BY DispatcherAssumption DEF Dispatchers
  <1>2. CASE PollNothing(d)
    <2>1. PICK r \in Reading : ClaimNothing(d[2], r)
      BY <1>2 DEF PollNothing
    <2>2. Next
      BY <1>1, <2>1 DEF Next, Claim
    <2> QED BY <1>2, <2>1, <2>2 DEF PollNothing, ClaimNothing, StepOf
  <1>3. CASE PollJob(d)
    <2>1. PICK r \in Reading, windowOpen \in BOOLEAN :
            ClaimJob(WorkerOf[d[1]], d[2], r, windowOpen)
      BY <1>3 DEF PollJob
    <2>2. Next
      BY <1>1, <2>1 DEF Next, Claim
    <2>3. IInv'
      BY <2>2, NextIInv
    <2>4. PICK f \in fences' \ fences :
            disp' = [disp EXCEPT ![d].at = "claimed", ![d].fence = f]
      BY <1>3 DEF PollJob
    <2>5. f \in Fence
      BY <2>3, <2>4 DEF IInv, TypeOK
    <2> DEFINE s == [disp[d] EXCEPT !.at = "claimed", !.fence = f]
    <2>6. disp[d] \in DispatcherState /\ disp[d].at = "polling" /\ FenceOf(d) = NoFence
      BY <1>3 DEF DispatcherTypeOK, PollJob, At
    <2>7. disp \in [Dispatchers -> DispatcherState]
      BY DEF DispatcherTypeOK
    <2>8. disp' = [disp EXCEPT ![d] = s]
      BY <2>4, <2>7
    <2>9. /\ s \in DispatcherState /\ s.fence = f /\ s.at = "claimed"
          /\ s.reason = "none" /\ s.outcome = "none" /\ s.finalization = "none"
      BY <2>5, <2>6 DEF DispatcherState, FreshWhenIdle
    <2>10. f # NoFence /\ NoFence \notin fences
      BY <2>5, FenceFacts
    <2>11. fences' = fences \union {f}
      BY <2>1, <2>4 DEF ClaimJob
    <2> HIDE DEF s
    <2>12. GoesTo(d, s)
      BY <2>4, <2>6, <2>8, <2>9, <2>10, <2>11 DEF GoesTo
    <2> QED BY <2>2, <2>9, <2>12 DEF StepOf
  <1> QED BY <1>2, <1>3

LEMMA AbortedState ==
  ASSUME NEW s \in DispatcherState, NEW reason \in Interruption
  PROVE  /\ Aborted(s, reason) \in DispatcherState
         /\ Aborted(s, reason).at = s.at /\ Aborted(s, reason).fence = s.fence
         /\ Aborted(s, reason).outcome = s.outcome /\ Aborted(s, reason).monitor = "off"
         /\ Aborted(s, reason).finalization = s.finalization
         /\ Aborted(s, reason).reason = IF s.reason = "none" THEN reason ELSE s.reason
  BY DEF Aborted, DispatcherState

LEMMA MonitorStep ==
  ASSUME IInv, DispatcherTypeOK, NEW d \in Dispatchers,
         \/ MonitorHeartbeats(d) \/ MonitorLosesLease(d) \/ MonitorReadsControl(d)
         \/ MonitorFails(d)
  PROVE  StepOf(d)
  <1> DEFINE executing(s) ==
        /\ s \in DispatcherState /\ s.at = "executing" /\ s.fence = FenceOf(d)
        /\ disp' = [disp EXCEPT ![d] = s]
  <1>1. /\ disp \in [Dispatchers -> DispatcherState] /\ disp[d] \in DispatcherState
        /\ disp[d].at = "executing" /\ FenceOf(d) \in fences
    BY FenceFacts
    DEF DispatcherTypeOK, MonitorHeartbeats, MonitorLosesLease, MonitorReadsControl, MonitorFails, At
  <1>2. ASSUME NEW s, executing(s), fences' = fences, [Next]_vars
        PROVE  StepOf(d)
    BY <1>1, <1>2, KeepsFence DEF StepOf
  <1>3. ASSUME NEW m \in {"heartbeat", "control", "off"}
        PROVE  disp' = [disp EXCEPT ![d].monitor = m] =>
                 executing([disp[d] EXCEPT !.monitor = m])
    BY <1>1 DEF DispatcherState, FenceOf
  <1>4. ASSUME NEW reason \in Interruption
        PROVE  disp' = [disp EXCEPT ![d] = Aborted(@, reason)] =>
                 executing(Aborted(disp[d], reason))
    BY <1>1, AbortedState DEF FenceOf
  <1> HIDE DEF executing
  <1>5. CASE MonitorHeartbeats(d)
    <2>1. Next /\ fences' = fences /\ disp' = [disp EXCEPT ![d].monitor = "control"]
      BY <1>1, <1>5, CallsAreSteps DEF MonitorHeartbeats
    <2> QED BY <1>2, <1>3, <2>1
  <1>6. CASE MonitorLosesLease(d)
    <2>1. UNCHANGED vars /\ disp' = [disp EXCEPT ![d] = Aborted(@, "LEASE_LOST")]
      BY <1>6 DEF MonitorLosesLease
    <2> QED BY <1>2, <1>4, <2>1 DEF vars, Interruption
  <1>7. CASE MonitorReadsControl(d)
    <2>1. /\ UNCHANGED vars
          /\ \/ disp' = [disp EXCEPT ![d] = [@ EXCEPT !.monitor = "heartbeat"]]
             \/ /\ Directive(RowOf(d)) # "CONTINUE"
                /\ disp' = [disp EXCEPT ![d] = Aborted(@, Directive(RowOf(d)))]
      BY <1>7 DEF MonitorReadsControl
    <2>2. Directive(RowOf(d)) # "CONTINUE" => Directive(RowOf(d)) \in Interruption
      BY DEF Directive, Interruption
    <2> QED BY <1>2, <1>3, <1>4, <2>1, <2>2 DEF vars
  <1>8. CASE MonitorFails(d)
    <2>1. /\ UNCHANGED vars
          /\ \/ disp' = [disp EXCEPT ![d].monitor = "off"]
             \/ disp' = [disp EXCEPT ![d] = Aborted(@, "LEASE_LOST")]
      BY <1>8 DEF MonitorFails
    <2> QED BY <1>2, <1>3, <1>4, <2>1 DEF vars, Interruption
  <1> QED BY <1>5, <1>6, <1>7, <1>8

LEMMA NormalizedOutcome ==
  ASSUME NEW f, NEW reason \in Interruption \union {"none"}, NEW result \in ExecutorOutcome
  PROVE  LET outcome == IF reason = "none" THEN result ELSE Interrupted(reason)
         IN /\ outcome \in Outcome /\ Normalized(f, outcome) \in Outcome
            /\ Normalized(f, outcome) = "paused" => reason = "PAUSE_REQUESTED"
            /\ Normalized(f, outcome) = "retry" => f.attempt < job[f.job].maxAttempts
  BY DEF Interrupted, Interruption, Normalized, Outcome, ExecutorOutcome

LEMMA ControlledOutcome ==
  ASSUME NEW row, NEW outcome \in Outcome \union {"none"}
  PROVE  Controlled(row, outcome) \in Outcome \union {"none"}
  BY DEF Controlled, Directive, Outcome

LEMMA ExecutorStep ==
  ASSUME IInv, DispatcherTypeOK, NEW d \in Dispatchers,
         \/ ExecutorWorks(d) \/ ExecutorFinalizes(d) \/ FinalizationRejected(d)
         \/ FinalizationFails(d) \/ ExecutorEnds(d)
  PROVE  StepOf(d)
  <1>1. /\ disp \in [Dispatchers -> DispatcherState] /\ disp[d] \in DispatcherState
        /\ disp[d].at = "executing" /\ FenceOf(d) \in fences
    BY FenceFacts
    DEF DispatcherTypeOK, ExecutorWorks, ExecutorFinalizes, FinalizationRejected,
        FinalizationFails, ExecutorEnds, At
  <1>2. ASSUME NEW s \in DispatcherState, disp' = [disp EXCEPT ![d] = s],
               s.fence = FenceOf(d), s.at \in {"executing", "leaving", "controlling"},
               fences' = fences, [Next]_vars
        PROVE  StepOf(d)
    BY <1>1, <1>2, KeepsFence DEF StepOf
  <1>3. ASSUME NEW m \in {"done", "rejected", "unknown"}, disp' = [disp EXCEPT ![d].finalization = m],
               fences' = fences, [Next]_vars
        PROVE  StepOf(d)
    <2>1. /\ disp' = [disp EXCEPT ![d] = [disp[d] EXCEPT !.finalization = m]]
          /\ [disp[d] EXCEPT !.finalization = m] \in DispatcherState
          /\ [disp[d] EXCEPT !.finalization = m].fence = FenceOf(d)
          /\ [disp[d] EXCEPT !.finalization = m].at = "executing"
      BY <1>1, <1>3 DEF DispatcherState, FenceOf
    <2> QED BY <1>2, <1>3, <2>1
  <1>4. CASE ExecutorWorks(d)
    <2>1. PICK r \in Reading :
            \/ Mutate(FenceOf(d), r)
            \/ \E j \in Job, q \in Requests : EnqueueChild(FenceOf(d), r, j, q)
      BY <1>4 DEF ExecutorWorks
    <2>2. Next /\ fences' = fences
      BY <1>1, <2>1, CallsAreSteps
    <2> QED BY <1>4, <2>2 DEF ExecutorWorks, StepOf
  <1>5. CASE ExecutorFinalizes(d)
    <2>1. PICK r \in Reading :
            \/ \E outcome \in Outcome :
                 SettlesAs(FenceOf(d), r, outcome, TRUE)
            \/ \E delay \in 0..MaxDelay : Yield(FenceOf(d), r, delay)
      BY <1>5 DEF ExecutorFinalizes
    <2>2. Next /\ fences' = fences
      BY <1>1, <2>1, CallsAreSteps DEF Outcome
    <2> QED BY <1>3, <1>5, <2>2 DEF ExecutorFinalizes
  <1>6. CASE FinalizationRejected(d) \/ FinalizationFails(d)
    BY <1>3, <1>6 DEF FinalizationRejected, FinalizationFails, vars
  <1>7. CASE ExecutorEnds(d)
    <2>1. PICK result \in ExecutorOutcome :
            LET outcome == IF disp[d].reason = "none" THEN result ELSE Interrupted(disp[d].reason)
                over == disp[d].finalization # "none" \/ disp[d].reason = "LEASE_LOST"
            IN disp' = [disp EXCEPT ![d].monitor = "off",
                                    ![d].at = IF over THEN "leaving" ELSE "controlling",
                                    ![d].outcome = IF over THEN "none"
                                                   ELSE Normalized(FenceOf(d), outcome)]
      BY <1>7 DEF ExecutorEnds
    <2> DEFINE outcome == IF disp[d].reason = "none" THEN result ELSE Interrupted(disp[d].reason)
               over == disp[d].finalization # "none" \/ disp[d].reason = "LEASE_LOST"
               place == IF over THEN "leaving" ELSE "controlling"
               next == IF over THEN "none" ELSE Normalized(FenceOf(d), outcome)
               s == [disp[d] EXCEPT !.monitor = "off", !.at = place, !.outcome = next]
    <2>2. next \in Outcome \union {"none"} /\ place \in {"leaving", "controlling"}
      BY <1>1, NormalizedOutcome DEF DispatcherState
    <2>3. disp' = [disp EXCEPT ![d].monitor = "off", ![d].at = place, ![d].outcome = next]
      BY <2>1
    <2> HIDE DEF place, next, over, outcome
    <2>4. disp' = [disp EXCEPT ![d] = s]
      BY <1>1, <2>3
    <2>5. s \in DispatcherState /\ s.fence = FenceOf(d) /\ s.at = place
      BY <1>1, <2>2 DEF DispatcherState, FenceOf
    <2> QED BY <1>2, <1>7, <2>2, <2>4, <2>5 DEF ExecutorEnds, vars
  <1> QED BY <1>4, <1>5, <1>6, <1>7

LEMMA ProceedStep ==
  ASSUME IInv, DispatcherTypeOK, FreshWhenIdle, NEW d \in Dispatchers,
         \/ HandleReply(d) \/ LoopExits(d) \/ FinalControl(d) \/ Settles(d)
         \/ SettlementRejected(d) \/ Recheck(d) \/ Leave(d)
  PROVE  StepOf(d)
  <1>1. disp \in [Dispatchers -> DispatcherState] /\ disp[d] \in DispatcherState
    BY FenceFacts DEF DispatcherTypeOK
  <1>2. ASSUME NEW place \in {"executing", "settling", "rechecking", "leaving"},
               NEW outcome \in Outcome \union {"none"}, NEW m \in {"heartbeat", "control", "off"},
               disp' = [disp EXCEPT ![d] = [disp[d] EXCEPT !.at = place, !.outcome = outcome,
                                                           !.monitor = m]],
               disp[d].at \notin {"polling", "exited"}, fences' = fences, [Next]_vars
        PROVE  StepOf(d)
    <2> DEFINE s == [disp[d] EXCEPT !.at = place, !.outcome = outcome, !.monitor = m]
    <2>1. s \in DispatcherState /\ s.fence = FenceOf(d) /\ s.at = place
      BY <1>1 DEF DispatcherState, FenceOf
    <2>2. disp' = [disp EXCEPT ![d] = s]
      BY <1>2
    <2> HIDE DEF s
    <2>3. GoesTo(d, s)
      BY <1>2, <2>1, <2>2, KeepsFence
    <2> QED BY <1>2, <2>1, <2>3 DEF StepOf
  <1>3. ASSUME NEW place \in {"executing", "settling", "rechecking", "leaving"},
               disp' = [disp EXCEPT ![d].at = place],
               disp[d].at \notin {"polling", "exited"}, fences' = fences, [Next]_vars
        PROVE  StepOf(d)
    <2>1. disp' = [disp EXCEPT ![d] = [disp[d] EXCEPT !.at = place, !.outcome = disp[d].outcome,
                                                      !.monitor = disp[d].monitor]]
      BY <1>1, <1>3 DEF DispatcherState
    <2>2. disp[d].outcome \in Outcome \union {"none"} /\ disp[d].monitor \in {"heartbeat", "control", "off"}
      BY <1>1 DEF DispatcherState
    <2> QED BY <1>2, <1>3, <2>1, <2>2
  <1>4. ASSUME NEW outcome \in Outcome \union {"none"},
               disp' = [disp EXCEPT ![d] = [@ EXCEPT !.at = "settling", !.outcome = outcome]],
               disp[d].at \notin {"polling", "exited"}, fences' = fences, [Next]_vars
        PROVE  StepOf(d)
    <2>1. disp' = [disp EXCEPT ![d] = [disp[d] EXCEPT !.at = "settling", !.outcome = outcome,
                                                      !.monitor = disp[d].monitor]]
      BY <1>1, <1>4 DEF DispatcherState
    <2>2. disp[d].monitor \in {"heartbeat", "control", "off"}
      BY <1>1 DEF DispatcherState
    <2> QED BY <1>2, <1>4, <2>1, <2>2
  <1>5. \A row : Controlled(row, disp[d].outcome) \in Outcome \union {"none"}
    BY <1>1, ControlledOutcome DEF DispatcherState
  <1>6. CASE HandleReply(d)
    <2>1. disp[d].at = "claimed" /\ fences' = fences /\ [Next]_vars
      BY <1>6 DEF HandleReply, At, vars
    <2>2. CASE \/ disp' = [disp EXCEPT ![d].at = "settling", ![d].outcome = "released"]
               \/ disp' = [disp EXCEPT ![d].at = "settling", ![d].outcome = "FAILED"]
      <3>1. \/ disp' = [disp EXCEPT ![d] = [@ EXCEPT !.at = "settling", !.outcome = "released"]]
            \/ disp' = [disp EXCEPT ![d] = [@ EXCEPT !.at = "settling", !.outcome = "FAILED"]]
        BY <1>1, <2>2
      <3> QED BY <1>4, <2>1, <3>1 DEF Outcome, ExecutorOutcome
    <2>3. CASE disp' = [disp EXCEPT ![d].at = "executing", ![d].monitor = "heartbeat"]
      <3>1. disp' = [disp EXCEPT ![d] = [disp[d] EXCEPT !.at = "executing",
                                                        !.outcome = disp[d].outcome,
                                                        !.monitor = "heartbeat"]]
        BY <1>1, <2>3 DEF DispatcherState
      <3>2. disp[d].outcome \in Outcome \union {"none"}
        BY <1>1 DEF DispatcherState
      <3> QED BY <1>2, <2>1, <3>1, <3>2
    <2> QED BY <1>6, <2>2, <2>3 DEF HandleReply
  <1>7. CASE LoopExits(d)
    <2> DEFINE s == [disp[d] EXCEPT !.at = "exited"]
    <2>1. disp[d].at = "polling" /\ UNCHANGED vars /\ disp' = [disp EXCEPT ![d] = s]
      BY <1>1, <1>7 DEF LoopExits, At
    <2>2. FenceOf(d) = NoFence /\ NoFence \notin fences
      BY <2>1, FenceFacts DEF DispatcherTypeOK
    <2>3. /\ s \in DispatcherState /\ s.fence = FenceOf(d) /\ s.at = "exited"
          /\ s.reason = "none" /\ s.outcome = "none" /\ s.finalization = "none"
      BY <1>1, <2>1 DEF DispatcherState, FenceOf, FreshWhenIdle
    <2> HIDE DEF s
    <2>4. GoesTo(d, s)
      BY <2>1, <2>2, <2>3 DEF GoesTo, vars
    <2> QED BY <2>1, <2>3, <2>4 DEF StepOf
  <1>8. CASE FinalControl(d)
    <2>1. disp[d].at = "controlling" /\ fences' = fences /\ [Next]_vars
      BY <1>8 DEF FinalControl, At, vars
    <2>2. PICK r \in Reading :
            disp' = [disp EXCEPT ![d] =
              IF Owns(FenceOf(d), r)
              THEN [@ EXCEPT !.at = "settling", !.outcome = Controlled(RowOf(d), disp[d].outcome)]
              ELSE [@ EXCEPT !.at = "leaving"]]
      BY <1>8 DEF FinalControl
    <2> DEFINE next == Controlled(RowOf(d), disp[d].outcome)
    <2>3. next \in Outcome \union {"none"}
      BY <1>5
    <2>4. CASE Owns(FenceOf(d), r)
      <3>1. disp' = [disp EXCEPT ![d] = [@ EXCEPT !.at = "settling", !.outcome = next]]
        BY <2>2, <2>4
      <3> HIDE DEF next
      <3> QED BY <1>4, <2>1, <2>3, <3>1
    <2>5. CASE ~Owns(FenceOf(d), r)
      <3>1. disp' = [disp EXCEPT ![d].at = "leaving"]
        BY <2>2, <2>5
      <3> QED BY <1>3, <2>1, <3>1
    <2> QED BY <2>4, <2>5
  <1>9. CASE Settles(d)
    <2>1. disp[d].at = "settling" /\ FenceOf(d) \in fences
      BY <1>9, FenceFacts DEF Settles, At
    <2>2. PICK r \in Reading : SettlesAs(FenceOf(d), r, disp[d].outcome, FALSE)
      BY <1>9 DEF Settles
    <2>3. Next /\ fences' = fences
      BY <1>1, <2>1, <2>2, CallsAreSteps DEF DispatcherState
    <2> QED BY <1>3, <1>9, <2>1, <2>3 DEF Settles, StepOf
  <1>10. CASE SettlementRejected(d)
    BY <1>3, <1>10 DEF SettlementRejected, At, vars
  <1>11. CASE Recheck(d)
    <2>1. disp[d].at = "rechecking" /\ fences' = fences /\ [Next]_vars
      BY <1>11 DEF Recheck, At, vars
    <2> DEFINE next == Controlled(RowOf(d), disp[d].outcome)
    <2>2. \/ disp' = [disp EXCEPT ![d].at = "settling", ![d].outcome = next]
          \/ disp' = [disp EXCEPT ![d].at = "leaving"]
      BY <1>1, <1>11, Zenon DEF Recheck
    <2>3. next \in Outcome \union {"none"}
      BY <1>5
    <2> HIDE DEF next
    <2>4. \/ disp' = [disp EXCEPT ![d] = [@ EXCEPT !.at = "settling", !.outcome = next]]
          \/ disp' = [disp EXCEPT ![d].at = "leaving"]
      BY <1>1, <2>2
    <2> QED BY <1>3, <1>4, <2>1, <2>3, <2>4
  <1>12. CASE Leave(d)
    <2>1. FenceOf(d) \in fences /\ Forget(FenceOf(d))
      BY <1>12, FenceFacts DEF Leave, At
    <2>2. GoesTo(d, Idle("polling"))
      BY <1>12, <2>1, DropsFence DEF Leave, Forget
    <2>3. Next
      BY <2>1 DEF Next, Execution
    <2> QED BY <2>2, <2>3, IdleState DEF StepOf
  <1> QED BY <1>6, <1>7, <1>8, <1>9, <1>10, <1>11, <1>12

LEMMA TimeoutStep ==
  ASSUME IInv, DispatcherTypeOK, NEW d \in Dispatchers, DrainExpires(d) \/ IgnoresAbort(d)
  PROVE  StepOf(d)
  <1>1. CASE DrainExpires(d)
    <2>1. /\ disp[d] \in DispatcherState /\ disp[d].at = "executing" /\ UNCHANGED vars
          /\ disp' = [disp EXCEPT ![d] = Aborted(disp[d], "SHUTDOWN")]
      BY <1>1 DEF DrainExpires, At, DispatcherTypeOK
    <2>2. /\ Aborted(disp[d], "SHUTDOWN") \in DispatcherState
          /\ Aborted(disp[d], "SHUTDOWN").fence = FenceOf(d)
          /\ Aborted(disp[d], "SHUTDOWN").at = "executing"
      BY <2>1, AbortedState DEF Interruption, FenceOf
    <2>3. GoesTo(d, Aborted(disp[d], "SHUTDOWN"))
      BY <2>1, <2>2, KeepsFence DEF vars
    <2> QED BY <2>1, <2>2, <2>3 DEF StepOf
  <1>2. CASE IgnoresAbort(d)
    BY <1>2 DEF IgnoresAbort, StepOf, vars
  <1> QED BY <1>1, <1>2

LEMMA TroubleStep ==
  ASSUME IInv, DispatcherTypeOK, NEW d \in Dispatchers,
         \/ PollFails(d) \/ ClaimReplyLost(d) \/ MonitorFails(d) \/ SettlementFails(d)
         \/ StopIsOverdue(d)
  PROVE  StepOf(d)
  <1>1. CASE PollFails(d) \/ StopIsOverdue(d)
    BY <1>1 DEF PollFails, StopIsOverdue, StepOf, vars
  <1>2. CASE ClaimReplyLost(d)
    <2>1. FenceOf(d) \in fences /\ Forget(FenceOf(d))
      BY <1>2, FenceFacts DEF ClaimReplyLost, At
    <2>2. GoesTo(d, Idle("polling"))
      BY <1>2, <2>1, DropsFence DEF ClaimReplyLost, Forget
    <2>3. Next
      BY <2>1 DEF Next, Execution
    <2> QED BY <2>2, <2>3, IdleState DEF StepOf
  <1>3. CASE SettlementFails(d)
    <2> DEFINE s == [disp[d] EXCEPT !.at = "leaving"]
    <2>1. /\ disp[d] \in DispatcherState /\ disp[d].at \notin {"polling", "exited"}
          /\ UNCHANGED vars /\ disp' = [disp EXCEPT ![d] = s]
      BY <1>3 DEF SettlementFails, DispatcherTypeOK
    <2>2. s \in DispatcherState /\ s.fence = FenceOf(d) /\ s.at = "leaving"
      BY <2>1 DEF DispatcherState, FenceOf
    <2> HIDE DEF s
    <2>3. GoesTo(d, s)
      BY <2>1, <2>2, KeepsFence DEF vars
    <2> QED BY <2>1, <2>2, <2>3 DEF StepOf
  <1> QED BY <1>1, <1>2, <1>3, MonitorStep

LEMMA VanishStep ==
  ASSUME IInv, DispatcherTypeOK, NEW d \in Dispatchers, Vanish(d)
  PROVE  StepOf(d)
  <1>1. disp' = [disp EXCEPT ![d] = Idle("exited")]
    BY DEF Vanish
  <1>2. CASE FenceOf(d) \in fences
    <2>1. Forget(FenceOf(d)) /\ Next
      BY <1>2 DEF Vanish, Next, Execution
    <2>2. GoesTo(d, Idle("exited"))
      BY <1>1, <2>1, DropsFence DEF Forget
    <2> QED BY <2>1, <2>2, IdleState DEF StepOf
  <1>3. CASE FenceOf(d) \notin fences
    <2>1. UNCHANGED vars /\ fences' = fences \ {FenceOf(d)}
      BY <1>3 DEF Vanish, vars
    <2>2. GoesTo(d, Idle("exited"))
      BY <1>1, <2>1, DropsFence
    <2> QED BY <2>1, <2>2, IdleState DEF StepOf
  <1> QED BY <1>2, <1>3

-----------------------------------------------------------------------------
(* The worker implements the queue                                         *)

DispatcherAction(d) ==
  Poll(d) \/ Monitor(d) \/ Executor(d) \/ Proceed(d) \/ Timeout(d) \/ Trouble(d) \/ Vanish(d)

LEMMA DispatcherStep ==
  ASSUME DInv, NEW d \in Dispatchers, DispatcherAction(d)
  PROVE  StepOf(d)
  BY PollStep, MonitorStep, ExecutorStep, ProceedStep, TimeoutStep, TroubleStep, VanishStep
  DEF DInv, DispatcherAction, Poll, Monitor, Executor, Proceed, Timeout, Trouble

\* A worker step is a step of the queue's specification, or none of its business.
LEMMA QueueStep == DInv /\ [DispatcherNext]_allVars => [Next]_vars
  <1> SUFFICES ASSUME DInv, [DispatcherNext]_allVars PROVE [Next]_vars
    OBVIOUS
  <1>1. CASE \E d \in Dispatchers : DispatcherAction(d)
    BY <1>1, DispatcherStep DEF StepOf
  <1>2. CASE \E p \in Process : Signal(p) \/ ProcessEnds(p) \/ Crash(p) \/ Restart(p)
    BY <1>2 DEF Signal, ProcessEnds, Crash, Restart
  <1>3. CASE App \/ Tick
    BY <1>3 DEF Next
  <1>4. CASE UNCHANGED allVars
    BY <1>4 DEF allVars, vars
  <1> QED BY <1>1, <1>2, <1>3, <1>4 DEF DispatcherNext, DispatcherAction

ProcessOK ==
  /\ process \in [Process -> {"up", "draining", "failed", "gone"}]
  /\ faults \in 0..(MaxFaults + 1) /\ stops \in 0..MaxStops

LEMMA FaultCounts ==
  ASSUME ProcessOK
  PROVE  /\ Fault => faults' \in 0..(MaxFaults + 1) /\ faults' > 0 /\ stops' = stops
         /\ UnboundedFault => faults' \in 0..(MaxFaults + 1) /\ faults' > 0 /\ stops' = stops
         /\ \A p \in Process : RaiseFatal(p) =>
              process' \in [Process -> {"up", "draining", "failed", "gone"}]
  <1>1. MaxFaults \in Nat
    BY DispatcherAssumption
  <1>2. faults \in 0..(MaxFaults + 1)
    BY DEF ProcessOK
  <1> QED BY <1>1, <1>2 DEF ProcessOK, Fault, UnboundedFault, RaiseFatal

LEMMA ProcessStep == ProcessOK /\ [DispatcherNext]_allVars => ProcessOK'
  <1> SUFFICES ASSUME ProcessOK, [DispatcherNext]_allVars PROVE ProcessOK'
    OBVIOUS
  <1>1. ASSUME UNCHANGED <<process, faults, stops>> PROVE ProcessOK'
    BY <1>1 DEF ProcessOK
  <1>2. ASSUME NEW p \in Process, UNCHANGED process \/ RaiseFatal(p), Fault \/ UnboundedFault
        PROVE  ProcessOK'
    BY <1>2, FaultCounts DEF ProcessOK
  <1>3. ASSUME NEW p \in Process, UNCHANGED process \/ RaiseFatal(p), UNCHANGED <<faults, stops>>
        PROVE  ProcessOK'
    BY <1>3, FaultCounts DEF ProcessOK
  <1>4. ASSUME NEW d \in Dispatchers, Poll(d) \/ Monitor(d) PROVE ProcessOK'
    BY <1>1, <1>4
    DEF Poll, Monitor, PollNothing, PollJob, MonitorHeartbeats, MonitorLosesLease,
        MonitorReadsControl, Untroubled
  <1>5. ASSUME NEW d \in Dispatchers, Executor(d) PROVE ProcessOK'
    <2>1. d[1] \in Process
      BY DEF Dispatchers
    <2> QED
      BY <1>1, <1>2, <1>3, <1>5, <2>1
      DEF Executor, ExecutorWorks, ExecutorFinalizes, FinalizationRejected, FinalizationFails,
          ExecutorEnds, Untroubled
  <1>6. ASSUME NEW d \in Dispatchers, Proceed(d) PROVE ProcessOK'
    <2>1. d[1] \in Process
      BY DEF Dispatchers
    <2> QED
      BY <1>1, <1>2, <1>3, <1>6, <2>1
      DEF Proceed, HandleReply, LoopExits, FinalControl, Settles, SettlementRejected, Recheck,
          Leave, Untroubled
  <1>7. ASSUME NEW d \in Dispatchers, Timeout(d) \/ Trouble(d) \/ Vanish(d) PROVE ProcessOK'
    <2>1. d[1] \in Process
      BY DEF Dispatchers
    <2> QED
      BY <1>1, <1>2, <1>7, <2>1
      DEF Timeout, Trouble, Vanish, DrainExpires, IgnoresAbort, PollFails, ClaimReplyLost,
          MonitorFails, SettlementFails, StopIsOverdue, PerhapsFatal, Untroubled
  <1>8. ASSUME NEW p \in Process, Signal(p) \/ ProcessEnds(p) \/ Crash(p) \/ Restart(p)
        PROVE  ProcessOK'
    BY <1>8, DispatcherAssumption DEF ProcessOK, Signal, ProcessEnds, Crash, Restart
  <1>9. CASE UNCHANGED dispatcherVars \/ UNCHANGED allVars
    BY <1>1, <1>9 DEF dispatcherVars, allVars
  <1> QED
    BY <1>4, <1>5, <1>6, <1>7, <1>8, <1>9 DEF DispatcherNext

LEMMA InitDInv == DispatcherInit => DInv
  <1> SUFFICES ASSUME DispatcherInit PROVE DInv
    OBVIOUS
  <1>1. IInv
    BY InitIInv DEF DispatcherInit
  <1>2. /\ disp = [d \in Dispatchers |-> Idle("polling")] /\ fences = {}
        /\ process = [p \in Process |-> "up"] /\ faults = 0 /\ stops = 0
    BY DEF DispatcherInit, Init
  <1>3. \A d \in Dispatchers :
          /\ disp[d] = Idle("polling") /\ FenceOf(d) = NoFence /\ disp[d].at = "polling"
          /\ disp[d] \in DispatcherState /\ disp[d].reason = "none"
          /\ disp[d].outcome = "none" /\ disp[d].finalization = "none"
    BY <1>2, IdleState DEF FenceOf
  <1>4. DispatcherTypeOK
    BY <1>2, <1>3, DispatcherAssumption DEF DispatcherTypeOK
  <1>5. FencesDistinct /\ FreshWhenIdle
    BY <1>3 DEF FencesDistinct, FreshWhenIdle
  <1> QED BY <1>1, <1>4, <1>5 DEF DInv

LEMMA NextDInv == DInv /\ [DispatcherNext]_allVars => DInv'
  <1> SUFFICES ASSUME DInv, [DispatcherNext]_allVars PROVE DInv'
    OBVIOUS
  <1>1. IInv'
    BY QueueStep, NextIInv DEF DInv
  <1>2. ProcessOK /\ ProcessOK'
    BY ProcessStep DEF DInv, DispatcherTypeOK, ProcessOK
  <1>3. ASSUME UNCHANGED <<disp, fences>> PROVE DInv'
    BY <1>1, <1>2, <1>3
    DEF DInv, DispatcherTypeOK, ProcessOK, FencesDistinct, FreshWhenIdle, FenceOf
  <1>4. ASSUME NEW d \in Dispatchers, DispatcherAction(d) PROVE DInv'
    <2>1. CASE UNCHANGED <<disp, fences>>
      BY <1>3, <2>1
    <2>2. CASE \E s \in DispatcherState : GoesTo(d, s)
      <3>1. PICK s \in DispatcherState : GoesTo(d, s)
        BY <2>2
      <3>2. /\ disp' \in [Dispatchers -> DispatcherState]
            /\ fences' = {FenceOf(e)' : e \in Dispatchers} \ {NoFence}
            /\ \A e \in Dispatchers : FenceOf(e)' = NoFence <=> disp'[e].at \in {"polling", "exited"}
            /\ FencesDistinct' /\ FreshWhenIdle'
        BY <3>1, GoesToKeeps DEF DInv
      <3> QED BY <1>1, <1>2, <3>2 DEF DInv, DispatcherTypeOK, ProcessOK
    <2> QED BY <1>4, <2>1, <2>2, DispatcherStep DEF StepOf
  <1>5. ASSUME NEW p \in Process, Signal(p) \/ ProcessEnds(p) \/ Crash(p) PROVE DInv'
    BY <1>3, <1>5 DEF Signal, ProcessEnds, Crash, vars
  <1>6. ASSUME NEW p \in Process, Restart(p) PROVE DInv'
    <2>1. /\ disp' = [d \in Dispatchers |-> IF d[1] = p THEN Idle("polling") ELSE disp[d]]
          /\ \A l \in Lane : At(<<p, l>>, "exited")
          /\ fences' = fences
      BY <1>6 DEF Restart, vars
    <2>2. \A d \in Dispatchers :
            /\ disp[d] \in DispatcherState
            /\ FenceOf(d) = NoFence <=> disp[d].at \in {"polling", "exited"}
      BY DEF DInv, DispatcherTypeOK
    <2>3. \A d \in Dispatchers : d[1] = p => disp[d].at = "exited" /\ FenceOf(d) = NoFence
      BY <2>1, <2>2 DEF Dispatchers, At
    <2>4. \A d \in Dispatchers :
            /\ FenceOf(d)' = FenceOf(d)
            /\ disp'[d] \in DispatcherState
            /\ d[1] = p => disp'[d] = Idle("polling")
            /\ d[1] # p => disp'[d] = disp[d]
      BY <2>1, <2>2, <2>3, IdleState DEF FenceOf
    <2>5. DispatcherTypeOK'
      <3>1. disp' \in [Dispatchers -> DispatcherState]
        BY <2>1, <2>4
      <3>2. fences' = {FenceOf(d)' : d \in Dispatchers} \ {NoFence}
        BY <2>1, <2>4 DEF DInv, DispatcherTypeOK
      <3>3. \A d \in Dispatchers : FenceOf(d)' = NoFence <=> disp'[d].at \in {"polling", "exited"}
        BY <2>2, <2>3, <2>4, IdleState
      <3> QED BY <1>2, <3>1, <3>2, <3>3 DEF DispatcherTypeOK, ProcessOK
    <2>6. FencesDistinct'
      BY <2>4 DEF DInv, FencesDistinct
    <2>7. FreshWhenIdle'
      BY <2>4, IdleState DEF DInv, FreshWhenIdle
    <2> QED BY <1>1, <2>5, <2>6, <2>7 DEF DInv
  <1>7. CASE App /\ UNCHANGED dispatcherVars
    <2>1. fences' = fences
      BY <1>7 DEF App, Enqueue, RetryAsNewJob, ReadForCommand, ApplyCommand,
                  RequestCancellation, SetResolvePaused
    <2> QED BY <1>3, <1>7, <2>1 DEF dispatcherVars
  <1>8. CASE Tick /\ UNCHANGED dispatcherVars
    BY <1>3, <1>8 DEF Tick, dispatcherVars
  <1>9. CASE UNCHANGED allVars
    BY <1>3, <1>9 DEF allVars
  <1> QED
    BY <1>4, <1>5, <1>6, <1>7, <1>8, <1>9 DEF DispatcherNext, DispatcherAction

THEOREM DispatcherInvariance == DispatcherSpec => []DInv
  BY InitDInv, NextDInv, PTL DEF DispatcherSpec

\* The fences in use are exactly those the dispatchers hold, one each and only during
\* an execution, whichever processes crash, vanish or restart: no fence leaks and none
\* is forgotten while an executor can still present it.
THEOREM DispatcherTypeCorrectness == DispatcherSpec => []DispatcherTypeOK
  <1>1. DInv => DispatcherTypeOK
    BY DEF DInv
  <1> QED BY <1>1, DispatcherInvariance, PTL

\* The worker processes use the queue as its specification allows.
THEOREM DispatcherRefinement == DispatcherSpec => ImplementsJobQueue
  <1>1. DispatcherInit => Init
    BY DEF DispatcherInit
  <1> QED
    BY <1>1, QueueStep, DispatcherInvariance, PTL DEF DispatcherSpec, ImplementsJobQueue, Spec

\* What is proved of the queue for arbitrary callers holds under the real worker: a
\* lane executes at most one job, however its processes stop, crash and restart.
THEOREM WorkerExcludes == DispatcherSpec => []OneExecutionPerLane
  BY MutualExclusion, DispatcherRefinement, PTL DEF ImplementsJobQueue

\* And whatever a worker does, each of its steps takes every job along its life cycle.
THEOREM WorkerLifecycle == DispatcherSpec => ImplementsJobLifecycle
  BY LifecycleRefinement, DispatcherRefinement, PTL DEF ImplementsJobQueue

-----------------------------------------------------------------------------
(* What the worker does to executions                                      *)

LEMMA StutterNoRevival ==
  ASSUME IInv, job' = job
  PROVE  NoRevival
  BY SameRowGoesOn DEF NoRevival, IInv

LEMMA SettlesNoRevival ==
  ASSUME IInv, NEW f \in fences, NEW r \in Reading, NEW outcome \in Outcome \union {"none"},
         NEW withWrite \in BOOLEAN, SettlesAs(f, r, outcome, withWrite)
  PROVE  NoRevival
  <1>1. \/ outcome \in {"COMPLETED", "FAILED", "SKIPPED"} /\ Conclude(f, r, outcome, withWrite)
        \/ \E delay \in 0..MaxDelay : Retry(f, r, delay, withWrite)
        \/ Cancel(f, r, withWrite) \/ Pause(f, r, withWrite) \/ Release(f, r, withWrite)
    BY DEF SettlesAs, Outcome, ExecutorOutcome, TerminalStatus
  <1> QED BY <1>1, CallNoRevival

LEMMA ForgetNoRevival ==
  ASSUME IInv, NEW f, Forget(f)
  PROVE  NoRevival
  BY StutterNoRevival DEF Forget

\* Without a heartbeat nothing gets more time.
LEMMA QuietStep ==
  ASSUME DInv, [DispatcherNext]_allVars, ~\E e \in Dispatchers : MonitorHeartbeats(e)
  PROVE  NoRevival
  <1>1. /\ IInv /\ DispatcherTypeOK
        /\ \A d \in Dispatchers :
             /\ disp[d] \in DispatcherState /\ d[1] \in Process /\ d[2] \in Lane
             /\ disp[d].at \notin {"polling", "exited"} => FenceOf(d) \in fences
    BY FenceFacts DEF DInv, Dispatchers
  <1>2. UNCHANGED vars => NoRevival
    BY <1>1, StutterNoRevival DEF vars
  <1>3. ASSUME NEW d \in Dispatchers, Poll(d) PROVE NoRevival
    <2>1. Claim(d[2])
      BY <1>1, <1>3, DispatcherAssumption DEF Poll, PollNothing, PollJob, Claim
    <2> QED BY <1>1, <2>1, ClaimNoRevival
  <1>4. ASSUME NEW d \in Dispatchers, Monitor(d) PROVE NoRevival
    BY <1>2, <1>4 DEF Monitor, MonitorLosesLease, MonitorReadsControl
  <1>5. ASSUME NEW d \in Dispatchers, Executor(d) PROVE NoRevival
    <2>1. ASSUME ExecutorWorks(d) PROVE NoRevival
      <3>1. FenceOf(d) \in fences
        BY <1>1, <2>1 DEF ExecutorWorks, At
      <3>2. PICK r \in Reading :
              \/ Mutate(FenceOf(d), r)
              \/ \E j \in Job, q \in Requests : EnqueueChild(FenceOf(d), r, j, q)
        BY <2>1 DEF ExecutorWorks
      <3> QED BY <1>1, <3>1, <3>2, CallNoRevival
    <2>2. ASSUME ExecutorFinalizes(d) PROVE NoRevival
      <3>1. FenceOf(d) \in fences
        BY <1>1, <2>2 DEF ExecutorFinalizes, At
      <3>2. PICK r \in Reading :
              \/ \E outcome \in Outcome :
                   SettlesAs(FenceOf(d), r, outcome, TRUE)
              \/ \E delay \in 0..MaxDelay : Yield(FenceOf(d), r, delay)
        BY <2>2 DEF ExecutorFinalizes
      <3>3. CASE \E outcome \in Outcome :
                   SettlesAs(FenceOf(d), r, outcome, TRUE)
        BY <1>1, <3>1, <3>3, SettlesNoRevival DEF Outcome
      <3>4. CASE \E delay \in 0..MaxDelay : Yield(FenceOf(d), r, delay)
        BY <1>1, <3>1, <3>4, CallNoRevival
      <3> QED BY <3>2, <3>3, <3>4
    <2>3. FinalizationRejected(d) \/ FinalizationFails(d) \/ ExecutorEnds(d) => NoRevival
      BY <1>2 DEF FinalizationRejected, FinalizationFails, ExecutorEnds
    <2> QED BY <1>5, <2>1, <2>2, <2>3 DEF Executor
  <1>6. ASSUME NEW d \in Dispatchers, Proceed(d) PROVE NoRevival
    <2>1. ASSUME Settles(d) PROVE NoRevival
      <3>1. FenceOf(d) \in fences /\ disp[d].outcome \in Outcome \union {"none"}
        BY <1>1, <2>1 DEF Settles, At, DispatcherState
      <3> QED BY <1>1, <2>1, <3>1, SettlesNoRevival DEF Settles
    <2>2. Leave(d) => NoRevival
      BY <1>1, ForgetNoRevival DEF Leave
    <2>3. HandleReply(d) \/ LoopExits(d) \/ FinalControl(d) \/ SettlementRejected(d) \/ Recheck(d)
            => NoRevival
      BY <1>2 DEF HandleReply, LoopExits, FinalControl, SettlementRejected, Recheck
    <2> QED BY <1>6, <2>1, <2>2, <2>3 DEF Proceed
  <1>7. ASSUME NEW d \in Dispatchers, Timeout(d) \/ Trouble(d) \/ Vanish(d) PROVE NoRevival
    <2>1. ClaimReplyLost(d) => NoRevival
      BY <1>1, ForgetNoRevival DEF ClaimReplyLost
    <2>2. Vanish(d) => NoRevival
      BY <1>1, <1>2, ForgetNoRevival DEF Vanish
    <2> QED
      BY <1>2, <1>7, <2>1, <2>2
      DEF Timeout, Trouble, DrainExpires, IgnoresAbort, PollFails, MonitorFails,
          SettlementFails, StopIsOverdue
  <1>8. ASSUME NEW p \in Process, Signal(p) \/ ProcessEnds(p) \/ Crash(p) \/ Restart(p)
        PROVE  NoRevival
    BY <1>2, <1>8 DEF Signal, ProcessEnds, Crash, Restart
  <1>9. CASE UNCHANGED allVars
    BY <1>2, <1>9 DEF allVars, vars
  <1> QED
    BY <1>1, <1>3, <1>4, <1>5, <1>6, <1>7, <1>8, <1>9, AppNoRevival, TickNoRevival
    DEF DispatcherNext

\* An execution whose rows carry a fence after a step carried it before; its budget
\* is the same and a request to stop it is not taken back.
LEMMA FenceStep ==
  ASSUME DInv, [DispatcherNext]_allVars, NEW f \in fences, Carries(f)'
  PROVE  /\ Carries(f)
         /\ job'[f.job].maxAttempts = job[f.job].maxAttempts
         /\ job'[f.job].status = "RUNNING" => job[f.job].status = "RUNNING"
         /\ job[f.job].status = "CANCELLING" => job'[f.job].status = "CANCELLING"
  <1>1. IInv /\ [Next]_vars /\ f \in Fence /\ f.job \in Job
    BY QueueStep DEF DInv, IInv, TypeOK, Fence
  <1>2. job[f.job].status = "CANCELLING" => job'[f.job].status = "CANCELLING"
    BY <1>1, LifecycleStep, Edges DEF Carries, ExecutingStatus
  <1>3. CASE \E e \in Dispatchers : MonitorHeartbeats(e)
    <2>1. PICK e \in Dispatchers, r \in Reading : /\ MonitorHeartbeats(e)
                                                  /\ Heartbeat(FenceOf(e), r)
      BY <1>3 DEF MonitorHeartbeats
    <2>2. FenceOf(e) \in fences
      BY <2>1, FenceFacts DEF DInv, MonitorHeartbeats, At
    <2> QED BY <1>1, <1>2, <2>1, <2>2, HeartbeatGoesOn DEF Carries
  <1>4. CASE ~\E e \in Dispatchers : MonitorHeartbeats(e)
    BY <1>1, <1>2, <1>4, QuietStep, CarriesStep DEF GoesOn
  <1> QED BY <1>3, <1>4

-----------------------------------------------------------------------------
(* Why a settlement is refused                                             *)

\* What the directive says of an execution's row.
LEMMA Directives ==
  ASSUME NEW row, RowOK(row), row.status \in ExecutingStatus
  PROVE  /\ row.status = "RUNNING" => Directive(row) = "CONTINUE"
         /\ row.status = "PAUSING" => Directive(row) = "PAUSE_REQUESTED"
         /\ row.status = "CANCELLING" => Directive(row) = "CANCEL_REQUESTED"
  BY DEF RowOK, Directive

\* A job carries one execution, and it has one fence.
LEMMA SameFence ==
  ASSUME NEW f \in Fence, NEW g \in Fence, f.job = g.job, Carries(f), Carries(g)
  PROVE  f = g
  BY DEF Fence, Carries

\* The row tells dispatcher d to pause, and does not change.
ToldToPause(d) == UNCHANGED vars /\ Directive(RowOf(d)) = "PAUSE_REQUESTED"

\* Where the state of a dispatcher that keeps its fence comes from: a reason or an
\* outcome "paused" was read in the row, an outcome "retry" had an attempt left.
Reasoned(d) ==
  /\ FenceOf(d)' = FenceOf(d)
  /\ disp'[d].reason = "PAUSE_REQUESTED" =>
       disp[d].reason = "PAUSE_REQUESTED" \/ ToldToPause(d)
  /\ disp'[d].outcome = "paused" =>
       disp[d].outcome = "paused" \/ disp[d].reason = "PAUSE_REQUESTED" \/ ToldToPause(d)
  /\ disp'[d].outcome = "retry" =>
       \/ disp[d].outcome = "retry"
       \/ UNCHANGED vars /\ FenceOf(d).attempt < RowOf(d).maxAttempts
  /\ disp'[d].at = "rechecking" => disp'[d] = disp[d] \/ SettlementRejected(d)

LEMMA MonitorReasons ==
  ASSUME DInv, NEW d \in Dispatchers, Monitor(d) \/ MonitorFails(d)
  PROVE  Reasoned(d)
  <1>1. disp \in [Dispatchers -> DispatcherState] /\ disp[d] \in DispatcherState
    BY DEF DInv, DispatcherTypeOK
  <1>2. disp[d].at = "executing"
    BY DEF Monitor, MonitorFails, MonitorHeartbeats, MonitorLosesLease, MonitorReadsControl, At
  <1>3. ASSUME NEW m \in {"heartbeat", "control", "off"}, disp' = [disp EXCEPT ![d].monitor = m]
        PROVE  Reasoned(d)
    <2>1. disp'[d] = [disp[d] EXCEPT !.monitor = m]
      BY <1>1, <1>3
    <2> QED BY <1>1, <1>2, <2>1 DEF Reasoned, FenceOf, DispatcherState
  <1>4. ASSUME NEW reason \in Interruption, disp' = [disp EXCEPT ![d] = Aborted(@, reason)],
               reason = "PAUSE_REQUESTED" => ToldToPause(d)
        PROVE  Reasoned(d)
    <2>1. disp'[d] = Aborted(disp[d], reason)
      BY <1>1, <1>4
    <2> QED BY <1>1, <1>2, <1>4, <2>1, AbortedState DEF Reasoned, FenceOf
  <1>5. CASE MonitorHeartbeats(d)
    BY <1>3, <1>5 DEF MonitorHeartbeats
  <1>6. CASE MonitorLosesLease(d)
    BY <1>4, <1>6 DEF MonitorLosesLease, Interruption
  <1>7. CASE MonitorReadsControl(d)
    <2>1. Directive(RowOf(d)) # "CONTINUE" => Directive(RowOf(d)) \in Interruption
      BY DEF Directive, Interruption
    <2>2. \/ disp' = [disp EXCEPT ![d].monitor = "heartbeat"]
          \/ /\ Directive(RowOf(d)) # "CONTINUE" /\ UNCHANGED vars
             /\ disp' = [disp EXCEPT ![d] = Aborted(@, Directive(RowOf(d)))]
      BY <1>7 DEF MonitorReadsControl
    <2>3. CASE disp' = [disp EXCEPT ![d].monitor = "heartbeat"]
      BY <1>3, <2>3
    <2> DEFINE reason == Directive(RowOf(d))
    <2>4. CASE /\ reason # "CONTINUE" /\ UNCHANGED vars
               /\ disp' = [disp EXCEPT ![d] = Aborted(@, reason)]
      <3>1. reason = "PAUSE_REQUESTED" => ToldToPause(d)
        BY <2>4 DEF ToldToPause
      <3>2. reason \in Interruption /\ disp' = [disp EXCEPT ![d] = Aborted(@, reason)]
        BY <2>1, <2>4
      <3> HIDE DEF reason
      <3> QED BY <1>4, <3>1, <3>2
    <2> QED BY <2>2, <2>3, <2>4
  <1>8. CASE MonitorFails(d)
    BY <1>3, <1>4, <1>8 DEF MonitorFails, Interruption
  <1> QED BY <1>5, <1>6, <1>7, <1>8 DEF Monitor

LEMMA ExecutorReasons ==
  ASSUME DInv, NEW d \in Dispatchers, Executor(d)
  PROVE  Reasoned(d)
  <1>1. disp \in [Dispatchers -> DispatcherState] /\ disp[d] \in DispatcherState
    BY DEF DInv, DispatcherTypeOK
  <1>2. disp[d].at = "executing"
    BY DEF Executor, ExecutorWorks, ExecutorFinalizes, FinalizationRejected,
           FinalizationFails, ExecutorEnds, At
  <1>3. ASSUME NEW m \in {"done", "rejected", "unknown"},
               disp' = [disp EXCEPT ![d].finalization = m]
        PROVE  Reasoned(d)
    <2>1. disp'[d] = [disp[d] EXCEPT !.finalization = m]
      BY <1>1, <1>3
    <2> QED BY <1>1, <1>2, <2>1 DEF Reasoned, FenceOf, DispatcherState
  <1>4. CASE ExecutorWorks(d)
    BY <1>1, <1>4 DEF ExecutorWorks, Reasoned, FenceOf
  <1>5. CASE ExecutorFinalizes(d) \/ FinalizationRejected(d) \/ FinalizationFails(d)
    BY <1>3, <1>5 DEF ExecutorFinalizes, FinalizationRejected, FinalizationFails
  <1>6. CASE ExecutorEnds(d)
    <2>1. PICK result \in ExecutorOutcome :
            LET outcome == IF disp[d].reason = "none" THEN result ELSE Interrupted(disp[d].reason)
                over == disp[d].finalization # "none" \/ disp[d].reason = "LEASE_LOST"
            IN disp' = [disp EXCEPT ![d].monitor = "off",
                                    ![d].at = IF over THEN "leaving" ELSE "controlling",
                                    ![d].outcome = IF over THEN "none"
                                                   ELSE Normalized(FenceOf(d), outcome)]
      BY <1>6 DEF ExecutorEnds
    <2> DEFINE outcome == IF disp[d].reason = "none" THEN result ELSE Interrupted(disp[d].reason)
               over == disp[d].finalization # "none" \/ disp[d].reason = "LEASE_LOST"
               place == IF over THEN "leaving" ELSE "controlling"
               next == IF over THEN "none" ELSE Normalized(FenceOf(d), outcome)
    <2>2. /\ next = "paused" => disp[d].reason = "PAUSE_REQUESTED"
          /\ next = "retry" => FenceOf(d).attempt < RowOf(d).maxAttempts
          /\ place # "rechecking"
      BY <1>1, NormalizedOutcome DEF DispatcherState, RowOf
    <2>3. disp' = [disp EXCEPT ![d].monitor = "off", ![d].at = place, ![d].outcome = next]
      BY <2>1
    <2> HIDE DEF place, next, over, outcome
    <2>4. disp'[d] = [disp[d] EXCEPT !.monitor = "off", !.at = place, !.outcome = next]
      BY <1>1, <2>3
    <2>5. UNCHANGED vars
      BY <1>6 DEF ExecutorEnds
    <2> QED BY <1>1, <2>2, <2>4, <2>5 DEF Reasoned, FenceOf, DispatcherState
  <1> QED BY <1>4, <1>5, <1>6 DEF Executor

LEMMA ProceedReasons ==
  ASSUME DInv, NEW d \in Dispatchers, Proceed(d), FenceOf(d)' # NoFence
  PROVE  Reasoned(d)
  <1>1. disp \in [Dispatchers -> DispatcherState] /\ disp[d] \in DispatcherState
    BY DEF DInv, DispatcherTypeOK
  <1>2. ASSUME NEW place \in {"settling", "leaving", "rechecking", "exited"},
               disp' = [disp EXCEPT ![d].at = place],
               place = "rechecking" => SettlementRejected(d)
        PROVE  Reasoned(d)
    <2>1. disp'[d] = [disp[d] EXCEPT !.at = place]
      BY <1>1, <1>2
    <2> QED BY <1>1, <1>2, <2>1 DEF Reasoned, FenceOf, DispatcherState
  <1>3. ASSUME NEW outcome, disp'[d] = [disp[d] EXCEPT !.at = "settling", !.outcome = outcome],
               outcome = "paused" => disp[d].outcome = "paused" \/ ToldToPause(d),
               outcome = "retry" => disp[d].outcome = "retry"
        PROVE  Reasoned(d)
    BY <1>1, <1>3 DEF Reasoned, FenceOf, DispatcherState
  <1>4. ASSUME UNCHANGED vars
        PROVE  /\ Controlled(RowOf(d), disp[d].outcome) = "paused" =>
                    disp[d].outcome = "paused" \/ ToldToPause(d)
               /\ Controlled(RowOf(d), disp[d].outcome) = "retry" => disp[d].outcome = "retry"
    <2>1. Directive(RowOf(d)) \in {"CANCEL_REQUESTED", "PAUSE_REQUESTED", "CONTINUE"}
      BY DEF Directive
    <2> QED BY <1>4, <2>1 DEF Controlled, ToldToPause
  <1>5. CASE HandleReply(d)
    <2>1. CASE disp' = [disp EXCEPT ![d].at = "executing", ![d].monitor = "heartbeat"]
      <3>1. disp'[d] = [disp[d] EXCEPT !.at = "executing", !.monitor = "heartbeat"]
        BY <1>1, <2>1
      <3> QED BY <1>1, <3>1 DEF Reasoned, FenceOf, DispatcherState
    <2>2. CASE \/ disp' = [disp EXCEPT ![d].at = "settling", ![d].outcome = "released"]
               \/ disp' = [disp EXCEPT ![d].at = "settling", ![d].outcome = "FAILED"]
      <3>1. \/ disp'[d] = [disp[d] EXCEPT !.at = "settling", !.outcome = "released"]
            \/ disp'[d] = [disp[d] EXCEPT !.at = "settling", !.outcome = "FAILED"]
        BY <1>1, <2>2
      <3> QED BY <1>3, <3>1
    <2> QED BY <1>5, <2>1, <2>2 DEF HandleReply
  <1>6. CASE LoopExits(d)
    BY <1>2, <1>6 DEF LoopExits
  <1>7. CASE FinalControl(d)
    <2> DEFINE next == Controlled(RowOf(d), disp[d].outcome)
    <2>1. /\ UNCHANGED vars
          /\ \/ disp' = [disp EXCEPT ![d] = [@ EXCEPT !.at = "settling", !.outcome = next]]
             \/ disp' = [disp EXCEPT ![d] = [@ EXCEPT !.at = "leaving"]]
      BY <1>7 DEF FinalControl
    <2>2. CASE disp' = [disp EXCEPT ![d] = [@ EXCEPT !.at = "leaving"]]
      BY <1>2, <2>2
    <2>3. CASE disp' = [disp EXCEPT ![d] = [@ EXCEPT !.at = "settling", !.outcome = next]]
      <3>1. disp'[d] = [disp[d] EXCEPT !.at = "settling", !.outcome = next]
        BY <1>1, <2>3
      <3>2. /\ next = "paused" => disp[d].outcome = "paused" \/ ToldToPause(d)
            /\ next = "retry" => disp[d].outcome = "retry"
        BY <1>4, <2>1
      <3> HIDE DEF next
      <3> QED BY <1>3, <3>1, <3>2
    <2> QED BY <2>1, <2>2, <2>3
  <1>8. CASE Settles(d)
    <2>1. disp[d].at = "settling" /\ (disp' = disp \/ disp' = [disp EXCEPT ![d].at = "leaving"])
      BY <1>8 DEF Settles, At
    <2>2. disp' = disp => Reasoned(d)
      BY DEF Reasoned, FenceOf
    <2> QED BY <1>2, <2>1, <2>2
  <1>9. CASE SettlementRejected(d)
    BY <1>2, <1>9 DEF SettlementRejected
  <1>10. CASE Recheck(d)
    <2> DEFINE next == Controlled(RowOf(d), disp[d].outcome)
    <2>1. \/ disp' = [disp EXCEPT ![d].at = "settling", ![d].outcome = next]
          \/ disp' = [disp EXCEPT ![d].at = "leaving"]
      BY <1>1, <1>10, Zenon DEF Recheck
    <2>2. UNCHANGED vars
      BY <1>10 DEF Recheck
    <2>3. CASE disp' = [disp EXCEPT ![d].at = "leaving"]
      BY <1>2, <2>3
    <2>4. CASE disp' = [disp EXCEPT ![d].at = "settling", ![d].outcome = next]
      <3>1. /\ next = "paused" => disp[d].outcome = "paused" \/ ToldToPause(d)
            /\ next = "retry" => disp[d].outcome = "retry"
        BY <1>4, <2>2
      <3> HIDE DEF next
      <3>2. disp'[d] = [disp[d] EXCEPT !.at = "settling", !.outcome = next]
        BY <1>1, <2>4
      <3> QED BY <1>3, <3>1, <3>2
    <2> QED BY <2>1, <2>3, <2>4
  <1>11. CASE Leave(d)
    <2>1. disp'[d] = Idle("polling")
      BY <1>1, <1>11 DEF Leave
    <2> QED BY <2>1, IdleState DEF FenceOf
  <1> QED
    BY <1>5, <1>6, <1>7, <1>8, <1>9, <1>10, <1>11 DEF Proceed

\* Whatever happens, a dispatcher that knows an execution has just claimed it or has
\* its reasons.
LEMMA ReasonsStep ==
  ASSUME DInv, [DispatcherNext]_allVars, NEW d \in Dispatchers, FenceOf(d)' # NoFence
  PROVE  disp'[d].at = "claimed" \/ Reasoned(d)
  <1>1. disp \in [Dispatchers -> DispatcherState] /\ disp[d] \in DispatcherState
    BY DEF DInv, DispatcherTypeOK
  <1>2. disp'[d] = disp[d] => Reasoned(d)
    BY DEF Reasoned, FenceOf
  <1>3. ASSUME NEW e \in Dispatchers, DispatcherAction(e), e # d PROVE Reasoned(d)
    <2>1. disp'[d] = disp[d]
      BY <1>1, <1>3, DispatcherStep DEF StepOf, GoesTo
    <2> QED BY <1>2, <2>1
  <1>4. ASSUME DispatcherAction(d) PROVE disp'[d].at = "claimed" \/ Reasoned(d)
    <2>1. CASE Poll(d)
      <3>1. CASE PollNothing(d)
        BY <1>2, <3>1 DEF PollNothing
      <3>2. CASE PollJob(d)
        <4>1. PICK f \in fences' \ fences :
                disp' = [disp EXCEPT ![d].at = "claimed", ![d].fence = f]
          BY <3>2 DEF PollJob
        <4> QED BY <1>1, <4>1 DEF DispatcherState
      <3> QED BY <2>1, <3>1, <3>2 DEF Poll
    <2>2. CASE Timeout(d)
      <3>1. \/ disp' = disp
            \/ disp' = [disp EXCEPT ![d] = Aborted(@, "SHUTDOWN")] /\ disp[d].at = "executing"
        BY <2>2 DEF Timeout, DrainExpires, IgnoresAbort, At
      <3>2. \/ disp'[d] = disp[d]
            \/ disp'[d] = Aborted(disp[d], "SHUTDOWN") /\ disp[d].at = "executing"
        BY <1>1, <3>1
      <3>3. "SHUTDOWN" \in Interruption
        BY DEF Interruption
      <3> QED BY <1>1, <1>2, <3>2, <3>3, AbortedState DEF Reasoned, FenceOf
    <2>3. CASE Trouble(d) /\ ~MonitorFails(d)
      <3>1. \/ disp' = disp \/ disp' = [disp EXCEPT ![d] = Idle("polling")]
            \/ disp' = [disp EXCEPT ![d].at = "leaving"]
        BY <2>3 DEF Trouble, PollFails, ClaimReplyLost, SettlementFails, StopIsOverdue
      <3>2. \/ disp'[d] = disp[d] \/ disp'[d] = Idle("polling")
            \/ disp'[d] = [disp[d] EXCEPT !.at = "leaving"]
        BY <1>1, <3>1
      <3> QED BY <1>1, <1>2, <3>2, IdleState DEF Reasoned, FenceOf, DispatcherState
    <2>4. CASE Vanish(d)
      <3>1. disp'[d] = Idle("exited")
        BY <1>1, <2>4 DEF Vanish
      <3> QED BY <3>1, IdleState DEF FenceOf
    <2> QED
      BY <1>4, <2>1, <2>2, <2>3, <2>4, MonitorReasons, ExecutorReasons, ProceedReasons
      DEF DispatcherAction
  <1>5. ASSUME NEW p \in Process, Restart(p) PROVE Reasoned(d)
    <2>1. disp'[d] = Idle("polling") \/ disp'[d] = disp[d]
      BY <1>5 DEF Restart
    <2> QED BY <1>2, <2>1, IdleState DEF FenceOf
  <1>6. ASSUME NEW p \in Process, Signal(p) \/ ProcessEnds(p) \/ Crash(p) PROVE Reasoned(d)
    BY <1>2, <1>6 DEF Signal, ProcessEnds, Crash
  <1> QED
    BY <1>2, <1>3, <1>4, <1>5, <1>6 DEF DispatcherNext, DispatcherAction, dispatcherVars, allVars

\* Why a dispatcher has the reason and the outcome it has, for as long as its job
\* carries its execution: a pause was asked for, and a retry is within the budget.
Justified(d) ==
  Carries(FenceOf(d)) =>
    /\ disp[d].reason = "PAUSE_REQUESTED" \/ disp[d].outcome = "paused" =>
         RowOf(d).status \in {"PAUSING", "CANCELLING"}
    /\ disp[d].outcome = "retry" => FenceOf(d).attempt < RowOf(d).maxAttempts

OutcomesJustified == \A d \in Dispatchers : FenceOf(d) # NoFence => Justified(d)

\* What RefusalIsExplained needs to survive a second command: the explanation is not
\* used up, because a refused outcome is not "cancelled".
RefusalsExplained ==
  \A d \in Dispatchers :
    At(d, "rechecking") /\ Owns(FenceOf(d), ClockLead) =>
      /\ RowOf(d).status # "RUNNING" /\ disp[d].outcome # "cancelled"
      /\ RowOf(d).status = "PAUSING" => disp[d].outcome # "paused"

EInv == DInv /\ OutcomesJustified /\ RefusalsExplained

LEMMA JustifiedStep == DInv /\ OutcomesJustified /\ [DispatcherNext]_allVars => OutcomesJustified'
  <1> SUFFICES ASSUME DInv, OutcomesJustified, [DispatcherNext]_allVars,
                      NEW d \in Dispatchers, FenceOf(d)' # NoFence, Carries(FenceOf(d))'
               PROVE  /\ disp'[d].reason = "PAUSE_REQUESTED" \/ disp'[d].outcome = "paused" =>
                           RowOf(d)'.status \in {"PAUSING", "CANCELLING"}
                      /\ disp'[d].outcome = "retry" =>
                           FenceOf(d)'.attempt < RowOf(d)'.maxAttempts
    BY DEF OutcomesJustified, Justified
  <1>1. CASE disp'[d].at = "claimed"
    <2>1. FreshWhenIdle'
      BY NextDInv DEF DInv
    <2> QED BY <1>1, <2>1 DEF FreshWhenIdle
  <1>2. CASE Reasoned(d)
    <2>1. FenceOf(d)' = FenceOf(d) /\ FenceOf(d) \in fences /\ FenceOf(d).job \in Job
      BY <1>2, FenceFacts DEF Reasoned, DInv, Fence
    <2>2. PICK f \in fences : FenceOf(d) = f
      BY <2>1
    <2>3. /\ Carries(FenceOf(d))
          /\ RowOf(d)'.maxAttempts = RowOf(d).maxAttempts
          /\ RowOf(d)'.status = "RUNNING" => RowOf(d).status = "RUNNING"
          /\ RowOf(d)'.status \in ExecutingStatus
      <3>1. FenceOf(d)' = f
        BY <2>1, <2>2
      <3>2. Carries(f)' /\ RowOf(d)' = job'[f.job] /\ RowOf(d) = job[f.job]
        BY <2>2, <3>1 DEF Carries, RowOf
      <3> QED BY <2>2, <3>2, FenceStep DEF Carries
    <2>4. Justified(d)
      BY <1>2 DEF OutcomesJustified, Reasoned
    <2>5. ToldToPause(d) => RowOf(d).status \in {"PAUSING", "CANCELLING"}
      <3>1. RowOK(RowOf(d)) /\ RowOf(d).status \in ExecutingStatus
        BY <2>1, <2>3 DEF DInv, IInv, RowOf, Carries
      <3> QED BY <3>1, Directives DEF ToldToPause, ExecutingStatus
    <2> QED BY <1>2, <2>1, <2>3, <2>4, <2>5 DEF Reasoned, Justified, ExecutingStatus
  <1> QED BY <1>1, <1>2, ReasonsStep

\* Only the monitor of its own dispatcher renews a lease.
LEMMA NotRenewed ==
  ASSUME DInv, [DispatcherNext]_allVars, NEW d \in Dispatchers, NEW f \in fences,
         FenceOf(d) = f, disp[d].at # "executing", NEW r \in Reading, Owns(f, r)'
  PROVE  Owns(f, r)
  <1>1. IInv /\ f \in Fence /\ f.job \in Job
    BY DEF DInv, IInv, TypeOK, Fence
  <1>2. Carries(f)' /\ job'[f.job].expires > r
    BY DEF Owns, Carries
  <1>3. Carries(f)
    BY <1>2, FenceStep
  <1>4. /\ r \in Int /\ job[f.job].expires \in Int /\ job'[f.job].expires \in Int
    <2>1. IInv'
      BY NextDInv DEF DInv
    <2>2. job[f.job] \in Row /\ job'[f.job] \in Row
      BY <1>1, <2>1 DEF IInv, TypeOK
    <2> QED BY <2>2, TimeFacts DEF Row
  <1>5. CASE \E e \in Dispatchers : MonitorHeartbeats(e)
    <2>1. PICK e \in Dispatchers : MonitorHeartbeats(e)
      BY <1>5
    <2>2. PICK s \in Reading : Heartbeat(FenceOf(e), s)
      BY <2>1 DEF MonitorHeartbeats
    <2>3. disp[e].at = "executing" /\ FenceOf(e) \in fences /\ FenceOf(e) \in Fence
      BY <2>1, FenceFacts DEF DInv, MonitorHeartbeats, At, IInv, TypeOK
    <2>4. f.job # FenceOf(e).job
      <3>1. Carries(FenceOf(e))
        BY <2>2, <2>3 DEF Heartbeat, Owns, Carries
      <3>2. FenceOf(e) # FenceOf(d) /\ FenceOf(e) # f
        BY <2>3, FenceFacts DEF DInv, FencesDistinct
      <3> QED BY <1>1, <1>3, <2>3, <3>1, <3>2, SameFence
    <2>5. job'[f.job] = job[f.job]
      BY <1>1, <2>2, <2>3, <2>4, HeartbeatGoesOn
    <2> QED BY <1>1, <1>2, <1>3, <2>5, OwnsMeansCarries
  <1>6. CASE ~\E e \in Dispatchers : MonitorHeartbeats(e)
    <2>1. GoesOn(f.job)
      BY <1>1, <1>2, <1>6, QuietStep, CarriesStep
    <2>2. job[f.job].expires > r
      BY <1>2, <1>4, <2>1 DEF GoesOn
    <2> QED BY <1>1, <1>3, <2>2, OwnsMeansCarries
  <1> QED BY <1>5, <1>6

\* A refusal, when the lease is good for every clock, shows that a command came in.
LEMMA RefusalShows ==
  ASSUME DInv, NEW d \in Dispatchers, Justified(d), SettlementRejected(d),
         Owns(FenceOf(d), ClockLead)
  PROVE  /\ RowOf(d).status # "RUNNING" /\ disp[d].outcome # "cancelled"
         /\ RowOf(d).status = "PAUSING" => disp[d].outcome # "paused"
  <1>1. FenceOf(d) \in fences /\ FenceOf(d) \in Fence /\ FenceOf(d).job \in Job
    BY FenceFacts DEF DInv, SettlementRejected, At, IInv, TypeOK, Fence
  <1>2. ClockLead \in Reading /\ ClockLead \in Int
    BY QueueAssumption DEF Reading, Elapsed
  <1>3. Carries(FenceOf(d)) /\ RowOf(d).expires > ClockLead /\ RowOf(d).expires \in Int
    <2>1. RowOf(d) \in Row
      BY <1>1 DEF DInv, IInv, TypeOK, RowOf
    <2> QED BY <1>1, <1>2, <2>1, TimeFacts, OwnsMeansCarries DEF DInv, Row, RowOf
  <1>4. PICK r \in Reading : ~Acceptable(FenceOf(d), r, disp[d].outcome)
    BY DEF SettlementRejected
  <1>5. Owns(FenceOf(d), r)
    <2>1. r \in Int /\ r <= ClockLead
      BY TimeFacts, <1>2 DEF Reading, Elapsed
    <2>2. RowOf(d).expires > r
      BY <1>2, <1>3, <2>1
    <2> QED BY <1>1, <1>3, <2>2, OwnsMeansCarries DEF DInv, RowOf
  <1>6. /\ RowOf(d).status \in ExecutingStatus
        /\ RowOf(d).attempt = FenceOf(d).attempt
    BY <1>3 DEF Carries, RowOf
  <1>7. /\ disp[d].outcome = "paused" => RowOf(d).status \in {"PAUSING", "CANCELLING"}
        /\ disp[d].outcome = "retry" => RowOf(d).attempt < RowOf(d).maxAttempts
    BY <1>3, <1>6 DEF Justified
  <1>8. CASE disp[d].outcome = "cancelled"
    BY <1>4, <1>5, <1>6, <1>8 DEF Acceptable, RowOf
  <1>9. CASE disp[d].outcome = "paused"
    BY <1>4, <1>5, <1>7, <1>9 DEF Acceptable, RowOf
  <1>10. CASE disp[d].outcome \notin {"cancelled", "paused"}
    BY <1>4, <1>5, <1>7, <1>10 DEF Acceptable, RowOf
  <1> QED BY <1>8, <1>9, <1>10

LEMMA ExplainedStep == EInv /\ [DispatcherNext]_allVars => RefusalsExplained'
  <1> SUFFICES ASSUME EInv, [DispatcherNext]_allVars, NEW d \in Dispatchers,
                      disp'[d].at = "rechecking", Owns(FenceOf(d), ClockLead)'
               PROVE  /\ RowOf(d)'.status # "RUNNING" /\ disp'[d].outcome # "cancelled"
                      /\ RowOf(d)'.status = "PAUSING" => disp'[d].outcome # "paused"
    BY DEF RefusalsExplained, At
  <1>1. ClockLead \in Reading /\ DInv /\ DInv'
    BY QueueAssumption, NextDInv DEF Reading, Elapsed, EInv
  <1>2. FenceOf(d)' # NoFence
    BY <1>1 DEF DInv, DispatcherTypeOK
  <1>3. Reasoned(d)
    BY <1>1, <1>2, ReasonsStep
  <1>4. FenceOf(d)' = FenceOf(d) /\ FenceOf(d) # NoFence /\ FenceOf(d) \in fences
    BY <1>1, <1>2, <1>3, FenceFacts DEF Reasoned, DInv
  <1>5. CASE SettlementRejected(d)
    <2>1. UNCHANGED vars /\ disp'[d].outcome = disp[d].outcome
      BY <1>1, <1>5 DEF SettlementRejected, DInv, DispatcherTypeOK, DispatcherState
    <2>2. Owns(FenceOf(d), ClockLead) /\ RowOf(d)' = RowOf(d)
      BY <1>4, <2>1 DEF Owns, RowOf, vars
    <2>3. Justified(d)
      BY <1>4 DEF EInv, OutcomesJustified
    <2> QED BY <1>1, <1>5, <2>1, <2>2, <2>3, RefusalShows
  <1>6. CASE disp'[d] = disp[d]
    <2>1. PICK f \in fences : FenceOf(d) = f
      BY <1>4
    <2>2. Owns(f, ClockLead)' /\ FenceOf(d)' = f
      BY <1>4, <2>1 DEF Owns
    <2>3. disp[d].at = "rechecking"
      BY <1>6
    <2>4. Owns(f, ClockLead)
      BY <1>1, <2>1, <2>2, <2>3, NotRenewed
    <2>5. Carries(f)' /\ Carries(f)
      BY <2>2, <2>4 DEF Owns, Carries
    <2>6. /\ RowOf(d)'.status = "RUNNING" => RowOf(d).status = "RUNNING"
          /\ RowOf(d).status = "CANCELLING" => RowOf(d)'.status = "CANCELLING"
          /\ RowOf(d).status \in ExecutingStatus
      <3>1. RowOf(d)' = job'[f.job] /\ RowOf(d) = job[f.job]
        BY <2>1, <2>2 DEF RowOf
      <3> QED BY <1>1, <2>5, <3>1, FenceStep DEF Carries
    <2> QED BY <1>6, <2>1, <2>3, <2>4, <2>6 DEF EInv, RefusalsExplained, At, ExecutingStatus
  <1> QED BY <1>3, <1>5, <1>6 DEF Reasoned

LEMMA InitEInv == DispatcherInit => EInv
  <1> SUFFICES ASSUME DispatcherInit PROVE EInv
    OBVIOUS
  <1>1. DInv
    BY InitDInv
  <1>2. \A d \in Dispatchers : disp[d].at = "polling" /\ FenceOf(d) = NoFence
    BY IdleState DEF DispatcherInit, FenceOf
  <1> QED BY <1>1, <1>2 DEF EInv, OutcomesJustified, RefusalsExplained, At

LEMMA ExplainedMeans == EInv => RefusalIsExplained
  <1> SUFFICES ASSUME EInv, NEW d \in Dispatchers, At(d, "rechecking"),
                      Owns(FenceOf(d), ClockLead)
               PROVE  Controlled(RowOf(d), disp[d].outcome) # disp[d].outcome
    BY DEF RefusalIsExplained, CanExplain
  <1>1. /\ RowOf(d).status # "RUNNING" /\ disp[d].outcome # "cancelled"
        /\ RowOf(d).status = "PAUSING" => disp[d].outcome # "paused"
    BY DEF EInv, RefusalsExplained
  <1>2. FenceOf(d).job \in Job
    BY FenceFacts DEF EInv, DInv, At, Fence, IInv, TypeOK
  <1>3. RowOK(RowOf(d)) /\ RowOf(d).status \in ExecutingStatus
    BY <1>2 DEF EInv, DInv, IInv, Owns, RowOf
  <1>4. \/ Directive(RowOf(d)) = "PAUSE_REQUESTED" /\ RowOf(d).status = "PAUSING"
        \/ Directive(RowOf(d)) = "CANCEL_REQUESTED"
    BY <1>1, <1>3, Directives DEF ExecutingStatus
  <1> QED BY <1>1, <1>4 DEF Controlled

THEOREM ReasonsInvariance == DispatcherSpec => []EInv
  <1>1. EInv /\ [DispatcherNext]_allVars => EInv'
    BY NextDInv, JustifiedStep, ExplainedStep DEF EInv
  <1> QED BY <1>1, InitEInv, PTL DEF DispatcherSpec

\* Only a command can refuse the settlement of a lease that no clock takes for expired,
\* and the dispatcher still finds it when it looks again, whatever comes in between: no
\* interleaving of commands leads to the fatal branch of settleWithRetry.
THEOREM RefusalsHaveReasons == DispatcherSpec => []RefusalIsExplained
  BY ExplainedMeans, ReasonsInvariance, PTL

-----------------------------------------------------------------------------
(* Running jobs are held                                                   *)

\* Dispatcher d is at work on an execution and nothing has told it to drop it.
AtWork(d) ==
  /\ disp[d].at \in {"claimed", "executing", "controlling", "settling", "rechecking"}
  /\ At(d, "executing") => disp[d].finalization = "none" /\ disp[d].reason # "LEASE_LOST"

Holds(d, j) ==
  /\ FenceOf(d) # NoFence /\ FenceOf(d).job = j
  /\ Carries(FenceOf(d)) /\ AtWork(d)

\* No reply is lost, a monitor that goes on has not lost the lease, and once a
\* finalization has begun no clock takes the lease of a running job for live.
Sound(d) ==
  /\ disp[d].finalization # "unknown"
  /\ disp[d].monitor # "off" => disp[d].reason # "LEASE_LOST"
  /\ disp[d].finalization # "none" => ~Contradicted(d)

\* As long as nothing failed, no process is down with work in hand, every dispatcher is
\* sound, and every running job whose lease no clock takes for expired is held.
AllIsWell ==
  faults = 0 =>
    /\ \A p \in Process :
         /\ process[p] # "failed"
         /\ process[p] = "gone" => \A l \in Lane : At(<<p, l>>, "exited")
    /\ \A d \in Dispatchers : Sound(d)
    /\ \A j \in Job : job[j].status = "RUNNING" /\ job[j].expires > ClockLead =>
         \E d \in Dispatchers : Holds(d, j)

HInv == DInv /\ AllIsWell

\* The execution of d is live for every clock, runs, and still runs after the step.
RunsOn(d) ==
  /\ Owns(FenceOf(d), ClockLead) /\ RowOf(d).status = "RUNNING"
  /\ job'[FenceOf(d).job].status = "RUNNING"

\* A step of d in which nothing fails, and what d does with an execution that runs on.
WorksOn(d) ==
  /\ faults = 0 /\ UNCHANGED process
  /\ disp'[d].finalization # "unknown"
  /\ disp'[d].monitor # "off" => disp'[d].reason # "LEASE_LOST"
  /\ \/ disp'[d].finalization = "none"
     \/ FenceOf(d)' = FenceOf(d) /\ disp'[d].finalization = disp[d].finalization
     \/ ~Contradicted(d)'
  /\ AtWork(d) /\ RunsOn(d) => FenceOf(d)' = FenceOf(d) /\ AtWork(d)'

LEMMA LeadIsLast ==
  /\ ClockLead \in Reading /\ Elapsed \in Reading
  /\ \A r \in Reading : r \in Int /\ Elapsed <= r /\ r <= ClockLead
  BY QueueAssumption DEF Reading, Elapsed

\* A settlement ends the execution: its lane has no lease afterwards.
LEMMA SettlementEnds ==
  ASSUME IInv, IInv', NEW f \in fences, NEW r \in Reading, NEW outcome, NEW withWrite \in BOOLEAN,
         \/ SettlesAs(f, r, outcome, withWrite)
         \/ \E delay \in 0..MaxDelay : Yield(f, r, delay)
  PROVE  job'[f.job].status \notin ExecutingStatus
  <1>1. f.job \in Job /\ LaneOf[f.job] \in Lane /\ lease \in [Lane -> Lease]
    BY QueueAssumption DEF IInv, TypeOK, Fence
  <1>2. lease'[LaneOf[f.job]] = NoLease
    BY <1>1 DEF SettlesAs, Conclude, Retry, Yield, Cancel, Pause, Release, Settle
  <1>3. NoLease.owner \notin Job
    BY QueueAssumption DEF NoLease
  <1>4. LeaseBacksExecution'
    BY DEF IInv
  <1>5. job'[f.job].status \in ExecutingStatus =>
          lease'[LaneOf[f.job]] = [owner |-> f.job, worker |-> job'[f.job].worker,
                                   token |-> job'[f.job].token, expires |-> job'[f.job].expires]
    BY <1>1, <1>4 DEF LeaseBacksExecution, Executing
  <1> QED BY <1>1, <1>2, <1>3, <1>5

LEMMA WorkFacts ==
  ASSUME DInv, NEW d \in Dispatchers
  PROVE  /\ disp \in [Dispatchers -> DispatcherState] /\ disp[d] \in DispatcherState
         /\ faults \in Nat
         /\ Fault \/ UnboundedFault => faults' # 0
         /\ AtWork(d) => FenceOf(d) \in fences
  <1>1. ProcessOK
    BY DEF DInv, DispatcherTypeOK, ProcessOK
  <1>2. faults \in Nat
    BY <1>1, DispatcherAssumption DEF ProcessOK
  <1>3. Fault \/ UnboundedFault => faults' # 0
    BY <1>1, FaultCounts
  <1>4. /\ disp \in [Dispatchers -> DispatcherState] /\ disp[d] \in DispatcherState
        /\ AtWork(d) => FenceOf(d) \in fences
    BY FenceFacts DEF DInv, DispatcherTypeOK, AtWork
  <1> QED BY <1>2, <1>3, <1>4

\* What every clock takes for live nobody refuses.
LEMMA RunsForAll ==
  ASSUME DInv, NEW d \in Dispatchers, AtWork(d), RunsOn(d), NEW r \in Reading
  PROVE  Owns(FenceOf(d), r) /\ RowOf(d).status = "RUNNING"
  <1>1. FenceOf(d) \in Fence /\ FenceOf(d).job \in Job /\ IInv
    BY WorkFacts DEF DInv, IInv, TypeOK, Fence
  <1>2. job[FenceOf(d).job].expires \in Int
    BY <1>1, TimeFacts DEF IInv, TypeOK, Row
  <1>3. Carries(FenceOf(d)) /\ job[FenceOf(d).job].expires > ClockLead
    BY <1>1, LeadIsLast, OwnsMeansCarries DEF RunsOn
  <1>4. job[FenceOf(d).job].expires > r
    BY <1>2, <1>3, LeadIsLast
  <1> QED BY <1>1, <1>3, <1>4, OwnsMeansCarries DEF RunsOn

LEMMA PollWorks ==
  ASSUME DInv, NEW d \in Dispatchers, Sound(d), faults' = 0,
         \/ PollNothing(d) \/ PollJob(d) \/ PollFails(d) \/ ClaimReplyLost(d)
         \/ SettlementFails(d) \/ StopIsOverdue(d) \/ DrainExpires(d) \/ IgnoresAbort(d)
  PROVE  WorksOn(d)
  <1>1. disp \in [Dispatchers -> DispatcherState] /\ disp[d] \in DispatcherState
    BY WorkFacts
  <1>2. ~(Fault \/ UnboundedFault)
    BY WorkFacts
  <1>3. CASE PollNothing(d) \/ PollJob(d)
    <2>1. faults = 0 /\ UNCHANGED process /\ disp[d].at = "polling"
      <3>1. Untroubled /\ At(d, "polling")
        BY <1>3 DEF PollNothing, PollJob
      <3> QED BY <3>1 DEF Untroubled, At
    <2>2. /\ disp'[d].finalization = disp[d].finalization /\ disp[d].finalization = "none"
          /\ disp'[d].monitor = disp[d].monitor /\ disp'[d].reason = disp[d].reason
      <3> disp[d].finalization = "none"
        BY <2>1 DEF DInv, FreshWhenIdle
      <3>1. CASE PollNothing(d)
        BY <3>1 DEF PollNothing
      <3>2. CASE PollJob(d)
        <4>1. PICK f \in fences' \ fences :
                disp' = [disp EXCEPT ![d].at = "claimed", ![d].fence = f]
          BY <3>2 DEF PollJob
        <4> QED BY <1>1, <4>1 DEF DispatcherState
      <3> QED BY <1>3, <3>1, <3>2
    <2> QED BY <2>1, <2>2 DEF WorksOn, AtWork, Sound
  <1>4. CASE DrainExpires(d)
    <2>1. faults = 0 /\ UNCHANGED process /\ disp'[d] = Aborted(disp[d], "SHUTDOWN")
      BY <1>1, <1>4 DEF DrainExpires, Untroubled
    <2>2. disp[d].at = "executing" /\ "SHUTDOWN" \in Interruption
      BY <1>4 DEF DrainExpires, At, Interruption
    <2> QED BY <1>1, <2>1, <2>2, AbortedState DEF WorksOn, AtWork, At, FenceOf, Sound
  <1> QED
    BY <1>2, <1>3, <1>4
    DEF PollFails, ClaimReplyLost, SettlementFails, StopIsOverdue, IgnoresAbort

LEMMA MonitorWorks ==
  ASSUME DInv, NEW d \in Dispatchers, Sound(d), faults' = 0,
         Monitor(d) \/ MonitorFails(d)
  PROVE  WorksOn(d)
  <1>1. disp \in [Dispatchers -> DispatcherState] /\ disp[d] \in DispatcherState
    BY WorkFacts
  <1>2. ~MonitorFails(d)
    BY WorkFacts DEF MonitorFails
  <1>3. faults = 0 /\ UNCHANGED process /\ disp[d].at = "executing"
    BY <1>2 DEF Monitor, MonitorHeartbeats, MonitorLosesLease, MonitorReadsControl, Untroubled, At
  <1>4. ASSUME NEW m \in {"heartbeat", "control"}, disp' = [disp EXCEPT ![d].monitor = m],
               disp[d].monitor # "off"
        PROVE  WorksOn(d)
    <2>1. disp'[d] = [disp[d] EXCEPT !.monitor = m]
      BY <1>1, <1>4
    <2> QED BY <1>1, <1>3, <1>4, <2>1 DEF WorksOn, AtWork, At, FenceOf, DispatcherState, Sound
  <1>5. ASSUME NEW reason \in Interruption, disp' = [disp EXCEPT ![d] = Aborted(@, reason)],
               AtWork(d) /\ RunsOn(d) => reason # "LEASE_LOST"
        PROVE  WorksOn(d)
    <2>1. disp'[d] = Aborted(disp[d], reason)
      BY <1>1, <1>5
    <2> QED BY <1>1, <1>3, <1>5, <2>1, AbortedState DEF WorksOn, AtWork, At, FenceOf, Sound
  <1>6. CASE MonitorHeartbeats(d)
    BY <1>4, <1>6 DEF MonitorHeartbeats
  <1>7. CASE MonitorLosesLease(d)
    <2>1. ~(AtWork(d) /\ RunsOn(d))
      BY <1>7, RunsForAll DEF MonitorLosesLease
    <2> QED BY <1>5, <1>7, <2>1 DEF MonitorLosesLease, Interruption
  <1>8. CASE MonitorReadsControl(d)
    <2> disp[d].monitor # "off"
      BY <1>8 DEF MonitorReadsControl
    <2>1. \/ disp' = [disp EXCEPT ![d].monitor = "heartbeat"]
          \/ /\ Directive(RowOf(d)) # "CONTINUE"
             /\ disp' = [disp EXCEPT ![d] = Aborted(@, Directive(RowOf(d)))]
      BY <1>8 DEF MonitorReadsControl
    <2> DEFINE reason == Directive(RowOf(d))
    <2>2. reason # "CONTINUE" => reason \in Interruption /\ reason # "LEASE_LOST"
      BY DEF Directive, Interruption
    <2>3. \/ disp' = [disp EXCEPT ![d].monitor = "heartbeat"]
          \/ reason # "CONTINUE" /\ disp' = [disp EXCEPT ![d] = Aborted(@, reason)]
      BY <2>1
    <2> HIDE DEF reason
    <2> QED BY <1>4, <1>5, <2>2, <2>3
  <1> QED BY <1>2, <1>6, <1>7, <1>8 DEF Monitor

LEMMA ExecutionWorks ==
  ASSUME DInv, DInv', NEW d \in Dispatchers, Sound(d), faults' = 0, Executor(d)
  PROVE  WorksOn(d)
  <1>1. disp \in [Dispatchers -> DispatcherState] /\ disp[d] \in DispatcherState
    BY WorkFacts
  <1>2. ~Fault /\ ~UnboundedFault
    BY WorkFacts
  <1>3. FenceOf(d) \in fences /\ disp[d].at = "executing"
    BY FenceFacts
    DEF DInv, Executor, ExecutorWorks, ExecutorFinalizes, FinalizationRejected,
        FinalizationFails, ExecutorEnds, At
  <1>4. CASE ExecutorWorks(d)
    BY <1>4 DEF ExecutorWorks, WorksOn, Untroubled, AtWork, At, FenceOf, Sound
  <1>5. CASE ExecutorFinalizes(d)
    <2>1. /\ disp' = [disp EXCEPT ![d].finalization = "done"]
          /\ faults = 0 /\ UNCHANGED process
      BY <1>2, <1>5 DEF ExecutorFinalizes, Untroubled
    <2>2. PICK r \in Reading :
            \/ \E outcome \in Outcome :
                 SettlesAs(FenceOf(d), r, outcome, TRUE)
            \/ \E delay \in 0..MaxDelay : Yield(FenceOf(d), r, delay)
      BY <1>5 DEF ExecutorFinalizes
    <2>3. IInv /\ IInv'
      BY DEF DInv
    <2>4. job'[FenceOf(d).job].status \notin ExecutingStatus
      BY <1>3, <2>2, <2>3, SettlementEnds
    <2>5. disp'[d] = [disp[d] EXCEPT !.finalization = "done"]
      BY <1>1, <2>1
    <2>6. /\ disp'[d].finalization = "done" /\ FenceOf(d)' = FenceOf(d)
          /\ disp'[d].monitor = disp[d].monitor /\ disp'[d].reason = disp[d].reason
      BY <1>1, <2>5 DEF DispatcherState, FenceOf
    <2>7. ~Contradicted(d)'
      BY <2>4, <2>6 DEF Contradicted, RowOf, ExecutingStatus
    <2> QED BY <2>1, <2>4, <2>6, <2>7 DEF WorksOn, RunsOn, ExecutingStatus, Sound
  <1>6. CASE FinalizationRejected(d)
    <2>1. ~(AtWork(d) /\ RunsOn(d))
      BY <1>6, RunsForAll DEF FinalizationRejected
    <2>2. disp'[d] = [disp[d] EXCEPT !.finalization = "rejected"]
      BY <1>1, <1>6 DEF FinalizationRejected
    <2>3. /\ disp'[d].finalization = "rejected" /\ FenceOf(d)' = FenceOf(d)
          /\ disp'[d].monitor = disp[d].monitor /\ disp'[d].reason = disp[d].reason
      BY <1>1, <2>2 DEF DispatcherState, FenceOf
    <2>4. ~Contradicted(d) /\ faults' = faults /\ UNCHANGED process /\ UNCHANGED vars
      BY <1>2, <1>6 DEF FinalizationRejected
    <2>5. ~Contradicted(d)'
      BY <2>3, <2>4 DEF Contradicted, Owns, RowOf, vars
    <2> QED BY <2>1, <2>3, <2>4, <2>5 DEF WorksOn, Sound
  <1>7. ~FinalizationFails(d)
    BY <1>2 DEF FinalizationFails
  <1>8. CASE ExecutorEnds(d)
    <2>1. PICK result \in ExecutorOutcome :
            LET outcome == IF disp[d].reason = "none" THEN result ELSE Interrupted(disp[d].reason)
                over == disp[d].finalization # "none" \/ disp[d].reason = "LEASE_LOST"
            IN disp' = [disp EXCEPT ![d].monitor = "off",
                                    ![d].at = IF over THEN "leaving" ELSE "controlling",
                                    ![d].outcome = IF over THEN "none"
                                                   ELSE Normalized(FenceOf(d), outcome)]
      BY <1>8 DEF ExecutorEnds
    <2> DEFINE outcome == IF disp[d].reason = "none" THEN result ELSE Interrupted(disp[d].reason)
               over == disp[d].finalization # "none" \/ disp[d].reason = "LEASE_LOST"
               place == IF over THEN "leaving" ELSE "controlling"
               next == IF over THEN "none" ELSE Normalized(FenceOf(d), outcome)
    <2>2. disp' = [disp EXCEPT ![d].monitor = "off", ![d].at = place, ![d].outcome = next]
      BY <2>1
    <2>3. AtWork(d) => place = "controlling"
      BY <1>3 DEF AtWork, At
    <2> HIDE DEF place, next, over, outcome
    <2>4. disp'[d] = [disp[d] EXCEPT !.monitor = "off", !.at = place, !.outcome = next]
      BY <1>1, <2>2
    <2>5. faults = 0 /\ UNCHANGED process
      BY <1>8 DEF ExecutorEnds, Sound
    <2>6. /\ disp'[d].finalization = disp[d].finalization /\ FenceOf(d)' = FenceOf(d)
          /\ disp'[d].monitor = "off" /\ disp'[d].at = place
      BY <1>1, <2>4 DEF FenceOf, DispatcherState
    <2>7. AtWork(d) => AtWork(d)'
      BY <1>3, <2>3, <2>6 DEF AtWork, At
    <2> QED BY <2>5, <2>6, <2>7 DEF WorksOn, Sound
  <1> QED BY <1>4, <1>5, <1>6, <1>7, <1>8 DEF Executor

LEMMA ProceedWorks ==
  ASSUME DInv, DInv', NEW d \in Dispatchers, Sound(d), faults' = 0, Proceed(d)
  PROVE  WorksOn(d)
  <1>1. disp \in [Dispatchers -> DispatcherState] /\ disp[d] \in DispatcherState
    BY WorkFacts
  <1>2. ~Fault /\ ~UnboundedFault
    BY WorkFacts
  <1>3. ASSUME NEW place \in {"settling", "leaving", "rechecking", "exited"},
               disp' = [disp EXCEPT ![d].at = place], faults = 0, UNCHANGED process,
               AtWork(d) /\ RunsOn(d) => place \in {"settling", "rechecking"}
        PROVE  WorksOn(d)
    <2>1. disp'[d] = [disp[d] EXCEPT !.at = place]
      BY <1>1, <1>3
    <2> QED BY <1>1, <1>3, <2>1 DEF WorksOn, AtWork, At, FenceOf, DispatcherState, Sound
  <1>4. ASSUME NEW outcome, disp'[d] = [disp[d] EXCEPT !.at = "settling", !.outcome = outcome],
               faults = 0, UNCHANGED process
        PROVE  WorksOn(d)
    BY <1>1, <1>4 DEF WorksOn, AtWork, At, FenceOf, DispatcherState, Sound
  <1>5. CASE HandleReply(d)
    <2>1. faults = 0 /\ UNCHANGED process /\ disp[d].at = "claimed"
      BY <1>5 DEF HandleReply, Untroubled, At
    <2>2. disp[d].finalization = "none" /\ disp[d].reason = "none"
      BY <2>1 DEF DInv, FreshWhenIdle
    <2>3. CASE disp' = [disp EXCEPT ![d].at = "executing", ![d].monitor = "heartbeat"]
      <3>1. disp'[d] = [disp[d] EXCEPT !.at = "executing", !.monitor = "heartbeat"]
        BY <1>1, <2>3
      <3> QED BY <1>1, <2>1, <2>2, <3>1 DEF WorksOn, AtWork, At, FenceOf, DispatcherState
    <2>4. CASE \/ disp' = [disp EXCEPT ![d].at = "settling", ![d].outcome = "released"]
               \/ disp' = [disp EXCEPT ![d].at = "settling", ![d].outcome = "FAILED"]
      <3>1. \/ disp'[d] = [disp[d] EXCEPT !.at = "settling", !.outcome = "released"]
            \/ disp'[d] = [disp[d] EXCEPT !.at = "settling", !.outcome = "FAILED"]
        BY <1>1, <2>4
      <3> QED BY <1>4, <2>1, <3>1
    <2> QED BY <1>5, <2>3, <2>4 DEF HandleReply
  <1>6. CASE LoopExits(d)
    BY <1>3, <1>6 DEF LoopExits, Untroubled, AtWork, At
  <1>7. CASE FinalControl(d)
    <2> DEFINE next == Controlled(RowOf(d), disp[d].outcome)
    <2>1. /\ faults = 0 /\ UNCHANGED process
          /\ \/ disp' = [disp EXCEPT ![d] = [@ EXCEPT !.at = "settling", !.outcome = next]]
             \/ /\ \E r \in Reading : ~Owns(FenceOf(d), r)
                /\ disp' = [disp EXCEPT ![d] = [@ EXCEPT !.at = "leaving"]]
      BY <1>7 DEF FinalControl, Untroubled
    <2> HIDE DEF next
    <2>2. CASE disp' = [disp EXCEPT ![d] = [@ EXCEPT !.at = "settling", !.outcome = next]]
      <3>1. disp'[d] = [disp[d] EXCEPT !.at = "settling", !.outcome = next]
        BY <1>1, <2>2
      <3> QED BY <1>4, <2>1, <3>1
    <2>3. CASE /\ \E r \in Reading : ~Owns(FenceOf(d), r)
               /\ disp' = [disp EXCEPT ![d] = [@ EXCEPT !.at = "leaving"]]
      BY <1>3, <2>1, <2>3, RunsForAll
    <2> QED BY <2>1, <2>2, <2>3
  <1>8. CASE Settles(d)
    <2>1. /\ disp' = [disp EXCEPT ![d].at = "leaving"]
          /\ faults = 0 /\ UNCHANGED process
      BY <1>2, <1>8 DEF Settles, Untroubled
    <2>2. FenceOf(d) \in fences /\ IInv /\ IInv'
      BY <1>8, FenceFacts DEF DInv, Settles, At
    <2>3. PICK r \in Reading : SettlesAs(FenceOf(d), r, disp[d].outcome, FALSE)
      BY <1>8 DEF Settles
    <2>4. job'[FenceOf(d).job].status \notin ExecutingStatus
      BY <2>2, <2>3, SettlementEnds
    <2> QED BY <1>3, <2>1, <2>4 DEF RunsOn, ExecutingStatus
  <1>9. CASE SettlementRejected(d)
    BY <1>3, <1>9 DEF SettlementRejected, Untroubled
  <1>10. CASE Recheck(d)
    <2> DEFINE next == Controlled(RowOf(d), disp[d].outcome)
    <2>1. PICK r \in Reading :
            \/ /\ CanExplain(d, r)
               /\ disp' = [disp EXCEPT ![d].at = "settling", ![d].outcome = Controlled(RowOf(d), @)]
               /\ Untroubled
            \/ /\ ~CanExplain(d, r)
               /\ disp' = [disp EXCEPT ![d].at = "leaving"]
               /\ IF Owns(FenceOf(d), r) THEN RaiseFatal(d[1]) /\ UnboundedFault ELSE Untroubled
      BY <1>10 DEF Recheck
    <2>2. \/ disp' = [disp EXCEPT ![d].at = "settling", ![d].outcome = next] /\ Untroubled
          \/ /\ disp' = [disp EXCEPT ![d].at = "leaving"] /\ Untroubled
             /\ ~Owns(FenceOf(d), r)
      BY <1>1, <1>2, <2>1, Zenon
    <2>3. faults = 0 /\ UNCHANGED process
      BY <2>2 DEF Untroubled
    <2> HIDE DEF next
    <2>4. CASE disp' = [disp EXCEPT ![d].at = "settling", ![d].outcome = next]
      <3>1. disp'[d] = [disp[d] EXCEPT !.at = "settling", !.outcome = next]
        BY <1>1, <2>4
      <3> QED BY <1>4, <2>3, <3>1
    <2>5. CASE disp' = [disp EXCEPT ![d].at = "leaving"] /\ ~Owns(FenceOf(d), r)
      BY <1>3, <2>3, <2>5, RunsForAll
    <2> QED BY <2>2, <2>4, <2>5
  <1>11. CASE Leave(d)
    <2>1. disp'[d] = Idle("polling") /\ disp[d].at = "leaving" /\ faults = 0 /\ UNCHANGED process
      BY <1>1, <1>11 DEF Leave, At, Untroubled
    <2>2. Idle("polling").monitor = "off"
      BY DEF Idle
    <2> QED BY <2>1, <2>2, IdleState DEF WorksOn, AtWork
  <1> QED
    BY <1>5, <1>6, <1>7, <1>8, <1>9, <1>10, <1>11 DEF Proceed

\* Faults are counted and never forgotten.
LEMMA FaultsOnlyGrow == ProcessOK /\ [DispatcherNext]_allVars /\ faults' = 0 => faults = 0
  <1> SUFFICES ASSUME ProcessOK, [DispatcherNext]_allVars, faults' = 0 PROVE faults = 0
    OBVIOUS
  <1>1. ~Fault /\ ~UnboundedFault
    BY FaultCounts
  <1>2. ASSUME NEW d \in Dispatchers, Poll(d) \/ Monitor(d) \/ Executor(d) PROVE faults = 0
    <2>1. CASE Poll(d) \/ Monitor(d)
      <3>1. Untroubled
        BY <2>1 DEF Poll, Monitor, PollNothing, PollJob, MonitorHeartbeats, MonitorLosesLease,
                    MonitorReadsControl
      <3> QED BY <3>1 DEF Untroubled
    <2>2. CASE Executor(d)
      <3>1. Untroubled \/ faults' = faults
        BY <1>1, <2>2 DEF Executor, ExecutorWorks, ExecutorFinalizes, FinalizationRejected,
                          FinalizationFails, ExecutorEnds
      <3> QED BY <3>1 DEF Untroubled
    <2> QED BY <1>2, <2>1, <2>2
  <1>3. ASSUME NEW d \in Dispatchers, Proceed(d) \/ Timeout(d) \/ Trouble(d) \/ Vanish(d)
        PROVE  faults = 0
    <2>1. Untroubled \/ faults' = faults
      BY <1>1, <1>3
      DEF Proceed, HandleReply, LoopExits, FinalControl, Settles, SettlementRejected, Recheck,
          Leave, Timeout, Trouble, Vanish, DrainExpires, IgnoresAbort, PollFails, ClaimReplyLost,
          MonitorFails, SettlementFails, StopIsOverdue
    <2> QED BY <2>1 DEF Untroubled
  <1>4. ASSUME NEW p \in Process, Signal(p) \/ ProcessEnds(p) \/ Crash(p) \/ Restart(p)
        PROVE  faults = 0
    <2>1. faults \in Nat
      BY DispatcherAssumption DEF ProcessOK
    <2> QED BY <1>4, <2>1 DEF Signal, ProcessEnds, Crash, Restart
  <1>5. CASE UNCHANGED dispatcherVars \/ UNCHANGED allVars
    BY <1>5 DEF dispatcherVars, allVars
  <1> QED BY <1>2, <1>3, <1>4, <1>5 DEF DispatcherNext

LEMMA WorkStep ==
  ASSUME HInv, DInv', NEW d \in Dispatchers, DispatcherAction(d), faults = 0, faults' = 0
  PROVE  process[d[1]] # "gone" /\ WorksOn(d)
  <1>1. Sound(d) /\ DInv
    BY DEF HInv, AllIsWell
  <1>2. process[d[1]] # "gone"
    <2>1. d[1] \in Process /\ d[2] \in Lane /\ d = <<d[1], d[2]>>
      BY DEF Dispatchers
    <2>2. process[d[1]] = "gone" => At(d, "exited")
      BY <2>1 DEF HInv, AllIsWell
    <2> QED
      BY <2>2 DEF DispatcherAction, Poll, Monitor, Executor, Proceed, Timeout, Trouble, Vanish, Alive
  <1>3. ~Vanish(d)
    BY <1>2 DEF Vanish
  <1> QED
    BY <1>1, <1>2, <1>3, PollWorks, MonitorWorks, ExecutionWorks, ProceedWorks
    DEF DispatcherAction, Poll, Timeout, Trouble

\* A job that runs with a lease good for every clock has just been started or got its
\* lease renewed, or had it before.
LEMMA RanBefore ==
  ASSUME DInv, [DispatcherNext]_allVars, NEW j \in Job,
         job'[j].status = "RUNNING", job'[j].expires > ClockLead,
         ~\E e \in Dispatchers : MonitorHeartbeats(e) /\ FenceOf(e).job = j
  PROVE  \/ Starts(j)
         \/ /\ job[j].status = "RUNNING" /\ job[j].expires > ClockLead
            /\ job'[j].worker = job[j].worker /\ job'[j].token = job[j].token
            /\ job'[j].attempt = job[j].attempt
  <1>1. CASE \E e \in Dispatchers : MonitorHeartbeats(e)
    <2>1. PICK e \in Dispatchers, r \in Reading : /\ MonitorHeartbeats(e)
                                                  /\ Heartbeat(FenceOf(e), r)
      BY <1>1 DEF MonitorHeartbeats
    <2>2. FenceOf(e) \in fences /\ IInv
      BY <2>1, FenceFacts DEF DInv, MonitorHeartbeats, At
    <2>3. job'[j] = job[j]
      BY <2>1, <2>2, HeartbeatGoesOn
    <2> QED BY <2>3
  <1>2. CASE ~\E e \in Dispatchers : MonitorHeartbeats(e)
    <2>1. GoesOn(j) \/ Starts(j)
      BY <1>2, QuietStep DEF NoRevival, ExecutingStatus
    <2>2. GoesOn(j) => job[j].expires > ClockLead
      <3>1. DInv'
        BY NextDInv
      <3>2. job[j].expires \in Int /\ job'[j].expires \in Int /\ ClockLead \in Int
        BY <3>1, TimeFacts, LeadIsLast DEF DInv, IInv, TypeOK, Row
      <3> QED BY <3>2 DEF GoesOn
    <2> QED BY <2>1, <2>2 DEF GoesOn
  <1> QED BY <1>1, <1>2

\* Who renews the lease of a running job holds it.
LEMMA RenewedIsHeld ==
  ASSUME DInv, NEW e \in Dispatchers, Sound(e), MonitorHeartbeats(e), NEW j \in Job,
         FenceOf(e).job = j, job'[j].status = "RUNNING"
  PROVE  Holds(e, j)'
  <1>1. PICK r \in Reading : Heartbeat(FenceOf(e), r)
    BY DEF MonitorHeartbeats
  <1>2. /\ FenceOf(e) \in fences /\ FenceOf(e) \in Fence /\ FenceOf(e) # NoFence /\ IInv
        /\ disp \in [Dispatchers -> DispatcherState] /\ disp[e] \in DispatcherState
    BY FenceFacts, WorkFacts DEF DInv, MonitorHeartbeats, At, IInv, TypeOK
  <1>3. /\ job'[j].status = job[j].status /\ job'[j].worker = job[j].worker
        /\ job'[j].token = job[j].token /\ job'[j].attempt = job[j].attempt
    BY <1>1, <1>2, HeartbeatGoesOn
  <1>4. Owns(FenceOf(e), r) /\ Carries(FenceOf(e)) /\ job[j].expires > r
    BY <1>1, <1>2, OwnsMeansCarries DEF Heartbeat
  <1>5. Contradicted(e)
    <2>1. job[j].expires \in Int
      BY <1>2, TimeFacts DEF IInv, TypeOK, Row
    <2>2. job[j].expires > Elapsed
      BY <1>4, <2>1, LeadIsLast
    <2>3. Owns(FenceOf(e), Elapsed)
      BY <1>2, <1>4, <2>2, LeadIsLast, OwnsMeansCarries
    <2> QED BY <1>3, <2>3 DEF Contradicted, RowOf
  <1>6. /\ disp'[e] = [disp[e] EXCEPT !.monitor = "control"]
        /\ disp[e].at = "executing" /\ disp[e].monitor # "off"
    BY <1>2 DEF MonitorHeartbeats, At
  <1>7. disp[e].finalization = "none" /\ disp[e].reason # "LEASE_LOST"
    BY <1>5, <1>6 DEF Sound
  <1>8. FenceOf(e)' = FenceOf(e) /\ AtWork(e)'
    BY <1>2, <1>6, <1>7 DEF FenceOf, AtWork, At, DispatcherState
  <1>9. Carries(FenceOf(e))'
    BY <1>3, <1>4, <1>8 DEF Carries
  <1> QED BY <1>2, <1>8, <1>9 DEF Holds

\* Who starts a job holds it.
LEMMA StartedIsHeld ==
  ASSUME DInv, [DispatcherNext]_allVars, NEW j \in Job, Starts(j), job'[j].status = "RUNNING"
  PROVE  \E d \in Dispatchers : Holds(d, j)'
  <1>1. DInv'
    BY NextDInv
  <1>2. PICK f \in Fence :
          /\ f = [job |-> j, worker |-> job'[j].worker, token |-> job'[j].token,
                  attempt |-> job'[j].attempt]
          /\ f.token \notin TokensInUse
          /\ fences' = fences \union {f}
    BY DEF Starts
  <1>3. f \notin fences /\ f \in fences'
    BY <1>2 DEF TokensInUse
  <1>4. PICK d \in Dispatchers : FenceOf(d)' = f /\ f # NoFence
    BY <1>1, <1>3 DEF DInv, DispatcherTypeOK
  <1>5. disp'[d].at = "claimed"
    <2>1. disp'[d].at = "claimed" \/ Reasoned(d)
      BY <1>4, ReasonsStep
    <2>2. ~Reasoned(d)
      BY <1>3, <1>4, FenceFacts DEF Reasoned, DInv
    <2> QED BY <2>1, <2>2
  <1>6. f.job = j /\ Carries(f)'
    BY <1>2 DEF Carries, ExecutingStatus
  <1>7. Carries(FenceOf(d))'
    BY <1>4, <1>6 DEF Carries
  <1> QED BY <1>4, <1>5, <1>6, <1>7 DEF Holds, AtWork, At

\* A refused finalization that no clock contradicts stays uncontradicted.
LEMMA ContradictedBefore ==
  ASSUME DInv, [DispatcherNext]_allVars, NEW d \in Dispatchers, disp[d].finalization # "none",
         FenceOf(d)' = FenceOf(d), Contradicted(d)'
  PROVE  Contradicted(d)
  <1>1. disp[d].at \notin {"polling", "exited"}
    BY DEF DInv, FreshWhenIdle
  <1>2. PICK f \in fences : f = FenceOf(d)
    BY <1>1, FenceFacts DEF DInv
  <1>3. Owns(f, Elapsed)' /\ job'[f.job].status = "RUNNING" /\ f \in Fence /\ IInv
    BY <1>2 DEF Contradicted, Owns, RowOf, DInv, IInv, TypeOK
  <1>4. [Next]_vars
    BY QueueStep
  <1>5. Owns(f, Elapsed)
    BY <1>3, <1>4, OwnedBefore
  <1>6. Carries(f)'
    <2>1. job'[f.job].status \in ExecutingStatus
      BY <1>3 DEF ExecutingStatus
    <2> QED BY <1>3, <2>1 DEF Carries, Owns
  <1>7. job[f.job].status = "RUNNING"
    BY <1>3, <1>6, FenceStep
  <1> QED BY <1>2, <1>5, <1>7 DEF Contradicted, RowOf

LEMMA SoundStep ==
  ASSUME DInv, [DispatcherNext]_allVars, NEW d \in Dispatchers, Sound(d),
         \/ disp'[d] = disp[d]
         \/ disp'[d] = Idle("polling")
         \/ WorksOn(d)
  PROVE  Sound(d)'
  <1>1. CASE disp'[d] = disp[d]
    <2>1. FenceOf(d)' = FenceOf(d)
      BY <1>1 DEF FenceOf
    <2>2. disp[d].finalization # "none" => ~Contradicted(d)'
      BY <2>1, ContradictedBefore DEF Sound
    <2> QED BY <1>1, <2>2 DEF Sound
  <1>2. CASE disp'[d] = Idle("polling")
    <2>1. Idle("polling").monitor = "off" /\ Idle("polling").finalization = "none"
      BY DEF Idle
    <2> QED BY <1>2, <2>1 DEF Sound
  <1>3. CASE WorksOn(d)
    <2>1. disp'[d].finalization # "none" => ~Contradicted(d)'
      <3>1. CASE FenceOf(d)' = FenceOf(d) /\ disp'[d].finalization = disp[d].finalization
        BY <3>1, ContradictedBefore DEF Sound
      <3> QED BY <1>3, <3>1 DEF WorksOn
    <2> QED BY <1>3, <2>1 DEF WorksOn, Sound
  <1> QED BY <1>1, <1>2, <1>3

LEMMA WellStep == HInv /\ [DispatcherNext]_allVars => AllIsWell'
  <1> SUFFICES ASSUME HInv, [DispatcherNext]_allVars, faults' = 0
               PROVE  /\ \A p \in Process :
                           /\ process'[p] # "failed"
                           /\ process'[p] = "gone" => \A l \in Lane : At(<<p, l>>, "exited")'
                      /\ \A d \in Dispatchers : Sound(d)'
                      /\ \A j \in Job : job'[j].status = "RUNNING" /\ job'[j].expires > ClockLead =>
                           \E d \in Dispatchers : Holds(d, j)'
    BY DEF AllIsWell
  <1>1. DInv /\ DInv'
    BY NextDInv DEF HInv
  <1>2. faults = 0
    BY <1>1, FaultsOnlyGrow DEF DInv, DispatcherTypeOK, ProcessOK
  <1>3. /\ \A p \in Process :
             /\ process[p] # "failed"
             /\ process[p] = "gone" => \A l \in Lane : At(<<p, l>>, "exited")
        /\ \A d \in Dispatchers : Sound(d)
        /\ \A j \in Job : job[j].status = "RUNNING" /\ job[j].expires > ClockLead =>
             \E d \in Dispatchers : Holds(d, j)
    BY <1>2 DEF HInv, AllIsWell
  <1>4. /\ disp \in [Dispatchers -> DispatcherState]
        /\ process \in [Process -> {"up", "draining", "failed", "gone"}]
        /\ \A p \in Process, l \in Lane : <<p, l>> \in Dispatchers
    BY <1>1 DEF DInv, DispatcherTypeOK, Dispatchers
  <1>5. ASSUME NEW e \in Dispatchers, DispatcherAction(e)
        PROVE  /\ process[e[1]] # "gone" /\ WorksOn(e)
               /\ \A d \in Dispatchers \ {e} : disp'[d] = disp[d]
    BY <1>1, <1>2, <1>4, <1>5, WorkStep, DispatcherStep DEF StepOf, GoesTo
  <1>6. \/ \E e \in Dispatchers : DispatcherAction(e)
        \/ \E p \in Process : Signal(p) \/ ProcessEnds(p) \/ Restart(p)
        \/ UNCHANGED <<process, disp>>
    <2>1. ~\E p \in Process : Crash(p)
      BY <1>2 DEF Crash
    <2> QED BY <2>1 DEF DispatcherNext, DispatcherAction, dispatcherVars, allVars
  <1>7. ASSUME NEW p \in Process
        PROVE  /\ process'[p] # "failed"
               /\ process'[p] = "gone" => \A l \in Lane : At(<<p, l>>, "exited")'
    <2>1. ASSUME NEW e \in Dispatchers, DispatcherAction(e)
          PROVE  /\ process'[p] # "failed"
                 /\ process'[p] = "gone" => \A l \in Lane : At(<<p, l>>, "exited")'
      BY <1>3, <1>4, <1>5, <2>1 DEF WorksOn, At
    <2>2. ASSUME NEW q \in Process, Signal(q) \/ ProcessEnds(q)
          PROVE  /\ process'[p] # "failed"
                 /\ process'[p] = "gone" => \A l \in Lane : At(<<p, l>>, "exited")'
      BY <1>3, <1>4, <2>2 DEF Signal, ProcessEnds, At
    <2>3. ASSUME NEW q \in Process, Restart(q)
          PROVE  /\ process'[p] # "failed"
                 /\ process'[p] = "gone" => \A l \in Lane : At(<<p, l>>, "exited")'
      <3>1. p = q => process'[p] = "up"
        BY <1>4, <2>3 DEF Restart
      <3>2. p # q => process'[p] = process[p] /\ \A l \in Lane : disp'[<<p, l>>] = disp[<<p, l>>]
        BY <1>4, <2>3 DEF Restart
      <3> QED BY <1>3, <3>1, <3>2 DEF At
    <2>4. CASE UNCHANGED <<process, disp>>
      BY <1>3, <2>4 DEF At
    <2> QED BY <1>6, <2>1, <2>2, <2>3, <2>4
  <1>8. ASSUME NEW d \in Dispatchers PROVE Sound(d)'
    <2>1. ASSUME NEW e \in Dispatchers, DispatcherAction(e)
          PROVE  disp'[d] = disp[d] \/ WorksOn(d)
      BY <1>5, <2>1
    <2>2. ASSUME NEW q \in Process, Restart(q)
          PROVE  disp'[d] = Idle("polling") \/ disp'[d] = disp[d]
      BY <2>2 DEF Restart
    <2>3. disp'[d] = disp[d] \/ disp'[d] = Idle("polling") \/ WorksOn(d)
      BY <1>6, <2>1, <2>2 DEF Signal, ProcessEnds
    <2> QED BY <1>1, <1>3, <2>3, SoundStep
  <1>9. ASSUME NEW j \in Job, job'[j].status = "RUNNING", job'[j].expires > ClockLead
        PROVE  \E d \in Dispatchers : Holds(d, j)'
    <2>1. CASE \E e \in Dispatchers : MonitorHeartbeats(e) /\ FenceOf(e).job = j
      BY <1>1, <1>3, <1>9, <2>1, RenewedIsHeld
    <2>2. CASE Starts(j)
      BY <1>1, <1>9, <2>2, StartedIsHeld
    <2>3. CASE /\ job[j].status = "RUNNING" /\ job[j].expires > ClockLead
               /\ job'[j].worker = job[j].worker /\ job'[j].token = job[j].token
               /\ job'[j].attempt = job[j].attempt
      <3>1. PICK d \in Dispatchers : Holds(d, j)
        BY <1>3, <2>3
      <3>2. PICK f \in fences : FenceOf(d) = f /\ f.job = j /\ f # NoFence
        BY <1>1, <3>1, FenceFacts DEF Holds, DInv
      <3>3. f \in Fence /\ Carries(f) /\ AtWork(d)
        BY <1>1, <3>1, <3>2 DEF DInv, IInv, TypeOK, Holds
      <3>4. RunsOn(d)
        BY <1>1, <1>9, <2>3, <3>2, <3>3, LeadIsLast, OwnsMeansCarries DEF RunsOn, RowOf, DInv
      <3>5. FenceOf(d)' = FenceOf(d) /\ AtWork(d)'
        <4>1. ASSUME NEW e \in Dispatchers, DispatcherAction(e)
              PROVE  FenceOf(d)' = FenceOf(d) /\ AtWork(d)'
          BY <1>5, <3>3, <3>4, <4>1 DEF WorksOn, FenceOf, AtWork, At
        <4>2. ASSUME NEW q \in Process, Restart(q)
              PROVE  FenceOf(d)' = FenceOf(d) /\ AtWork(d)'
          <5>1. d[2] \in Lane /\ d = <<d[1], d[2]>>
            BY DEF Dispatchers
          <5>2. d[1] # q
            BY <3>3, <4>2, <5>1 DEF Restart, AtWork, At
          <5>3. disp'[d] = disp[d]
            BY <4>2, <5>2 DEF Restart
          <5> QED BY <3>3, <5>3 DEF FenceOf, AtWork, At
        <4>3. CASE UNCHANGED disp
          BY <3>3, <4>3 DEF FenceOf, AtWork, At
        <4> QED BY <1>6, <4>1, <4>2, <4>3 DEF Signal, ProcessEnds
      <3>6. Carries(f)'
        BY <1>9, <2>3, <3>2, <3>3 DEF Carries, ExecutingStatus
      <3>7. Carries(FenceOf(d))'
        BY <3>2, <3>5, <3>6 DEF Carries
      <3> QED BY <3>2, <3>5, <3>7 DEF Holds
    <2> QED BY <1>1, <1>9, <2>1, <2>2, <2>3, RanBefore
  <1> QED BY <1>7, <1>8, <1>9

\* Stopping, restarting and rolling worker processes at any moment, also with a claim in
\* flight or while an executor hands its job back, strands no running job until its lease
\* expires, however far the clocks of the workers are apart.
THEOREM RunningJobsAreHeld == DispatcherSpec => []RunningJobIsHeld
  <1>1. DispatcherInit => HInv
    <2> SUFFICES ASSUME DispatcherInit PROVE HInv
      OBVIOUS
    <2>1. DInv
      BY InitDInv
    <2>2. \A d \in Dispatchers : disp[d] = Idle("polling")
      BY DEF DispatcherInit
    <2>3. \A j \in Job : job[j].status # "RUNNING"
      BY AbsentRowOK DEF DispatcherInit, Init
    <2>4. \A p \in Process : process[p] = "up"
      BY DEF DispatcherInit
    <2>5. Idle("polling").monitor = "off" /\ Idle("polling").finalization = "none"
      BY DEF Idle
    <2>6. \A d \in Dispatchers : Sound(d)
      BY <2>2, <2>5 DEF Sound
    <2> QED BY <2>1, <2>3, <2>4, <2>6 DEF HInv, AllIsWell
  <1>2. HInv /\ [DispatcherNext]_allVars => HInv'
    BY NextDInv, WellStep DEF HInv
  <1>3. HInv => RunningJobIsHeld
    <2> SUFFICES ASSUME HInv, faults = 0, NEW j \in Job, job[j].status = "RUNNING",
                        job[j].expires > ClockLead
                 PROVE  \E d \in Dispatchers :
                          /\ FenceOf(d).token = job[j].token
                          /\ disp[d].at \in {"claimed", "executing", "controlling", "settling",
                                             "rechecking"}
      BY DEF RunningJobIsHeld
    <2>1. PICK d \in Dispatchers : Holds(d, j)
      BY DEF HInv, AllIsWell
    <2> QED BY <2>1 DEF Holds, Carries, AtWork
  <1> QED BY <1>1, <1>2, <1>3, PTL DEF DispatcherSpec

=============================================================================
