----------------------------- MODULE MCJobQueue -----------------------------
(* Values for the constants of JobQueue.                                   *)
EXTENDS JobQueue, TLC

CONSTANTS j1, j2, j3, w1, w2, t1, t2, t3, writerLane, resolverLane

\* Everything in one lane, or one job in each lane.
OneLane == [j \in Job |-> writerLane]
LaneEach == [j \in Job |-> IF j = j1 THEN resolverLane ELSE writerLane]

Submit(source, delay, deadline, budget) ==
  [source |-> source, delay |-> delay, deadline |-> deadline, budget |-> budget]

Manual == {Submit("MANUAL", 0, {}, 2)}
Mixed == {Submit("MANUAL", 0, {}, 1), Submit("SYSTEM", 0, {1}, 1)}

Symmetry == Permutations(Worker) \union Permutations(Token)
JobSymmetry == Symmetry \union Permutations(Job)
=============================================================================
