---------------------------- MODULE MCDispatcher ----------------------------
(* Values for the constants of Dispatcher.                                 *)
EXTENDS Dispatcher, TLC

CONSTANTS p1, p2, w1, w2, j1, j2, t1, t2, t3, lane, otherLane

OneLane == [j \in Job |-> lane]
LaneEach == [j \in Job |-> IF j = j1 THEN lane ELSE otherLane]

\* Two processes with ids of their own, or with one configured id.
OwnId == [p \in Process |-> IF p = p1 THEN w1 ELSE w2]
SameId == [p \in Process |-> w1]

Manual(budget) == [source |-> "MANUAL", delay |-> 0, deadline |-> {}, budget |-> budget]
Once == {Manual(1)}
Twice == {Manual(2)}

Symmetry == Permutations(Token)
=============================================================================
