-------------------------- MODULE MCArchiveIntake --------------------------
(* Values for the constants of ArchiveIntake.                              *)
EXTENDS ArchiveIntake, TLC

CONSTANTS i1, i2, i3, i4, j1, j2, j3, w1, t1, t2, resolver, u1, u2, u3, x1

\* Two jobs for the first item, one for the second.
Jobs2and1 == [j \in Job |-> IF j = j3 THEN i2 ELSE i1]
AllResolve == [j \in Job |-> resolver]
OwnUrl == [i \in Item |-> IF i = i1 THEN u1 ELSE u2]
\* i3 and i4 have no job of their own: i3 repeats the link of i1, i4 has its own.
RepeatedUrl == [i \in Item |-> CASE i \in {i1, i3} -> u1 [] i = i2 -> u2 [] i = i4 -> u3]
SameWorks == [i \in Item |-> x1]
Resolve == [source |-> "MANUAL", delay |-> 0, deadline |-> {}, budget |-> 2]
ResolveRequests == {Resolve}

\* Bound: attempts spent and faults, together.
FewAttempts == job[j1].attempt + job[j2].attempt + job[j3].attempt + faults <= 3

\* Bound: no lost execution lives on beside the next one.
OneExecution == Cardinality(fences) <= 1

Symmetry == Permutations(Token)
=============================================================================
