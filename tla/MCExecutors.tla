------------------------------ MODULE MCExecutors ------------------------------
(* The executors that move the user's files, for TLC.  They share no state, so  *)
(* each behaviour is one of the replacement or one of the migration.            *)
EXTENDS PendingReplace, Migration, TLC

CONSTANTS f1, f2, f3, f4, a, b

VARIABLE executor

vars == <<replaceVars, migrationVars, executor>>

\* The second old file and the first new one may or may not share a name.
Namings == {[f \in {f1, f2, f3, f4} |-> CASE f = f1 -> 1 [] f = f2 -> 2 [] f = f3 -> n [] f = f4 -> 4] :
              n \in {2, 3}}

\* The other executor has one initial state.
Init ==
  /\ executor \in {"replace", "migrate"}
  /\ ReplaceInit /\ MigrationInit
  /\ executor = "replace" => \A f \in Media : row[f] = home
  /\ executor = "migrate" => nameOf = CHOOSE naming \in Naming : TRUE

Next ==
  \/ executor = "replace" /\ ReplaceNext /\ UNCHANGED <<migrationVars, executor>>
  \/ executor = "migrate" /\ MigrationNext /\ UNCHANGED <<replaceVars, executor>>

Spec == Init /\ [][Next]_vars

Symmetry == Permutations(Dir)
=============================================================================
