------------------------------ MODULE MCArchive ------------------------------
(* Values for the constants of ArchiveMaintenance.                         *)
EXTENDS ArchiveMaintenance, TLC

CONSTANTS j1, j2, j3, i1, i2, m1, m2

Symmetry == Permutations(Job) \union Permutations(Import) \union Permutations(Media)

\* Import jobs are paused and resumed from the job list, cleanup jobs cancelled.
ListedHere == ({"IMPORT"} \X {"PAUSE", "RESUME"}) \union {<<"CLEAN_STAGING", "CANCEL">>}
=============================================================================
