-------------------------- MODULE MCPostgresArchive --------------------------
(* An instance of PostgresArchive for TLC: one project has all the runs.   *)
EXTENDS PostgresArchive

CONSTANT p1

SoleProject == [r \in Runs |-> p1]
=============================================================================
