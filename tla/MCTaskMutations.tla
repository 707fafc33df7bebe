-------------------------- MODULE MCTaskMutations --------------------------
(* An instance of TaskMutations for TLC.                                   *)
EXTENDS TaskMutations, TLC

ClientSymmetry == Permutations(Clients)
=============================================================================
