-------------------------- MODULE MCFairScheduler --------------------------
(* Instances of FairScheduler for TLC.                                     *)
EXTENDS FairScheduler, TLC

(* Projects are not ordered, and neither are two worker loops.             *)
SchedulerSymmetry == Permutations(Projects) \cup Permutations(Workers)
=============================================================================
