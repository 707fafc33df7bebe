-------------------------- MODULE MCDashboardStore --------------------------
(* An instance of DashboardStore for TLC.                                  *)
EXTENDS DashboardStore, TLC

(* Richer inputs make larger artifacts: two directories of the second      *)
(* version leave room for a third, three leave none for a fourth.          *)
StoreBytes == 19

StoreSize ==
  [v \in 0 .. MaxInput |-> [f \in Artifacts \cup {"manifest"} |->
                             IF f = "manifest" THEN 1 ELSE v]]

StoreSymmetry ==
  Permutations(Generations) \cup Permutations(Writers) \cup Permutations(Artifacts)
=============================================================================
