-------------------------- MODULE MCSqliteEffects --------------------------
(* Instances of SqliteEffects for TLC.  *)
EXTENDS SqliteEffects, TLC

(* Calls are only compared for equality.                                   *)
CallSymmetry == Permutations(Calls)
=============================================================================
