------------------------- MODULE MCPostgresEffects -------------------------
(* Instances of PostgresEffects for TLC.*)
EXTENDS PostgresEffects, TLC

(* Calls are only compared for equality.                                   *)
CallSymmetry == Permutations(Calls)
=============================================================================
