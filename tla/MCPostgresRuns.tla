--------------------------- MODULE MCPostgresRuns ---------------------------
(* Instances of PostgresRuns for TLC.                                      *)
EXTENDS PostgresRuns, TLC

(* Tokens are drawn fresh and only compared for equality.                  *)
TokenSymmetry == Permutations(Tokens)
=============================================================================
