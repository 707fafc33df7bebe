---------------------------- MODULE MCSqliteRuns ----------------------------
(* Instances of SqliteRuns for TLC.                                        *)
EXTENDS SqliteRuns, TLC

TokenSymmetry == Permutations(Tokens)

(* Every request thread in the process of the one engine.                  *)
OneHome == [q \in Requests |-> CHOOSE e \in Engines : TRUE]
=============================================================================
