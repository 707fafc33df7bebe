-------------------------- MODULE MCRunScheduling --------------------------
(* An instance of RunScheduling for TLC: four requests, two with one key,  *)
(* and the occurrences of the schedules.                                   *)
EXTENDS RunScheduling, TLC

CONSTANTS k, c1, c2, c3, c4

AllCalls == {c1, c2, c3, c4} \cup Occurrences

Keys == [c \in Calls |-> IF c \in {c1, c2} THEN k ELSE IF c \in Occurrences THEN c ELSE None]

SchedulingSymmetry ==
  Permutations({c1, c2}) \cup Permutations({c3, c4}) \cup Permutations(Dispatchers)
=============================================================================
