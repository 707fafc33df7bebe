SPECIFICATION Spec
CONSTANTS
  Calls = {c1, c2, c3, c4}
  None = None
SYMMETRY CallSymmetry
INVARIANTS OneResultForAll ExecutedAtMostOnce
CHECK_DEADLOCK FALSE
