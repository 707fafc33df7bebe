SPECIFICATION Spec
CONSTANTS
  Calls = {c1, c2}
  None = None
SYMMETRY CallSymmetry
INVARIANTS ExecutedAtMostOnce
CHECK_DEADLOCK FALSE
