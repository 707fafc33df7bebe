SPECIFICATION Spec
CONSTANTS
  Generations = {g1, g2, g3, g4, g5}
  Artifacts = {payload, page}
  Writers = {w1, w2}
  Readers = {r1}
  None = None
  KeepRecent = 2
  MaxGenerations = 5
  MaxBytes <- StoreBytes
  Size <- StoreSize
  MaxInput = 2
SYMMETRY StoreSymmetry
INVARIANTS PublishedIsComplete RefusedAsLastResort
PROPERTIES ImplementsRegister
