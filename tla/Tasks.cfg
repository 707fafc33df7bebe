SPECIFICATION Spec
CONSTANTS
  NumTasks = 2
  Clients = {c1, c2}
  None = None
  MaxVersion = 5
  MaxSteps = 2
SYMMETRY ClientSymmetry
INVARIANTS OneActiveTask ActiveDependencyDone StepsAddUp
PROPERTIES NoLostUpdate ImplementsBoard
CHECK_DEADLOCK FALSE
