SPECIFICATION FairSpec
CONSTANTS
  Projects = {a, b}
  Workers = {w}
  Callers = {c}
  None = None
  GlobalMax = 2
  ProjectMax = 1
  MaxRuns = 3
INVARIANTS BoundedOvershoot WithinSlots
PROPERTIES QueuedRunsStart
CHECK_DEADLOCK FALSE
