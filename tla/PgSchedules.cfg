SPECIFICATION SchedulingSpec
CONSTANTS
  k = k
  c1 = c1
  c2 = c2
  c3 = c3
  c4 = c4
  None = None
  Calls <- AllCalls
  KeyOf <- Keys
  Threads = 3
  MaxQueued = 1
  Schedules = {s}
  Dispatchers = {d1, d2}
  MaxClock = 2
  MaxFailures = 1
INVARIANTS OneRunPerKey BoundedQueue NoOverlap
PROPERTIES OccurrenceIsSettled DisabledIsQuiet
SYMMETRY SchedulingSymmetry
CHECK_DEADLOCK FALSE
