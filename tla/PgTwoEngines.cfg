SPECIFICATION Spec
CONSTANTS
  Runs = {r1}
  JobRuns = {r1}
  Tokens = {t1, t2}
  Engines = {e1, e2}
  None = None
  MaxAttempts = 2
SYMMETRY TokenSymmetry
INVARIANTS OneResultPerRun SuccessIsHonest AttemptsAreCounted EventTellsFinalStatus
PROPERTIES ReassignedRunIsFenced CancellationSticks ImplementsLifecycle
