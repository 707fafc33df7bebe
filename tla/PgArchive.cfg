SPECIFICATION ArchiveFairSpec
CONSTANTS
  Runs = {r1}
  JobRuns = {}
  Tokens = {t1, t2}
  Engines = {e1}
  None = None
  MaxAttempts = 2
  p1 = p1
  Projects = {p1}
  ProjectOf <- SoleProject
PROPERTIES ReassignedRunIsFenced ArchivedRunStops NoRunIsStuck
