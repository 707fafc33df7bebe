SPECIFICATION FairSpec
CONSTANTS
  NumJobs = 2
  PolicyOf <- TwoRegistries
  OnceAt = 1
  Grace = 1
  MaxClock = 2
  MaxStarts = 2
  MaxFailures = 1
  MaxEdits = 1
INVARIANTS SlotRunsOnce CountMatchesHistory
PROPERTIES OnlySettledSlotsArePassed RegistryNeverRegresses LiveClaimIsUntouched DueSlotIsAttended
CHECK_DEADLOCK FALSE
