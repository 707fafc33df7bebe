SPECIFICATION Spec
CONSTANTS
  Clients = {c1}
  MaxInput = 3
  MaxOthers = 1
  MaxFailures = 1
INVARIANTS CompletedIsPublished
PROPERTIES ClientCatchesUp ChangesArePublished
