SPECIFICATION Spec
CONSTANTS
  Calls = 3
  Worker = {w1}
  None = None
  MaxRetry = 2
  CASRetries = 2
  RecentTurnLimit = 2
  Overlap = FALSE
  MaxFailures = 1
  MaxLosses = 1
INVARIANTS ArchiveBacksSnapshot 
PROPERTIES NoTurnOverwritten 
CHECK_DEADLOCK FALSE
