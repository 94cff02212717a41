SPECIFICATION FairSpec
CONSTANTS
  Calls = 2
  Worker = {w1}
  None = None
  MaxRetry = 2
  CASRetries = 1
  RecentTurnLimit = 1
  Overlap = TRUE
  MaxFailures = 2
  MaxLosses = 1
INVARIANTS LoggedOnce 
PROPERTY RepairEnds
CHECK_DEADLOCK FALSE
