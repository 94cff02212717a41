SPECIFICATION FairSpec
CONSTANTS
  Caller = {c1, c2}
  None = None
  Waited = Waited
  MaxAttempts = 2
  MaxChunks = 1
  MaxExpiries = 1
  MaxCrashes = 1
INVARIANTS LeaderHoldsLock CanceledWasAddressed ReturnedWasExecuted
PROPERTIES ImplementsLease EveryCallReturns
CHECK_DEADLOCK FALSE
