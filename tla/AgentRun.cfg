SPECIFICATION Spec
CONSTANTS
  Requests = {s1, s2, p1, p2}
  Streams = {s1, s2}
  k = k
  Key <- MCKey
  Input <- MCInput
  RouteMode = "auto"
  RouteMinScore = 2
  LongQueryRunes = 40
  FastPathRunes = 24
  None = none
  MaxConcurrentRuns = 1
  DailyTokenLimit = 1
  MaxTokens = 1
  Faults = 1
  Crashes = 1
SYMMETRY Symmetric
INVARIANTS  BudgetIsOverdrawnByRunsUnderWay StreamKeepsItsLock NoTaskAfterClose
CHECK_DEADLOCK FALSE
