SPECIFICATION FairSpec
CONSTANTS
  Content = {a}
  MaxTasks = 3
  Drafted = 2
  MaxParallel = 2
  MaxAttempts = 2
  MaxReplans = 1
  MaxTouched = 1
  Twins = TRUE
INVARIANT WorkIsDoneOnce
PROPERTY RunConcludes
CHECK_DEADLOCK FALSE
