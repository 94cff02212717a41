SPECIFICATION Spec
CONSTANTS
  Content = {a, b, c}
  MaxTasks = 3
  Drafted = 2
  MaxParallel = 2
  MaxAttempts = 1
  MaxReplans = 2
  MaxTouched = 1
  Twins = FALSE
SYMMETRY Symmetric
INVARIANTS DoneIsCurrent EveryTaskIsAccountedFor
PROPERTY FrozenWork
CHECK_DEADLOCK FALSE
