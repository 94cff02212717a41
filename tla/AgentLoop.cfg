SPECIFICATION LoopSpec
CONSTANTS
  AgentTasks = {a1}
  ToolTasks = {b1}
  TextTasks = {c1}
  Once = {b1, c1}
  Synthesis = synthesis
  ReadTools = {read}
  WriteTools = {write}
  Unknown = unknown
  MaxSteps = 2
  MaxRepeatActions = 2
  MaxToolFailures = 2
  MaxParallel = 2
  MaxAttempts = 2
  MaxCalls = 2
  MaxExpired = 1
INVARIANTS SideEffectsNotRepeated WriterRunsAlone NoStepRejected
CHECK_DEADLOCK FALSE
