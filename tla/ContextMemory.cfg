SPECIFICATION Spec
CONSTANTS
  Runs = 2
  Compression = compression
  Consolidation = consolidation
  None = None
  Threshold = 2
  MinKeep = 1
  InputMax = 2
  RecentMax = 2
  PromptBudget = 3
  Prefix = 1
  SummarySize = 1
  Overlap = TRUE
  MaxFailures = 1
  MaxLosses = 1
INVARIANTS SummaryCoversPrefix ContextIsComplete
CHECK_DEADLOCK FALSE
