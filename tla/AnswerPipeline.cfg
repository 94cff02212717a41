SPECIFICATION Spec
CONSTANTS
  Call = {c1, c2, c3}
  Request = {r1, r2, r3}
  None = None
  TotalQuestions = 2
  MaxFollowUp = 1
  CASRetries = 2
  MaxEvalFailures = 1
  MaxScoreFailures = 1
  MaxCrashes = 1
SYMMETRY Symmetric
INVARIANTS OneCallPerQuestion FlowCoherent AppliedOnce  
PROPERTY AnswersCurrentQuestion
CHECK_DEADLOCK FALSE
