SPECIFICATION Spec
CONSTANTS
  Session = {s1, s2}
  Extraction = {x1, x2}
  Opening = {h}
  Remainder = {a, b}
  None = None
  MaxQuestions = 2
  MaxFollowUp = 1
  Assessments <- MCAssessments
  LowScore = 60
  MaxAnswers = 3
  MaxFailures = 1
SYMMETRY Symmetric
INVARIANTS OwnQuestions  
CHECK_DEADLOCK FALSE
