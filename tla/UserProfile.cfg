CONSTANTS
  Values = {v1, v2}
  MaxConfidence = 2
  Candidates = {c1}
  Confirmers = {u1, u2}
  Readers = {r}
  Consolidator = L2
  Rounds = 2
  Faults = 1
SPECIFICATION Spec
 
PROPERTIES WriteBuildsOnCurrent 
CHECK_DEADLOCK FALSE
SYMMETRY Alike
