--------------------------- MODULE MCSingleFlight ---------------------------
EXTENDS SingleFlight, TLC
Symmetric == Permutations(Caller)
=============================================================================
