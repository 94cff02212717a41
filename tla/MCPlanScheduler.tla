-------------------------- MODULE MCPlanScheduler --------------------------
EXTENDS PlanScheduler, TLC
Symmetric == Permutations(Content)
=============================================================================
