-------------------------- MODULE MCAnswerPipeline --------------------------
EXTENDS AnswerPipeline, TLC
Symmetric == Permutations(Call) \cup Permutations(Request)
=============================================================================
