------------------------------ MODULE MCAgentRun ------------------------------
(* Equal requests of one user: some plain, some for a stream. *)
EXTENDS AgentRun, TLC

CONSTANT k

MCKey == [r \in Requests |-> k]

\* A query as the tests of the router know them (planner_test.go, TestShouldPlan).
Asks(strong, medium, runes, marks) ==
  [blank |-> FALSE, greeting |-> FALSE, brief |-> FALSE, strong |-> strong, medium |-> medium,
   runes |-> runes, marks |-> marks, lines |-> 1]

Greets == [Asks(0, 0, 2, 0) EXCEPT !.greeting = TRUE]

\* A report on three companies; the steps of an analysis; a resume to be rewritten.  A greeting;
\* the weather; a template for a resume; a text to be summed up.
ASSUME RouterAsTested ==
  /\ \A q \in {Asks(3, 2, 16, 0), Asks(2, 3, 21, 0), Asks(1, 1, 6, 0)} : UsePlan(q)
  /\ \A q \in {Greets, Asks(0, 0, 8, 1), Asks(0, 1, 9, 1), Asks(0, 1, 10, 0)} : ~ UsePlan(q)

\* Equal requests have equal input.
MCInput == [r \in Requests |-> Asks(3, 2, 16, 0)]

Symmetric == Permutations(Streams) \cup Permutations(Requests \ Streams)
=============================================================================
