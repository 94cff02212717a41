-------------------------------- MODULE Router --------------------------------
(***************************************************************************)
(* services/agent/plan/router.go: whether a request is worth a plan.  No   *)
(* model is asked; a query is what its text shows of signals.              *)
(***************************************************************************)
EXTENDS Integers, FiniteSetsExt

CONSTANTS
  RouteMode,        \* cfg.RouteMode: "auto", "always" or "never"
  RouteMinScore, LongQueryRunes, FastPathRunes

ASSUME RouterConfig ==
  /\ RouteMode \in {"auto", "always", "never"}
  /\ {RouteMinScore, LongQueryRunes, FastPathRunes} \subseteq Nat \ {0}

\* strong and medium are the numbers of different signals found.
Query ==
  [blank : BOOLEAN, greeting : BOOLEAN, brief : BOOLEAN,
   strong : Nat, medium : Nat, runes : Nat, marks : Nat, lines : Nat]

Points(condition, n) == IF condition THEN n ELSE 0

Score(q) ==
  Min({2 * q.strong, 4}) + Min({q.medium, 3})
  + Points(q.runes >= LongQueryRunes, 1) + Points(q.runes >= 2 * LongQueryRunes, 1)
  + Points(q.marks >= 2, 1) + Points(q.lines >= 3, 1)
  - Points(q.greeting, 3) - Points(q.brief, 3)
  - Points(q.strong = 0 /\ q.runes <= FastPathRunes /\ q.marks <= 1, 1)

\* Decide, of an enabled planner.
UsePlan(q) ==
  /\ ~ q.blank /\ RouteMode # "never"
  /\ RouteMode = "always" \/ Score(q) >= RouteMinScore
=============================================================================
