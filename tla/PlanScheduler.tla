--------------------------- MODULE PlanScheduler ---------------------------
(***************************************************************************)
(* services/agent/plan: ONE run of Service.Run over a plan the planner     *)
(* has produced: the rounds of Scheduler.RunRound, its worker goroutines   *)
(* with slots, attempts and backoff, the idempotency ledger they share,    *)
(* the replans between rounds, the draining round and the verdict.         *)
(*                                                                         *)
(* A task is its id; ids are numbered in plan order.  What its key hashes  *)
(* besides its dependencies (type, tool, goal, params) is its content.     *)
(*                                                                         *)
(* Bounds: MaxTasks, MaxAttempts and MaxReplans are the configuration's;   *)
(* MaxTouched bounds the size of a diff.                                   *)
(***************************************************************************)
EXTENDS Integers, FiniteSets

CONSTANTS
  MaxTasks,     \* cfg.MaxTasks
  Drafted,      \* the most tasks the planner's plan has
  Content,      \* what a task may ask for
  MaxParallel,  \* cfg.MaxParallel
  MaxAttempts,  \* RetryPolicy.MaxAttempts
  MaxReplans,   \* cfg.MaxReplans
  MaxTouched,   \* bound: the tasks one diff updates or removes
  Twins         \* FALSE: only plans in which no two tasks have one key

ASSUME PlanBounds ==
  /\ MaxTasks \in Nat \ {0} /\ Drafted \in 1 .. MaxTasks
  /\ MaxParallel \in Nat \ {0} /\ MaxAttempts \in Nat \ {0}
  /\ MaxReplans \in Nat /\ MaxTouched \in Nat
  /\ Twins \in BOOLEAN

Task == 1 .. MaxTasks

\* EnsureIdempotencyKeys: a key is the content and the bag of the dependencies' keys.
Keys(p) ==
  LET key[t \in DOMAIN p] ==
        << p[t].content,
           [k \in {key[d] : d \in p[t].deps} |-> Cardinality({d \in p[t].deps : key[d] = k})] >>
  IN  key

Acyclic(p) ==
  \E rank \in [DOMAIN p -> Task] : \A t \in DOMAIN p : \A d \in p[t].deps : rank[d] < rank[t]

\* The plans Validate accepts.
Plans ==
  UNION { {p \in [S -> [content : Content, deps : SUBSET S]] :
             Acyclic(p) /\ (Twins \/ Cardinality({Keys(p)[t] : t \in S}) = Cardinality(S))} :
          S \in SUBSET Task \ {{}} }

Outcome  == {"done", "failed", "skipped", "canceled"}
WorkerPC == {"idle", "queued", "attempt", "running", "waiting", "got", "backoff"}
Nothing  == [id |-> 0, status |-> "none", retry |-> FALSE]

VARIABLES
  plan,       \* the current plan: a record per task
  seenPlans,  \* seenPlans
  replans,    \* p.ReplanCount
  replanning, \* the scheduler's ReplanEnabled
  results,    \* the results, per task
  pending,    \* RunRound's pending
  ready,      \* the batch under way
  pc,         \* where Run is: "round", "batch", "replan", "verdict" or "end"
  wpc,        \* where each task's goroutine is
  attempt,    \* executeTask's attempt
  got,        \* executeTask's res
  cached,     \* the ledger's finished entries: <<key, the id in the result>>
  won,        \* history: the keys that have been run successfully
  ctxDone,    \* the run's context has been canceled or has timed out
  verdict     \* Result.Status

planVars  == <<plan, seenPlans, replans, replanning>>
roundVars == <<pending, ready, pc>>
workVars  == <<wpc, attempt, got>>
ledger    == <<cached, won>>
vars == <<planVars, results, roundVars, workVars, ledger, ctxDone, verdict>>

Key(t)  == Keys(plan)[t]
Deps(t) == plan[t].deps

\* descendants: everything downstream of the tasks in S.
Descendants(p, S) ==
  LET down[n \in 0 .. MaxTasks] ==
        IF n = 0 THEN S
        ELSE down[n - 1] \cup {t \in DOMAIN p : p[t].deps \cap down[n - 1] # {}}
  IN  down[MaxTasks] \ S

\* A round starts with the tasks that have no result yet.
Unfinished(p, r) == {t \in DOMAIN p : r[t] = "none"}

\* Planner.Plan: what the model drafts becomes the plan when Validate accepts it; its states
\* and results are erased.  (With no draft that is accepted there is no run here: AgentRun.)
Drafts == {p \in Plans : \E n \in 1 .. Drafted : DOMAIN p = 1 .. n}

Init ==
  /\ plan \in Drafts
  /\ seenPlans = {plan}
  /\ replans = 0
  /\ replanning \in BOOLEAN
  /\ results = [t \in Task |-> "none"]
  /\ pending = DOMAIN plan
  /\ ready = {}
  /\ pc = "round"
  /\ wpc = [t \in Task |-> "idle"]
  /\ attempt = [t \in Task |-> 0]
  /\ got = [t \in Task |-> Nothing]
  /\ cached = {} /\ won = {}
  /\ ctxDone = FALSE
  /\ verdict = "none"

-----------------------------------------------------------------------------
(* RunRound. *)

\* The pass in plan order over the tasks whose dependencies are out of pending: a task
\* with a dependency that is not done is skipped, and leaves pending at once.
Skipped ==
  LET skip[n \in 0 .. MaxTasks] ==
        IF n = 0 THEN {}
        ELSE skip[n - 1] \cup
             {t \in pending \cap {n} :
                /\ Deps(t) \cap pending \subseteq skip[n - 1]
                /\ \E d \in Deps(t) : d \in skip[n - 1] \/ results[d] # "done"}
  IN  skip[MaxTasks]

Ready ==
  {t \in pending : Deps(t) \cap pending = {} /\ \A d \in Deps(t) : results[d] = "done"}

StartBatch ==
  /\ pc = "round" /\ ~ctxDone /\ Ready # {}
  /\ results' = [t \in Task |-> IF t \in Skipped THEN "skipped" ELSE results[t]]
  /\ pending' = pending \ Skipped
  /\ ready' = Ready
  /\ wpc' = [t \in Task |-> IF t \in Ready THEN "queued" ELSE wpc[t]]
  /\ pc' = "batch"
  /\ UNCHANGED <<planVars, attempt, got, ledger, ctxDone, verdict>>

\* Nothing is ready, or the context is over: what is left is skipped or canceled.
EndRound ==
  /\ pc = "round" /\ (ctxDone \/ Ready = {})
  /\ results' = [t \in Task |-> IF t \in pending
                                THEN IF ctxDone THEN "canceled" ELSE "skipped"
                                ELSE results[t]]
  /\ pending' = {}
  /\ pc' = "verdict"
  /\ UNCHANGED <<planVars, ready, workVars, ledger, ctxDone, verdict>>

\* wg.Wait() returns; failures of the batch are put together into one replan signal.
EndBatch ==
  /\ pc = "batch" /\ \A t \in ready : wpc[t] = "idle"
  /\ IF replanning /\ \E t \in ready : results[t] = "failed"
     THEN pc' = "replan" /\ UNCHANGED pending
     ELSE pc' = "round" /\ pending' = pending \ ready
  /\ ready' = {}
  /\ UNCHANGED <<planVars, results, workVars, ledger, ctxDone, verdict>>

-----------------------------------------------------------------------------
(* A task's goroutine: a slot, then the attempts of executeTask. *)

Holding == {t \in ready : wpc[t] \notin {"idle", "queued"}}

Goto(t, label) == wpc' = [wpc EXCEPT ![t] = label]

\* The goroutine ends, and gives its slot back.
Leave(t) ==
  /\ Goto(t, "idle")
  /\ attempt' = [attempt EXCEPT ![t] = 0]
  /\ got' = [got EXCEPT ![t] = Nothing]

\* setResult stores under the id the result carries.
SetResult(id, status) == results' = [results EXCEPT ![id] = status]

TakeSlot(t) ==
  /\ wpc[t] = "queued" /\ Cardinality(Holding) < MaxParallel
  /\ Goto(t, "attempt")
  /\ attempt' = [attempt EXCEPT ![t] = 1]
  /\ UNCHANGED <<planVars, results, roundVars, got, ledger, ctxDone, verdict>>

\* The context ends the task before its slot, before an attempt or in the backoff;
\* the task's own timeout ends it in the last two.
Expire(t) ==
  /\ \/ wpc[t] = "queued" /\ ctxDone
     \/ wpc[t] \in {"attempt", "backoff"}
  /\ SetResult(t, "canceled")
  /\ Leave(t)
  /\ UNCHANGED <<planVars, roundVars, ledger, ctxDone, verdict>>

Runner(k) == {t \in ready : wpc[t] = "running" /\ Key(t) = k}

\* Variant: an entry that is still running is not waited for.
AskLedger_IgnoresRunning(t) ==
  /\ wpc[t] = "attempt" /\ ~ctxDone
  /\ \E hit \in {e \in cached : e[1] = Key(t)} \cup {<<Key(t), 0>>} :
       IF hit[2] # 0
       THEN got' = [got EXCEPT ![t] = [id |-> hit[2], status |-> "done", retry |-> FALSE]]
            /\ Goto(t, "got")
       ELSE UNCHANGED got /\ Goto(t, "running")
  /\ UNCHANGED <<planVars, results, roundVars, attempt, ledger, ctxDone, verdict>>

\* Ledger.Do: a finished entry answers at once, a running one is waited for, and with
\* neither the task runs.
AskLedger(t) ==
  /\ wpc[t] = "attempt" /\ ~ctxDone
  /\ LET hits == {e \in cached : e[1] = Key(t)} IN
     \/ \E hit \in hits :
          /\ got' = [got EXCEPT ![t] = [id |-> hit[2], status |-> "done", retry |-> FALSE]]
          /\ Goto(t, "got")
     \/ /\ hits = {}
        /\ Goto(t, IF Runner(Key(t)) = {} THEN "running" ELSE "waiting")
        /\ UNCHANGED got
  /\ UNCHANGED <<planVars, results, roundVars, attempt, ledger, ctxDone, verdict>>

\* Variant: only the task that ran is given the outcome.
RunEnds_WakesNobody(t) ==
  /\ wpc[t] = "running"
  /\ \E status \in {"done", "failed"}, retry \in BOOLEAN :
       /\ status = "done" => ~retry
       /\ got' = [got EXCEPT ![t] = [id |-> t, status |-> status, retry |-> retry]]
       /\ Goto(t, "got")
       /\ IF status = "done"
          THEN cached' = cached \cup {<<Key(t), t>>} /\ won' = won \cup {Key(t)}
          ELSE UNCHANGED ledger
  /\ UNCHANGED <<planVars, results, roundVars, attempt, ctxDone, verdict>>

\* The runner returns (runTask, or safeRun after a panic): the waiters are given the same
\* result, with the id of the task that ran, and only a success stays in the ledger.
RunEnds(t) ==
  /\ wpc[t] = "running"
  /\ \E status \in {"done", "failed"}, retry \in BOOLEAN :
       LET served == {t} \cup {v \in ready : wpc[v] = "waiting" /\ Key(v) = Key(t)} IN
       /\ status = "done" => ~retry
       /\ got' = [v \in Task |-> IF v \in served
                                 THEN [id |-> t, status |-> status, retry |-> retry] ELSE got[v]]
       /\ wpc' = [v \in Task |-> IF v \in served THEN "got" ELSE wpc[v]]
       /\ IF status = "done"
          THEN cached' = cached \cup {<<Key(t), t>>} /\ won' = won \cup {Key(t)}
          ELSE UNCHANGED ledger
  /\ UNCHANGED <<planVars, results, roundVars, attempt, ctxDone, verdict>>

\* A retryable failure with attempts left (a task may ask for fewer, see Return).
Retry(t) ==
  /\ wpc[t] = "got" /\ got[t].retry /\ attempt[t] < MaxAttempts /\ ~ctxDone
  /\ Goto(t, "backoff")
  /\ got' = [got EXCEPT ![t] = Nothing]
  /\ UNCHANGED <<planVars, results, roundVars, attempt, ledger, ctxDone, verdict>>

BackoffEnds(t) ==
  /\ wpc[t] = "backoff"
  /\ attempt' = [attempt EXCEPT ![t] = @ + 1]
  /\ Goto(t, "attempt")
  /\ UNCHANGED <<planVars, results, roundVars, got, ledger, ctxDone, verdict>>

\* executeTask returns the result it has: it is final, or the context is over, or this
\* was the last attempt (a task's own max_attempts may make that any attempt).
Return(t) ==
  /\ wpc[t] = "got"
  /\ SetResult(got[t].id, got[t].status)
  /\ Leave(t)
  /\ UNCHANGED <<planVars, roundVars, ledger, ctxDone, verdict>>

-----------------------------------------------------------------------------
(* Replanning, between rounds. *)

\* Variant: finished work is not frozen.
Frozen_No(S) == FALSE

\* ApplyDiff refuses to touch a completed task or one with a completed descendant.
Frozen(S) == \E t \in S \cup Descendants(plan, S) : results[t] = "done"

\* Variant: what is downstream of a changed task keeps its result.
Cleared_TouchedOnly(S) == S

\* The results a diff clears.
Cleared(S) == S \cup Descendants(plan, S)

\* Propose: whatever the model says; a diff asks to update or remove the tasks in touched,
\* and to add others.
Proposals == {touched \in SUBSET DOMAIN plan : Cardinality(touched) <= MaxTouched}

\* ApplyDiff: the other tasks stay as they are and where they are, new ones come last.
AppliedTo(touched, next) ==
  /\ {t \in DOMAIN plan : t \in DOMAIN next => next[t] # plan[t]} \subseteq touched
  /\ \A new \in DOMAIN next \ DOMAIN plan : \A old \in DOMAIN plan : old < new

\* A diff is applied; the result must be valid and never seen before.
Replan ==
  /\ pc = "replan" /\ ~ctxDone /\ replans < MaxReplans
  /\ \E next \in Plans \ seenPlans, touched \in Proposals :
       /\ AppliedTo(touched, next)
       /\ ~Frozen(touched)
       /\ plan' = next
       /\ seenPlans' = seenPlans \cup {next}
       /\ results' = [t \in Task |-> IF t \in Cleared(touched) THEN "none" ELSE results[t]]
       /\ pending' = Unfinished(next, results')
  /\ replans' = replans + 1
  /\ pc' = "round"
  /\ UNCHANGED <<replanning, ready, workVars, ledger, ctxDone, verdict>>

\* No replan left, or none that applies: one last round that does not replan runs what
\* can still run, unless the context is over.
Drain ==
  /\ pc = "replan"
  /\ replanning' = FALSE
  /\ IF ctxDone
     THEN pc' = "verdict" /\ UNCHANGED pending
     ELSE pc' = "round" /\ pending' = Unfinished(plan, results)
  /\ UNCHANGED <<plan, seenPlans, replans, results, ready, workVars, ledger, ctxDone, verdict>>

Having(status) == {t \in DOMAIN plan : results[t] = status}

Judgement ==
  IF ctxDone THEN "canceled"
  ELSE IF Having("done") = {}
       THEN IF Having("canceled") # {} /\ Having("failed") = {} THEN "canceled" ELSE "failed"
       ELSE IF Having("failed") \cup Having("skipped") \cup Having("canceled") = {}
            THEN "completed" ELSE "partial"

Conclude ==
  /\ pc = "verdict"
  /\ verdict' = Judgement
  /\ pc' = "end"
  /\ UNCHANGED <<planVars, results, pending, ready, workVars, ledger, ctxDone>>

-----------------------------------------------------------------------------
\* The user interrupts the run, or its time budget is over.
Cancel ==
  /\ pc # "end" /\ ~ctxDone
  /\ ctxDone' = TRUE
  /\ UNCHANGED <<planVars, results, roundVars, workVars, ledger, verdict>>

Worker(t) ==
  TakeSlot(t) \/ Expire(t) \/ AskLedger(t) \/ RunEnds(t) \/ Retry(t) \/ BackoffEnds(t) \/ Return(t)

Service == StartBatch \/ EndRound \/ EndBatch \/ Replan \/ Drain \/ Conclude

Next == Service \/ (\E t \in Task : Worker(t)) \/ Cancel

Spec == Init /\ [][Next]_vars

\* The service's goroutine and the workers run, and a task's runner returns: it has a
\* timeout of its own.
FairSpec == Spec /\ WF_vars(Service) /\ \A t \in Task : WF_vars(Worker(t))

-----------------------------------------------------------------------------
(* Properties. *)

TypeOK ==
  /\ plan \in Plans /\ seenPlans \subseteq Plans /\ plan \in seenPlans
  /\ replans \in 0 .. MaxReplans
  /\ replanning \in BOOLEAN
  /\ results \in [Task -> Outcome \cup {"none"}]
  /\ pending \subseteq DOMAIN plan /\ ready \subseteq DOMAIN plan
  /\ pc \in {"round", "batch", "replan", "verdict", "end"}
  /\ wpc \in [Task -> WorkerPC]
  /\ attempt \in [Task -> 0 .. MaxAttempts]
  /\ got \in [Task -> [id : Task \cup {0}, status : {"none", "done", "failed"}, retry : BOOLEAN]]
  /\ {e[1] : e \in cached} = won
  /\ ctxDone \in BOOLEAN
  /\ verdict \in {"none", "completed", "partial", "failed", "canceled"}

\* No work is done twice at once, or again after it has succeeded, whatever retries and
\* replans ask for it: the ledger's promise (scheduler.go "retries and replans do not
\* execute again", ledger.go).
WorkIsDoneOnce ==
  \A t \in ready : wpc[t] = "running" =>
    /\ Key(t) \notin won
    /\ \A u \in ready : wpc[u] = "running" /\ Key(u) = Key(t) => u = t

\* What the plan shows as done has been done in its present form, and so has all that it
\* was built on, however often the plan was changed (ApplyDiff's clearing of results).
DoneIsCurrent ==
  \A t \in DOMAIN plan : results[t] = "done" =>
    Key(t) \in won /\ \A d \in Deps(t) : results[d] = "done"

\* Finished work is frozen: no replan removes or changes a completed task or what its
\* result came from, and no late goroutine takes the result back (types.go, ApplyDiff).
FrozenWork ==
  [][\A t \in DOMAIN plan : results[t] = "done" =>
       t \in DOMAIN plan' /\ results'[t] = "done" /\ Key(t)' = Key(t)]_vars

\* When a run ends by itself, every task of the plan has an outcome, and a skipped one has a
\* dependency that was not successful: no skip outlives a replan that repaired its cause
\* (RunRound's "dependency was not completed", orderedResults).
EveryTaskIsAccountedFor ==
  pc = "end" /\ ~ctxDone => \A t \in DOMAIN plan :
    /\ results[t] # "none"
    /\ results[t] = "skipped" => \E d \in Deps(t) : results[d] # "done"

\* The run comes to its end, whatever fails, waits in the ledger or is replanned.
RunConcludes == <>(pc = "end")

=============================================================================
