----------------------- MODULE PlanScheduler_proofs ------------------------
(***************************************************************************)
(* Machine-checked facts about PlanScheduler, for every number of tasks,   *)
(* contents, slots, attempts and replans.  The type invariant and the      *)
(* ledger's promise hold with or without twin tasks, and use nothing of    *)
(* the keys but that a plan determines them.  What is proved of results    *)
(* (that they are current, final and accounted for) is about plans whose   *)
(* tasks have different keys: a twin stores its result under another id.   *)
(***************************************************************************)
EXTENDS PlanScheduler, FiniteSetTheorems, WellFoundedInduction, TLAPS

\* Goroutines live only inside a batch, and only for its tasks.
Batches ==
  /\ pc # "batch" => ready = {}
  /\ \A t \in Task : wpc[t] # "idle" => t \in ready

\* A result in hand, or in the ledger, carries the id of a task.
ResultsHaveIds ==
  /\ \A t \in Task : wpc[t] = "got" => got[t].id \in Task /\ got[t].status # "none"
  /\ \A e \in cached : e[2] \in Task

\* A backoff is only begun with attempts left.
AttemptsLeft == \A t \in Task : wpc[t] = "backoff" => attempt[t] < MaxAttempts

\* TypeOK alone is not inductive: what a goroutine stores depends on where it is.
TypeInv == TypeOK /\ Batches /\ ResultsHaveIds /\ AttemptsLeft

-----------------------------------------------------------------------------
(* Type correctness. *)

LEMMA PlansAreOfTasks == \A p \in Plans : DOMAIN p \subseteq Task
BY DEF Plans

LEMMA InitTyped == Init => TypeInv
<1> SUFFICES ASSUME Init PROVE TypeInv
  OBVIOUS
<1>1. plan \in Plans
  BY DEF Init, Drafts
<1>2. Nothing \in [id : Task \cup {0}, status : {"none", "done", "failed"}, retry : BOOLEAN]
  BY DEF Nothing
<1>3. 0 \in 0 .. MaxReplans /\ 0 \in 0 .. MaxAttempts
  BY PlanBounds
<1>4. {e[1] : e \in cached} = won
  BY DEF Init
<1>5. TypeOK
  BY <1>1, <1>2, <1>3, <1>4 DEF Init, TypeOK, WorkerPC, Outcome
<1>6. Batches /\ ResultsHaveIds /\ AttemptsLeft
  BY DEF Init, Batches, ResultsHaveIds, AttemptsLeft
<1>7. QED BY <1>5, <1>6 DEF TypeInv

LEMMA StartBatchTyped == TypeInv /\ StartBatch => TypeInv'
<1> SUFFICES ASSUME TypeInv, StartBatch PROVE TypeInv'
  OBVIOUS
<1> USE DEF TypeInv, planVars, ledger
<1>1. Ready \subseteq DOMAIN plan /\ DOMAIN plan \subseteq Task
  BY PlansAreOfTasks DEF Ready, TypeOK
<1>2. results' \in [Task -> Outcome \cup {"none"}]
  BY DEF StartBatch, TypeOK, Outcome
<1>3. wpc' \in [Task -> WorkerPC]
  BY DEF StartBatch, TypeOK, WorkerPC
<1>4. pending' \subseteq DOMAIN plan' /\ ready' \subseteq DOMAIN plan'
  BY <1>1 DEF StartBatch, TypeOK
<1>5. TypeOK'
  BY <1>2, <1>3, <1>4 DEF StartBatch, TypeOK
<1>6. Batches'
  BY DEF StartBatch, Batches, TypeOK
<1>7. ResultsHaveIds' /\ AttemptsLeft'
  BY DEF StartBatch, ResultsHaveIds, AttemptsLeft, TypeOK
<1>8. QED BY <1>5, <1>6, <1>7

LEMMA EndRoundTyped == TypeInv /\ EndRound => TypeInv'
<1> SUFFICES ASSUME TypeInv, EndRound PROVE TypeInv'
  OBVIOUS
<1> USE DEF TypeInv, planVars, ledger, workVars
<1>1. results' \in [Task -> Outcome \cup {"none"}]
  BY DEF EndRound, TypeOK, Outcome
<1>2. TypeOK'
  BY <1>1 DEF EndRound, TypeOK
<1>3. Batches' /\ ResultsHaveIds' /\ AttemptsLeft'
  BY DEF EndRound, Batches, ResultsHaveIds, AttemptsLeft, TypeOK
<1>4. QED BY <1>2, <1>3

LEMMA EndBatchTyped == TypeInv /\ EndBatch => TypeInv'
<1> SUFFICES ASSUME TypeInv, EndBatch PROVE TypeInv'
  OBVIOUS
<1> USE DEF TypeInv, planVars, ledger, workVars
<1>1. TypeOK'
  BY DEF EndBatch, TypeOK
<1>2. \A t \in Task : wpc'[t] = "idle"
  BY DEF EndBatch, TypeOK, Batches
<1>3. Batches' /\ ResultsHaveIds' /\ AttemptsLeft'
  BY <1>2 DEF EndBatch, Batches, ResultsHaveIds, AttemptsLeft
<1>4. QED BY <1>1, <1>3

LEMMA ReplanTyped == TypeInv /\ Replan => TypeInv'
<1> SUFFICES ASSUME TypeInv, Replan PROVE TypeInv'
  OBVIOUS
<1> USE DEF TypeInv, ledger, workVars
<1>1. PICK next \in Plans \ seenPlans, touched \in SUBSET DOMAIN plan :
        /\ plan' = next
        /\ seenPlans' = seenPlans \cup {next}
        /\ results' = [t \in Task |-> IF t \in Cleared(touched) THEN "none" ELSE results[t]]
        /\ pending' = Unfinished(next, results')
  BY DEF Replan, Proposals
<1>2. results' \in [Task -> Outcome \cup {"none"}]
  BY <1>1 DEF TypeOK
<1>3. pending' \subseteq DOMAIN plan'
  BY <1>1 DEF Unfinished
<1>4. replans' \in 0 .. MaxReplans
  BY PlanBounds DEF Replan, TypeOK
<1>5. plan' \in Plans /\ seenPlans' \subseteq Plans /\ plan' \in seenPlans'
  BY <1>1 DEF TypeOK
<1>6. ready' = {}
  BY DEF Replan, Batches
<1>7. TypeOK'
  BY <1>2, <1>3, <1>4, <1>5, <1>6 DEF Replan, TypeOK
<1>8. Batches' /\ ResultsHaveIds' /\ AttemptsLeft'
  BY <1>6 DEF Replan, Batches, ResultsHaveIds, AttemptsLeft
<1>9. QED BY <1>7, <1>8

LEMMA DrainTyped == TypeInv /\ Drain => TypeInv'
<1> SUFFICES ASSUME TypeInv, Drain PROVE TypeInv'
  OBVIOUS
<1> USE DEF TypeInv, ledger, workVars
<1>1. TypeOK'
  BY DEF Drain, TypeOK, Unfinished
<1>2. Batches' /\ ResultsHaveIds' /\ AttemptsLeft'
  BY DEF Drain, Batches, ResultsHaveIds, AttemptsLeft
<1>3. QED BY <1>1, <1>2

LEMMA ConcludeTyped == TypeInv /\ Conclude => TypeInv'
<1> SUFFICES ASSUME TypeInv, Conclude PROVE TypeInv'
  OBVIOUS
<1> USE DEF TypeInv, planVars, ledger, workVars
<1>1. Judgement \in {"completed", "partial", "failed", "canceled"}
  BY DEF Judgement
<1>2. TypeOK'
  BY <1>1 DEF Conclude, TypeOK
<1>3. Batches' /\ ResultsHaveIds' /\ AttemptsLeft'
  BY DEF Conclude, Batches, ResultsHaveIds, AttemptsLeft
<1>4. QED BY <1>2, <1>3

\* Only RunEnds touches the ledger, and only for the task that ran.
LEMMA LedgerStep ==
  ASSUME TypeInv, NEW t \in Task, RunEnds(t)
  PROVE  /\ {e[1] : e \in cached'} = won'
         /\ \A e \in cached' : e[2] \in Task
<1>1. CASE UNCHANGED <<cached, won>>
  BY <1>1 DEF TypeInv, TypeOK, ResultsHaveIds
<1>2. CASE cached' = cached \cup {<<Key(t), t>>} /\ won' = won \cup {Key(t)}
  <2>1. <<Key(t), t>>[1] = Key(t) /\ <<Key(t), t>>[2] = t
    OBVIOUS
  <2>2. {e[1] : e \in cached \cup {<<Key(t), t>>}} = {e[1] : e \in cached} \cup {Key(t)}
    BY <2>1
  <2>3. {e[1] : e \in cached} = won
    BY DEF TypeInv, TypeOK
  <2>4. \A e \in cached' : e[2] \in Task
    BY <1>2, <2>1 DEF TypeInv, ResultsHaveIds
  <2>5. QED BY <1>2, <2>2, <2>3, <2>4
<1>3. QED BY <1>1, <1>2 DEF RunEnds, ledger

LEMMA WorkerTyped ==
  ASSUME TypeInv, NEW t \in Task, Worker(t)
  PROVE  TypeInv'
<1> USE DEF TypeInv, planVars, roundVars, ledger
<1>1. CASE TakeSlot(t)
  <2>1. TypeOK'
    BY <1>1, PlanBounds DEF TakeSlot, Goto, TypeOK, WorkerPC
  <2>2. Batches' /\ ResultsHaveIds' /\ AttemptsLeft'
    BY <1>1 DEF TakeSlot, Goto, TypeOK, Batches, ResultsHaveIds, AttemptsLeft
  <2>3. QED BY <2>1, <2>2
<1>2. CASE Expire(t)
  <2>1. TypeOK'
    BY <1>2, PlanBounds DEF Expire, SetResult, Leave, Goto, TypeOK, WorkerPC, Outcome, Nothing
  <2>2. Batches' /\ ResultsHaveIds' /\ AttemptsLeft'
    BY <1>2 DEF Expire, SetResult, Leave, Goto, TypeOK, Batches, ResultsHaveIds, AttemptsLeft
  <2>3. QED BY <2>1, <2>2
<1>3. CASE AskLedger(t)
  <2>1. CASE \E hit \in {e \in cached : e[1] = Key(t)} :
               /\ got' = [got EXCEPT ![t] = [id |-> hit[2], status |-> "done", retry |-> FALSE]]
               /\ Goto(t, "got")
    <3>1. PICK hit \in cached :
               /\ got' = [got EXCEPT ![t] = [id |-> hit[2], status |-> "done", retry |-> FALSE]]
               /\ Goto(t, "got")
      BY <2>1
    <3>2. hit[2] \in Task
      BY DEF ResultsHaveIds
    <3>3. TypeOK'
      BY <1>3, <3>1, <3>2 DEF AskLedger, Goto, TypeOK, WorkerPC
    <3>4. Batches' /\ ResultsHaveIds' /\ AttemptsLeft'
      BY <1>3, <3>1, <3>2 DEF AskLedger, Goto, TypeOK, Batches, ResultsHaveIds, AttemptsLeft
    <3>5. QED BY <3>3, <3>4
  <2>2. CASE UNCHANGED got /\ (Goto(t, "running") \/ Goto(t, "waiting"))
    <3>1. TypeOK'
      BY <1>3, <2>2 DEF AskLedger, Goto, TypeOK, WorkerPC
    <3>2. Batches' /\ ResultsHaveIds' /\ AttemptsLeft'
      BY <1>3, <2>2 DEF AskLedger, Goto, TypeOK, Batches, ResultsHaveIds, AttemptsLeft
    <3>3. QED BY <3>1, <3>2
  <2>3. QED BY <1>3, <2>1, <2>2 DEF AskLedger
<1>4. CASE RunEnds(t)
  <2> DEFINE served == {t} \cup {v \in ready : wpc[v] = "waiting" /\ Key(v) = Key(t)}
  <2>1. PICK status \in {"done", "failed"}, retry \in BOOLEAN :
          /\ got' = [v \in Task |-> IF v \in served
                                    THEN [id |-> t, status |-> status, retry |-> retry] ELSE got[v]]
          /\ wpc' = [v \in Task |-> IF v \in served THEN "got" ELSE wpc[v]]
    BY <1>4 DEF RunEnds
  <2>2. /\ UNCHANGED <<plan, seenPlans, replans, replanning, results, pending, ready, pc, attempt,
                       ctxDone, verdict>>
        /\ t \in ready
    BY <1>4 DEF RunEnds, Batches
  <2>3. got' \in [Task -> [id : Task \cup {0}, status : {"none", "done", "failed"}, retry : BOOLEAN]]
    BY <2>1 DEF TypeOK
  <2>4. wpc' \in [Task -> WorkerPC]
    BY <2>1 DEF TypeOK, WorkerPC
  <2>5. TypeOK'
    BY <1>4, <2>2, <2>3, <2>4, LedgerStep DEF TypeOK
  <2>6. Batches'
    BY <2>1, <2>2 DEF Batches
  <2>7. ResultsHaveIds'
    BY <1>4, <2>1, LedgerStep DEF ResultsHaveIds
  <2>8. AttemptsLeft'
    BY <2>1, <2>2 DEF AttemptsLeft
  <2>9. QED BY <2>5, <2>6, <2>7, <2>8
<1>5. CASE Retry(t)
  <2>1. TypeOK'
    BY <1>5 DEF Retry, Goto, TypeOK, WorkerPC, Nothing
  <2>2. Batches' /\ ResultsHaveIds' /\ AttemptsLeft'
    BY <1>5 DEF Retry, Goto, TypeOK, Batches, ResultsHaveIds, AttemptsLeft
  <2>3. QED BY <2>1, <2>2
<1>6. CASE BackoffEnds(t)
  <2>1. attempt[t] + 1 \in 0 .. MaxAttempts
    BY <1>6, PlanBounds DEF BackoffEnds, AttemptsLeft, TypeOK
  <2>2. TypeOK'
    BY <1>6, <2>1 DEF BackoffEnds, Goto, TypeOK, WorkerPC
  <2>3. Batches' /\ ResultsHaveIds' /\ AttemptsLeft'
    BY <1>6 DEF BackoffEnds, Goto, TypeOK, Batches, ResultsHaveIds, AttemptsLeft
  <2>4. QED BY <2>2, <2>3
<1>7. CASE Return(t)
  <2>1. got[t].id \in Task /\ got[t].status \in {"done", "failed"}
    BY <1>7 DEF Return, ResultsHaveIds, TypeOK
  <2>2. TypeOK'
    BY <1>7, <2>1, PlanBounds DEF Return, SetResult, Leave, Goto, TypeOK, WorkerPC, Outcome, Nothing
  <2>3. Batches' /\ ResultsHaveIds' /\ AttemptsLeft'
    BY <1>7 DEF Return, SetResult, Leave, Goto, TypeOK, Batches, ResultsHaveIds, AttemptsLeft
  <2>4. QED BY <2>2, <2>3
<1>8. QED BY <1>1, <1>2, <1>3, <1>4, <1>5, <1>6, <1>7 DEF Worker

LEMMA StepTyped == TypeInv /\ [Next]_vars => TypeInv'
<1> SUFFICES ASSUME TypeInv, [Next]_vars PROVE TypeInv'
  OBVIOUS
<1>1. CASE Service
  BY <1>1, StartBatchTyped, EndRoundTyped, EndBatchTyped, ReplanTyped, DrainTyped, ConcludeTyped
     DEF Service
<1>2. CASE \E t \in Task : Worker(t)
  BY <1>2, WorkerTyped
<1>3. CASE Cancel \/ UNCHANGED vars
  BY <1>3 DEF Cancel, vars, planVars, roundVars, workVars, ledger, TypeInv, TypeOK, Batches,
     ResultsHaveIds, AttemptsLeft
<1>4. QED BY <1>1, <1>2, <1>3 DEF Next

\* Every reachable state is of the expected type.
THEOREM PlanTypeCorrect == Spec => []TypeOK
<1>1. Init => TypeInv
  BY InitTyped
<1>2. TypeInv /\ [Next]_vars => TypeInv'
  BY StepTyped
<1>3. TypeInv => TypeOK
  BY DEF TypeInv
<1>4. QED BY <1>1, <1>2, <1>3, PTL DEF Spec

-----------------------------------------------------------------------------
(* The ledger's promise. *)

\* A step of the service's own goroutine leaves no task running.
LEMMA ServiceRunsNothing ==
  ASSUME TypeInv, Service
  PROVE  \A t \in Task : wpc'[t] # "running"
<1>1. pc = "batch" => \A t \in Task : wpc[t] # "running" \/ t \in ready
  BY DEF TypeInv, Batches
<1>2. pc # "batch" => \A t \in Task : wpc[t] = "idle"
  BY DEF TypeInv, Batches
<1>3. CASE StartBatch
  BY <1>2, <1>3 DEF StartBatch
<1>4. CASE EndBatch
  BY <1>1, <1>4 DEF EndBatch, workVars
<1>5. CASE EndRound \/ Replan \/ Drain \/ Conclude
  BY <1>2, <1>5 DEF EndRound, Replan, Drain, Conclude, workVars
<1>6. QED BY <1>3, <1>4, <1>5 DEF Service

\* The keys do not change while a batch is under way.
LEMMA KeysFixed ==
  ASSUME NEW u \in Task, plan' = plan
  PROVE  Key(u)' = Key(u)
BY DEF Key

\* A task only starts to run when its key is neither finished nor running, and finishing
\* takes it out of the running ones at the moment its key is won.
LEMMA WorkerKeepsOnce ==
  ASSUME TypeInv, WorkIsDoneOnce, NEW t \in Task, Worker(t)
  PROVE  WorkIsDoneOnce'
<1> USE DEF TypeInv, planVars, roundVars, ledger
<1>1. plan' = plan /\ ready' = ready /\ ready \subseteq Task
  BY PlansAreOfTasks DEF Worker, TakeSlot, Expire, AskLedger, RunEnds, Retry, BackoffEnds, Return,
     TypeOK
<1>2. \A u \in Task : Key(u)' = Key(u)
  BY <1>1, KeysFixed
<1>3. CASE RunEnds(t)
  <2>1. \A u \in Task : wpc'[u] = "running" => u # t /\ wpc[u] = "running"
    BY <1>3 DEF RunEnds, TypeOK
  <2>2. won' = won \/ won' = won \cup {Key(t)}
    BY <1>3 DEF RunEnds
  <2>3. t \in ready
    BY <1>3 DEF RunEnds, Batches
  <2>4. QED BY <1>1, <1>2, <1>3, <2>1, <2>2, <2>3 DEF WorkIsDoneOnce, RunEnds
<1>4. CASE AskLedger(t)
  <2>1. won' = won /\ \A u \in Task : u # t => wpc'[u] = wpc[u]
    BY <1>4 DEF AskLedger, Goto, TypeOK
  <2>2. CASE wpc'[t] = "running"
    <3>1. {e \in cached : e[1] = Key(t)} = {} /\ Runner(Key(t)) = {}
      BY <1>4, <2>2 DEF AskLedger, Goto, TypeOK
    <3>2. Key(t) \notin won
      BY <3>1 DEF TypeOK
    <3>3. QED BY <1>1, <1>2, <2>1, <3>1, <3>2 DEF WorkIsDoneOnce, Runner
  <2>3. CASE wpc'[t] # "running"
    BY <1>1, <1>2, <2>1, <2>3 DEF WorkIsDoneOnce
  <2>4. QED BY <2>2, <2>3
<1>5. CASE ~RunEnds(t) /\ ~AskLedger(t)
  <2>1. won' = won /\ \A u \in Task : wpc'[u] = "running" => wpc[u] = "running"
    BY <1>5 DEF Worker, TakeSlot, Expire, Retry, BackoffEnds, Return, Leave, Goto, TypeOK
  <2>2. QED BY <1>1, <1>2, <2>1 DEF WorkIsDoneOnce
<1>6. QED BY <1>3, <1>4, <1>5

LEMMA OnceStep == TypeInv /\ TypeInv' /\ WorkIsDoneOnce /\ [Next]_vars => WorkIsDoneOnce'
<1> SUFFICES ASSUME TypeInv, TypeInv', WorkIsDoneOnce, [Next]_vars PROVE WorkIsDoneOnce'
  OBVIOUS
<1>1. CASE Service
  <2>1. ready' \subseteq Task
    BY PlansAreOfTasks DEF TypeInv, TypeOK
  <2>2. QED BY <1>1, <2>1, ServiceRunsNothing DEF WorkIsDoneOnce
<1>2. CASE \E t \in Task : Worker(t)
  BY <1>2, WorkerKeepsOnce
<1>3. CASE Cancel \/ UNCHANGED vars
  BY <1>3 DEF Cancel, vars, planVars, roundVars, workVars, ledger, WorkIsDoneOnce, Key
<1>4. QED BY <1>1, <1>2, <1>3 DEF Next

\* No work is done twice at once, nor again after it has succeeded, in any plan and
\* across all replans (Ledger.Do).
THEOREM PlanWorkIsDoneOnce == Spec => []WorkIsDoneOnce
<1>1. Init => TypeInv
  BY InitTyped
<1>2. Init => WorkIsDoneOnce
  BY DEF Init, WorkIsDoneOnce
<1>3. TypeInv /\ [Next]_vars => TypeInv'
  BY StepTyped
<1>4. TypeInv /\ TypeInv' /\ WorkIsDoneOnce /\ [Next]_vars => WorkIsDoneOnce'
  BY OnceStep
<1>5. QED BY <1>1, <1>2, <1>3, <1>4, PTL DEF Spec

-----------------------------------------------------------------------------
(* What a plan determines: its keys, and what is downstream of a task. *)

\* Induction over the numbers up to n, for a set of them.
LEMMA StepByStep ==
  ASSUME NEW n \in Nat, NEW G, 0 \in G, \A i \in 0 .. n - 1 : i \in G => i + 1 \in G
  PROVE  n \in G
<1> DEFINE R == OpToRel(<, Nat)
           T == {i \in 0 .. n : i \notin G}
<1>1. ASSUME NEW i \in T PROVE \E j \in T : j < i
  <2>1. i # 0 /\ i - 1 \in 0 .. n - 1 /\ i - 1 + 1 = i
    OBVIOUS
  <2>2. i - 1 \in T
    BY <2>1
  <2>3. QED BY <2>2
<1>2. IsWellFoundedOn(R, Nat)
  BY NatLessThanWellFounded
<1>3. ASSUME T # {} PROVE \E i \in T : \A j \in T : <<j, i>> \notin R
  <2>1. T \subseteq Nat
    OBVIOUS
  <2> HIDE DEF R, T
  <2>2. QED BY <1>2, <1>3, <2>1, WFMin
<1>4. \A i, j \in T : j < i => <<j, i>> \in R
  BY DEF OpToRel
<1>5. T = {}
  <2> HIDE DEF R, T
  <2> QED BY <1>1, <1>3, <1>4
<1>6. QED BY <1>5

\* Something is repeated n times, each time on what came out before.
Iterates(f, n, start, F) ==
  f = [i \in 0 .. n |-> IF i = 0 THEN start ELSE F[<<i, f[i - 1]>>]]

LEMMA Iteration ==
  ASSUME NEW n \in Nat, NEW T, NEW start \in T, NEW F \in [(1 .. n) \X T -> T]
  PROVE  \E f \in [0 .. n -> T] : Iterates(f, n, start, F)
<1> DEFINE Upto(k) == \E f \in [0 .. k -> T] : Iterates(f, k, start, F)
           G == {k \in 0 .. n : Upto(k)}
<1>1. 0 \in G
  <2> DEFINE f == [i \in 0 .. 0 |-> start]
  <2>1. f \in [0 .. 0 -> T] /\ Iterates(f, 0, start, F)
    BY DEF Iterates
  <2>2. 0 \in 0 .. n
    OBVIOUS
  <2> HIDE DEF f
  <2>3. QED BY <2>1, <2>2
<1>2. ASSUME NEW k \in 0 .. n - 1, k \in G PROVE k + 1 \in G
  <2>1. PICK f \in [0 .. k -> T] : Iterates(f, k, start, F)
    BY <1>2
  <2> DEFINE last == F[<<k + 1, f[k]>>]
             g == [i \in 0 .. k + 1 |-> IF i = k + 1 THEN last ELSE f[i]]
  <2>2. k \in Nat /\ k + 1 \in 1 .. n /\ k + 1 \in 0 .. n /\ f[k] \in T
    OBVIOUS
  <2>3. last \in T
    BY <2>2
  <2> HIDE DEF last
  <2>4. g \in [0 .. k + 1 -> T]
    <3>1. \A i \in 0 .. k + 1 : i # k + 1 => i \in 0 .. k
      BY <2>2
    <3>2. QED BY <2>3, <3>1
  <2>5. ASSUME NEW i \in 0 .. k + 1
        PROVE  g[i] = IF i = 0 THEN start ELSE F[<<i, g[i - 1]>>]
    <3>1. CASE i = k + 1
      <4>1. g[i] = last /\ i # 0 /\ i - 1 = k /\ g[i - 1] = f[k]
        BY <2>2, <3>1
      <4>2. QED BY <3>1, <4>1 DEF last
    <3>2. CASE i # k + 1
      <4>1. i \in 0 .. k /\ (i # 0 => i - 1 \in 0 .. k /\ i - 1 # k + 1 /\ i - 1 \in 0 .. k + 1)
        BY <2>2, <3>2
      <4>2. g[i] = f[i] /\ (i # 0 => g[i - 1] = f[i - 1])
        BY <3>2, <4>1
      <4>3. f[i] = IF i = 0 THEN start ELSE F[<<i, f[i - 1]>>]
        BY <2>1, <4>1 DEF Iterates
      <4>4. QED BY <4>2, <4>3
    <3>3. QED BY <3>1, <3>2
  <2>6. Iterates(g, k + 1, start, F)
    <3>1. g = [i \in 0 .. k + 1 |-> g[i]]
      OBVIOUS
    <3> HIDE DEF g
    <3>2. QED BY <2>5, <3>1 DEF Iterates
  <2> HIDE DEF g
  <2>7. Upto(k + 1)
    BY <2>4, <2>6
  <2>8. QED BY <2>2, <2>7
<1>3. n \in G
  <2> HIDE DEF G
  <2> QED BY <1>1, <1>2, StepByStep
<1>4. QED BY <1>3

\* A task's key, from the keys of its dependencies.
KeyOf(f, p, t) ==
  << p[t].content,
     [k \in {f[d] : d \in p[t].deps} |-> Cardinality({d \in p[t].deps : f[d] = k})] >>

LEMMA SameKey ==
  ASSUME NEW f, NEW g, NEW p, NEW q, NEW t, p[t] = q[t], \A d \in p[t].deps : f[d] = g[d]
  PROVE  KeyOf(f, p, t) = KeyOf(g, q, t)
<1>1. {f[d] : d \in p[t].deps} = {g[d] : d \in q[t].deps}
  OBVIOUS
<1>2. \A k : {d \in p[t].deps : f[d] = k} = {d \in q[t].deps : g[d] = k}
  OBVIOUS
<1>3. QED BY <1>1, <1>2 DEF KeyOf

\* A valid plan has an order in which dependencies come first.
Ranked(p, rank) ==
  /\ rank \in [DOMAIN p -> Task]
  /\ \A t \in DOMAIN p : \A d \in p[t].deps : d \in DOMAIN p /\ rank[d] < rank[t]

LEMMA PlanIsRanked ==
  ASSUME NEW p \in Plans
  PROVE  DOMAIN p \subseteq Task /\ \E rank : Ranked(p, rank)
<1>1. PICK S \in SUBSET Task \ {{}} :
        p \in [S -> [content : Content, deps : SUBSET S]] /\ Acyclic(p)
  BY DEF Plans
<1>2. DOMAIN p = S /\ \A t \in S : p[t].deps \subseteq S
  BY <1>1
<1>3. PICK rank \in [DOMAIN p -> Task] : \A t \in DOMAIN p : \A d \in p[t].deps : rank[d] < rank[t]
  BY <1>1 DEF Acyclic
<1>4. QED BY <1>2, <1>3 DEF Ranked

LEMMA KeysDefined ==
  ASSUME NEW p \in Plans
  PROVE  Keys(p) = [t \in DOMAIN p |-> KeyOf(Keys(p), p, t)]
<1>1. PICK rank : Ranked(p, rank)
  BY PlanIsRanked
<1> DEFINE Upto(n) == {t \in DOMAIN p : rank[t] <= n}
           G == {n \in 0 .. MaxTasks : \E f : f = [t \in Upto(n) |-> KeyOf(f, p, t)]}
<1>2. MaxTasks \in Nat
  BY PlanBounds
<1>3. \A t \in DOMAIN p : rank[t] \in 1 .. MaxTasks
  BY <1>1 DEF Ranked, Task
<1>4. 0 \in G
  <2> DEFINE f == [t \in {} |-> 0]
  <2>1. Upto(0) = {}
    BY <1>3
  <2>2. f = [t \in {} |-> KeyOf(f, p, t)]
    OBVIOUS
  <2> HIDE DEF f, Upto
  <2>3. \E g : g = [t \in Upto(0) |-> KeyOf(g, p, t)]
    BY <2>1, <2>2
  <2>4. QED BY <1>2, <2>3
<1>5. ASSUME NEW n \in 0 .. MaxTasks - 1, n \in G PROVE n + 1 \in G
  <2>1. PICK f : f = [t \in Upto(n) |-> KeyOf(f, p, t)]
    BY <1>5
  <2> DEFINE g == [t \in Upto(n + 1) |-> IF t \in Upto(n) THEN f[t] ELSE KeyOf(f, p, t)]
  <2>2. Upto(n) \subseteq Upto(n + 1) /\ \A t \in Upto(n + 1) : p[t].deps \subseteq Upto(n)
    BY <1>1, <1>2, <1>3 DEF Ranked
  <2> HIDE DEF Upto
  <2>3. \A d \in Upto(n) : g[d] = f[d]
    BY <2>2
  <2>4. ASSUME NEW t \in Upto(n + 1) PROVE g[t] = KeyOf(g, p, t)
    <3>1. KeyOf(f, p, t) = KeyOf(g, p, t)
      BY <2>2, <2>3, SameKey
    <3>2. t \in Upto(n) => f[t] = KeyOf(f, p, t)
      BY <2>1
    <3>3. g[t] = IF t \in Upto(n) THEN f[t] ELSE KeyOf(f, p, t)
      OBVIOUS
    <3> HIDE DEF g
    <3>4. QED BY <3>1, <3>2, <3>3
  <2>5. g = [t \in Upto(n + 1) |-> g[t]]
    OBVIOUS
  <2> HIDE DEF g
  <2>6. g = [t \in Upto(n + 1) |-> KeyOf(g, p, t)]
    BY <2>4, <2>5
  <2>7. n + 1 \in 0 .. MaxTasks
    BY <1>2
  <2>8. QED BY <2>6, <2>7
<1>6. MaxTasks \in G
  <2> HIDE DEF G
  <2> QED BY <1>2, <1>4, <1>5, StepByStep
<1>7. Upto(MaxTasks) = DOMAIN p
  BY <1>3
<1>8. \E f : f = [t \in DOMAIN p |-> KeyOf(f, p, t)]
  BY <1>6, <1>7
<1> DEFINE key == CHOOSE f : f = [t \in DOMAIN p |-> KeyOf(f, p, t)]
<1>9. key = [t \in DOMAIN p |-> KeyOf(key, p, t)]
  <2> HIDE DEF G, Upto
  <2> QED BY <1>8
<1>10. Keys(p) = key
  BY DEF Keys, KeyOf
<1> HIDE DEF key
<1>11. QED BY <1>9, <1>10

\* Two plans give their common part the same keys, if it depends on nothing else.
LEMMA CommonKeys ==
  ASSUME NEW p \in Plans, NEW q \in Plans, NEW D, D \subseteq DOMAIN p, D \subseteq DOMAIN q,
         \A t \in D : p[t] = q[t] /\ p[t].deps \subseteq D
  PROVE  \A t \in D : Keys(p)[t] = Keys(q)[t]
<1>1. PICK rank : Ranked(p, rank)
  BY PlanIsRanked
<1> DEFINE G == {n \in 0 .. MaxTasks : \A t \in D : rank[t] <= n => Keys(p)[t] = Keys(q)[t]}
<1>2. MaxTasks \in Nat
  BY PlanBounds
<1>3. \A t \in D : rank[t] \in 1 .. MaxTasks
  BY <1>1 DEF Ranked, Task
<1>4. 0 \in G
  BY <1>2, <1>3
<1>5. ASSUME NEW n \in 0 .. MaxTasks - 1, n \in G PROVE n + 1 \in G
  <2>1. ASSUME NEW t \in D, rank[t] <= n + 1 PROVE Keys(p)[t] = Keys(q)[t]
    <3>1. \A d \in p[t].deps : d \in D /\ rank[d] <= n
      BY <1>1, <1>3, <2>1 DEF Ranked
    <3>2. \A d \in p[t].deps : Keys(p)[d] = Keys(q)[d]
      BY <1>5, <3>1
    <3>3. KeyOf(Keys(p), p, t) = KeyOf(Keys(q), q, t)
      BY <3>2, SameKey
    <3>4. Keys(p)[t] = KeyOf(Keys(p), p, t) /\ Keys(q)[t] = KeyOf(Keys(q), q, t)
      BY KeysDefined
    <3>5. QED BY <3>3, <3>4
  <2>2. n + 1 \in 0 .. MaxTasks
    BY <1>2
  <2>3. QED BY <2>1, <2>2
<1>6. MaxTasks \in G
  <2> HIDE DEF G
  <2> QED BY <1>2, <1>4, <1>5, StepByStep
<1>7. QED BY <1>3, <1>6

\* Without twins a key belongs to one task of a plan.
LEMMA DistinctKeys ==
  ASSUME Twins = FALSE, NEW p \in Plans, NEW t \in DOMAIN p, NEW u \in DOMAIN p,
         Keys(p)[t] = Keys(p)[u]
  PROVE  t = u
<1> DEFINE S == DOMAIN p
           K == {Keys(p)[v] : v \in S}
           f == [v \in S |-> Keys(p)[v]]
<1>1. S \subseteq Task /\ Cardinality(K) = Cardinality(S)
  BY DEF Plans
<1>2. IsFiniteSet(S)
  <2>1. IsFiniteSet(1 .. MaxTasks)
    BY PlanBounds, FS_Interval
  <2>2. QED BY <1>1, <2>1, FS_Subset DEF Task
<1>3. f \in Surjection(S, K)
  BY DEF Surjection
<1>4. f \in Injection(S, K)
  <2> HIDE DEF f, S, K
  <2> QED BY <1>1, <1>2, <1>3, FS_Surjection
<1>5. f[t] = f[u]
  OBVIOUS
<1> HIDE DEF f, K
<1>6. QED BY <1>4, <1>5 DEF Injection, IsInjective

\* What depends on a task of S, or on a descendant of one, is one itself.
LEMMA Downstream ==
  ASSUME NEW p \in Plans, NEW S \in SUBSET DOMAIN p, NEW t \in DOMAIN p, NEW d \in p[t].deps,
         d \in S \cup Descendants(p, S)
  PROVE  t \in S \cup Descendants(p, S)
<1>1. PICK rank : Ranked(p, rank)
  BY PlanIsRanked
<1>2. MaxTasks \in Nat \ {0}
  BY PlanBounds
<1> DEFINE F == [x \in (1 .. MaxTasks) \X SUBSET DOMAIN p |->
                   x[2] \cup {v \in DOMAIN p : p[v].deps \cap x[2] # {}}]
           Down(f) == f = [n \in 0 .. MaxTasks |->
                             IF n = 0 THEN S
                             ELSE f[n - 1] \cup {v \in DOMAIN p : p[v].deps \cap f[n - 1] # {}}]
           down == CHOOSE f : Down(f)
<1>3. \E f : Down(f)
  <2>1. F \in [(1 .. MaxTasks) \X SUBSET DOMAIN p -> SUBSET DOMAIN p]
    OBVIOUS
  <2>2. PICK f \in [0 .. MaxTasks -> SUBSET DOMAIN p] : Iterates(f, MaxTasks, S, F)
    <3> DEFINE T == SUBSET DOMAIN p
    <3>1. MaxTasks \in Nat /\ S \in T /\ F \in [(1 .. MaxTasks) \X T -> T]
      BY <1>2, <2>1
    <3> HIDE DEF F, T
    <3>2. \E f \in [0 .. MaxTasks -> T] : Iterates(f, MaxTasks, S, F)
      BY <3>1, Iteration
    <3>3. QED BY <3>2 DEF T
  <2>3. \A n \in 0 .. MaxTasks : n # 0 =>
          F[<<n, f[n - 1]>>] = f[n - 1] \cup {v \in DOMAIN p : p[v].deps \cap f[n - 1] # {}}
    <3>1. \A n \in 0 .. MaxTasks : n # 0 => n \in 1 .. MaxTasks /\ n - 1 \in 0 .. MaxTasks
      BY <1>2
    <3>2. QED BY <3>1
  <2> HIDE DEF F
  <2>4. Down(f)
    <3> DEFINE g == [n \in 0 .. MaxTasks |->
                       IF n = 0 THEN S
                       ELSE f[n - 1] \cup {v \in DOMAIN p : p[v].deps \cap f[n - 1] # {}}]
    <3>1. \A n \in 0 .. MaxTasks : f[n] = g[n]
      <4>1. \A n \in 0 .. MaxTasks : f[n] = IF n = 0 THEN S ELSE F[<<n, f[n - 1]>>]
        BY <2>2 DEF Iterates
      <4>2. QED BY <2>3, <4>1
    <3>2. f = [n \in 0 .. MaxTasks |-> f[n]] /\ g = [n \in 0 .. MaxTasks |-> g[n]]
      OBVIOUS
    <3> HIDE DEF g
    <3>3. f = g
      BY <3>1, <3>2
    <3>4. QED BY <3>3 DEF g
  <2> HIDE DEF Down
  <2>5. QED BY <2>4
<1>4. Down(down)
  <2> HIDE DEF Down
  <2> QED BY <1>3
<1>5. S \cup Descendants(p, S) = S \cup down[MaxTasks]
  BY DEF Descendants
<1> HIDE DEF down, F
<1>6. /\ down[0] = S
      /\ \A n \in 1 .. MaxTasks :
           down[n] = down[n - 1] \cup {v \in DOMAIN p : p[v].deps \cap down[n - 1] # {}}
  <2>1. 0 \in 0 .. MaxTasks /\ \A n \in 1 .. MaxTasks : n \in 0 .. MaxTasks /\ n # 0
    BY <1>2
  <2>2. \A n \in 0 .. MaxTasks :
          down[n] = IF n = 0 THEN S
                    ELSE down[n - 1] \cup {v \in DOMAIN p : p[v].deps \cap down[n - 1] # {}}
    BY <1>4
  <2>3. QED BY <2>1, <2>2
<1>7. \A n \in 0 .. MaxTasks : S \subseteq down[n]
  <2> SUFFICES ASSUME NEW n \in 0 .. MaxTasks PROVE S \subseteq down[n]
    OBVIOUS
  <2> DEFINE G == {m \in 0 .. n : S \subseteq down[m]}
  <2>1. 0 \in G
    BY <1>2, <1>6
  <2>2. ASSUME NEW m \in 0 .. n - 1, m \in G PROVE m + 1 \in G
    <3>1. m + 1 \in 1 .. MaxTasks /\ m + 1 \in 0 .. n /\ m + 1 - 1 = m
      BY <1>2
    <3>2. down[m] \subseteq down[m + 1]
      BY <1>6, <3>1
    <3>3. QED BY <2>2, <3>1, <3>2
  <2> HIDE DEF G
  <2>3. n \in G
    BY <1>2, <2>1, <2>2, StepByStep
  <2>4. QED BY <2>3 DEF G
\* A task that comes in at all has come in by the time its rank says.
<1>8. \A v \in DOMAIN p \cap down[MaxTasks] : \A m \in 0 .. MaxTasks :
        m >= rank[v] - 1 => v \in down[m]
  <2> DEFINE G == {n \in 0 .. MaxTasks :
                     \A v \in DOMAIN p \cap down[n] : \A m \in 0 .. MaxTasks :
                       m >= rank[v] - 1 => v \in down[m]}
  <2>1. 0 \in G
    BY <1>2, <1>6, <1>7
  <2>2. ASSUME NEW n \in 0 .. MaxTasks - 1, n \in G PROVE n + 1 \in G
    <3>1. n + 1 \in 1 .. MaxTasks /\ n + 1 \in 0 .. MaxTasks /\ n + 1 - 1 = n
      BY <1>2
    <3>2. ASSUME NEW v \in DOMAIN p \cap down[n + 1], NEW m \in 0 .. MaxTasks, m >= rank[v] - 1
          PROVE  v \in down[m]
      <4>1. CASE v \in down[n]
        BY <2>2, <3>2, <4>1
      <4>2. CASE v \notin down[n]
        <5>1. PICK e \in p[v].deps : e \in down[n]
          BY <1>6, <3>1, <3>2, <4>2
        <5>2. e \in DOMAIN p /\ rank[e] < rank[v] /\ rank[e] \in 1 .. MaxTasks
              /\ rank[v] \in 1 .. MaxTasks
          BY <1>1, <3>2 DEF Ranked, Task
        <5>3. m \in 1 .. MaxTasks /\ m - 1 \in 0 .. MaxTasks /\ m - 1 >= rank[e] - 1
          BY <1>2, <3>2, <5>2
        <5>4. e \in down[m - 1]
          BY <2>2, <5>1, <5>2, <5>3
        <5>5. QED BY <1>6, <3>2, <5>3, <5>4
      <4>3. QED BY <4>1, <4>2
    <3>3. QED BY <3>1, <3>2
  <2> HIDE DEF G
  <2>3. MaxTasks \in G
    BY <1>2, <2>1, <2>2, StepByStep
  <2>4. QED BY <2>3 DEF G
<1>9. d \in DOMAIN p \cap down[MaxTasks] /\ rank[d] \in 1 .. MaxTasks
  <2>1. MaxTasks \in 0 .. MaxTasks
    BY <1>2
  <2>2. d \in down[MaxTasks]
    BY <1>5, <1>7, <2>1
  <2>3. QED BY <1>1, <2>2 DEF Ranked, Task
<1>10. MaxTasks - 1 \in 0 .. MaxTasks /\ MaxTasks - 1 >= rank[d] - 1 /\ MaxTasks \in 1 .. MaxTasks
  BY <1>2, <1>9
<1>11. d \in down[MaxTasks - 1]
  BY <1>8, <1>9, <1>10
<1>12. t \in down[MaxTasks]
  BY <1>6, <1>10, <1>11
<1>13. QED BY <1>5, <1>12

\* The pass over the pending tasks skips tasks that wait for nothing but skipped ones, and
\* for one at least that will not be done.
LEMMA SkippedHaveCauses ==
  ASSUME TypeInv
  PROVE  \A t \in Skipped :
           t \in pending /\ \E d \in Deps(t) : d \in Skipped \/ (d \notin pending /\ results[d] # "done")
<1> DEFINE More(n, s) == {t \in pending \cap {n} :
                            /\ Deps(t) \cap pending \subseteq s
                            /\ \E d \in Deps(t) : d \in s \/ results[d] # "done"}
           F == [x \in (1 .. MaxTasks) \X SUBSET pending |-> x[2] \cup More(x[1], x[2])]
           Skip(f) == f = [n \in 0 .. MaxTasks |-> IF n = 0 THEN {} ELSE f[n - 1] \cup More(n, f[n - 1])]
           skip == CHOOSE f : Skip(f)
<1>1. MaxTasks \in Nat
  BY PlanBounds
<1>2. \E f : Skip(f)
  <2> DEFINE T == SUBSET pending
  <2>1. {} \in T /\ F \in [(1 .. MaxTasks) \X T -> T]
    OBVIOUS
  <2>2. PICK f \in [0 .. MaxTasks -> T] : Iterates(f, MaxTasks, {}, F)
    <3> HIDE DEF F, T
    <3> QED BY <1>1, <2>1, Iteration
  <2>3. \A n \in 0 .. MaxTasks : n # 0 => F[<<n, f[n - 1]>>] = f[n - 1] \cup More(n, f[n - 1])
    <3>1. \A n \in 0 .. MaxTasks : n # 0 => n \in 1 .. MaxTasks /\ n - 1 \in 0 .. MaxTasks
      BY <1>1
    <3> HIDE DEF More
    <3>2. QED BY <3>1
  <2> HIDE DEF F, More
  <2>4. Skip(f)
    <3> DEFINE g == [n \in 0 .. MaxTasks |-> IF n = 0 THEN {} ELSE f[n - 1] \cup More(n, f[n - 1])]
    <3>1. \A n \in 0 .. MaxTasks : f[n] = g[n]
      BY <2>2, <2>3 DEF Iterates
    <3>2. f = [n \in 0 .. MaxTasks |-> f[n]] /\ g = [n \in 0 .. MaxTasks |-> g[n]]
      OBVIOUS
    <3> HIDE DEF g
    <3>3. f = g
      BY <3>1, <3>2
    <3>4. QED BY <3>3 DEF g
  <2> HIDE DEF Skip
  <2>5. QED BY <2>4
<1>3. Skip(skip)
  <2> HIDE DEF Skip
  <2> QED BY <1>2
<1>4. Skipped = skip[MaxTasks]
  BY DEF Skipped
<1> HIDE DEF skip, F
<1>5. \A n \in 0 .. MaxTasks : skip[n] = IF n = 0 THEN {} ELSE skip[n - 1] \cup More(n, skip[n - 1])
  <2> HIDE DEF More
  <2> QED BY <1>3
<1> DEFINE Rooted(s) == \A t \in s :
             t \in pending /\ \E d \in Deps(t) : d \in s \/ (d \notin pending /\ results[d] # "done")
           G == {n \in 0 .. MaxTasks : Rooted(skip[n])}
<1>6. 0 \in G
  <2>1. 0 \in 0 .. MaxTasks
    BY <1>1
  <2>2. skip[0] = {}
    <3> HIDE DEF More, G
    <3> QED BY <1>5, <2>1
  <2>3. QED BY <2>1, <2>2
<1>7. ASSUME NEW n \in 0 .. MaxTasks - 1, n \in G PROVE n + 1 \in G
  <2>1. n + 1 \in 0 .. MaxTasks /\ n + 1 # 0 /\ n + 1 - 1 = n
    BY <1>1
  <2>2. ASSUME NEW m \in 0 .. MaxTasks, m # 0, m - 1 = n
        PROVE  skip[m] = skip[n] \cup More(m, skip[n])
    <3> HIDE DEF More, G
    <3>1. skip[m] = IF m = 0 THEN {} ELSE skip[m - 1] \cup More(m, skip[m - 1])
      BY <1>5
    <3>2. QED BY <2>2, <3>1
  <2>5. Rooted(skip[n])
    BY <1>7
  <2>3. ASSUME NEW s, NEW k, Rooted(s) PROVE Rooted(s \cup More(k, s))
    BY <2>3
  <2>4. ASSUME NEW m \in 0 .. MaxTasks, m # 0, m - 1 = n
        PROVE  Rooted(skip[m])
    <3>1. skip[m] = skip[n] \cup More(m, skip[n])
      BY <2>2, <2>4
    <3>2. Rooted(skip[n] \cup More(m, skip[n]))
      <4> HIDE DEF More, Rooted
      <4> QED BY <2>3, <2>5
    <3> HIDE DEF More, Rooted
    <3>3. QED BY <3>1, <3>2
  <2> HIDE DEF More, Rooted
  <2>6. QED BY <2>1, <2>4
<1>8. MaxTasks \in G
  <2> HIDE DEF G
  <2> QED BY <1>1, <1>6, <1>7, StepByStep
<1> HIDE DEF More
<1>9. QED BY <1>4, <1>8

-----------------------------------------------------------------------------
(* Plans without twins: every goroutine reports its own task. *)

Open == {t \in DOMAIN plan : results[t] = "none"}

\* What has a result, and what a round still has to do.
Settled ==
  /\ \A t \in Task \ DOMAIN plan : results[t] = "none"
  /\ pc \in {"round", "batch"} => pending = Open \cup ready
  /\ \A t \in ready : results[t] = "none" <=> wpc[t] # "idle"
  /\ pc \in {"verdict", "end"} /\ ~ctxDone => Open = {}

\* A skipped task has a dependency that is over and was not successful.
Caused ==
  \A t \in DOMAIN plan : results[t] = "skipped" =>
    \E d \in Deps(t) : results[d] \in {"failed", "skipped", "canceled"}

\* A result in hand is the task's own, and a success is in the ledger and final.
Own ==
  \A t \in Task : wpc[t] = "got" =>
    /\ got[t].id = t
    /\ got[t].status = "done" => ~got[t].retry /\ Key(t) \in won

\* What the ledger remembers is the work of a task that is done, or about to be.
Entries ==
  \A e \in cached :
    /\ e[2] \in DOMAIN plan /\ e[1] = Key(e[2])
    /\ results[e[2]] = "done" \/ (wpc[e[2]] = "got" /\ got[e[2]].status = "done")

\* What is under way is built on finished work.
BuiltOnDone == \A t \in ready : \A d \in Deps(t) : results[d] = "done"

Accounted == Settled /\ Caused /\ Own /\ Entries /\ DoneIsCurrent /\ BuiltOnDone

\* What no step may do to finished work.
KeepsFinished ==
  \A t \in DOMAIN plan : results[t] = "done" =>
    t \in DOMAIN plan' /\ results'[t] = "done" /\ Key(t)' = Key(t)

LEMMA PlanTasks ==
  ASSUME TypeInv
  PROVE  /\ plan \in Plans /\ DOMAIN plan \subseteq Task /\ ready \subseteq DOMAIN plan
         /\ pending \subseteq DOMAIN plan
         /\ \A t \in DOMAIN plan : Deps(t) \subseteq DOMAIN plan
<1>1. plan \in Plans /\ ready \subseteq DOMAIN plan /\ pending \subseteq DOMAIN plan
  BY DEF TypeInv, TypeOK
<1>2. PICK rank : Ranked(plan, rank)
  BY <1>1, PlanIsRanked
<1>3. QED BY <1>1, <1>2, PlanIsRanked DEF Ranked, Deps

LEMMA AccountedAtStart == Init => Accounted
<1> SUFFICES ASSUME Init PROVE Accounted
  OBVIOUS
<1>1. DOMAIN plan \subseteq Task
  BY PlansAreOfTasks DEF Init, Drafts
<1>2. QED
  BY <1>1 DEF Init, Accounted, Settled, Open, Caused, Own, Entries, DoneIsCurrent, BuiltOnDone

\* While the plan stays and results are only added, what is done stays done, and what is
\* skipped stays so for its reason.
LEMMA ResultsStay ==
  ASSUME TypeInv, Accounted, plan' = plan, won \subseteq won',
         \A t \in Task : results[t] # "none" => results'[t] = results[t],
         \A t \in Task \ DOMAIN plan : results'[t] = results[t],
         \A t \in DOMAIN plan : results[t] = "none" /\ results'[t] = "done" =>
           Key(t) \in won' /\ \A d \in Deps(t) : results[d] = "done",
         \A t \in DOMAIN plan : results[t] = "none" /\ results'[t] = "skipped" =>
           \E d \in Deps(t) : results'[d] \in {"failed", "skipped", "canceled"}
  PROVE  /\ DoneIsCurrent' /\ Caused' /\ KeepsFinished
         /\ \A t \in Task \ DOMAIN plan' : results'[t] = "none"
<1> USE PlanTasks
<1>1. \A t : Key(t)' = Key(t) /\ Deps(t)' = Deps(t)
  BY DEF Key, Deps
<1>2. DoneIsCurrent'
  <2>1. ASSUME NEW t \in DOMAIN plan, results'[t] = "done"
        PROVE  Key(t) \in won' /\ \A d \in Deps(t) : results'[d] = "done"
    <3>1. Key(t) \in won' /\ \A d \in Deps(t) : results[d] = "done"
      BY <2>1 DEF Accounted, DoneIsCurrent
    <3>2. QED BY <3>1
  <2>2. QED BY <1>1, <2>1 DEF DoneIsCurrent
<1>3. Caused'
  <2>1. ASSUME NEW t \in DOMAIN plan, results'[t] = "skipped"
        PROVE  \E d \in Deps(t) : results'[d] \in {"failed", "skipped", "canceled"}
    <3>1. CASE results[t] = "none"
      BY <2>1, <3>1
    <3>2. CASE results[t] # "none"
      <4>1. PICK d \in Deps(t) : results[d] \in {"failed", "skipped", "canceled"}
        BY <2>1, <3>2 DEF Accounted, Caused
      <4>2. results'[d] = results[d]
        BY <4>1
      <4>3. QED BY <4>1, <4>2
    <3>3. QED BY <3>1, <3>2
  <2>2. QED BY <1>1, <2>1 DEF Caused
<1>4. KeepsFinished
  BY <1>1 DEF KeepsFinished
<1>5. \A t \in Task \ DOMAIN plan' : results'[t] = "none"
  BY DEF Accounted, Settled
<1>6. QED BY <1>2, <1>3, <1>4, <1>5

-----------------------------------------------------------------------------
(* Steps of the service. *)

\* Outside a batch no goroutine is alive.
LEMMA NobodyWorks ==
  ASSUME TypeInv, pc # "batch"
  PROVE  ready = {} /\ \A t \in Task : wpc[t] = "idle"
BY DEF TypeInv, Batches

LEMMA StartBatchAccounts ==
  ASSUME TypeInv, Accounted, StartBatch
  PROVE  Accounted' /\ KeepsFinished
<1> USE PlanTasks
<1>1. /\ pc = "round" /\ ready = {} /\ (\A t \in Task : wpc[t] = "idle") /\ pending = Open
  BY NobodyWorks DEF StartBatch, Accounted, Settled
<1>2. /\ results' = [t \in Task |-> IF t \in Skipped THEN "skipped" ELSE results[t]]
      /\ pending' = pending \ Skipped /\ ready' = Ready /\ pc' = "batch"
      /\ wpc' = [t \in Task |-> IF t \in Ready THEN "queued" ELSE wpc[t]]
      /\ UNCHANGED <<plan, got, cached, won, ctxDone>>
  BY DEF StartBatch, planVars, ledger
<1>3. \A t \in Skipped : t \in Open /\ \E d \in Deps(t) : results'[d] \in {"failed", "skipped", "canceled"}
  <2>1. ASSUME NEW t \in Skipped
        PROVE  t \in Open /\ \E d \in Deps(t) : results'[d] \in {"failed", "skipped", "canceled"}
    <3>1. t \in Open
      BY <1>1, SkippedHaveCauses
    <3>2. PICK d \in Deps(t) : d \in Skipped \/ (d \notin pending /\ results[d] # "done")
      BY SkippedHaveCauses
    <3>3. d \in DOMAIN plan /\ d \in Task
      BY <3>1 DEF Open
    <3>4. results'[d] = IF d \in Skipped THEN "skipped" ELSE results[d]
      BY <1>2, <3>3
    <3>5. d \notin Skipped => results[d] \in {"failed", "skipped", "canceled"}
      <4>1. d \notin Skipped => results[d] # "none" /\ results[d] # "done"
        BY <1>1, <3>2, <3>3 DEF Open
      <4>2. results[d] \in Outcome \cup {"none"}
        BY <3>3 DEF TypeInv, TypeOK
      <4>3. QED BY <4>1, <4>2 DEF Outcome
    <3>6. results'[d] \in {"failed", "skipped", "canceled"}
      BY <3>4, <3>5
    <3>7. QED BY <3>1, <3>6
  <2>2. QED BY <2>1
<1>4. Ready \subseteq Open \ Skipped
  BY <1>1, SkippedHaveCauses DEF Ready
<1>5. /\ DoneIsCurrent' /\ Caused' /\ KeepsFinished
      /\ \A t \in Task \ DOMAIN plan' : results'[t] = "none"
  <2>1. \A t \in Task : results[t] # "none" => results'[t] = results[t]
    BY <1>2, <1>3 DEF Open
  <2>2. \A t \in Task \ DOMAIN plan : results'[t] = results[t]
    BY <1>2, <1>3 DEF Open
  <2>3. \A t \in DOMAIN plan : results[t] = "none" =>
          results'[t] # "done" /\ (results'[t] = "skipped" => t \in Skipped)
    BY <1>2
  <2>4. \A t \in DOMAIN plan : results[t] = "none" /\ results'[t] = "skipped" =>
          \E d \in Deps(t) : results'[d] \in {"failed", "skipped", "canceled"}
    BY <1>3, <2>3
  <2>5. QED BY <1>2, <2>1, <2>2, <2>3, <2>4, ResultsStay
<1>6. Settled'
  <2>1. Open' = Open \ Skipped
    BY <1>2 DEF Open
  <2>2. \A t \in ready' : results'[t] = "none" /\ wpc'[t] # "idle"
    BY <1>2, <1>4 DEF Open
  <2>3. QED BY <1>1, <1>2, <1>4, <1>5, <2>1, <2>2 DEF Settled
<1>7. Own' /\ Entries'
  <2>1. \A t \in Task : wpc'[t] # "got"
    BY <1>1, <1>2
  <2>2. \A e \in cached : e[2] \in DOMAIN plan /\ e[1] = Key(e[2]) /\ results[e[2]] = "done"
    BY <1>1 DEF Accounted, Entries
  <2>3. \A t : Key(t)' = Key(t)
    BY <1>2 DEF Key
  <2>4. QED BY <1>2, <1>5, <2>1, <2>2, <2>3 DEF Own, Entries, KeepsFinished
<1>8. BuiltOnDone'
  <2>1. \A t \in Ready : \A d \in Deps(t) : results[d] = "done" /\ d \in DOMAIN plan
    BY DEF Ready
  <2>2. \A t : Deps(t)' = Deps(t)
    BY <1>2 DEF Deps
  <2>3. QED BY <1>2, <1>5, <2>1, <2>2 DEF BuiltOnDone, KeepsFinished
<1>9. QED BY <1>5, <1>6, <1>7, <1>8 DEF Accounted

LEMMA EndRoundAccounts ==
  ASSUME TypeInv, Accounted, EndRound
  PROVE  Accounted' /\ KeepsFinished
<1> USE PlanTasks
<1>1. /\ pc = "round" /\ ready = {} /\ (\A t \in Task : wpc[t] = "idle") /\ pending = Open
  BY NobodyWorks DEF EndRound, Accounted, Settled
<1>2. /\ results' = [t \in Task |-> IF t \in pending
                                    THEN IF ctxDone THEN "canceled" ELSE "skipped"
                                    ELSE results[t]]
      /\ pending' = {} /\ pc' = "verdict" /\ (ctxDone \/ Ready = {})
      /\ UNCHANGED <<plan, ready, wpc, got, cached, won, ctxDone>>
  BY DEF EndRound, planVars, workVars, ledger
<1>3. \A t \in pending : ~ctxDone =>
        \E d \in Deps(t) : results'[d] \in {"failed", "skipped", "canceled"}
  <2>1. SUFFICES ASSUME NEW t \in pending, ~ctxDone
                 PROVE  \E d \in Deps(t) : results'[d] \in {"failed", "skipped", "canceled"}
    OBVIOUS
  <2>2. PICK d \in Deps(t) : d \in pending \/ results[d] # "done"
    BY <1>2, <2>1 DEF Ready
  <2>3. d \in DOMAIN plan /\ d \in Task
    OBVIOUS
  <2>4. CASE d \in pending
    BY <1>2, <2>1, <2>3, <2>4
  <2>5. CASE d \notin pending
    <3>1. results[d] # "none" /\ results[d] # "done" /\ results[d] \in Outcome \cup {"none"}
      BY <1>1, <2>2, <2>3, <2>5 DEF Open, TypeInv, TypeOK
    <3>2. QED BY <1>2, <2>3, <2>5, <3>1 DEF Outcome
  <2>6. QED BY <2>4, <2>5
<1>4. /\ DoneIsCurrent' /\ Caused' /\ KeepsFinished
      /\ \A t \in Task \ DOMAIN plan' : results'[t] = "none"
  <2>1. \A t \in Task : results[t] # "none" => results'[t] = results[t]
    BY <1>1, <1>2 DEF Open
  <2>2. \A t \in Task \ DOMAIN plan : results'[t] = results[t]
    BY <1>2
  <2>3. \A t \in DOMAIN plan : results[t] = "none" =>
          results'[t] # "done" /\ (results'[t] = "skipped" => t \in pending /\ ~ctxDone)
    BY <1>1, <1>2 DEF Open
  <2>4. \A t \in DOMAIN plan : results[t] = "none" /\ results'[t] = "skipped" =>
          \E d \in Deps(t) : results'[d] \in {"failed", "skipped", "canceled"}
    BY <1>3, <2>3
  <2>5. QED BY <1>2, <2>1, <2>2, <2>3, <2>4, ResultsStay
<1>5. Settled'
  <2>1. Open' = {}
    BY <1>1, <1>2 DEF Open
  <2>2. QED BY <1>1, <1>2, <1>4, <2>1 DEF Settled
<1>6. Own' /\ Entries' /\ BuiltOnDone'
  <2>1. \A e \in cached : e[2] \in DOMAIN plan /\ e[1] = Key(e[2]) /\ results[e[2]] = "done"
    BY <1>1 DEF Accounted, Entries
  <2>2. \A t : Key(t)' = Key(t)
    BY <1>2 DEF Key
  <2>3. QED BY <1>1, <1>2, <1>4, <2>1, <2>2 DEF Own, Entries, BuiltOnDone, KeepsFinished
<1>7. QED BY <1>4, <1>5, <1>6 DEF Accounted

\* Nothing changes but where the service is, and what it has still to do.
LEMMA ServiceGoesOn ==
  ASSUME TypeInv, Accounted,
         \A t \in Task : wpc[t] = "idle",
         UNCHANGED <<plan, results, wpc, got, cached, won>>,
         ready' = {}, ctxDone => ctxDone',
         pc' \in {"round", "batch"} => pending' = Open,
         pc' \in {"verdict", "end"} /\ ~ctxDone' => Open = {}
  PROVE  Accounted' /\ KeepsFinished
<1> USE PlanTasks
<1>1. \A t : Key(t)' = Key(t) /\ Deps(t)' = Deps(t)
  BY DEF Key, Deps
<1>2. Open' = Open
  BY DEF Open
<1>3. Settled'
  BY <1>2 DEF Accounted, Settled
<1>4. Caused' /\ Own' /\ Entries' /\ DoneIsCurrent' /\ BuiltOnDone' /\ KeepsFinished
  BY <1>1 DEF Accounted, Caused, Own, Entries, DoneIsCurrent, BuiltOnDone, KeepsFinished
<1>5. QED BY <1>3, <1>4 DEF Accounted

LEMMA EndBatchAccounts ==
  ASSUME TypeInv, Accounted, EndBatch
  PROVE  Accounted' /\ KeepsFinished
<1> USE PlanTasks
<1>1. /\ pc = "batch" /\ (\A t \in ready : wpc[t] = "idle") /\ ready' = {}
      /\ UNCHANGED <<plan, results, wpc, got, cached, won, ctxDone>>
      /\ \/ pc' = "replan" /\ pending' = pending
         \/ pc' = "round" /\ pending' = pending \ ready
  BY DEF EndBatch, planVars, workVars, ledger
<1>2. \A t \in Task : wpc[t] = "idle"
  BY <1>1 DEF TypeInv, Batches
<1>3. pending \ ready = Open
  BY <1>1 DEF Accounted, Settled, Open
<1>4. QED BY <1>1, <1>2, <1>3, ServiceGoesOn

LEMMA DrainAccounts ==
  ASSUME TypeInv, Accounted, Drain
  PROVE  Accounted' /\ KeepsFinished
<1>1. /\ pc = "replan" /\ ready' = ready
      /\ UNCHANGED <<plan, results, wpc, got, cached, won, ctxDone>>
      /\ \/ pc' = "round" /\ pending' = Open
         \/ pc' = "verdict" /\ ctxDone
  BY DEF Drain, workVars, ledger, Unfinished, Open
<1>2. ready = {} /\ \A t \in Task : wpc[t] = "idle"
  BY <1>1, NobodyWorks
<1>3. QED BY <1>1, <1>2, ServiceGoesOn

LEMMA ConcludeAccounts ==
  ASSUME TypeInv, Accounted, Conclude
  PROVE  Accounted' /\ KeepsFinished
<1>1. /\ pc = "verdict" /\ pc' = "end"
      /\ UNCHANGED <<plan, results, ready, wpc, got, cached, won, ctxDone>>
  BY DEF Conclude, planVars, workVars, ledger
<1>2. ready = {} /\ \A t \in Task : wpc[t] = "idle"
  BY <1>1, NobodyWorks
<1>3. ~ctxDone => Open = {}
  BY <1>1 DEF Accounted, Settled
<1>4. QED BY <1>1, <1>2, <1>3, ServiceGoesOn

\* A diff leaves finished work, and what it came from, as it was; a task that stays skipped
\* keeps its reason, for what is downstream of a change is cleared.
LEMMA ReplanAccounts ==
  ASSUME TypeInv, Accounted, Replan
  PROVE  Accounted' /\ KeepsFinished
<1> USE PlanTasks
<1>1. PICK next \in Plans \ seenPlans, touched \in SUBSET DOMAIN plan :
        /\ AppliedTo(touched, next) /\ ~Frozen(touched) /\ plan' = next
        /\ results' = [t \in Task |-> IF t \in Cleared(touched) THEN "none" ELSE results[t]]
        /\ pending' = Unfinished(next, results')
  BY DEF Replan, Proposals
<1>2. /\ pc = "replan" /\ pc' = "round"
      /\ UNCHANGED <<ready, wpc, got, cached, won, ctxDone>>
  BY DEF Replan, workVars, ledger
<1>3. ready = {} /\ \A t \in Task : wpc[t] = "idle"
  BY <1>2, NobodyWorks
<1> DEFINE gone == touched \cup Descendants(plan, touched)
           D == {t \in DOMAIN plan : results[t] = "done"}
<1>4. touched \subseteq gone /\ \A t \in gone : results[t] # "done"
  BY <1>1 DEF Frozen
<1>5. \A t \in Task : results'[t] = IF t \in gone THEN "none" ELSE results[t]
  BY <1>1 DEF Cleared
<1>6. \A t \in DOMAIN plan \ touched : t \in DOMAIN next /\ next[t] = plan[t]
  BY <1>1 DEF AppliedTo
<1>7. \A t \in DOMAIN plan : \A d \in Deps(t) : d \in gone => t \in gone
  BY <1>1, Downstream DEF Deps
<1> HIDE DEF gone
<1>8. next \in Plans /\ DOMAIN next \subseteq Task
  BY PlansAreOfTasks
<1>9. \A t \in D : t \in DOMAIN next /\ next[t] = plan[t] /\ Keys(plan)[t] = Keys(next)[t]
  <2>1. \A t \in D : plan[t] = next[t] /\ plan[t].deps \subseteq D /\ t \in DOMAIN next
    BY <1>4, <1>6 DEF Accounted, DoneIsCurrent, Deps
  <2>2. D \subseteq DOMAIN plan /\ D \subseteq DOMAIN next
    BY <2>1
  <2> HIDE DEF D
  <2>3. QED BY <1>8, <2>1, <2>2, CommonKeys
<1>10. \A t \in DOMAIN plan : results'[t] = "done" <=> results[t] = "done"
  BY <1>4, <1>5
<1>11. \A t \in Task \ DOMAIN next : results'[t] = "none"
  <2>1. ASSUME NEW t \in Task \ DOMAIN next PROVE results'[t] = "none"
    <3>1. t \in touched \/ t \notin DOMAIN plan
      BY <1>6
    <3>2. QED BY <1>4, <1>5, <3>1 DEF Accounted, Settled
  <2>2. QED BY <2>1
<1>12. \A t \in Task \ DOMAIN plan : results'[t] = "none"
  BY <1>5 DEF Accounted, Settled
<1>13. KeepsFinished
  BY <1>1, <1>4, <1>5, <1>9 DEF KeepsFinished, Key
<1>14. DoneIsCurrent'
  <2>1. ASSUME NEW t \in DOMAIN next, results'[t] = "done"
        PROVE  Keys(next)[t] \in won /\ \A d \in next[t].deps : results'[d] = "done"
    <3>1. t \in D
      BY <1>8, <1>10, <1>12, <2>1
    <3>2. Key(t) \in won /\ \A d \in Deps(t) : results[d] = "done" /\ d \in DOMAIN plan
      BY <3>1 DEF Accounted, DoneIsCurrent
    <3>3. QED BY <1>9, <1>10, <3>1, <3>2 DEF Key, Deps
  <2>2. QED BY <1>1, <1>2, <2>1 DEF DoneIsCurrent, Key, Deps
<1>15. Caused'
  <2>1. ASSUME NEW t \in DOMAIN next, results'[t] = "skipped"
        PROVE  \E d \in next[t].deps : results'[d] \in {"failed", "skipped", "canceled"}
    <3>1. t \in DOMAIN plan /\ t \notin gone /\ results[t] = "skipped"
      BY <1>5, <1>8, <1>12, <2>1
    <3>2. PICK d \in Deps(t) : results[d] \in {"failed", "skipped", "canceled"}
      BY <3>1 DEF Accounted, Caused
    <3>3. d \in DOMAIN plan /\ d \in Task /\ d \notin gone /\ next[t] = plan[t]
      BY <1>4, <1>6, <1>7, <3>1
    <3>4. QED BY <1>5, <3>2, <3>3 DEF Deps
  <2>2. QED BY <1>1, <2>1 DEF Caused, Deps
<1>16. Settled'
  <2>1. pending' = Open'
    BY <1>1 DEF Unfinished, Open
  <2>2. QED BY <1>1, <1>2, <1>3, <1>11, <2>1 DEF Settled
<1>17. Own' /\ BuiltOnDone'
  BY <1>2, <1>3 DEF Own, BuiltOnDone
<1>18. Entries'
  <2>1. ASSUME NEW e \in cached
        PROVE  e[2] \in DOMAIN next /\ e[1] = Keys(next)[e[2]] /\ results'[e[2]] = "done"
    <3>1. e[2] \in D /\ e[1] = Keys(plan)[e[2]]
      BY <1>3 DEF Accounted, Entries, Key
    <3>2. QED BY <1>9, <1>10, <3>1
  <2>2. QED BY <1>1, <1>2, <2>1 DEF Entries, Key
<1>19. QED BY <1>13, <1>14, <1>15, <1>16, <1>17, <1>18 DEF Accounted

-----------------------------------------------------------------------------
(* Steps of a worker. *)

\* Among tasks that have no twin, a task's key is its own.
LEMMA OwnKey ==
  ASSUME Twins = FALSE, TypeInv, NEW t \in DOMAIN plan, NEW u \in DOMAIN plan, Key(t) = Key(u)
  PROVE  t = u
BY DistinctKeys, PlanTasks DEF Key

\* A goroutine moves on without a result.
LEMMA MovesOn ==
  ASSUME TypeInv, Accounted, NEW t \in ready,
         UNCHANGED <<plan, results, pending, ready, pc, cached, won, ctxDone>>,
         wpc[t] # "idle", wpc'[t] # "idle", wpc'[t] # "got",
         wpc[t] = "got" => got[t].status # "done",
         \A u \in Task : u # t => wpc'[u] = wpc[u] /\ got'[u] = got[u]
  PROVE  Accounted' /\ KeepsFinished
<1> USE PlanTasks
<1>1. \A u : Key(u)' = Key(u) /\ Deps(u)' = Deps(u)
  BY DEF Key, Deps
<1>2. Open' = Open
  BY DEF Open
<1>3. Settled'
  BY <1>2 DEF Accounted, Settled
<1>4. Own'
  BY <1>1 DEF Accounted, Own
<1>5. Entries'
  <2>1. ASSUME NEW e \in cached
        PROVE  \/ results[e[2]] = "done"
               \/ wpc'[e[2]] = "got" /\ got'[e[2]].status = "done"
    BY DEF Accounted, Entries
  <2>2. QED BY <1>1, <2>1 DEF Accounted, Entries
<1>6. Caused' /\ DoneIsCurrent' /\ BuiltOnDone' /\ KeepsFinished
  BY <1>1 DEF Accounted, Caused, DoneIsCurrent, BuiltOnDone, KeepsFinished
<1>7. QED BY <1>3, <1>4, <1>5, <1>6 DEF Accounted

\* A goroutine ends and stores its task's outcome.
LEMMA EndsWith ==
  ASSUME TypeInv, Accounted, NEW t \in ready, NEW status \in {"done", "failed", "canceled"},
         UNCHANGED <<plan, pending, ready, pc, cached, won, ctxDone>>,
         wpc[t] # "idle", wpc' = [wpc EXCEPT ![t] = "idle"],
         \A u \in Task : u # t => got'[u] = got[u],
         results' = [results EXCEPT ![t] = status],
         status = "done" => Key(t) \in won,
         wpc[t] = "got" /\ got[t].status = "done" => status = "done"
  PROVE  Accounted' /\ KeepsFinished
<1> USE PlanTasks
<1>1. \A u : Key(u)' = Key(u) /\ Deps(u)' = Deps(u)
  BY DEF Key, Deps
<1>2. /\ pc = "batch" /\ t \in DOMAIN plan /\ t \in Task
      /\ results[t] = "none" /\ results'[t] = status /\ wpc'[t] = "idle"
      /\ \A u \in Task : u # t => results'[u] = results[u] /\ wpc'[u] = wpc[u]
  BY DEF Accounted, Settled, TypeInv, TypeOK, Batches
<1>3. /\ DoneIsCurrent' /\ Caused' /\ KeepsFinished
      /\ \A u \in Task \ DOMAIN plan' : results'[u] = "none"
  <2>1. \A u \in Task : results[u] # "none" => results'[u] = results[u]
    BY <1>2
  <2>2. \A u \in Task \ DOMAIN plan : results'[u] = results[u]
    BY <1>2
  <2>3. \A u \in DOMAIN plan : results[u] = "none" /\ results'[u] = "done" =>
          Key(u) \in won' /\ \A d \in Deps(u) : results[d] = "done"
    BY <1>2 DEF Accounted, BuiltOnDone
  <2>4. \A u \in DOMAIN plan : results[u] = "none" /\ results'[u] = "skipped" =>
          \E d \in Deps(u) : results'[d] \in {"failed", "skipped", "canceled"}
    BY <1>2
  <2>5. QED BY <2>1, <2>2, <2>3, <2>4, ResultsStay
<1>4. Settled'
  <2>1. pending = Open \cup ready /\ \A u \in ready : results[u] = "none" <=> wpc[u] # "idle"
    BY <1>2 DEF Accounted, Settled
  <2>2. Open' = Open \ {t}
    BY <1>2 DEF Open
  <2>3. \A u \in ready : results'[u] = "none" <=> wpc'[u] # "idle"
    BY <1>2, <2>1
  <2>4. QED BY <1>2, <1>3, <2>1, <2>2, <2>3 DEF Settled
<1>5. Own'
  BY <1>1, <1>2 DEF Accounted, Own
<1>6. Entries'
  <2>1. ASSUME NEW e \in cached
        PROVE  \/ results'[e[2]] = "done"
               \/ wpc'[e[2]] = "got" /\ got'[e[2]].status = "done"
    <3>1. /\ e[2] \in Task
          /\ results[e[2]] = "done" \/ (wpc[e[2]] = "got" /\ got[e[2]].status = "done")
      BY DEF Accounted, Entries
    <3>2. CASE e[2] = t
      BY <1>2, <3>1, <3>2
    <3>3. CASE e[2] # t
      BY <1>2, <3>1, <3>3
    <3>4. QED BY <3>2, <3>3
  <2>2. QED BY <1>1, <2>1 DEF Accounted, Entries
<1>7. BuiltOnDone'
  <2>1. \A u \in ready : \A d \in Deps(u) : results[d] = "done" /\ d \in DOMAIN plan
    BY DEF Accounted, BuiltOnDone
  <2>2. QED BY <1>1, <1>3, <2>1 DEF BuiltOnDone, KeepsFinished
<1>8. QED BY <1>3, <1>4, <1>5, <1>6, <1>7 DEF Accounted

\* A task is not asked for again after it has succeeded, so no finished entry is found.
LEMMA NoHit ==
  ASSUME Twins = FALSE, TypeInv, Accounted, NEW t \in ready, wpc[t] = "attempt"
  PROVE  {e \in cached : e[1] = Key(t)} = {}
<1> USE PlanTasks
<1>1. SUFFICES ASSUME NEW e \in cached, e[1] = Key(t) PROVE FALSE
  OBVIOUS
<1>2. e[2] \in DOMAIN plan /\ Key(e[2]) = Key(t)
  BY <1>1 DEF Accounted, Entries
<1>3. e[2] = t
  BY <1>2, OwnKey
<1>4. results[t] = "none"
  BY DEF Accounted, Settled
<1>5. QED BY <1>1, <1>3, <1>4 DEF Accounted, Entries

\* A runner returns: no other task waits for the same work.
LEMMA RunEndsAccounts ==
  ASSUME Twins = FALSE, TypeInv, Accounted, NEW t \in ready, RunEnds(t)
  PROVE  Accounted' /\ KeepsFinished
<1> USE PlanTasks
<1> DEFINE served == {t} \cup {v \in ready : wpc[v] = "waiting" /\ Key(v) = Key(t)}
<1>1. served = {t}
  BY OwnKey
<1>2. PICK status \in {"done", "failed"}, retry \in BOOLEAN :
        /\ status = "done" => ~retry
        /\ got' = [v \in Task |-> IF v \in served
                                  THEN [id |-> t, status |-> status, retry |-> retry] ELSE got[v]]
        /\ wpc' = [v \in Task |-> IF v \in served THEN "got" ELSE wpc[v]]
        /\ IF status = "done"
           THEN cached' = cached \cup {<<Key(t), t>>} /\ won' = won \cup {Key(t)}
           ELSE cached' = cached /\ won' = won
  BY DEF RunEnds, ledger
<1>3. UNCHANGED <<plan, results, pending, ready, pc, ctxDone>> /\ wpc[t] = "running"
  BY DEF RunEnds, planVars, roundVars
<1>4. /\ t \in Task /\ wpc'[t] = "got"
      /\ got'[t].id = t /\ got'[t].status = status /\ got'[t].retry = retry
      /\ \A u \in Task : u # t => wpc'[u] = wpc[u] /\ got'[u] = got[u]
  BY <1>1, <1>2
<1> HIDE DEF served
<1>5. \A u : Key(u)' = Key(u) /\ Deps(u)' = Deps(u)
  BY <1>3 DEF Key, Deps
<1>6. won \subseteq won' /\ (status = "done" => Key(t) \in won')
  BY <1>2
<1>7. Settled'
  <2>1. Open' = Open
    BY <1>3 DEF Open
  <2>2. \A u \in ready : wpc'[u] # "idle" <=> wpc[u] # "idle"
    BY <1>3, <1>4
  <2>3. QED BY <1>3, <2>1, <2>2 DEF Accounted, Settled
<1>8. Own'
  <2>1. ASSUME NEW u \in Task, wpc'[u] = "got"
        PROVE  got'[u].id = u /\ (got'[u].status = "done" => ~got'[u].retry /\ Key(u) \in won')
    <3>1. CASE u = t
      BY <1>2, <1>4, <1>6, <3>1
    <3>2. CASE u # t
      BY <1>4, <1>6, <2>1, <3>2 DEF Accounted, Own
    <3>3. QED BY <3>1, <3>2
  <2>2. QED BY <1>5, <2>1 DEF Own
<1>9. Entries'
  <2>1. ASSUME NEW e \in cached
        PROVE  /\ e[2] \in DOMAIN plan /\ e[1] = Key(e[2])
               /\ \/ results[e[2]] = "done"
                  \/ wpc'[e[2]] = "got" /\ got'[e[2]].status = "done"
    <3>1. e[2] # t \/ results[e[2]] = "done"
      BY <1>3 DEF Accounted, Entries
    <3>2. QED BY <1>4, <3>1 DEF Accounted, Entries
  <2>2. CASE status = "done"
    <3>1. \A e \in cached' : e \in cached \/ (e[1] = Key(t) /\ e[2] = t)
      BY <1>2, <2>2
    <3>2. QED BY <1>3, <1>4, <1>5, <2>1, <2>2, <3>1 DEF Entries
  <2>3. CASE status # "done"
    BY <1>2, <1>3, <1>5, <2>1, <2>3 DEF Entries
  <2>4. QED BY <2>2, <2>3
<1>10. Caused' /\ DoneIsCurrent' /\ BuiltOnDone' /\ KeepsFinished
  BY <1>3, <1>5, <1>6 DEF Accounted, Caused, DoneIsCurrent, BuiltOnDone, KeepsFinished
<1>11. QED BY <1>7, <1>8, <1>9, <1>10 DEF Accounted

LEMMA WorkerAccounts ==
  ASSUME Twins = FALSE, TypeInv, Accounted, NEW t \in Task, Worker(t)
  PROVE  Accounted' /\ KeepsFinished
<1>1. wpc[t] # "idle"
  BY DEF Worker, TakeSlot, Expire, AskLedger, RunEnds, Retry, BackoffEnds, Return
<1>2. t \in ready /\ wpc \in [Task -> WorkerPC] /\ got \in [Task -> [id : Task \cup {0}, status : {"none", "done", "failed"}, retry : BOOLEAN]]
  BY <1>1 DEF TypeInv, TypeOK, Batches
<1> USE DEF planVars, roundVars, ledger
<1>3. CASE TakeSlot(t)
  BY <1>2, <1>3, MovesOn DEF TakeSlot, Goto
<1>4. CASE Expire(t)
  <2>1. /\ UNCHANGED <<plan, pending, ready, pc, cached, won, ctxDone>>
        /\ wpc[t] \in {"queued", "attempt", "backoff"} /\ wpc' = [wpc EXCEPT ![t] = "idle"]
        /\ \A u \in Task : u # t => got'[u] = got[u]
        /\ results' = [results EXCEPT ![t] = "canceled"]
    BY <1>2, <1>4 DEF Expire, SetResult, Leave, Goto
  <2>2. QED BY <1>2, <2>1, EndsWith
<1>5. CASE AskLedger(t)
  <2>1. {e \in cached : e[1] = Key(t)} = {}
    BY <1>2, <1>5, NoHit DEF AskLedger
  <2>2. /\ UNCHANGED <<plan, results, pending, ready, pc, got, cached, won, ctxDone>>
        /\ wpc[t] = "attempt"
        /\ wpc' = [wpc EXCEPT ![t] = IF Runner(Key(t)) = {} THEN "running" ELSE "waiting"]
    BY <1>5, <2>1 DEF AskLedger, Goto
  <2>3. wpc'[t] \in {"running", "waiting"} /\ \A u \in Task : u # t => wpc'[u] = wpc[u]
    BY <1>2, <2>2
  <2>4. QED BY <1>2, <2>2, <2>3, MovesOn
<1>6. CASE RunEnds(t)
  BY <1>2, <1>6, RunEndsAccounts
<1>7. CASE Retry(t)
  <2>1. got[t].status # "done"
    BY <1>7 DEF Retry, Accounted, Own
  <2>2. /\ UNCHANGED <<plan, results, pending, ready, pc, cached, won, ctxDone>>
        /\ wpc' = [wpc EXCEPT ![t] = "backoff"] /\ got' = [got EXCEPT ![t] = Nothing]
    BY <1>7 DEF Retry, Goto
  <2>3. wpc'[t] = "backoff" /\ \A u \in Task : u # t => wpc'[u] = wpc[u] /\ got'[u] = got[u]
    BY <1>2, <2>2
  <2>4. QED BY <1>1, <1>2, <2>1, <2>2, <2>3, MovesOn
<1>8. CASE BackoffEnds(t)
  BY <1>2, <1>8, MovesOn DEF BackoffEnds, Goto
<1>9. CASE Return(t)
  <2>1. /\ UNCHANGED <<plan, pending, ready, pc, cached, won, ctxDone>>
        /\ wpc[t] = "got" /\ wpc' = [wpc EXCEPT ![t] = "idle"]
        /\ \A u \in Task : u # t => got'[u] = got[u]
        /\ results' = [results EXCEPT ![got[t].id] = got[t].status]
    BY <1>2, <1>9 DEF Return, SetResult, Leave, Goto
  <2>2. got[t].id = t /\ (got[t].status = "done" => Key(t) \in won)
    BY <2>1 DEF Accounted, Own
  <2>3. got[t].status \in {"done", "failed"}
    BY <1>2, <2>1 DEF TypeInv, ResultsHaveIds
  <2>4. QED BY <1>2, <2>1, <2>2, <2>3, EndsWith
<1>10. QED BY <1>3, <1>4, <1>5, <1>6, <1>7, <1>8, <1>9 DEF Worker

LEMMA StepAccounts ==
  ASSUME Twins = FALSE, TypeInv, Accounted, [Next]_vars
  PROVE  Accounted' /\ KeepsFinished
<1>1. CASE Service
  BY <1>1, StartBatchAccounts, EndRoundAccounts, EndBatchAccounts, ReplanAccounts, DrainAccounts,
     ConcludeAccounts DEF Service
<1>2. CASE \E t \in Task : Worker(t)
  BY <1>2, WorkerAccounts
<1>3. CASE Cancel \/ UNCHANGED vars
  <2>1. /\ UNCHANGED <<plan, results, pending, ready, pc, wpc, got, cached, won>>
        /\ ctxDone => ctxDone'
    BY <1>3 DEF Cancel, vars, planVars, roundVars, workVars, ledger
  <2>2. \A u : Key(u)' = Key(u) /\ Deps(u)' = Deps(u)
    BY <2>1 DEF Key, Deps
  <2>3. Settled'
    BY <2>1 DEF Accounted, Settled, Open
  <2>4. Caused' /\ Own' /\ Entries' /\ DoneIsCurrent' /\ BuiltOnDone' /\ KeepsFinished
    BY <2>1, <2>2, PlanTasks
       DEF Accounted, Caused, Own, Entries, DoneIsCurrent, BuiltOnDone, KeepsFinished
  <2>5. QED BY <2>3, <2>4 DEF Accounted
<1>4. QED BY <1>1, <1>2, <1>3 DEF Next

\* In a plan without twins, what is shown as done was done in its present form and on
\* finished work, through every batch, retry and replan (ApplyDiff, setResult).
THEOREM PlanDoneIsCurrent ==
  ASSUME Twins = FALSE
  PROVE  Spec => []DoneIsCurrent
<1>1. Init => TypeInv /\ Accounted
  BY InitTyped, AccountedAtStart
<1>2. TypeInv /\ Accounted /\ [Next]_vars => TypeInv' /\ Accounted'
  BY StepTyped, StepAccounts
<1>3. Accounted => DoneIsCurrent
  BY DEF Accounted
<1>4. QED BY <1>1, <1>2, <1>3, PTL DEF Spec

\* In a plan without twins, a run that ends by itself leaves no task without an outcome and
\* no skipped task whose dependencies were all successful (RunRound, orderedResults).
THEOREM PlanTasksAccountedFor ==
  ASSUME Twins = FALSE
  PROVE  Spec => []EveryTaskIsAccountedFor
<1>1. Init => TypeInv /\ Accounted
  BY InitTyped, AccountedAtStart
<1>2. TypeInv /\ Accounted /\ [Next]_vars => TypeInv' /\ Accounted'
  BY StepTyped, StepAccounts
<1>3. Accounted => EveryTaskIsAccountedFor
  <2>1. SUFFICES ASSUME Accounted, pc = "end", ~ctxDone, NEW t \in DOMAIN plan
                 PROVE  /\ results[t] # "none"
                        /\ results[t] = "skipped" => \E d \in Deps(t) : results[d] # "done"
    BY DEF EveryTaskIsAccountedFor
  <2>2. results[t] # "none"
    BY <2>1 DEF Accounted, Settled, Open
  <2>3. results[t] = "skipped" => \E d \in Deps(t) : results[d] # "done"
    BY <2>1 DEF Accounted, Caused
  <2>4. QED BY <2>2, <2>3
<1>4. QED BY <1>1, <1>2, <1>3, PTL DEF Spec

\* In a plan without twins, no replan touches a completed task or what its result came
\* from, and no late goroutine takes a result back (ApplyDiff, executeTask).
THEOREM PlanFinishedWorkIsFrozen ==
  ASSUME Twins = FALSE
  PROVE  Spec => FrozenWork
<1>1. Init => TypeInv /\ Accounted
  BY InitTyped, AccountedAtStart
<1>2. TypeInv /\ Accounted /\ [Next]_vars => TypeInv' /\ Accounted'
  BY StepTyped, StepAccounts
<1>3. TypeInv /\ Accounted /\ [Next]_vars =>
        [\A t \in DOMAIN plan : results[t] = "done" =>
           t \in DOMAIN plan' /\ results'[t] = "done" /\ Key(t)' = Key(t)]_vars
  BY StepAccounts DEF KeepsFinished
<1>4. QED BY <1>1, <1>2, <1>3, PTL DEF Spec, FrozenWork

=============================================================================
