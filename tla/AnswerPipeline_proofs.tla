----------------------- MODULE AnswerPipeline_proofs ------------------------
(***************************************************************************)
(* Machine-checked facts about AnswerPipeline, for every number of calls,  *)
(* requests, questions and follow-ups, with failures and crashes.          *)
(***************************************************************************)
EXTENDS AnswerPipeline, TLAPS

\* A call under way carries a request, and that request answers a question.
Carries == \A c \in Call : pc[c] # "idle" => request[c] \in Request /\ Q(c) \in Question

\* A follow-up is only planned below the limit.
FollowUpPlanned == \A c \in Call : move[c] = "followUp" => seen[c].count < MaxFollowUp

\* TypeOK alone is not inductive: the number of a follow-up comes from the call's
\* question and from its snapshot.
TypeInv == TypeOK /\ Carries /\ FollowUpPlanned

-----------------------------------------------------------------------------
(* Type correctness. *)

LEMMA InitTyped == Init => TypeInv
<1> SUFFICES ASSUME Init PROVE TypeInv
  OBVIOUS
<1>1. NoFlow \in Flow
  BY InterviewBounds DEF NoFlow, Flow, Status, LegalTargets
<1>2. flow \in Flow
  BY InterviewBounds DEF Init, Flow, Status, LegalTargets, Question, Main
<1>3. 0 \in 0 .. MaxEvalFailures /\ 0 \in 0 .. MaxScoreFailures /\ 0 \in 0 .. MaxCrashes
  BY InterviewBounds
<1>4. TypeOK
  BY <1>1, <1>2, <1>3 DEF Init, TypeOK, Resting
<1>5. Carries /\ FollowUpPlanned
  BY DEF Init, Carries, FollowUpPlanned
<1>6. QED BY <1>4, <1>5 DEF TypeInv

LEMMA Statuses == Status = {"INIT", "ASKING", "EVALUATING", "FOLLOW_UP", "COMPLETED"}
BY DEF Status, LegalTargets

\* Moving the flow keeps its type.
LEMMA MutatedTyped ==
  ASSUME TypeInv, NEW c \in Call, pc[c] # "idle", NEW f \in Flow
  PROVE  [Mutated(c, f) EXCEPT !.version = @ + 1] \in Flow
<1>1. Mutated(c, f) \in Flow
  <2>1. CASE move[c] = "evaluate"
    BY <2>1, Statuses DEF Mutated, Flow
  <2>2. CASE move[c] = "followUp"
    <3>1. Q(c) \in Question /\ seen[c].count < MaxFollowUp /\ seen[c].count \in Nat
      BY <2>2 DEF TypeInv, TypeOK, Carries, FollowUpPlanned, Flow
    <3>2. Q(c)[1] \in Main /\ seen[c].count + 1 \in 0 .. MaxFollowUp
      BY <3>1, InterviewBounds DEF Question
    <3>3. FollowUpNumber(c) \in Question
      BY <3>2 DEF FollowUpNumber, Question
    <3>4. Mutated(c, f) = [f EXCEPT !.status = "FOLLOW_UP", !.count = @ + 1, !.qn = FollowUpNumber(c)]
      BY <2>2 DEF Mutated
    <3>5. f.count + 1 \in Nat
      BY DEF Flow
    <3>6. QED BY <3>3, <3>4, <3>5, Statuses DEF Flow
  <2>3. CASE move[c] = "advance"
    <3>1. f.index \in 0 .. TotalQuestions - 1
      BY DEF Flow
    <3>2. f.index + 1 < TotalQuestions =>
            f.index + 2 \in Main /\ f.index + 1 \in 0 .. TotalQuestions - 1
      BY <3>1, InterviewBounds DEF Main
    <3>3. f.index + 1 < TotalQuestions => <<f.index + 2, 0>> \in Question
      BY <3>2, InterviewBounds DEF Question
    <3>4. CASE f.index + 1 >= TotalQuestions
      <4>1. Mutated(c, f) = [f EXCEPT !.status = "COMPLETED", !.qn = None, !.count = 0]
        BY <2>3, <3>4 DEF Mutated, Advanced
      <4>2. Mutated(c, f) = [status |-> "COMPLETED", index |-> f.index, qn |-> None,
                             count |-> 0, version |-> f.version]
        BY <4>1 DEF Flow
      <4>3. QED BY <4>2, Statuses DEF Flow
    <3>5. CASE ~(f.index + 1 >= TotalQuestions)
      <4>1. Mutated(c, f) = [f EXCEPT !.status = "ASKING", !.qn = <<f.index + 2, 0>>, !.count = 0,
                                      !.index = f.index + 1]
        BY <2>3, <3>5 DEF Mutated, Advanced
      <4>2. Mutated(c, f) = [status |-> "ASKING", index |-> f.index + 1, qn |-> <<f.index + 2, 0>>,
                             count |-> 0, version |-> f.version]
        BY <4>1 DEF Flow
      <4>3. f.index + 1 < TotalQuestions
        BY <3>1, <3>5, InterviewBounds
      <4>4. QED BY <3>2, <3>3, <4>2, <4>3, Statuses DEF Flow
    <3>6. QED BY <3>4, <3>5
  <2>4. QED BY <2>1, <2>2, <2>3 DEF TypeInv, TypeOK
<1>2. \A g \in Flow : [g EXCEPT !.version = @ + 1] \in Flow
  BY DEF Flow
<1>3. QED BY <1>1, <1>2

LEMMA CarriesStep == TypeInv /\ [Next]_vars => Carries'
<1> SUFFICES ASSUME TypeInv, [Next]_vars, NEW d \in Call, (pc[d] # "idle")'
             PROVE  (request[d] \in Request /\ Q(d) \in Question)'
  BY DEF Carries
<1> USE DEF TypeInv, store, locals, counts
<1>1. ASSUME NEW c \in Call, Submit(c)
      PROVE  (request[d] \in Request /\ Q(d) \in Question)'
  <2>1. PICK r \in Request :
          /\ request' = [request EXCEPT ![c] = r]
          /\ IF about[r] = None
             THEN flow.qn # None /\ about' = [about EXCEPT ![r] = flow.qn]
             ELSE UNCHANGED about
    BY <1>1 DEF Submit
  <2>2. about'[r] \in Question /\ \A s \in Request : about[s] \in Question => about'[s] = about[s]
    BY <2>1, NoneIsFresh DEF TypeOK, Flow
  <2>3. CASE d = c
    BY <2>1, <2>2, <2>3 DEF TypeOK, Q
  <2>4. CASE d # c
    BY <1>1, <2>1, <2>2, <2>4 DEF TypeOK, Carries, Submit, Goto, Q
  <2>5. QED BY <2>3, <2>4
<1>2. CASE ~\E c \in Call : Submit(c)
  <2>1. UNCHANGED <<request, about>> /\ pc[d] # "idle"
    BY <1>2 DEF Next, CallStep, CheckReplay, StartProcessing, EnsureRuntime, LockQuestion, Recheck,
      GiveUp, MutateRead, MutateWrite, Evaluate, EvaluateFails, AddScore, AddScoreFails, Rollback,
      ClearProcessing, MarkSucceeded, Release, Crash, LockExpires, ProcessingExpires, Goto,
      TypeOK, Resting, vars
  <2>2. QED BY <2>1 DEF Carries, Q
<1>3. QED BY <1>1, <1>2

LEMMA PlannedStep == TypeInv /\ [Next]_vars => FollowUpPlanned'
<1> SUFFICES ASSUME TypeInv, [Next]_vars, NEW d \in Call, (move[d] = "followUp")'
             PROVE  (seen[d].count < MaxFollowUp)'
  BY DEF FollowUpPlanned
<1> USE DEF TypeInv, store, locals, counts
<1>1. ASSUME NEW c \in Call, Recheck(c) PROVE (seen[d].count < MaxFollowUp)'
  BY <1>1 DEF Recheck, TypeOK, FollowUpPlanned
<1>2. ASSUME NEW c \in Call, Evaluate(c) PROVE (seen[d].count < MaxFollowUp)'
  BY <1>2 DEF Evaluate, TypeOK, FollowUpPlanned
<1>3. CASE ~\E c \in Call : Recheck(c) \/ Evaluate(c)
  <2>1. UNCHANGED <<seen, move>>
    BY <1>3 DEF Next, CallStep, Submit, CheckReplay, StartProcessing, EnsureRuntime, LockQuestion,
      GiveUp, MutateRead, MutateWrite, EvaluateFails, AddScore, AddScoreFails, Rollback,
      ClearProcessing, MarkSucceeded, Release, Crash, LockExpires, ProcessingExpires, Say, vars
  <2>2. QED BY <2>1 DEF FollowUpPlanned
<1>4. QED BY <1>1, <1>2, <1>3

LEMMA TypeStep == TypeInv /\ [Next]_vars => TypeOK'
<1> SUFFICES ASSUME TypeInv, [Next]_vars PROVE TypeOK'
  OBVIOUS
<1> USE DEF store, locals, counts, Goto, Say, TypeInv
<1>1. ASSUME NEW c \in Call, Submit(c) PROVE TypeOK'
  <2>1. flow.qn \in Question \cup {None}
    BY DEF TypeOK, Flow
  <2>2. QED BY <1>1, <2>1 DEF TypeOK, Submit, Early
<1>2. ASSUME NEW c \in Call, MutateWrite(c) PROVE TypeOK'
  <2>1. pc[c] # "idle" /\ read[c] \in Flow /\ request[c] \in Request /\ read[c].version \in Nat
    BY <1>2 DEF TypeOK, MutateWrite, Carries, Flow
  <2>2. [Mutated(c, read[c]) EXCEPT !.version = @ + 1] \in Flow
    BY <2>1, MutatedTyped
  <2>3. AfterWrite(c) \in Locked
    BY DEF AfterWrite, Locked
  <2>4. CASE flow.version = read[c].version
    BY <1>2, <2>1, <2>2, <2>3, <2>4 DEF TypeOK, MutateWrite
  <2>5. CASE flow.version # read[c].version
    BY <1>2, <2>5 DEF TypeOK, MutateWrite, Locked
  <2>6. QED BY <2>4, <2>5
<1>3. ASSUME NEW c \in Call, Rollback(c) PROVE TypeOK'
  BY <1>3 DEF TypeOK, Rollback, Carries, Locked
<1>4. ASSUME NEW c \in Call, CheckReplay(c) \/ EnsureRuntime(c) \/ Recheck(c) \/ MutateRead(c) \/ Evaluate(c)
      PROVE  TypeOK'
  BY <1>4 DEF TypeOK, CheckReplay, EnsureRuntime, Recheck, MutateRead, Evaluate, Early, Locked,
    Resting
<1>5. ASSUME NEW c \in Call, StartProcessing(c) \/ GiveUp(c) \/ ClearProcessing(c) \/ MarkSucceeded(c)
      PROVE  TypeOK'
  <2>1. request[c] \in Request
    BY <1>5 DEF StartProcessing, GiveUp, ClearProcessing, MarkSucceeded, Carries
  <2>2. QED
    BY <1>5, <2>1 DEF TypeOK, StartProcessing, GiveUp, ClearProcessing, MarkSucceeded, Early,
      Locked, Resting
<1>6. ASSUME NEW c \in Call, LockQuestion(c) \/ Release(c) PROVE TypeOK'
  BY <1>6 DEF TypeOK, LockQuestion, Release, Early, Locked, Resting
<1>7. ASSUME NEW c \in Call, EvaluateFails(c) \/ AddScoreFails(c) \/ Crash(c) PROVE TypeOK'
  BY <1>7, InterviewBounds DEF TypeOK, EvaluateFails, AddScoreFails, Crash, Locked, Resting
<1>8. ASSUME NEW c \in Call, AddScore(c) PROVE TypeOK'
  <2>1. Q(c) \in Question
    BY <1>8 DEF AddScore, Carries
  <2>2. Q(c)[1] \in Main /\ scored[Q(c)[1]] + 1 \in Nat
    BY <2>1 DEF Question, TypeOK
  <2>3. QED BY <1>8, <2>2 DEF TypeOK, AddScore, Locked
<1>9. ASSUME NEW q \in Question, LockExpires(q) PROVE TypeOK'
  BY <1>9 DEF TypeOK, LockExpires
<1>10. ASSUME NEW r \in Request, ProcessingExpires(r) PROVE TypeOK'
  BY <1>10 DEF TypeOK, ProcessingExpires
<1>11. CASE UNCHANGED vars
  BY <1>11 DEF TypeOK, vars
<1>12. QED
  BY <1>1, <1>2, <1>3, <1>4, <1>5, <1>6, <1>7, <1>8, <1>9, <1>10, <1>11 DEF Next, CallStep

LEMMA TypeInvariant == Spec => []TypeInv
<1>1. TypeInv /\ [Next]_vars => TypeInv'
  BY TypeStep, CarriesStep, PlannedStep DEF TypeInv
<1>2. QED BY <1>1, InitTyped, PTL DEF Spec

\* Every reachable state is well typed (property TypeOK of run answers):
\* in particular the flow's question exists.
THEOREM TypeCorrect == Spec => []TypeOK
<1>1. TypeInv => TypeOK
  BY DEF TypeInv
<1>2. QED BY <1>1, TypeInvariant, PTL

-----------------------------------------------------------------------------
(* The question lock. *)

LEMMA LockStep == TypeInv /\ LockHeld /\ [Next]_vars => LockHeld'
<1> SUFFICES ASSUME TypeInv, LockHeld, [Next]_vars, NEW d \in Call, (pc[d] \in Locked)'
             PROVE  (qlock[Q(d)] = d)'
  BY DEF LockHeld
<1> USE DEF store, locals, counts, TypeInv
<1>1. ASSUME NEW c \in Call, Submit(c) PROVE (qlock[Q(d)] = d)'
  <2>1. d # c /\ pc[d] \in Locked /\ UNCHANGED <<qlock, request[d]>>
    BY <1>1 DEF Submit, TypeOK, Goto, Locked
  <2>2. request[d] \in Request /\ about[request[d]] \in Question
    BY <2>1 DEF Carries, Locked, Q
  <2>3. about'[request[d]] = about[request[d]]
    BY <1>1, <2>2, NoneIsFresh DEF Submit, TypeOK
  <2>4. QED BY <2>1, <2>3 DEF LockHeld, Q
<1>2. ASSUME NEW c \in Call, LockQuestion(c) PROVE (qlock[Q(d)] = d)'
  <2>1. Q(c) \in Question /\ UNCHANGED <<request, about>>
    BY <1>2 DEF LockQuestion, Carries
  <2>2. CASE d = c
    BY <1>2, <2>1, <2>2 DEF LockQuestion, TypeOK, Goto, Q, Locked
  <2>3. CASE d # c
    <3>1. pc'[d] = pc[d]
      BY <1>2, <2>3 DEF LockQuestion, TypeOK, Goto
    <3>2. Q(d)' = Q(d) /\ d # None
      BY <2>1, NoneIsFresh DEF Q
    <3>3. qlock[Q(d)] = d
      BY <3>1 DEF LockHeld
    <3>4. qlock'[Q(d)] = qlock[Q(d)]
      <4>1. CASE qlock[Q(c)] = None
        <5>1. Q(d) # Q(c)
          BY <3>2, <3>3, <4>1
        <5>2. qlock' = [qlock EXCEPT ![Q(c)] = c]
          BY <1>2, <4>1 DEF LockQuestion
        <5>3. QED BY <5>1, <5>2 DEF TypeOK
      <4>2. CASE qlock[Q(c)] # None
        BY <1>2, <4>2 DEF LockQuestion
      <4>3. QED BY <4>1, <4>2
    <3>5. QED BY <3>2, <3>3, <3>4
  <2>4. QED BY <2>2, <2>3
<1>3. ASSUME NEW c \in Call, Release(c) PROVE (qlock[Q(d)] = d)'
  <2>1. d # c /\ pc[d] \in Locked /\ UNCHANGED <<request, about>>
    BY <1>3 DEF Release, TypeOK, Goto, Locked
  <2>2. qlock[Q(d)] = d /\ Q(c) \in Question /\ qlock[Q(c)] = c
    BY <1>3, <2>1 DEF LockHeld, Carries, Release, Locked
  <2>3. Q(d) # Q(c)
    BY <2>1, <2>2
  <2>4. QED BY <1>3, <2>1, <2>2, <2>3 DEF Release, TypeOK, Q
<1>4. ASSUME NEW q \in Question, LockExpires(q) PROVE (qlock[Q(d)] = d)'
  <2>1. pc[d] \in Locked /\ UNCHANGED <<request, about>>
    BY <1>4 DEF LockExpires
  <2>2. qlock[Q(d)] = d /\ pc[d] \notin Resting
    BY <2>1 DEF LockHeld, Locked, Resting
  <2>3. Q(d) # q
    BY <1>4, <2>2 DEF LockExpires
  <2>4. QED BY <1>4, <2>1, <2>2, <2>3 DEF LockExpires, TypeOK, Q
<1>5. CASE /\ ~\E c \in Call : Submit(c) \/ LockQuestion(c) \/ Release(c)
           /\ ~\E q \in Question : LockExpires(q)
  <2>1. UNCHANGED <<qlock, request, about>>
    BY <1>5 DEF Next, CallStep, CheckReplay, StartProcessing, EnsureRuntime, Recheck, GiveUp,
      MutateRead, MutateWrite, Evaluate, EvaluateFails, AddScore, AddScoreFails, Rollback,
      ClearProcessing, MarkSucceeded, Crash, ProcessingExpires, vars
  <2>2. pc[d] \in Locked
    BY <1>5 DEF Next, CallStep, CheckReplay, StartProcessing, EnsureRuntime, Recheck, GiveUp,
      MutateRead, MutateWrite, Evaluate, EvaluateFails, AddScore, AddScoreFails, Rollback,
      ClearProcessing, MarkSucceeded, Crash, ProcessingExpires, vars, Goto, TypeOK, Locked
  <2>3. QED BY <2>1, <2>2 DEF LockHeld, Q
<1>6. QED BY <1>1, <1>2, <1>3, <1>4, <1>5

LEMMA LockInvariant == Spec => []LockHeld
<1>1. Init => LockHeld
  BY DEF Init, LockHeld, Locked
<1>2. QED BY <1>1, LockStep, TypeInvariant, PTL DEF Spec

\* No two calls are past the lock with the same question, whatever fails, crashes
\* or is repeated (property OneCallPerQuestion of run answers).
THEOREM QuestionsAnsweredAlone == Spec => []OneCallPerQuestion
<1>1. LockHeld => OneCallPerQuestion
  BY DEF LockHeld, OneCallPerQuestion
<1>2. QED BY <1>1, LockInvariant, PTL

-----------------------------------------------------------------------------
(* One call at a time moves the flow. *)

\* Question q lies behind the flow f.
Behind(f, q) ==
  \/ f.status = "COMPLETED"
  \/ q[1] <= f.index
  \/ (q[1] = f.index + 1 /\ q[2] < f.count)

\* The fields of f describe one and the same question.
Coherent(f) ==
  /\ f.status # "INIT" /\ f.count <= MaxFollowUp
  /\ f.status = "ASKING" => f.qn = <<f.index + 1, 0>> /\ f.count = 0
  /\ f.status = "FOLLOW_UP" => f.qn = <<f.index + 1, f.count>> /\ f.count > 0
  /\ f.status = "EVALUATING" => f.qn = <<f.index + 1, f.count>>
  /\ f.status = "COMPLETED" => f.qn = None /\ f.count = 0

\* What MoveToEvaluating makes of f.
Evaluated(f) == [f EXCEPT !.status = "EVALUATING", !.version = @ + 1]

\* A call past the second look is at work until it gives up or moves the flow on: it has yet
\* to write EVALUATING, or it has; it is past its question between the move and its score.
ToEvaluate(c) == pc[c] \in {"read", "write"} /\ move[c] = "evaluate"
Evaluating(c) ==
  \/ pc[c] = "evaluate"
  \/ (pc[c] \in {"read", "write"} /\ move[c] # "evaluate")
  \/ (pc[c] = "rollback" /\ move[c] = "evaluate")
AtWork(c) == ToEvaluate(c) \/ Evaluating(c)
Past(c) == pc[c] = "score" \/ (pc[c] = "rollback" /\ move[c] # "evaluate")

\* A call at work has the flow to itself ...
HasFlow(c) == AtWork(c) =>
  /\ Coherent(seen[c]) /\ seen[c].qn = Q(c)
  /\ ToEvaluate(c) => flow = seen[c]
  /\ Evaluating(c) => flow = Evaluated(seen[c]) /\ mine[c] = flow.version
  /\ pc[c] = "write" => read[c] = flow
  /\ pc[c] = "evaluate" => move[c] = "evaluate"

\* ... one that is past its question may find it further on ...
HasMoved(c) == Past(c) =>
  /\ Coherent(seen[c]) /\ seen[c].qn = Q(c) /\ Q(c)[2] = 0
  /\ Moved(c) /\ move[c] # "evaluate"
  /\ flow.version >= mine[c]
  /\ \A d \in Call : AtWork(d) => seen[d].version >= mine[c]
  /\ Behind(flow, Q(c)) /\ \A q \in Question : Behind(seen[c], q) => Behind(flow, q)

\* ... but rolls it back only while nobody else is there.
RollsBackAlone(c) == Past(c) /\ pc[c] = "rollback" =>
  flow.version = mine[c] /\ \A d \in Call \ {c} : pc[d] \in Resting

InStep == Coherent(flow) /\ \A c \in Call : HasFlow(c) /\ HasMoved(c) /\ RollsBackAlone(c)

\* Everything so far, in a behaviour whose rollbacks were not crossed.
Before == TypeInv /\ LockHeld /\ crossed = {} /\ InStep

LEMMA Labels ==
  ASSUME NEW c \in Call
  PROVE  /\ AtWork(c) \/ Past(c) => pc[c] \in Locked /\ pc[c] \notin Resting /\ pc[c] # "idle"
         /\ ~ (AtWork(c) /\ Past(c))
BY DEF AtWork, Past, ToEvaluate, Evaluating, Locked, Resting

\* A coherent flow that is at a question.
LEMMA AtQuestion ==
  ASSUME NEW f \in Flow, Coherent(f), f.qn # None
  PROVE  /\ f.status \in {"ASKING", "FOLLOW_UP", "EVALUATING"} /\ f.qn = <<f.index + 1, f.count>>
         /\ f.qn[1] = f.index + 1 /\ f.qn[2] = f.count /\ ~ Behind(f, f.qn)
<1>1. f.status \in {"ASKING", "FOLLOW_UP", "EVALUATING"} /\ f.qn = <<f.index + 1, f.count>>
  BY Statuses DEF Flow, Coherent
<1>2. f.qn[1] = f.index + 1 /\ f.qn[2] = f.count
  BY <1>1
<1>3. f.index \in Int /\ f.count \in Int
  BY InterviewBounds DEF Flow
<1>4. QED BY <1>1, <1>2, <1>3 DEF Behind

LEMMA EvaluatedFlow ==
  ASSUME NEW f \in Flow, Coherent(f), f.qn # None
  PROVE  LET e == Evaluated(f) IN
         /\ e \in Flow /\ Coherent(e) /\ e.qn = f.qn /\ e.version = f.version + 1
         /\ e.index = f.index /\ e.count = f.count /\ e.status = "EVALUATING"
         /\ \A q \in Question : Behind(e, q) <=> Behind(f, q)
<1>1. f.status \in {"ASKING", "FOLLOW_UP", "EVALUATING"} /\ f.qn = <<f.index + 1, f.count>>
  BY AtQuestion
<1> DEFINE e == Evaluated(f)
<1>2. e = [status |-> "EVALUATING", index |-> f.index, qn |-> f.qn, count |-> f.count,
           version |-> f.version + 1]
  <2>1. e = [[f EXCEPT !.status = "EVALUATING"] EXCEPT !.version = f.version + 1]
    BY DEF Evaluated, Flow
  <2>2. [f EXCEPT !.status = "EVALUATING"]
          = [status |-> "EVALUATING", index |-> f.index, qn |-> f.qn, count |-> f.count,
             version |-> f.version]
    BY DEF Flow
  <2>3. QED BY <2>1, <2>2
<1>3. e \in Flow
  BY <1>2, Statuses DEF Flow
<1>4. QED BY <1>1, <1>2, <1>3 DEF Coherent, Behind, Flow

\* The move past a question.
LEMMA MovesOn ==
  ASSUME TypeInv, NEW c \in Call, pc[c] # "idle", move[c] # "evaluate",
         Coherent(seen[c]), seen[c].qn = Q(c),
         NEW g, g = [Mutated(c, Evaluated(seen[c])) EXCEPT !.version = @ + 1]
  PROVE  /\ g \in Flow /\ Coherent(g) /\ g.version = seen[c].version + 2
         /\ Behind(g, Q(c)) /\ \A q \in Question : Behind(seen[c], q) => Behind(g, q)
         /\ \A m \in Main : Behind(g, <<m, 0>>) => Behind(seen[c], <<m, 0>>) \/ Q(c) = <<m, 0>>
<1> DEFINE f == seen[c]
           e == Evaluated(f)
<1>1. f \in Flow /\ Q(c) \in Question /\ f.qn # None
  BY NoneIsFresh DEF TypeInv, TypeOK, Carries
<1>2. /\ e \in Flow /\ Coherent(e) /\ e.qn = f.qn /\ e.version = f.version + 1
      /\ e.index = f.index /\ e.count = f.count /\ e.status = "EVALUATING"
      /\ \A q \in Question : Behind(e, q) <=> Behind(f, q)
  BY <1>1, EvaluatedFlow
<1>3. /\ f.status \in {"ASKING", "FOLLOW_UP", "EVALUATING"} /\ Q(c) = <<f.index + 1, f.count>>
      /\ Q(c)[1] = f.index + 1 /\ Q(c)[2] = f.count
  BY <1>1, AtQuestion
<1>4. f.index \in 0 .. TotalQuestions - 1 /\ f.count \in Nat /\ f.version \in Nat /\ TotalQuestions \in Nat
      /\ MaxFollowUp \in Nat
  BY <1>1, InterviewBounds DEF Flow
<1>5. g \in Flow
  BY <1>2, MutatedTyped
<1>6. CASE move[c] = "followUp"
  <2>1. f.count < MaxFollowUp
    BY <1>6 DEF TypeInv, FollowUpPlanned
  <2>2. g = [status |-> "FOLLOW_UP", index |-> f.index, qn |-> <<f.index + 1, f.count + 1>>,
             count |-> f.count + 1, version |-> f.version + 2]
    <3>1. Mutated(c, e) = [e EXCEPT !.status = "FOLLOW_UP", !.count = e.count + 1,
                                    !.qn = FollowUpNumber(c)]
      BY <1>6 DEF Mutated
    <3>2. FollowUpNumber(c) = <<f.index + 1, f.count + 1>>
      BY <1>3 DEF FollowUpNumber
    <3>3. Mutated(c, e) = [status |-> "FOLLOW_UP", index |-> f.index,
                           qn |-> <<f.index + 1, f.count + 1>>, count |-> f.count + 1,
                           version |-> f.version + 1]
      BY <1>2, <3>1, <3>2 DEF Flow
    <3>4. QED BY <1>4, <3>3
  <2>3. Coherent(g) /\ g.version = f.version + 2 /\ Behind(g, Q(c))
    BY <1>3, <1>4, <2>1, <2>2 DEF Coherent, Behind
  <2>4. \A q \in Question : Behind(f, q) => Behind(g, q)
    BY <1>3, <1>4, <2>2 DEF Behind, Question, Main
  <2>5. ASSUME NEW m \in Main, Behind(g, <<m, 0>>) PROVE Behind(f, <<m, 0>>) \/ Q(c) = <<m, 0>>
    BY <1>3, <1>4, <2>2, <2>5 DEF Behind, Main
  <2>6. QED BY <1>5, <2>3, <2>4, <2>5
<1>7. CASE move[c] = "advance" /\ f.index + 1 >= TotalQuestions
  <2>1. g = [status |-> "COMPLETED", index |-> f.index, qn |-> None, count |-> 0,
             version |-> f.version + 2]
    <3>1. Mutated(c, e) = [e EXCEPT !.status = "COMPLETED", !.qn = None, !.count = 0]
      BY <1>2, <1>7 DEF Mutated, Advanced
    <3>2. Mutated(c, e) = [status |-> "COMPLETED", index |-> f.index, qn |-> None, count |-> 0,
                           version |-> f.version + 1]
      BY <1>2, <3>1 DEF Flow
    <3>3. QED BY <1>4, <3>2
  <2>2. \A m \in Main : Behind(f, <<m, 0>>) \/ Q(c) = <<m, 0>>
    <3>1. ASSUME NEW m \in Main PROVE Behind(f, <<m, 0>>) \/ Q(c) = <<m, 0>>
      BY <1>3, <1>4, <1>7 DEF Behind, Main
    <3>2. QED BY <3>1
  <2>3. QED BY <1>4, <1>5, <2>1, <2>2 DEF Coherent, Behind
<1>8. CASE move[c] = "advance" /\ ~ (f.index + 1 >= TotalQuestions)
  <2>1. g = [status |-> "ASKING", index |-> f.index + 1, qn |-> <<f.index + 2, 0>>, count |-> 0,
             version |-> f.version + 2]
    <3>1. Mutated(c, e) = [e EXCEPT !.status = "ASKING", !.qn = <<f.index + 2, 0>>, !.count = 0,
                                    !.index = f.index + 1]
      BY <1>2, <1>8 DEF Mutated, Advanced
    <3>2. e = [status |-> "EVALUATING", index |-> f.index, qn |-> f.qn, count |-> f.count,
               version |-> f.version + 1]
      BY <1>2 DEF Flow
    <3>3. Mutated(c, e) = [status |-> "ASKING", index |-> f.index + 1, qn |-> <<f.index + 2, 0>>,
                           count |-> 0, version |-> f.version + 1]
      <4> HIDE DEF e
      <4> QED BY <3>1, <3>2
    <3>4. QED BY <1>4, <3>3
  <2>2. Coherent(g) /\ g.version = f.version + 2 /\ Behind(g, Q(c))
    BY <1>3, <1>4, <2>1 DEF Coherent, Behind
  <2>3. \A q \in Question : Behind(f, q) => Behind(g, q)
    BY <1>3, <1>4, <2>1 DEF Behind, Question, Main
  <2>4. ASSUME NEW m \in Main, Behind(g, <<m, 0>>) PROVE Behind(f, <<m, 0>>) \/ Q(c) = <<m, 0>>
    BY <1>3, <1>4, <2>1, <2>4 DEF Behind, Main
  <2>5. QED BY <1>5, <2>2, <2>3, <2>4
<1>9. QED BY <1>6, <1>7, <1>8 DEF TypeInv, TypeOK

\* The question of a call under way is settled.
LEMMA QuestionStays ==
  ASSUME TypeInv, [Next]_vars, NEW d \in Call, pc[d] # "idle"
  PROVE  /\ request[d] \in Request /\ request'[d] = request[d]
         /\ Q(d) \in Question /\ Q(d)' = Q(d)
<1> USE DEF TypeInv, store, locals, counts
<1>1. request[d] \in Request /\ about[request[d]] \in Question
  BY DEF Carries, Q
<1>2. ASSUME NEW c \in Call, Submit(c)
      PROVE  request'[d] = request[d] /\ about'[request[d]] = about[request[d]]
  BY <1>1, <1>2, NoneIsFresh DEF Submit, TypeOK
<1>3. (~ \E c \in Call : Submit(c)) => UNCHANGED <<request, about>>
  BY DEF Next, CallStep, CheckReplay, StartProcessing, EnsureRuntime, LockQuestion, Recheck,
    GiveUp, MutateRead, MutateWrite, Evaluate, EvaluateFails, AddScore, AddScoreFails, Rollback,
    ClearProcessing, MarkSucceeded, Release, Crash, LockExpires, ProcessingExpires, vars
<1>4. QED BY <1>1, <1>2, <1>3 DEF Q

\* A step of one call leaves the locals of another one alone.
LEMMA OthersWait ==
  ASSUME TypeInv, NEW c \in Call, CallStep(c), NEW d \in Call, d # c
  PROVE  /\ pc'[d] = pc[d] /\ move'[d] = move[d] /\ mine'[d] = mine[d]
         /\ seen'[d] = seen[d] /\ read'[d] = read[d] /\ outcome'[d] = outcome[d]
<1> USE DEF TypeInv, TypeOK, CallStep, Submit, CheckReplay, StartProcessing, EnsureRuntime,
      LockQuestion, Recheck, GiveUp, MutateRead, MutateWrite, Evaluate, EvaluateFails, AddScore,
      AddScoreFails, Rollback, ClearProcessing, MarkSucceeded, Release, Crash, locals, Goto, Say
<1>1. pc'[d] = pc[d]
  OBVIOUS
<1>2. move'[d] = move[d] /\ mine'[d] = mine[d]
  OBVIOUS
<1>3. seen'[d] = seen[d] /\ read'[d] = read[d]
  OBVIOUS
<1>4. outcome'[d] = outcome[d]
  OBVIOUS
<1>5. QED BY <1>1, <1>2, <1>3, <1>4

LEMMA OthersStay ==
  ASSUME TypeInv, NEW c \in Call, CallStep(c), NEW d \in Call, d # c
  PROVE  /\ (ToEvaluate(d)' <=> ToEvaluate(d)) /\ (Evaluating(d)' <=> Evaluating(d))
         /\ (AtWork(d)' <=> AtWork(d)) /\ (Past(d)' <=> Past(d)) /\ (Moved(d)' <=> Moved(d))
BY OthersWait DEF ToEvaluate, Evaluating, AtWork, Past, Moved

\* Nobody works beside a call at work, and nobody rolls a move back.
LEMMA OneAtWork ==
  ASSUME Before, NEW c \in Call, AtWork(c), NEW d \in Call, d # c
  PROVE  ~ AtWork(d) /\ ~ (Past(d) /\ pc[d] = "rollback")
<1> USE DEF Before, InStep
<1>1. ASSUME AtWork(d) PROVE FALSE
  <2>1. \A e \in {c, d} : flow.qn = Q(e) /\ pc[e] \in Locked
    <3>1. \A e \in Call : AtWork(e) => seen[e] \in Flow /\ Coherent(seen[e]) /\ seen[e].qn = Q(e)
                                       /\ seen[e].qn # None
      BY NoneIsFresh, Labels DEF HasFlow, TypeInv, TypeOK, Carries
    <3>2. \A e \in Call : AtWork(e) => flow.qn = Q(e)
      BY <3>1, EvaluatedFlow DEF HasFlow, AtWork
    <3>3. QED BY <1>1, <3>2, Labels
  <2>2. qlock[Q(c)] = c /\ qlock[Q(d)] = d
    BY <2>1 DEF LockHeld
  <2>3. QED BY <2>1, <2>2
<1>2. ASSUME Past(d), pc[d] = "rollback" PROVE FALSE
  <2>1. pc[c] \in Resting
    BY <1>2 DEF RollsBackAlone
  <2>2. QED BY <2>1, Labels
<1>3. QED BY <1>1, <1>2

\* A step of a call c that leaves the flow alone.
LEMMA FlowStays ==
  ASSUME Before, [Next]_vars, NEW c \in Call, CallStep(c), UNCHANGED <<flow, mine>>,
         pc[c] \in Resting => \A d \in Call : ~ (Past(d) /\ pc[d] = "rollback"),
         AtWork(c)' => seen'[c] = flow \/ (AtWork(c) /\ seen'[c] = seen[c]),
         HasFlow(c)', HasMoved(c)', RollsBackAlone(c)'
  PROVE  InStep'
<1> USE DEF Before, InStep
<1>1. ASSUME NEW d \in Call, d # c PROVE HasFlow(d)'
  <2>1. SUFFICES ASSUME AtWork(d)' PROVE HasFlow(d)'
    BY DEF HasFlow
  <2>2. AtWork(d)
    BY <1>1, <2>1, OthersStay
  <2>3. Q(d)' = Q(d)
    BY <2>2, QuestionStays, Labels
  <2>4. QED BY <1>1, <2>2, <2>3, OthersStay, OthersWait DEF HasFlow
<1>2. ASSUME NEW d \in Call, d # c PROVE HasMoved(d)'
  <2>1. SUFFICES ASSUME Past(d)' PROVE HasMoved(d)'
    BY DEF HasMoved
  <2>2. Past(d)
    BY <1>2, <2>1, OthersStay
  <2>3. Q(d)' = Q(d)
    BY <2>2, QuestionStays, Labels
  <2>4. ASSUME NEW e \in Call, AtWork(e)' PROVE (seen[e].version >= mine[d])'
    <3>1. CASE e # c
      BY <2>2, <2>4, <3>1, OthersStay, OthersWait DEF HasMoved
    <3>2. CASE e = c
      BY <2>2, <2>4, <3>2 DEF HasMoved
    <3>3. QED BY <3>1, <3>2
  <2>5. QED BY <1>2, <2>2, <2>3, <2>4, OthersStay, OthersWait DEF HasMoved
<1>3. ASSUME NEW d \in Call, d # c PROVE RollsBackAlone(d)'
  <2>1. SUFFICES ASSUME Past(d)', pc'[d] = "rollback" PROVE RollsBackAlone(d)'
    BY DEF RollsBackAlone
  <2>2. Past(d) /\ pc[d] = "rollback"
    BY <1>3, <2>1, OthersStay, OthersWait
  <2>3. pc[c] \in Resting
    BY <1>3, <2>2 DEF RollsBackAlone
  <2>4. QED BY <2>2, <2>3
<1>4. QED BY <1>1, <1>2, <1>3 DEF Before, InStep

\* A step that leads to no label at work or past.
LEMMA QuietStep ==
  ASSUME Before, [Next]_vars, NEW c \in Call, CallStep(c), UNCHANGED <<flow, mine>>,
         pc[c] \in Resting => \A d \in Call : ~ (Past(d) /\ pc[d] = "rollback"),
         pc'[c] \notin {"read", "write", "evaluate", "rollback", "score"}
  PROVE  InStep'
<1>1. ~ AtWork(c)' /\ ~ Past(c)'
  BY DEF AtWork, ToEvaluate, Evaluating, Past
<1>2. QED BY <1>1, FlowStays DEF HasFlow, HasMoved, RollsBackAlone

LEMMA SubmitInStep ==
  ASSUME Before, [Next]_vars, crossed' = {}, NEW c \in Call, Submit(c) PROVE InStep'
<1>1. UNCHANGED <<flow, mine>> /\ pc'[c] = "replay" /\ CallStep(c)
  BY DEF Submit, store, Before, TypeInv, TypeOK, Goto, CallStep
<1>2. ASSUME NEW d \in Call, Past(d), pc[d] = "rollback" PROVE FALSE
  BY <1>2 DEF Submit, Before, InStep, HasMoved
<1>3. QED BY <1>1, <1>2, QuietStep

LEMMA OutsideInStep ==
  ASSUME Before, [Next]_vars, NEW c \in Call,
         \/ CheckReplay(c) \/ StartProcessing(c) \/ EnsureRuntime(c) \/ LockQuestion(c)
         \/ GiveUp(c) \/ ClearProcessing(c) \/ MarkSucceeded(c) \/ Release(c) \/ AddScore(c)
         \/ Crash(c)
  PROVE  InStep'
<1>1. /\ UNCHANGED <<flow, mine>> /\ pc[c] \notin Resting
      /\ pc'[c] \notin {"read", "write", "evaluate", "rollback", "score"}
  BY DEF CheckReplay, StartProcessing, EnsureRuntime, LockQuestion, GiveUp, ClearProcessing,
    MarkSucceeded, Release, AddScore, Crash, store, locals, Before, TypeInv, TypeOK, Goto, Resting
<1>2. CallStep(c)
  BY DEF CallStep
<1>3. QED BY <1>1, <1>2, QuietStep

LEMMA WorkInStep ==
  ASSUME Before, [Next]_vars, NEW c \in Call,
         Recheck(c) \/ MutateRead(c) \/ Evaluate(c) \/ EvaluateFails(c)
  PROVE  InStep'
<1> USE DEF Before, InStep, TypeInv, TypeOK, store, locals, Goto
<1>1. UNCHANGED <<flow, mine>> /\ CallStep(c) /\ pc[c] \notin Resting
  BY DEF Recheck, MutateRead, Evaluate, EvaluateFails, CallStep, Resting
<1>2. Q(c)' = Q(c)
  BY <1>1, QuestionStays DEF Resting
<1>3. HasFlow(c)' /\ (AtWork(c)' => seen'[c] = flow \/ (AtWork(c) /\ seen'[c] = seen[c]))
  <2>1. CASE Recheck(c)
    BY <1>1, <1>2, <2>1 DEF Recheck, HasFlow, AtWork, ToEvaluate, Evaluating
  <2>2. CASE MutateRead(c)
    <3>1. AtWork(c) /\ UNCHANGED <<seen, move>> /\ pc[c] = "read" /\ pc'[c] \in {"write", "unmark"}
          /\ read'[c] = flow
      BY <2>2 DEF MutateRead, AtWork, ToEvaluate, Evaluating
    <3>2. QED BY <1>1, <1>2, <3>1 DEF HasFlow, AtWork, ToEvaluate, Evaluating
  <2>3. CASE Evaluate(c) \/ EvaluateFails(c)
    <3>1. AtWork(c) /\ UNCHANGED <<seen, read>> /\ pc[c] = "evaluate"
          /\ \/ pc'[c] = "read" /\ move'[c] # "evaluate"
             \/ pc'[c] = "rollback" /\ move' = move
      BY <2>3 DEF Evaluate, EvaluateFails, AtWork, Evaluating
    <3>2. Evaluating(c) /\ move[c] = "evaluate"
      BY <3>1 DEF Evaluating, HasFlow
    <3>3. QED BY <1>1, <1>2, <3>1, <3>2 DEF HasFlow, AtWork, ToEvaluate, Evaluating
  <2>4. QED BY <2>1, <2>2, <2>3
<1>4. ~ Past(c)'
  <2>1. CASE EvaluateFails(c)
    BY <2>1 DEF EvaluateFails, HasFlow, AtWork, Evaluating, Past
  <2>2. CASE Recheck(c) \/ MutateRead(c) \/ Evaluate(c)
    BY <2>2 DEF Recheck, MutateRead, Evaluate, Past
  <2>3. QED BY <2>1, <2>2
<1>5. QED BY <1>1, <1>3, <1>4, FlowStays DEF HasMoved, RollsBackAlone

LEMMA ScoreFailsInStep ==
  ASSUME Before, [Next]_vars, crossed' = {}, NEW c \in Call, AddScoreFails(c) PROVE InStep'
<1> USE DEF Before, InStep, TypeInv, TypeOK, store, locals, Goto
<1>1. /\ UNCHANGED <<flow, mine, seen, move>> /\ CallStep(c) /\ Past(c) /\ pc[c] \notin Resting
      /\ pc'[c] = "rollback" /\ ~ AtWork(c)' /\ Past(c)'
  BY DEF AddScoreFails, CallStep, Past, AtWork, ToEvaluate, Evaluating, HasMoved, Resting
<1>2. Q(c)' = Q(c)
  BY <1>1, QuestionStays, Labels
<1>3. flow.version = mine[c] /\ \A d \in Call \ {c} : pc[d] \in Resting
  BY DEF AddScoreFails
<1>4. \A d \in Call : ~ AtWork(d)'
  BY <1>1, <1>3, OthersStay, Labels
<1>5. HasMoved(c)'
  BY <1>1, <1>2, <1>4 DEF HasMoved, Moved
<1>6. RollsBackAlone(c)'
  BY <1>1, <1>3, OthersWait DEF RollsBackAlone
<1>7. QED BY <1>1, <1>5, <1>6, FlowStays DEF HasFlow

\* A step of a call at work that changes the flow.
LEMMA FlowMoves ==
  ASSUME Before, [Next]_vars, NEW c \in Call, CallStep(c), AtWork(c), Coherent(flow'),
         flow'.version \in Nat, flow'.version >= seen[c].version, seen'[c] = seen[c],
         \A q \in Question : Behind(flow, q) => Behind(flow', q),
         HasFlow(c)', HasMoved(c)', pc'[c] # "rollback"
  PROVE  InStep'
<1> USE DEF Before, InStep
<1>1. ASSUME NEW d \in Call, d # c PROVE ~ AtWork(d)' /\ ~ (Past(d) /\ pc[d] = "rollback")
  BY <1>1, OneAtWork, OthersStay
<1>2. ASSUME NEW d \in Call, d # c PROVE HasMoved(d)'
  <2>1. SUFFICES ASSUME Past(d)' PROVE HasMoved(d)'
    BY DEF HasMoved
  <2>2. Past(d) /\ pc[d] # "idle"
    BY <1>2, <2>1, OthersStay, Labels
  <2>3. Q(d)' = Q(d) /\ Q(d) \in Question
    BY <2>2, QuestionStays
  <2>4. seen[c].version >= mine[d] /\ seen[c].version \in Nat /\ mine[d] \in Nat
    BY <2>2 DEF HasMoved, TypeInv, TypeOK, Flow
  <2>5. flow'.version >= mine'[d]
    BY <1>2, <2>4, OthersWait
  <2>6. \A e \in Call : AtWork(e)' => (seen[e].version >= mine[d])'
    BY <1>1, <1>2, <2>4, OthersWait
  <2>7. QED BY <1>2, <2>2, <2>3, <2>5, <2>6, OthersStay, OthersWait DEF HasMoved
<1>3. ASSUME NEW d \in Call, d # c PROVE HasFlow(d)' /\ RollsBackAlone(d)'
  BY <1>1, <1>3, OthersStay, OthersWait DEF HasFlow, RollsBackAlone
<1>4. RollsBackAlone(c)'
  BY DEF RollsBackAlone
<1>5. QED BY <1>2, <1>3, <1>4

\* What a write does: it is never refused, since nobody else has moved the flow.
LEMMA Writes ==
  ASSUME Before, [Next]_vars, NEW c \in Call, MutateWrite(c)
  PROVE  /\ AtWork(c) /\ pc[c] = "write" /\ read[c] = flow /\ flow \in Flow /\ flow' \in Flow
         /\ seen[c] \in Flow /\ seen[c].qn = Q(c) /\ Q(c) \in Question /\ Coherent(seen[c])
         /\ Q(c)' = Q(c)
         /\ UNCHANGED <<seen, read, move>> /\ pc'[c] = AfterWrite(c)
         /\ flow' = [Mutated(c, flow) EXCEPT !.version = @ + 1]
         /\ mine'[c] = flow.version + 1
         /\ applied' = [applied EXCEPT ![request[c]] = IF move[c] = "evaluate" THEN @ ELSE @ + 1]
<1> USE DEF Before, InStep, TypeInv, TypeOK, store, locals, Goto
<1>1. AtWork(c) /\ pc[c] = "write"
  BY DEF MutateWrite, AtWork, ToEvaluate, Evaluating
<1>2. read[c] = flow
  BY <1>1 DEF HasFlow
<1>3. Q(c)' = Q(c) /\ Q(c) \in Question
  BY <1>1, QuestionStays
<1>4. [Mutated(c, flow) EXCEPT !.version = @ + 1] \in Flow
  BY <1>1, MutatedTyped
<1>5. UNCHANGED <<seen, read, move>>
  BY DEF MutateWrite
<1>6. /\ flow' = [Mutated(c, flow) EXCEPT !.version = @ + 1] /\ mine'[c] = flow.version + 1
      /\ pc'[c] = AfterWrite(c)
      /\ applied' = [applied EXCEPT ![request[c]] = IF move[c] = "evaluate" THEN @ ELSE @ + 1]
  BY <1>2 DEF MutateWrite
<1>7. QED BY <1>1, <1>2, <1>3, <1>4, <1>5, <1>6 DEF HasFlow

LEMMA WriteInStep ==
  ASSUME Before, [Next]_vars, NEW c \in Call, MutateWrite(c) PROVE InStep'
<1> USE DEF Before
<1>1. /\ AtWork(c) /\ pc[c] = "write" /\ read[c] = flow /\ flow \in Flow /\ flow' \in Flow
      /\ seen[c] \in Flow /\ seen[c].qn = Q(c) /\ Q(c) \in Question /\ Coherent(seen[c])
      /\ Q(c)' = Q(c)
      /\ UNCHANGED <<seen, read, move>> /\ pc'[c] = AfterWrite(c)
      /\ flow' = [Mutated(c, flow) EXCEPT !.version = @ + 1]
      /\ mine'[c] = flow.version + 1
  BY Writes
<1>2. seen[c].qn # None /\ CallStep(c) /\ seen[c].version \in Nat /\ flow'.version \in Nat
  BY <1>1, NoneIsFresh DEF CallStep, Flow
<1>3. LET e == Evaluated(seen[c]) IN
      /\ e \in Flow /\ Coherent(e) /\ e.qn = Q(c) /\ e.version = seen[c].version + 1
      /\ \A q \in Question : Behind(e, q) <=> Behind(seen[c], q)
  BY <1>1, <1>2, EvaluatedFlow
<1>4. CASE move[c] = "evaluate"
  <2>1. ToEvaluate(c) /\ flow = seen[c] /\ pc'[c] = "evaluate"
    BY <1>1, <1>4 DEF ToEvaluate, InStep, HasFlow, AfterWrite
  <2>2. flow' = Evaluated(seen[c])
    <3>1. Mutated(c, flow) = [flow EXCEPT !.status = "EVALUATING"]
      BY <1>4 DEF Mutated
    <3>2. flow' = [status |-> "EVALUATING", index |-> flow.index, qn |-> flow.qn,
                   count |-> flow.count, version |-> flow.version + 1]
      BY <1>1, <3>1 DEF Flow
    <3>3. Evaluated(flow) = [[flow EXCEPT !.status = "EVALUATING"] EXCEPT !.version = flow.version + 1]
      BY <1>1 DEF Evaluated, Flow
    <3>4. [flow EXCEPT !.status = "EVALUATING"]
            = [status |-> "EVALUATING", index |-> flow.index, qn |-> flow.qn,
               count |-> flow.count, version |-> flow.version]
      BY <1>1 DEF Flow
    <3>5. QED BY <2>1, <3>2, <3>3, <3>4
  <2>3. HasFlow(c)' /\ ~ Past(c)' /\ ~ ToEvaluate(c)'
    BY <1>1, <1>3, <1>4, <2>1, <2>2 DEF HasFlow, Past, ToEvaluate
  <2>4. Coherent(flow') /\ flow'.version >= seen[c].version
        /\ \A q \in Question : Behind(flow, q) => Behind(flow', q)
    BY <1>2, <1>3, <2>1, <2>2
  <2>5. QED BY <1>1, <1>2, <2>1, <2>3, <2>4, FlowMoves DEF HasMoved
<1>5. CASE move[c] # "evaluate"
  <2>1. Evaluating(c) /\ flow = Evaluated(seen[c]) /\ pc'[c] = IF Q(c)[2] = 0 THEN "score" ELSE "mark"
    BY <1>1, <1>5 DEF Evaluating, InStep, HasFlow, AfterWrite
  <2>2. /\ Coherent(flow') /\ flow'.version = seen[c].version + 2 /\ Behind(flow', Q(c))
        /\ \A q \in Question : Behind(seen[c], q) => Behind(flow', q)
    BY <1>1, <1>5, <2>1, MovesOn
  <2>3. ~ AtWork(c)'
    BY <2>1 DEF AtWork, ToEvaluate, Evaluating
  <2>4. \A d \in Call : ~ AtWork(d)'
    BY <1>1, <1>2, <2>3, OneAtWork, OthersStay
  <2>5. mine'[c] = seen[c].version + 2
    BY <1>1, <1>2, <1>3, <2>1
  <2>6. HasMoved(c)'
    <3>1. Past(c)' => Q(c)[2] = 0
      BY <2>1 DEF Past
    <3>2. Moved(c)' /\ flow'.version >= mine'[c]
      BY <1>1, <1>2, <2>2, <2>5 DEF Moved
    <3>3. QED BY <1>1, <1>5, <2>2, <2>4, <3>1, <3>2 DEF HasMoved
  <2>7. \A q \in Question : Behind(flow, q) => Behind(flow', q)
    BY <1>3, <2>1, <2>2
  <2>8. QED BY <1>1, <1>2, <2>1, <2>2, <2>3, <2>6, <2>7, FlowMoves DEF HasFlow
<1>6. QED BY <1>4, <1>5

\* What a rollback does: it finds the version the call wrote.
LEMMA RollsBack ==
  ASSUME Before, [Next]_vars, NEW c \in Call, Rollback(c)
  PROVE  /\ AtWork(c) \/ Past(c)
         /\ pc[c] = "rollback" /\ pc'[c] = "unmark" /\ UNCHANGED <<seen, read, move, mine>>
         /\ flow' = seen[c] /\ Coherent(seen[c]) /\ seen[c].qn = Q(c) /\ seen[c].qn # None
         /\ applied' = [applied EXCEPT ![request[c]] = IF move[c] = "evaluate" THEN @ ELSE @ - 1]
<1> USE DEF Before, InStep, TypeInv, TypeOK, store, locals, Goto
<1>1. (AtWork(c) \/ Past(c)) /\ pc[c] = "rollback" /\ (AtWork(c) => Evaluating(c))
  BY DEF Rollback, AtWork, ToEvaluate, Evaluating, Past
<1>2. Coherent(seen[c]) /\ seen[c].qn = Q(c) /\ flow.version = mine[c]
  BY <1>1 DEF HasFlow, HasMoved, RollsBackAlone
<1>3. seen[c].qn # None
  BY <1>1, <1>2, QuestionStays, Labels, NoneIsFresh
<1>4. QED BY <1>1, <1>2, <1>3 DEF Rollback

LEMMA RollbackInStep ==
  ASSUME Before, [Next]_vars, NEW c \in Call, Rollback(c) PROVE InStep'
<1> USE DEF Before
<1>1. /\ AtWork(c) \/ Past(c)
      /\ pc[c] = "rollback" /\ pc'[c] = "unmark" /\ UNCHANGED <<seen, read, move, mine>>
      /\ flow' = seen[c] /\ Coherent(seen[c]) /\ seen[c].qn = Q(c) /\ seen[c].qn # None
  BY RollsBack
<1>2. CallStep(c) /\ ~ AtWork(c)' /\ ~ Past(c)'
  BY <1>1 DEF CallStep, AtWork, ToEvaluate, Evaluating, Past
<1>3. CASE AtWork(c)
  <2>1. seen[c] \in Flow /\ seen[c].version \in Nat
    BY DEF TypeInv, TypeOK, Flow
  <2>2. flow = Evaluated(seen[c])
    BY <1>1, <1>3 DEF InStep, HasFlow, AtWork, ToEvaluate
  <2>3. \A q \in Question : Behind(flow, q) => Behind(flow', q)
    BY <1>1, <2>1, <2>2, EvaluatedFlow
  <2>4. QED BY <1>1, <1>2, <1>3, <2>1, <2>3, FlowMoves DEF HasFlow, HasMoved
<1>4. CASE Past(c)
  <2>1. \A d \in Call \ {c} : ~ AtWork(d) /\ ~ Past(d)
    BY <1>1, <1>4, Labels DEF InStep, RollsBackAlone
  <2>2. \A d \in Call : ~ AtWork(d)' /\ ~ Past(d)'
    BY <1>2, <2>1, OthersStay
  <2>3. QED BY <1>1, <2>2 DEF InStep, HasFlow, HasMoved, RollsBackAlone
<1>5. QED BY <1>1, <1>3, <1>4

LEMMA StepInStep == Before /\ [Next]_vars /\ crossed' = {} => InStep'
<1> SUFFICES ASSUME Before, [Next]_vars, crossed' = {} PROVE InStep'
  OBVIOUS
<1>1. ASSUME NEW c \in Call, CallStep(c) PROVE InStep'
  BY <1>1, SubmitInStep, OutsideInStep, WorkInStep, ScoreFailsInStep, WriteInStep, RollbackInStep
    DEF CallStep
<1>2. CASE \/ \E q \in Question : LockExpires(q)
           \/ \E r \in Request : ProcessingExpires(r)
           \/ UNCHANGED vars
  <2>1. UNCHANGED <<flow, pc, request, about, seen, read, move, mine>>
    BY <1>2 DEF LockExpires, ProcessingExpires, vars, store, locals
  <2>2. \A c \in Call :
          /\ (ToEvaluate(c)' <=> ToEvaluate(c)) /\ (Evaluating(c)' <=> Evaluating(c))
          /\ (AtWork(c)' <=> AtWork(c)) /\ (Past(c)' <=> Past(c)) /\ (Moved(c)' <=> Moved(c))
          /\ Q(c)' = Q(c)
    BY <2>1 DEF ToEvaluate, Evaluating, AtWork, Past, Moved, Q
  <2>3. ASSUME NEW c \in Call PROVE HasFlow(c)' /\ HasMoved(c)' /\ RollsBackAlone(c)'
    <3>1. HasFlow(c) /\ HasMoved(c) /\ RollsBackAlone(c)
      BY DEF Before, InStep
    <3>2. HasFlow(c)' /\ RollsBackAlone(c)'
      BY <2>1, <2>2, <3>1 DEF HasFlow, RollsBackAlone
    <3>3. HasMoved(c)'
      BY <2>1, <2>2, <3>1 DEF HasMoved
    <3>4. QED BY <3>2, <3>3
  <2>4. QED BY <2>1, <2>3 DEF Before, InStep
<1>3. QED BY <1>1, <1>2 DEF Next

LEMMA InitInStep == Init => InStep
<1> SUFFICES ASSUME Init PROVE InStep
  OBVIOUS
<1>1. Coherent(flow)
  BY InterviewBounds DEF Init, Coherent
<1>2. \A c \in Call : ~ AtWork(c) /\ ~ Past(c)
  BY DEF Init, AtWork, ToEvaluate, Evaluating, Past
<1>3. QED BY <1>1, <1>2 DEF InStep, HasFlow, HasMoved, RollsBackAlone

\* A rollback that was crossed stays on record.
LEMMA CrossedStays == ASSUME [Next]_vars, crossed' = {} PROVE crossed = {}
BY DEF Next, CallStep, Submit, CheckReplay, StartProcessing, EnsureRuntime, LockQuestion, Recheck,
  GiveUp, MutateRead, MutateWrite, Evaluate, EvaluateFails, AddScore, AddScoreFails, Rollback,
  ClearProcessing, MarkSucceeded, Release, Crash, LockExpires, ProcessingExpires, vars, counts

LEMMA InStepInvariant == Spec => [](TypeInv /\ LockHeld /\ (crossed = {} => InStep))
<1> DEFINE I == crossed = {} => InStep
<1>1. Init => I
  BY InitInStep
<1>2. TypeInv /\ LockHeld /\ I /\ [Next]_vars => I'
  BY StepInStep, CrossedStays DEF Before
<1>3. QED BY <1>1, <1>2, TypeInvariant, LockInvariant, PTL DEF Spec

\* The flow's fields describe one and the same question in every behaviour without a crossed
\* rollback (flow_state_machine.go, RollbackFlowCAS).
THEOREM FlowIsCoherent == Spec => []FlowCoherent
<1>1. (crossed = {} => InStep) => FlowCoherent
  BY DEF InStep, Coherent, FlowCoherent
<1>2. QED BY <1>1, InStepInvariant, PTL

\* However calls overlap, fail, crash or are repeated, one moves the interview on from its own
\* question only, unless a rollback was crossed (Execute, step 5).
THEOREM CallsAnswerCurrentQuestion == Spec => AnswersCurrentQuestion
<1> DEFINE J == TypeInv /\ LockHeld /\ (crossed = {} => InStep)
<1>1. J /\ [Next]_vars =>
        [\A c \in Call : crossed = {} /\ pc[c] = "write" /\ mine'[c] # mine[c] => flow.qn = Q(c)]_vars
  <2> SUFFICES ASSUME J, NEW c \in Call, crossed = {}, pc[c] = "write" PROVE flow.qn = Q(c)
    OBVIOUS
  <2>1. AtWork(c) /\ HasFlow(c) /\ Q(c) \in Question /\ seen[c] \in Flow
    BY DEF AtWork, ToEvaluate, Evaluating, InStep, TypeInv, TypeOK, Carries
  <2>2. seen[c].qn = Q(c) /\ seen[c].qn # None /\ Coherent(seen[c])
    BY <2>1, NoneIsFresh DEF HasFlow
  <2>3. QED BY <2>1, <2>2, EvaluatedFlow DEF HasFlow, AtWork
<1>2. QED BY <1>1, InStepInvariant, PTL DEF Spec, AnswersCurrentQuestion

-----------------------------------------------------------------------------
(* What requests have moved. *)

\* A call says something only at its end.
Silent == \A c \in Call : outcome[c] # None => pc[c] \in {"unmark", "unlock", "done", "crashed"}

\* Call d has moved the interview on for request r and does not report an error.
Mover(d, r) ==
  /\ request[d] = r /\ outcome[d] # "error"
  /\ Past(d) \/ pc[d] \in {"mark", "crashed"} \/ outcome[d] = "ok"

\* The answer of c is safe.
Sure(c) == pc[c] = "mark" \/ outcome[c] = "ok"

\* A rollback, of c or of a call at work, may still find the version c wrote.
Latest(c) == flow.version = mine[c] \/ \E d \in Call : AtWork(d) /\ seen[d].version = mine[c]

\* A request moves the flow past its question, once, and somebody answers for it.
Moves(r) ==
  /\ applied[r] \in {0, 1}
  /\ applied[r] = 1 => /\ about[r] \in Question /\ Behind(flow, about[r])
                       /\ \E d \in Call : Mover(d, r)
  /\ r \in replay => applied[r] = 1

\* What a rollback of c would take back is c's move alone.
Pending(c) == Past(c) =>
  /\ applied[request[c]] = 1 /\ request[c] \notin replay
  /\ \A d \in Call : Sure(d) => request[d] # request[c]
  /\ Latest(c) => \A r \in Request : applied[r] = 1 /\ r # request[c] => Behind(seen[c], about[r])

Accounted ==
  /\ \A r \in Request : Moves(r)
  /\ \A c \in Call : Sure(c) => applied[request[c]] = 1
  /\ \A c \in Call : Pending(c)

Known == Before /\ Silent /\ Accounted

LEMMA SilentStep == TypeInv /\ Silent /\ [Next]_vars => Silent'
<1> SUFFICES ASSUME TypeInv, Silent, [Next]_vars PROVE Silent'
  OBVIOUS
<1>1. ASSUME NEW c \in Call, CallStep(c) PROVE Silent'
  <2>1. (outcome[c] # None)' => pc'[c] \in {"unmark", "unlock", "done", "crashed"}
    BY <1>1 DEF CallStep, Submit, CheckReplay, StartProcessing, EnsureRuntime, LockQuestion, Recheck,
      GiveUp, MutateRead, MutateWrite, Evaluate, EvaluateFails, AddScore, AddScoreFails, Rollback,
      ClearProcessing, MarkSucceeded, Release, Crash, Silent, TypeInv, TypeOK, locals, Goto, Say
  <2>2. QED BY <1>1, <2>1, OthersWait DEF Silent
<1>2. CASE UNCHANGED <<pc, outcome>>
  BY <1>2 DEF Silent
<1>3. QED BY <1>1, <1>2 DEF Next, LockExpires, ProcessingExpires, vars, locals

LEMMA AboutStays ==
  ASSUME TypeInv, [Next]_vars, NEW r \in Request, about[r] \in Question PROVE about'[r] = about[r]
<1>1. ASSUME NEW c \in Call, Submit(c) PROVE about'[r] = about[r]
  BY <1>1, NoneIsFresh DEF Submit, TypeInv, TypeOK
<1>2. (~ \E c \in Call : Submit(c)) => UNCHANGED about
  BY DEF Next, CallStep, CheckReplay, StartProcessing, EnsureRuntime, LockQuestion, Recheck,
    GiveUp, MutateRead, MutateWrite, Evaluate, EvaluateFails, AddScore, AddScoreFails, Rollback,
    ClearProcessing, MarkSucceeded, Release, Crash, LockExpires, ProcessingExpires, vars
<1>3. QED BY <1>1, <1>2

\* Two calls past the lock do not carry the same request.
LEMMA RequestsApart ==
  ASSUME LockHeld, NEW c \in Call, NEW d \in Call, pc[c] \in Locked, pc[d] \in Locked,
         request[c] = request[d]
  PROVE  c = d
BY DEF LockHeld, Q

\* The calls but c, in a step of c.
LEMMA OthersAnswer ==
  ASSUME TypeInv, Silent, [Next]_vars, NEW c \in Call, CallStep(c), NEW d \in Call, d # c
  PROVE  /\ (Sure(d)' <=> Sure(d)) /\ \A r \in Request : Mover(d, r) => Mover(d, r)'
         /\ Sure(d) \/ Past(d) => request'[d] = request[d]
<1>1. Sure(d) \/ Past(d) \/ (\E r \in Request : Mover(d, r)) => pc[d] # "idle"
  BY Labels, NoneIsFresh DEF Sure, Past, Mover, Silent
<1>2. pc[d] # "idle" => request'[d] = request[d]
  BY QuestionStays
<1>3. pc'[d] = pc[d] /\ outcome'[d] = outcome[d] /\ (Past(d)' <=> Past(d))
  BY OthersStay, OthersWait
<1>4. Sure(d)' <=> Sure(d)
  BY <1>3 DEF Sure
<1>5. ASSUME NEW r \in Request, Mover(d, r) PROVE Mover(d, r)'
  <2>1. request'[d] = r
    BY <1>1, <1>2, <1>5 DEF Mover
  <2>2. QED BY <1>3, <1>5, <2>1 DEF Mover
<1>6. QED BY <1>1, <1>2, <1>4, <1>5

\* The requests in a step of c that moves nothing.
LEMMA NothingMoves ==
  ASSUME Known, Silent', [Next]_vars, NEW c \in Call, CallStep(c),
         UNCHANGED <<applied, replay>>,
         \A q \in Question : Behind(flow, q) => Behind(flow', q),
         \A r \in Request : Mover(c, r) => Mover(c, r)',
         Sure(c)' => Sure(c) \/ Past(c),
         Past(c)' => Past(c) /\ seen'[c] = seen[c],
         \A d \in Call : Past(d) => (Latest(d)' => Latest(d))
  PROVE  Accounted'
<1>0. TypeInv /\ LockHeld /\ Silent /\ Accounted
  BY DEF Known, Before
<1>1. ASSUME NEW r \in Request PROVE Moves(r)'
  <2>1. Moves(r)
    BY <1>0 DEF Accounted
  <2>2. \A d \in Call : Mover(d, r) => Mover(d, r)'
    BY <1>0, OthersAnswer
  <2>3. QED BY <1>0, <2>1, <2>2, AboutStays DEF Moves
<1>2. pc[c] # "idle" => request'[c] = request[c]
  BY <1>0, QuestionStays
<1>3. Sure(c) \/ Past(c) => pc[c] # "idle"
  BY <1>0, Labels, NoneIsFresh DEF Sure, Silent
<1>4. ASSUME NEW d \in Call, Sure(d)' PROVE applied'[request'[d]] = 1
  <2>1. CASE d # c
    BY <1>0, <1>4, <2>1, OthersAnswer DEF Accounted
  <2>2. CASE d = c
    BY <1>0, <1>2, <1>3, <1>4, <2>2 DEF Pending, Accounted
  <2>3. QED BY <2>1, <2>2
<1>5. ASSUME NEW d \in Call, Past(d)' PROVE Pending(d)'
  <2>1. Past(d) /\ request'[d] = request[d] /\ seen'[d] = seen[d]
    BY <1>0, <1>2, <1>3, <1>5, OthersStay, OthersWait, OthersAnswer
  <2>2. ASSUME NEW e \in Call, Sure(e)' PROVE request'[e] # request'[d]
    <3>1. e # d
      BY <1>5, <2>2, NoneIsFresh DEF Past, Sure, Silent
    <3>2. Sure(e) \/ Past(e)
      BY <1>0, <2>2, OthersAnswer
    <3>3. request'[e] = request[e]
      BY <1>0, <1>2, <1>3, <3>2, OthersAnswer
    <3>4. CASE Sure(e)
      BY <1>0, <2>1, <3>3, <3>4 DEF Pending, Accounted
    <3>5. CASE Past(e)
      BY <1>0, <2>1, <3>1, <3>3, <3>5, RequestsApart, Labels
    <3>6. QED BY <3>2, <3>4, <3>5
  <2>3. ASSUME Latest(d)', NEW r \in Request, applied'[r] = 1, r # request'[d]
        PROVE  Behind(seen'[d], about'[r])
    <3>1. Latest(d) /\ Moves(r)
      BY <1>0, <2>1, <2>3 DEF Accounted
    <3>2. Behind(seen[d], about[r]) /\ about[r] \in Question
      BY <1>0, <2>1, <2>3, <3>1 DEF Pending, Moves, Accounted
    <3>3. QED BY <1>0, <2>1, <3>2, AboutStays
  <2>4. applied[request[d]] = 1 /\ request[d] \notin replay
    BY <1>0, <2>1 DEF Pending, Accounted
  <2>5. QED BY <2>1, <2>2, <2>3, <2>4 DEF Pending
<1>6. QED BY <1>1, <1>4, <1>5 DEF Accounted, Pending

\* The same, when the flow stays.
LEMMA NothingMovesHere ==
  ASSUME Known, [Next]_vars, NEW c \in Call, CallStep(c),
         UNCHANGED <<flow, mine, applied, replay>>,
         \A r \in Request : Mover(c, r) => Mover(c, r)',
         Sure(c)' => Sure(c) \/ Past(c),
         Past(c)' => Past(c) /\ seen'[c] = seen[c],
         AtWork(c)' => seen'[c] = flow \/ (AtWork(c) /\ seen'[c] = seen[c])
  PROVE  Accounted'
<1>1. TypeInv /\ Silent'
  BY SilentStep DEF Known, Before
<1>2. ASSUME NEW d \in Call, Latest(d)' PROVE Latest(d)
  <2>1. CASE flow'.version = mine'[d]
    BY <2>1 DEF Latest
  <2>2. ASSUME NEW e \in Call, AtWork(e)', seen'[e].version = mine'[d] PROVE Latest(d)
    <3>1. CASE e # c
      BY <1>1, <2>2, <3>1, OthersStay, OthersWait DEF Latest
    <3>2. CASE e = c
      BY <2>2, <3>2 DEF Latest
    <3>3. QED BY <3>1, <3>2
  <2>3. QED BY <1>2, <2>1, <2>2 DEF Latest
<1>3. QED BY <1>1, <1>2, NothingMoves

LEMMA EarlyAccounted ==
  ASSUME Known, [Next]_vars, NEW c \in Call,
         \/ Submit(c) \/ CheckReplay(c) \/ StartProcessing(c) \/ EnsureRuntime(c) \/ LockQuestion(c)
         \/ GiveUp(c) \/ Recheck(c) \/ MutateRead(c) \/ Evaluate(c) \/ EvaluateFails(c)
  PROVE  Accounted'
<1> USE DEF TypeInv, TypeOK, store, locals, Goto, Say
<1>0. TypeInv /\ Silent /\ InStep
  BY DEF Known, Before
<1>1. UNCHANGED <<flow, mine, applied, replay>> /\ CallStep(c)
  BY DEF Submit, CheckReplay, StartProcessing, EnsureRuntime, LockQuestion, GiveUp, Recheck,
    MutateRead, Evaluate, EvaluateFails, CallStep
<1>2. pc[c] \in {"idle", "recheck", "read", "evaluate"} \cup Early
  BY DEF Submit, CheckReplay, StartProcessing, EnsureRuntime, LockQuestion, GiveUp, Recheck,
    MutateRead, Evaluate, EvaluateFails, Early
<1>3. outcome[c] = None
  BY <1>0, <1>2 DEF Silent, Early
<1>4. ~ \E r \in Request : Mover(c, r)
  BY <1>2, <1>3, NoneIsFresh DEF Mover, Past, Early
<1>5. ~ Past(c)'
  <2>1. CASE EvaluateFails(c)
    BY <1>0, <2>1 DEF EvaluateFails, InStep, HasFlow, AtWork, Evaluating, Past
  <2>2. CASE ~ EvaluateFails(c)
    BY <1>0, <2>2 DEF Submit, CheckReplay, StartProcessing, EnsureRuntime, LockQuestion, GiveUp,
      Recheck, MutateRead, Evaluate, Past
  <2>3. QED BY <2>1, <2>2
<1>6. ~ Sure(c)'
  BY <1>0, <1>3, NoneIsFresh DEF Submit, CheckReplay, StartProcessing, EnsureRuntime, LockQuestion,
    GiveUp, Recheck, MutateRead, Evaluate, EvaluateFails, Sure
<1>7. AtWork(c)' => seen'[c] = flow \/ (AtWork(c) /\ seen'[c] = seen[c])
  <2>1. CASE Recheck(c)
    BY <1>0, <2>1 DEF Recheck
  <2>2. CASE MutateRead(c) \/ Evaluate(c) \/ EvaluateFails(c)
    BY <1>0, <2>2 DEF MutateRead, Evaluate, EvaluateFails, AtWork, ToEvaluate, Evaluating
  <2>3. CASE ~ (Recheck(c) \/ MutateRead(c) \/ Evaluate(c) \/ EvaluateFails(c))
    BY <1>0, <2>3 DEF Submit, CheckReplay, StartProcessing, EnsureRuntime, LockQuestion, GiveUp,
      AtWork, ToEvaluate, Evaluating
  <2>4. QED BY <2>1, <2>2, <2>3
<1>8. QED BY <1>1, <1>4, <1>5, <1>6, <1>7, NothingMovesHere

LEMMA LateAccounted ==
  ASSUME Known, [Next]_vars, NEW c \in Call,
         ClearProcessing(c) \/ Release(c) \/ Crash(c) \/ AddScore(c) \/ AddScoreFails(c)
  PROVE  Accounted'
<1> USE DEF TypeInv, TypeOK, store, locals, Goto, Say
<1>0. TypeInv /\ Silent /\ InStep
  BY DEF Known, Before
<1>1. UNCHANGED <<flow, mine, applied, replay, seen, move, request>> /\ CallStep(c)
  BY DEF ClearProcessing, Release, Crash, AddScore, AddScoreFails, CallStep
<1>2. \/ pc'[c] \in {"unlock", "done"} /\ pc[c] \in {"unmark", "unlock"}
         /\ (outcome[c] = "ok" <=> outcome'[c] = "ok")
      \/ pc'[c] = "crashed" /\ outcome'[c] = outcome[c]
      \/ pc[c] = "score" /\ pc'[c] \in {"mark", "rollback"} /\ outcome'[c] = outcome[c]
  BY <1>0, NoneIsFresh DEF ClearProcessing, Release, Crash, AddScore, AddScoreFails
<1>3. pc[c] = "score" => move[c] # "evaluate" /\ Past(c)
  BY <1>0 DEF InStep, HasMoved, Past
<1>4. ASSUME NEW r \in Request, Mover(c, r) PROVE Mover(c, r)'
  BY <1>1, <1>2, <1>3, <1>4 DEF Mover, Past
<1>5. Sure(c)' => Sure(c) \/ Past(c)
  BY <1>2, <1>3 DEF Sure
<1>6. (Past(c)' => Past(c)) /\ ~ AtWork(c)'
  BY <1>1, <1>2, <1>3 DEF Past, AtWork, ToEvaluate, Evaluating
<1>7. QED BY <1>1, <1>4, <1>5, <1>6, NothingMovesHere

LEMMA MarkAccounted ==
  ASSUME Known, [Next]_vars, NEW c \in Call, MarkSucceeded(c) PROVE Accounted'
<1> USE DEF TypeInv, TypeOK, store, locals, Goto, Say
<1>0. TypeInv /\ Silent /\ Accounted /\ Silent'
  BY SilentStep DEF Known, Before
<1>1. /\ UNCHANGED <<flow, mine, applied, seen, move, request, about>> /\ CallStep(c)
      /\ Sure(c) /\ outcome'[c] = "ok" /\ pc'[c] \in {"unmark", "unlock"}
      /\ replay' \subseteq replay \cup {request[c]}
  BY <1>0 DEF MarkSucceeded, CallStep, Sure
<1>2. ~ AtWork(c)' /\ ~ Past(c)' /\ ~ AtWork(c)
  BY <1>0, <1>1 DEF AtWork, ToEvaluate, Evaluating, Past, MarkSucceeded
<1>3. \A d \in Call : (AtWork(d)' <=> AtWork(d)) /\ (Past(d)' => Past(d)) /\ (Sure(d)' <=> Sure(d))
  BY <1>0, <1>1, <1>2, OthersStay, OthersAnswer DEF Sure
<1>4. \A d \in Call, r \in Request : Mover(d, r) => Mover(d, r)'
  BY <1>0, <1>1, NoneIsFresh, OthersAnswer DEF Mover
<1>5. ASSUME NEW r \in Request PROVE Moves(r)'
  BY <1>0, <1>1, <1>4 DEF Moves, Accounted
<1>6. ASSUME NEW d \in Call PROVE Pending(d)'
  <2>1. SUFFICES ASSUME Past(d)' PROVE Pending(d)'
    BY DEF Pending
  <2>2. Past(d) /\ (Latest(d)' => Latest(d))
    BY <1>1, <1>3, <2>1 DEF Latest
  <2>3. request[c] # request[d]
    BY <1>0, <1>1, <2>2 DEF Pending, Accounted
  <2>4. QED BY <1>0, <1>1, <1>3, <2>2, <2>3 DEF Pending, Accounted
<1>7. QED BY <1>0, <1>1, <1>3, <1>5, <1>6 DEF Accounted

LEMMA WriteAccounted ==
  ASSUME Known, [Next]_vars, NEW c \in Call, MutateWrite(c) PROVE Accounted'
<1>0. TypeInv /\ Silent /\ InStep /\ Accounted /\ Silent' /\ Before /\ LockHeld
  BY SilentStep DEF Known, Before
<1>1. /\ AtWork(c) /\ pc[c] = "write" /\ read[c] = flow /\ flow \in Flow /\ flow' \in Flow
      /\ seen[c] \in Flow /\ seen[c].qn = Q(c) /\ Q(c) \in Question /\ Coherent(seen[c])
      /\ Q(c)' = Q(c)
      /\ UNCHANGED <<seen, read, move>> /\ pc'[c] = AfterWrite(c)
      /\ flow' = [Mutated(c, flow) EXCEPT !.version = @ + 1]
      /\ mine'[c] = flow.version + 1
      /\ applied' = [applied EXCEPT ![request[c]] = IF move[c] = "evaluate" THEN @ ELSE @ + 1]
  BY <1>0, Writes
<1>2. CallStep(c) /\ UNCHANGED <<replay, about, request, outcome>> /\ outcome[c] = None
  BY <1>0, <1>1 DEF MutateWrite, CallStep, Silent
<1>3. seen[c].qn # None /\ seen[c].version \in Nat /\ request[c] \in Request
  BY <1>0, <1>1, NoneIsFresh DEF Flow, TypeInv, Carries
<1>4. ~ Past(c) /\ ~ Sure(c) /\ ~ \E r \in Request : Mover(c, r)
  BY <1>1, <1>2, NoneIsFresh DEF Past, Sure, Mover
<1>5. \A d \in Call \ {c} : ~ AtWork(d)' /\ (Past(d)' <=> Past(d)) /\ mine'[d] = mine[d]
  BY <1>0, <1>1, <1>2, OneAtWork, OthersStay, OthersWait
<1>6. \A d \in Call : Past(d) => mine[d] <= seen[c].version /\ mine[d] \in Nat
  BY <1>0, <1>1 DEF InStep, HasMoved, TypeInv, TypeOK
<1>7. CASE move[c] = "evaluate"
  <2>1. ToEvaluate(c) /\ flow = seen[c] /\ pc'[c] = "evaluate"
    BY <1>0, <1>1, <1>7 DEF ToEvaluate, InStep, HasFlow, AfterWrite
  <2>2. flow'.version = flow.version + 1 /\ \A q \in Question : Behind(flow, q) => Behind(flow', q)
    <3>1. Mutated(c, flow) = [flow EXCEPT !.status = "EVALUATING"]
      BY <1>7 DEF Mutated
    <3>2. Mutated(c, flow) = [status |-> "EVALUATING", index |-> flow.index, qn |-> flow.qn,
                              count |-> flow.count, version |-> flow.version]
      BY <1>1, <3>1 DEF Flow
    <3>3. flow' = [status |-> "EVALUATING", index |-> flow.index, qn |-> flow.qn,
                   count |-> flow.count, version |-> flow.version + 1]
      BY <1>1, <3>2
    <3>4. flow.status # "COMPLETED"
      BY <1>1, <1>3, <2>1 DEF Coherent
    <3>5. QED BY <3>3, <3>4 DEF Behind
  <2>3. applied' = applied
    BY <1>0, <1>1, <1>7 DEF TypeInv, TypeOK
  <2>4. ~ Sure(c)' /\ ~ Past(c)'
    BY <1>2, <2>1, NoneIsFresh DEF Sure, Past
  <2>5. ASSUME NEW d \in Call, Past(d), Latest(d)' PROVE Latest(d)
    <3>1. d # c /\ mine'[d] = mine[d] /\ flow'.version # mine[d]
      BY <1>3, <1>4, <1>5, <1>6, <2>1, <2>2, <2>5
    <3>2. PICK e \in Call : AtWork(e)' /\ seen'[e].version = mine[d]
      BY <2>5, <3>1 DEF Latest
    <3>3. e = c
      BY <1>5, <3>2
    <3>4. QED BY <1>1, <3>2, <3>3 DEF Latest
  <2>6. QED BY <1>0, <1>2, <1>4, <2>2, <2>3, <2>4, <2>5, NothingMoves
<1>8. CASE move[c] # "evaluate"
  <2>1. /\ Evaluating(c) /\ flow = Evaluated(seen[c])
        /\ pc'[c] = IF Q(c)[2] = 0 THEN "score" ELSE "mark"
    BY <1>0, <1>1, <1>8 DEF Evaluating, ToEvaluate, AtWork, InStep, HasFlow, AfterWrite
  <2>2. /\ flow'.version = seen[c].version + 2 /\ Behind(flow', Q(c))
        /\ \A q \in Question : Behind(seen[c], q) => Behind(flow', q)
    BY <1>0, <1>1, <1>8, <2>1, MovesOn
  <2>3. ~ Behind(flow, Q(c)) /\ \A q \in Question : Behind(flow, q) <=> Behind(seen[c], q)
    BY <1>1, <1>3, <2>1, EvaluatedFlow, AtQuestion
  <2>4. applied[request[c]] = 0 /\ request[c] \notin replay
    BY <1>0, <1>3, <2>3 DEF Accounted, Moves, Q
  <2>5. /\ applied'[request[c]] = 1
        /\ \A r \in Request : r # request[c] => applied'[r] = applied[r]
    BY <1>0, <1>1, <1>3, <1>8, <2>4 DEF TypeInv, TypeOK
  <2>6. /\ ~ AtWork(c)' /\ (pc'[c] = "mark" \/ Past(c)') /\ pc'[c] \in {"mark", "score"}
        /\ (Past(c)' => ~ Sure(c)') /\ Mover(c, request[c])'
    BY <1>2, <2>1, NoneIsFresh DEF AtWork, ToEvaluate, Evaluating, Past, Sure, Mover
  <2>7. \A d \in Call \ {c} : (Sure(d)' <=> Sure(d)) /\ \A r \in Request : Mover(d, r) => Mover(d, r)'
    BY <1>0, <1>2, OthersAnswer
  <2>8. \A d \in Call : Sure(d) => request[d] # request[c]
    BY <1>0, <2>4 DEF Accounted
  <2>9. ASSUME NEW r \in Request PROVE Moves(r)'
    <3>1. CASE r = request[c]
      BY <1>1, <1>2, <2>2, <2>4, <2>5, <2>6, <3>1 DEF Moves, Q
    <3>2. CASE r # request[c]
      <4>1. Moves(r) /\ applied'[r] = applied[r]
        BY <1>0, <2>5, <3>2 DEF Accounted
      <4>2. \A d \in Call : Mover(d, r) => Mover(d, r)'
        BY <1>4, <2>7
      <4>3. QED BY <1>2, <2>2, <2>3, <4>1, <4>2 DEF Moves
    <3>3. QED BY <3>1, <3>2
  <2>10. ASSUME NEW d \in Call, Sure(d)' PROVE applied'[request'[d]] = 1
    <3>1. CASE d = c
      BY <1>2, <2>5, <3>1
    <3>2. CASE d # c
      <4>1. Sure(d) /\ pc[d] # "idle"
        BY <1>0, <2>7, <2>10, <3>2, NoneIsFresh DEF Sure, Silent
      <4>2. request[d] \in Request /\ request[d] # request[c] /\ applied[request[d]] = 1
        BY <1>0, <2>8, <4>1 DEF TypeInv, Carries, Accounted
      <4>3. QED BY <1>2, <2>5, <4>2
    <3>3. QED BY <3>1, <3>2
  <2>11. ASSUME NEW d \in Call, Past(d)' PROVE Pending(d)'
    <3>1. CASE d = c
      <4>1. \A e \in Call : Sure(e)' => request[e] # request[c]
        BY <2>6, <2>7, <2>8, <2>11, <3>1
      <4>2. ASSUME NEW r \in Request, applied'[r] = 1, r # request[c] PROVE Behind(seen[c], about[r])
        BY <1>0, <2>3, <2>5, <4>2 DEF Accounted, Moves
      <4>3. QED BY <1>1, <1>2, <2>4, <2>5, <3>1, <4>1, <4>2 DEF Pending
    <3>2. CASE d # c
      <4>1. Past(d) /\ request[d] \in Request /\ request[d] # request[c]
        BY <1>0, <1>1, <1>5, <2>11, <3>2, RequestsApart, Labels DEF TypeInv, Carries
      <4>2. ~ Latest(d)'
        BY <1>3, <1>5, <1>6, <2>2, <2>6, <3>2, <4>1 DEF Latest
      <4>3. \A e \in Call : Sure(e)' => request[e] # request[d]
        BY <1>0, <2>7, <4>1 DEF Pending, Accounted
      <4>4. QED BY <1>0, <1>2, <2>5, <4>1, <4>2, <4>3 DEF Pending, Accounted
    <3>3. QED BY <3>1, <3>2
  <2>12. QED BY <2>9, <2>10, <2>11 DEF Accounted, Pending
<1>9. QED BY <1>7, <1>8

LEMMA RollbackAccounted ==
  ASSUME Known, [Next]_vars, NEW c \in Call, Rollback(c) PROVE Accounted'
<1>0. TypeInv /\ Silent /\ InStep /\ Accounted /\ Silent' /\ Before /\ LockHeld
  BY SilentStep DEF Known, Before
<1>1. /\ AtWork(c) \/ Past(c)
      /\ pc[c] = "rollback" /\ pc'[c] = "unmark" /\ UNCHANGED <<seen, read, move, mine>>
      /\ flow' = seen[c] /\ Coherent(seen[c]) /\ seen[c].qn = Q(c) /\ seen[c].qn # None
      /\ applied' = [applied EXCEPT ![request[c]] = IF move[c] = "evaluate" THEN @ ELSE @ - 1]
  BY <1>0, RollsBack
<1>2. CallStep(c) /\ UNCHANGED <<replay, about, request, outcome>> /\ outcome[c] = None
  BY <1>0, <1>1 DEF Rollback, CallStep, Silent, locals
<1>3. ~ Sure(c)' /\ ~ Past(c)' /\ ~ AtWork(c)'
  BY <1>1, <1>2, NoneIsFresh DEF Sure, Past, AtWork, ToEvaluate, Evaluating
<1>4. CASE AtWork(c)
  <2>1. Evaluating(c) /\ flow = Evaluated(seen[c]) /\ move[c] = "evaluate" /\ ~ Past(c)
    BY <1>0, <1>1, <1>4, Labels DEF InStep, HasFlow, AtWork, ToEvaluate, Evaluating
  <2>2. seen[c] \in Flow /\ \A q \in Question : Behind(flow, q) => Behind(flow', q)
    BY <1>0, <1>1, <2>1, EvaluatedFlow DEF TypeInv, TypeOK
  <2>3. applied' = applied
    BY <1>0, <1>1, <2>1 DEF TypeInv, TypeOK
  <2>4. ~ \E r \in Request : Mover(c, r)
    BY <1>1, <1>2, <2>1, NoneIsFresh DEF Mover
  <2>5. ASSUME NEW d \in Call, Past(d), Latest(d)' PROVE Latest(d)
    <3>1. \A e \in Call : ~ AtWork(e)'
      BY <1>0, <1>2, <1>3, <1>4, OneAtWork, OthersStay
    <3>2. seen[c].version = mine[d]
      BY <1>1, <2>5, <3>1 DEF Latest
    <3>3. QED BY <1>4, <3>2 DEF Latest
  <2>6. QED BY <1>0, <1>2, <1>3, <2>2, <2>3, <2>4, <2>5, NothingMoves
<1>5. CASE Past(c)
  <2>1. move[c] # "evaluate" /\ flow.version = mine[c] /\ \A d \in Call \ {c} : pc[d] \in Resting
    BY <1>0, <1>1, <1>5 DEF InStep, HasMoved, RollsBackAlone
  <2>2. /\ request[c] \in Request /\ applied[request[c]] = 1 /\ request[c] \notin replay
        /\ \A d \in Call : Sure(d) => request[d] # request[c]
        /\ \A r \in Request : applied[r] = 1 /\ r # request[c] => Behind(seen[c], about[r])
    BY <1>0, <1>5, <2>1, Labels DEF Pending, Latest, Accounted, TypeInv, Carries
  <2>3. /\ applied'[request[c]] = 0
        /\ \A r \in Request : r # request[c] => applied'[r] = applied[r]
    BY <1>0, <1>1, <2>1, <2>2 DEF TypeInv, TypeOK
  <2>4. \A d \in Call \ {c} : /\ (Sure(d)' <=> Sure(d)) /\ ~ Past(d)'
                              /\ \A r \in Request : Mover(d, r) => Mover(d, r)'
    BY <1>0, <1>2, <2>1, OthersAnswer, OthersStay, Labels
  <2>5. ASSUME NEW r \in Request PROVE Moves(r)'
    <3>1. CASE r = request[c]
      BY <1>2, <2>2, <2>3, <3>1 DEF Moves
    <3>2. CASE r # request[c]
      <4>1. \A d \in Call : Mover(d, r) => Mover(d, r)'
        BY <2>4, <3>2 DEF Mover
      <4>2. QED BY <1>0, <1>1, <1>2, <2>2, <2>3, <3>2, <4>1 DEF Moves, Accounted
    <3>3. QED BY <3>1, <3>2
  <2>6. ASSUME NEW d \in Call, Sure(d)' PROVE applied'[request'[d]] = 1
    <3>1. Sure(d) /\ pc[d] # "idle"
      BY <1>0, <1>3, <2>4, <2>6, NoneIsFresh DEF Sure, Silent
    <3>2. QED BY <1>0, <1>2, <2>2, <2>3, <3>1 DEF Accounted, TypeInv, Carries
  <2>7. QED BY <1>3, <2>4, <2>5, <2>6 DEF Accounted, Pending
<1>6. QED BY <1>1, <1>4, <1>5

LEMMA AccountedStep == Known /\ [Next]_vars => Accounted'
<1> SUFFICES ASSUME Known, [Next]_vars PROVE Accounted'
  OBVIOUS
<1>1. ASSUME NEW c \in Call, CallStep(c) PROVE Accounted'
  BY <1>1, EarlyAccounted, LateAccounted, MarkAccounted, WriteAccounted, RollbackAccounted
    DEF CallStep
<1>2. CASE \/ \E q \in Question : LockExpires(q)
           \/ \E r \in Request : ProcessingExpires(r)
           \/ UNCHANGED vars
  <2>1. UNCHANGED <<flow, replay, pc, request, about, seen, move, mine, outcome, applied>>
    BY <1>2 DEF LockExpires, ProcessingExpires, vars, store, locals
  <2>2. \A c \in Call : /\ (AtWork(c)' <=> AtWork(c)) /\ (Past(c)' <=> Past(c))
                        /\ (Sure(c)' <=> Sure(c))
                        /\ \A r \in Request : Mover(c, r)' <=> Mover(c, r)
    BY <2>1 DEF AtWork, ToEvaluate, Evaluating, Past, Sure, Mover
  <2>3. ASSUME NEW c \in Call PROVE Pending(c)'
    <3>1. Pending(c) /\ (Latest(c)' <=> Latest(c))
      BY <2>1, <2>2 DEF Known, Accounted, Latest
    <3>2. QED BY <2>1, <2>2, <3>1 DEF Pending
  <2>4. \A r \in Request : Moves(r)'
    BY <2>1, <2>2 DEF Known, Accounted, Moves
  <2>5. QED BY <2>1, <2>2, <2>3, <2>4 DEF Known, Accounted
<1>3. QED BY <1>1, <1>2 DEF Next

LEMMA InitAccounted == Init => Silent /\ Accounted
<1> SUFFICES ASSUME Init PROVE Silent /\ Accounted
  OBVIOUS
<1>1. \A c \in Call : ~ Past(c) /\ ~ Sure(c)
  BY NoneIsFresh DEF Init, Past, Sure
<1>2. \A r \in Request : Moves(r)
  BY DEF Init, Moves
<1>3. QED BY <1>1, <1>2 DEF Init, Silent, Accounted, Pending

LEMMA KnownInvariant == Spec => []((crossed = {} => Known) /\ Silent)
<1> DEFINE J == TypeInv /\ LockHeld /\ (crossed = {} => InStep)
           I == crossed = {} => Accounted
<1>1. Init => I /\ Silent
  BY InitAccounted
<1>2. J /\ Silent /\ I /\ [Next]_vars => Silent' /\ I'
  BY SilentStep, AccountedStep, CrossedStays DEF Known, Before
<1>3. J /\ Silent /\ I => (crossed = {} => Known) /\ Silent
  BY DEF Known, Before
<1>4. QED BY <1>1, <1>2, <1>3, InStepInvariant, PTL DEF Spec

\* Whatever is retried or duplicated, no request moves the interview on twice, and only one that
\* did has a stored response, unless a rollback was crossed (idempotency_service.go, TryStart).
THEOREM RequestsMoveOnce == Spec => []AppliedOnce
<1>1. (crossed = {} => Known) => AppliedOnce
  BY DEF Known, Accounted, Moves, AppliedOnce
<1>2. QED BY <1>1, KnownInvariant, PTL

\* A call that reports an error has left no move behind, unless another call with its request made
\* it or a rollback was crossed (Execute's error returns).
THEOREM ErrorsLeaveNoTrace == Spec => []FailureLeavesNoTrace
<1>1. (crossed = {} => Known) => FailureLeavesNoTrace
  <2> SUFFICES ASSUME Known, NEW c \in Call, outcome[c] = "error", pc[c] = "done",
                      applied[request[c]] # 0
               PROVE  \E d \in Call \ {c} : request[d] = request[c] /\ outcome[d] # "error"
    BY DEF FailureLeavesNoTrace, Known, Before
  <2>1. Moves(request[c])
    BY DEF Known, Before, TypeInv, Carries, Accounted
  <2>2. PICK d \in Call : Mover(d, request[c])
    BY <2>1 DEF Moves
  <2>3. QED BY <2>2 DEF Mover
<1>2. QED BY <1>1, KnownInvariant, PTL

-----------------------------------------------------------------------------
(* What the score holds. *)

\* Call d is the one that Scoring(m) is about.
ScoringBy(d, m) == pc[d] \in {"score", "rollback", "crashed"} /\ Moved(d) /\ Q(d) = <<m, 0>>

\* A score is added for a request that has moved the interview past the question; it is missing
\* while a call is about to add it, and while it may still be taken back.
Scores ==
  /\ \A m \in Main :
       /\ scored[m] <= 1
       /\ scored[m] = 1 => \E r \in Request : applied[r] = 1 /\ about[r] = <<m, 0>>
       /\ Behind(flow, <<m, 0>>) => scored[m] = 1 \/ \E d \in Call : ScoringBy(d, m)
  /\ \A c \in Call : Past(c) => scored[Q(c)[1]] = 0

\* The score in a step of c that adds nothing to it.
LEMMA ScoresStay ==
  ASSUME Known, Scores, [Next]_vars, NEW c \in Call, CallStep(c), UNCHANGED scored,
         \A r \in Request : applied[r] = 1 /\ applied'[r] # 1 => about[r] = Q(c) /\ Past(c),
         \A m \in Main : Behind(flow', <<m, 0>>) => Behind(flow, <<m, 0>>) \/ ScoringBy(c, m)',
         \A m \in Main : ScoringBy(c, m) => ScoringBy(c, m)' \/ ~ Behind(flow', <<m, 0>>),
         Past(c)' => pc[c] # "idle" /\ scored[Q(c)[1]] = 0
  PROVE  Scores'
<1>0. TypeInv /\ LockHeld /\ Accounted
  BY DEF Known, Before
<1>1. ASSUME NEW d \in Call, d # c, NEW m \in Main, ScoringBy(d, m) PROVE ScoringBy(d, m)'
  BY <1>0, <1>1, OthersWait, OthersStay, QuestionStays DEF ScoringBy
<1>2. ASSUME NEW m \in Main, scored'[m] = 1
      PROVE  \E r \in Request : applied'[r] = 1 /\ about'[r] = <<m, 0>>
  <2>1. PICK r \in Request : applied[r] = 1 /\ about[r] = <<m, 0>>
    BY <1>2 DEF Scores
  <2>2. about'[r] = about[r]
    BY <1>0, <2>1, AboutStays DEF Accounted, Moves
  <2>3. applied'[r] = 1
    BY <1>2, <2>1 DEF Scores
  <2>4. QED BY <2>1, <2>2, <2>3
<1>3. ASSUME NEW m \in Main, Behind(flow', <<m, 0>>)
      PROVE  scored'[m] = 1 \/ \E d \in Call : ScoringBy(d, m)'
  BY <1>1, <1>3 DEF Scores
<1>4. ASSUME NEW d \in Call, Past(d)' PROVE scored'[Q(d)'[1]] = 0
  <2>1. CASE d = c
    BY <1>0, <1>4, <2>1, QuestionStays
  <2>2. CASE d # c
    BY <1>0, <1>4, <2>2, OthersStay, QuestionStays, Labels DEF Scores
  <2>3. QED BY <2>1, <2>2
<1>5. QED BY <1>2, <1>3, <1>4 DEF Scores

LEMMA QuietScores ==
  ASSUME Known, Scores, [Next]_vars, NEW c \in Call,
         \/ Submit(c) \/ CheckReplay(c) \/ StartProcessing(c) \/ EnsureRuntime(c) \/ LockQuestion(c)
         \/ GiveUp(c) \/ Recheck(c) \/ MutateRead(c) \/ Evaluate(c) \/ EvaluateFails(c)
         \/ ClearProcessing(c) \/ MarkSucceeded(c) \/ Release(c) \/ Crash(c) \/ AddScoreFails(c)
  PROVE  Scores'
<1> USE DEF TypeInv, TypeOK, store, locals, Goto, Resting
<1>0. TypeInv /\ InStep
  BY DEF Known, Before
<1>1. UNCHANGED <<flow, applied, scored>> /\ CallStep(c)
  BY DEF Submit, CheckReplay, StartProcessing, EnsureRuntime, LockQuestion, GiveUp, Recheck,
    MutateRead, Evaluate, EvaluateFails, ClearProcessing, MarkSucceeded, Release, Crash,
    AddScoreFails, CallStep
<1>2. CASE AddScoreFails(c) \/ Crash(c)
  <2>1. UNCHANGED <<mine, seen, move>> /\ pc[c] # "idle" /\ pc'[c] \in {"rollback", "crashed"}
    BY <1>0, <1>2 DEF AddScoreFails, Crash
  <2>2. Q(c)' = Q(c)
    BY <1>0, <2>1, QuestionStays
  <2>3. \A m \in Main : ScoringBy(c, m) => ScoringBy(c, m)'
    BY <2>1, <2>2 DEF ScoringBy, Moved
  <2>4. Past(c)' => Past(c)
    BY <1>0, <1>2, <2>1 DEF Past, AddScoreFails, Crash
  <2>5. QED BY <1>1, <2>1, <2>3, <2>4, ScoresStay DEF Scores
<1>3. CASE ~ (AddScoreFails(c) \/ Crash(c))
  <2>1. pc[c] \notin {"score", "rollback", "crashed"}
    BY <1>3 DEF Submit, CheckReplay, StartProcessing, EnsureRuntime, LockQuestion, GiveUp, Recheck,
      MutateRead, Evaluate, EvaluateFails, ClearProcessing, MarkSucceeded, Release
  <2>2. CASE EvaluateFails(c)
    <3>1. ~ Past(c)'
      BY <1>0, <2>2 DEF EvaluateFails, InStep, HasFlow, AtWork, Evaluating, Past
    <3>2. QED BY <1>1, <2>1, <3>1, ScoresStay DEF ScoringBy
  <2>3. CASE ~ EvaluateFails(c)
    <3>1. ~ Past(c)'
      BY <1>0, <1>3, <2>3 DEF Submit, CheckReplay, StartProcessing, EnsureRuntime, LockQuestion,
        GiveUp, Recheck, MutateRead, Evaluate, ClearProcessing, MarkSucceeded, Release, Past
    <3>2. QED BY <1>1, <2>1, <3>1, ScoresStay DEF ScoringBy
  <2>4. QED BY <2>2, <2>3
<1>4. QED BY <1>2, <1>3

LEMMA AddScores ==
  ASSUME Known, Scores, [Next]_vars, NEW c \in Call, AddScore(c) PROVE Scores'
<1>0. TypeInv /\ LockHeld /\ InStep /\ Accounted
  BY DEF Known, Before
<1> DEFINE m0 == Q(c)[1]
<1>1. Past(c) /\ CallStep(c) /\ ~ Past(c)'
  BY <1>0 DEF AddScore, Past, CallStep, Goto, TypeInv, TypeOK
<1>2. /\ UNCHANGED <<flow, applied, about, mine, seen, request>>
      /\ scored' = [scored EXCEPT ![m0] = @ + 1]
  BY DEF AddScore, locals
<1>3. Q(c) = <<m0, 0>> /\ m0 \in Main
  <2>1. Q(c) \in Question /\ Q(c)[2] = 0
    BY <1>0, <1>1, QuestionStays, Labels DEF InStep, HasMoved
  <2>2. QED BY <2>1 DEF Question
<1>4. scored[m0] = 0 /\ scored'[m0] = 1 /\ \A m \in Main : m # m0 => scored'[m] = scored[m]
  BY <1>0, <1>1, <1>2, <1>3 DEF Scores, TypeInv, TypeOK
<1>5. applied[request[c]] = 1 /\ request[c] \in Request /\ about[request[c]] = <<m0, 0>>
  BY <1>0, <1>1, <1>3, QuestionStays, Labels DEF Accounted, Pending, Q
<1>6. ASSUME NEW m \in Main, scored'[m] = 1
      PROVE  \E r \in Request : applied'[r] = 1 /\ about'[r] = <<m, 0>>
  BY <1>2, <1>4, <1>5, <1>6 DEF Scores
<1>7. ASSUME NEW m \in Main, Behind(flow', <<m, 0>>), m # m0
      PROVE  scored'[m] = 1 \/ \E d \in Call : ScoringBy(d, m)'
  <2>1. CASE scored[m] = 1
    BY <1>4, <1>7, <2>1
  <2>2. CASE scored[m] # 1
    <3>1. PICK d \in Call : ScoringBy(d, m)
      BY <1>2, <1>7, <2>2 DEF Scores
    <3>2. d # c
      BY <1>3, <1>7, <3>1 DEF ScoringBy
    <3>3. ScoringBy(d, m)'
      BY <1>0, <1>1, <3>1, <3>2, OthersWait, OthersStay, QuestionStays DEF ScoringBy
    <3>4. QED BY <3>3
  <2>3. QED BY <2>1, <2>2
<1>8. ASSUME NEW d \in Call, Past(d)' PROVE scored'[Q(d)'[1]] = 0
  <2>1. d # c /\ Past(d) /\ pc[d] \in Locked /\ pc[c] \in Locked
    BY <1>0, <1>1, <1>8, OthersStay, Labels
  <2>2. Q(d)' = Q(d) /\ Q(d) \in Question /\ Q(d)[2] = 0 /\ scored[Q(d)[1]] = 0
    BY <1>0, <2>1, QuestionStays, Labels DEF InStep, HasMoved, Scores
  <2>3. Q(d) # Q(c)
    BY <1>0, <2>1 DEF LockHeld
  <2>4. Q(d) = <<Q(d)[1], 0>> /\ Q(d)[1] \in Main
    BY <2>2 DEF Question
  <2>5. QED BY <1>3, <1>4, <2>2, <2>3, <2>4
<1>9. ASSUME NEW m \in Main PROVE scored'[m] <= 1
  <2>1. CASE m = m0
    BY <1>4, <2>1
  <2>2. CASE m # m0
    BY <1>4, <2>2 DEF Scores
  <2>3. QED BY <2>1, <2>2
<1>10. \A m \in Main : Behind(flow', <<m, 0>>) => scored'[m] = 1 \/ \E d \in Call : ScoringBy(d, m)'
  BY <1>4, <1>7
<1>11. \A m \in Main : scored'[m] = 1 => \E r \in Request : applied'[r] = 1 /\ about'[r] = <<m, 0>>
  BY <1>6
<1>12. \A d \in Call : Past(d)' => scored'[Q(d)'[1]] = 0
  BY <1>8
<1>13. QED BY <1>9, <1>10, <1>11, <1>12 DEF Scores

LEMMA WriteScores ==
  ASSUME Known, Scores, [Next]_vars, NEW c \in Call, MutateWrite(c) PROVE Scores'
<1>0. TypeInv /\ InStep /\ Accounted /\ Before
  BY DEF Known, Before
<1>1. /\ AtWork(c) /\ pc[c] = "write" /\ read[c] = flow /\ flow \in Flow /\ flow' \in Flow
      /\ seen[c] \in Flow /\ seen[c].qn = Q(c) /\ Q(c) \in Question /\ Coherent(seen[c])
      /\ Q(c)' = Q(c)
      /\ UNCHANGED <<seen, read, move>> /\ pc'[c] = AfterWrite(c)
      /\ flow' = [Mutated(c, flow) EXCEPT !.version = @ + 1]
      /\ mine'[c] = flow.version + 1
      /\ applied' = [applied EXCEPT ![request[c]] = IF move[c] = "evaluate" THEN @ ELSE @ + 1]
  BY <1>0, Writes
<1>2. CallStep(c) /\ UNCHANGED scored /\ \A m \in Main : ~ ScoringBy(c, m)
  BY <1>1 DEF MutateWrite, CallStep, ScoringBy
<1>3. seen[c].qn # None /\ request[c] \in Request /\ Q(c)[1] \in Main
  BY <1>0, <1>1, NoneIsFresh DEF TypeInv, Carries, Question
<1>4. CASE move[c] = "evaluate"
  <2>1. ToEvaluate(c) /\ flow = seen[c] /\ pc'[c] = "evaluate"
    BY <1>0, <1>1, <1>4 DEF ToEvaluate, InStep, HasFlow, AfterWrite
  <2>2. Mutated(c, flow) = [flow EXCEPT !.status = "EVALUATING"]
    BY <1>4 DEF Mutated
  <2>3. Mutated(c, flow) = [status |-> "EVALUATING", index |-> flow.index, qn |-> flow.qn,
                            count |-> flow.count, version |-> flow.version]
    BY <1>1, <2>2 DEF Flow
  <2>4. flow' = [status |-> "EVALUATING", index |-> flow.index, qn |-> flow.qn,
                 count |-> flow.count, version |-> flow.version + 1]
    BY <1>1, <2>3
  <2>5. \A m \in Main : Behind(flow', <<m, 0>>) => Behind(flow, <<m, 0>>)
    BY <2>4 DEF Behind
  <2>6. applied' = applied /\ ~ Past(c)'
    BY <1>0, <1>1, <1>4, <2>1 DEF TypeInv, TypeOK, Past
  <2>7. QED BY <1>2, <2>5, <2>6, ScoresStay
<1>5. CASE move[c] # "evaluate"
  <2>1. /\ Evaluating(c) /\ flow = Evaluated(seen[c])
        /\ pc'[c] = IF Q(c)[2] = 0 THEN "score" ELSE "mark"
    BY <1>0, <1>1, <1>5 DEF Evaluating, ToEvaluate, AtWork, InStep, HasFlow, AfterWrite
  <2>2. \A m \in Main : Behind(flow', <<m, 0>>) => Behind(seen[c], <<m, 0>>) \/ Q(c) = <<m, 0>>
    BY <1>0, <1>1, <1>5, <2>1, MovesOn
  <2>3. ~ Behind(flow, Q(c)) /\ flow.version = seen[c].version + 1
        /\ \A q \in Question : Behind(flow, q) <=> Behind(seen[c], q)
    BY <1>1, <1>3, <2>1, EvaluatedFlow, AtQuestion
  <2>4. Moved(c)'
    BY <1>1, <2>3 DEF Moved, Flow
  <2>5. ASSUME NEW m \in Main, Behind(flow', <<m, 0>>)
        PROVE  Behind(flow, <<m, 0>>) \/ ScoringBy(c, m)'
    <3>1. CASE Behind(seen[c], <<m, 0>>)
      <4>1. <<m, 0>> \in Question
        BY InterviewBounds DEF Question
      <4>2. QED BY <2>3, <3>1, <4>1
    <3>2. CASE Q(c) = <<m, 0>>
      BY <1>1, <2>1, <2>4, <3>2 DEF ScoringBy
    <3>3. QED BY <2>2, <2>5, <3>1, <3>2
  <2>6. \A r \in Request : ~ (applied[r] = 1 /\ about[r] = Q(c))
    BY <1>0, <2>3 DEF Accounted, Moves
  <2>7. applied[request[c]] # 1
    BY <1>3, <2>6 DEF Q
  <2>8. \A r \in Request : applied[r] = 1 => applied'[r] = 1
    BY <1>0, <1>1, <1>3, <1>5, <2>7 DEF TypeInv, TypeOK
  <2>9. Past(c)' => scored[Q(c)[1]] = 0
    <3>1. ASSUME Past(c)' PROVE Q(c) = <<Q(c)[1], 0>>
      BY <1>1, <2>1, <3>1 DEF Past, Question
    <3>2. ASSUME Past(c)' PROVE scored[Q(c)[1]] # 1 /\ scored[Q(c)[1]] <= 1 /\ scored[Q(c)[1]] \in Nat
      BY <1>0, <1>3, <2>6, <3>1, <3>2 DEF Scores, TypeInv, TypeOK
    <3>3. QED BY <3>2
  <2>10. QED BY <1>1, <1>2, <2>5, <2>8, <2>9, ScoresStay
<1>6. QED BY <1>4, <1>5

LEMMA RollbackScores ==
  ASSUME Known, Scores, [Next]_vars, NEW c \in Call, Rollback(c) PROVE Scores'
<1>0. TypeInv /\ InStep /\ Accounted /\ Before
  BY DEF Known, Before
<1>1. /\ AtWork(c) \/ Past(c)
      /\ pc[c] = "rollback" /\ pc'[c] = "unmark" /\ UNCHANGED <<seen, read, move, mine>>
      /\ flow' = seen[c] /\ Coherent(seen[c]) /\ seen[c].qn = Q(c) /\ seen[c].qn # None
      /\ applied' = [applied EXCEPT ![request[c]] = IF move[c] = "evaluate" THEN @ ELSE @ - 1]
  BY <1>0, RollsBack
<1>2. CallStep(c) /\ UNCHANGED scored /\ ~ Past(c)' /\ seen[c] \in Flow
  BY <1>0, <1>1 DEF Rollback, CallStep, Past, TypeInv, TypeOK
<1>3. request[c] \in Request /\ \A m \in Main : <<m, 0>> \in Question
  BY <1>0, <1>1, InterviewBounds DEF TypeInv, Carries, Question
<1>4. \A m \in Main : Q(c) = <<m, 0>> => ~ Behind(flow', <<m, 0>>)
  BY <1>1, <1>2, AtQuestion
<1>5. \A m \in Main : Behind(flow', <<m, 0>>) => Behind(flow, <<m, 0>>)
  <2>1. CASE AtWork(c)
    <3>1. flow = Evaluated(seen[c])
      BY <1>0, <1>1, <2>1 DEF InStep, HasFlow, AtWork, ToEvaluate
    <3>2. QED BY <1>1, <1>2, <1>3, <3>1, EvaluatedFlow
  <2>2. CASE Past(c)
    BY <1>0, <1>1, <1>3, <2>2 DEF InStep, HasMoved
  <2>3. QED BY <1>1, <2>1, <2>2
<1>6. ASSUME NEW r \in Request, applied[r] = 1, applied'[r] # 1 PROVE about[r] = Q(c) /\ Past(c)
  <2>1. r = request[c] /\ move[c] # "evaluate"
    BY <1>0, <1>1, <1>3, <1>6 DEF TypeInv, TypeOK
  <2>2. QED BY <1>1, <2>1 DEF Q, Past
<1>7. \A m \in Main : ScoringBy(c, m) => ~ Behind(flow', <<m, 0>>)
  BY <1>4 DEF ScoringBy
<1>8. QED BY <1>2, <1>5, <1>6, <1>7, ScoresStay

LEMMA ScoresStep == Known /\ Scores /\ [Next]_vars => Scores'
<1> SUFFICES ASSUME Known, Scores, [Next]_vars PROVE Scores'
  OBVIOUS
<1>1. ASSUME NEW c \in Call, CallStep(c) PROVE Scores'
  BY <1>1, QuietScores, AddScores, WriteScores, RollbackScores DEF CallStep
<1>2. CASE \/ \E q \in Question : LockExpires(q)
           \/ \E r \in Request : ProcessingExpires(r)
           \/ UNCHANGED vars
  <2>1. UNCHANGED <<flow, scored, pc, request, about, seen, move, mine, applied>>
    BY <1>2 DEF LockExpires, ProcessingExpires, vars, store, locals
  <2>2. QED BY <2>1 DEF Scores, ScoringBy, Moved, Past, Q
<1>3. QED BY <1>1, <1>2 DEF Next

\* Past a main question its score is in the sum, once, or a call is about to add it or died before
\* it could, unless a rollback was crossed (score_cache.go; Execute, step 7).
THEOREM ScoredOnce == Spec => []PassedIsScoredOnce
<1> DEFINE K == (crossed = {} => Known) /\ Silent
           I == crossed = {} => Scores
<1>1. Init => I
  BY InterviewBounds DEF Init, Scores, Past, Behind, Main
<1>2. K /\ I /\ [Next]_vars => I'
  BY ScoresStep, CrossedStays
<1>3. K /\ I => PassedIsScoredOnce
  <2> SUFFICES ASSUME Known, Scores, NEW m \in Main
               PROVE  /\ scored[m] <= 1
                      /\ scored[m] = 1 => Passed(m)
                      /\ Passed(m) => scored[m] = 1 \/ Scoring(m)
    BY DEF PassedIsScoredOnce, Known, Before
  <2>1. Passed(m) <=> Behind(flow, <<m, 0>>)
    BY DEF Passed, Behind, Known, Before, TypeInv, TypeOK, Flow
  <2>2. Scoring(m) <=> \E d \in Call : ScoringBy(d, m)
    BY DEF Scoring, ScoringBy
  <2>3. scored[m] = 1 => Behind(flow, <<m, 0>>)
    BY DEF Scores, Known, Accounted, Moves
  <2>4. QED BY <2>1, <2>2, <2>3 DEF Scores
<1>4. QED BY <1>1, <1>2, <1>3, KnownInvariant, PTL DEF Spec
=============================================================================
