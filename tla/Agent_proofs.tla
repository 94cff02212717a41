---------------------------- MODULE Agent_proofs ----------------------------
(***************************************************************************)
(* Machine-checked facts about an agent at work: about the tasks of its    *)
(* plan (AgentLoop), for any tasks and tools, any limits of the loop, and  *)
(* any number of tasks out of time at once; and about its runs (AgentRun), *)
(* for any requests and keys, limits of runs and tokens, and any number of *)
(* faults, crashes and restarts.                                           *)
(***************************************************************************)
EXTENDS AgentLoop, AgentRun, FiniteSetTheorems, TLAPS

-----------------------------------------------------------------------------
(* AgentLoop. *)

LoopLabel == {"idle", "model", "batch", "call", "number", "record", "fail", "retry", "end"}
Tools == ReadTools \cup WriteTools \cup {Unknown}
Status == {"waiting", "running", "ok", "failed"}

\* Each call of an answer has an outcome.
Paired(t) == \E n \in Nat : calls[t] \in [1 .. n -> Tools] /\ status[t] \in [1 .. n -> Status]

LoopTypeOK ==
  /\ at \in [Loop -> LoopLabel] /\ then \in [Loop -> {"end", "model", "fail"}]
  /\ attempt \in [Loop -> Nat]
  /\ calls = [t \in Loop |-> calls[t]] /\ status = [t \in Loop |-> status[t]]
  /\ \A t \in Loop : Paired(t)
  /\ sideEffects \in [Loop -> BOOLEAN]
  /\ index \in [Loop -> Nat] /\ seq \in Nat /\ recorded \subseteq Nat

LEMMA NoCalls == << >> \in [1 .. 0 -> Tools] /\ << >> \in [1 .. 0 -> Status]
OBVIOUS

LEMMA LoopInitTyped == LoopInit => LoopTypeOK
<1> SUFFICES ASSUME LoopInit PROVE LoopTypeOK
  OBVIOUS
<1>1. \A t \in Loop : Paired(t)
  BY NoCalls DEF LoopInit, Paired
<1>2. QED BY <1>1 DEF LoopInit, LoopTypeOK, LoopLabel

LEMMA AnswersAreBatches ==
  ASSUME NEW t \in Loop, NEW batch \in Batches(t)
  PROVE  \E n \in Nat : batch \in [1 .. n -> Tools]
<1>1. PICK n \in 1 .. MaxCalls : batch \in [1 .. n -> Registry(t) \cup {Unknown}]
  BY DEF Batches
<1>2. Registry(t) \cup {Unknown} \subseteq Tools
  BY DEF Registry, Tools
<1>3. n \in Nat
  BY LoopBounds
<1>4. batch \in [1 .. n -> Tools]
  BY <1>1, <1>2
<1>5. QED BY <1>3, <1>4

\* What an end, a beginning and a recorded step do to the locals they write.
LEMMA EndTyped ==
  ASSUME LoopTypeOK, NEW t \in Loop, Forget(t)
  PROVE  /\ calls' = [u \in Loop |-> calls'[u]] /\ status' = [u \in Loop |-> status'[u]]
         /\ \A u \in Loop : Paired(u)'
         /\ sideEffects' \in [Loop -> BOOLEAN] /\ attempt' = attempt
<1>1. /\ calls' = [calls EXCEPT ![t] = << >>] /\ status' = [status EXCEPT ![t] = << >>]
      /\ sideEffects' = [sideEffects EXCEPT ![t] = FALSE] /\ attempt' = attempt
  BY DEF Forget
<1>2. ASSUME NEW u \in Loop PROVE Paired(u)'
  <2>1. CASE u = t
    <3>1. calls'[u] = << >> /\ status'[u] = << >>
      BY <1>1, <2>1 DEF LoopTypeOK
    <3>2. QED BY <3>1, NoCalls DEF Paired
  <2>2. CASE u # t
    <3>1. calls'[u] = calls[u] /\ status'[u] = status[u]
      BY <1>1, <2>2 DEF LoopTypeOK
    <3>2. QED BY <3>1 DEF LoopTypeOK, Paired
  <2>3. QED BY <2>1, <2>2
<1>3. QED BY <1>1, <1>2 DEF LoopTypeOK

LEMMA LoopStepTyped == LoopTypeOK /\ [LoopNext]_loopVars => LoopTypeOK'
<1> SUFFICES ASSUME LoopTypeOK, [LoopNext]_loopVars PROVE LoopTypeOK'
  OBVIOUS
<1> USE DEF Move, RecordThen, records
<1>1. ASSUME NEW t \in Loop, \E label \in {"model", "call"} : Begin(t, label) PROVE LoopTypeOK'
  <2>1. PICK label \in {"model", "call"} : Begin(t, label)
    BY <1>1
  <2>2. UNCHANGED <<then, calls, status, records>>
    BY <2>1 DEF Begin
  <2>3. /\ at' \in [Loop -> LoopLabel] /\ attempt' \in [Loop -> Nat]
        /\ sideEffects' \in [Loop -> BOOLEAN]
    BY <2>1 DEF Begin, LoopTypeOK, LoopLabel
  <2>4. \A u \in Loop : Paired(u)'
    BY <2>2 DEF LoopTypeOK, Paired
  <2>5. QED BY <2>2, <2>3, <2>4 DEF LoopTypeOK
<1>2. ASSUME NEW t \in Loop, AgentTask(t) \/ TextTask(t) \/ ToolTask(t) PROVE LoopTypeOK'
  <2>1. CASE \E label \in {"model", "call"} : Begin(t, label)
    BY <1>1, <2>1
  <2>2. CASE ToolTask(t) /\ at[t] = "call" /\ UNCHANGED locals
    BY <2>2 DEF ToolTask, Due, AfterError, LoopTypeOK, LoopLabel, Paired, locals
  <2>3. QED BY <1>2, <2>1, <2>2 DEF AgentTask, TextTask, ToolTask
<1>3. CASE Synthesize
  BY <1>1, <1>3 DEF Synthesize, Loop
<1>4. ASSUME NEW t \in Loop, Forget(t), UNCHANGED <<records>>,
             UNCHANGED then, \E label \in LoopLabel : at' = [at EXCEPT ![t] = label]
      PROVE  LoopTypeOK'
  BY <1>4, EndTyped DEF LoopTypeOK
<1>5. ASSUME NEW t \in Loop, AttemptFails(t) \/ GiveUp(t) \/ OutOfTime(t) PROVE LoopTypeOK'
  <2>1. CASE End(t)
    BY <1>4, <1>5, <2>1 DEF AttemptFails, GiveUp, OutOfTime, End, LoopLabel
  <2>2. CASE AttemptFails(t) /\ ~ End(t)
    BY <2>2 DEF AttemptFails, LoopTypeOK, LoopLabel, Paired, locals
  <2>3. QED BY <1>5, <2>1, <2>2 DEF GiveUp, OutOfTime
<1>6. ASSUME NEW t \in Loop, Number(t) PROVE LoopTypeOK'
  <2>1. UNCHANGED <<then, attempt, calls, status, sideEffects, recorded>>
    BY <1>6 DEF Number, locals
  <2>2. at' \in [Loop -> LoopLabel] /\ index' \in [Loop -> Nat] /\ seq' \in Nat
    BY <1>6 DEF Number, StepIndex, LoopTypeOK, LoopLabel
  <2>3. \A u \in Loop : Paired(u)'
    BY <2>1 DEF LoopTypeOK, Paired
  <2>4. QED BY <2>1, <2>2, <2>3 DEF LoopTypeOK
<1>7. ASSUME NEW t \in Loop, RecordStep(t) PROVE LoopTypeOK'
  <2>1. /\ at' \in [Loop -> LoopLabel] /\ then' \in [Loop -> {"end", "model", "fail"}]
        /\ index' \in [Loop -> Nat] /\ seq' \in Nat /\ recorded' \subseteq Nat
    BY <1>7 DEF RecordStep, LoopTypeOK, LoopLabel
  <2>2. CASE Forget(t)
    BY <2>1, <2>2, EndTyped DEF LoopTypeOK
  <2>3. CASE UNCHANGED locals
    BY <2>1, <2>3 DEF LoopTypeOK, Paired, locals
  <2>4. QED BY <1>7, <2>2, <2>3 DEF RecordStep
<1>8. ASSUME NEW t \in Loop, ModelFails(t) \/ ModelAnswers(t) \/ Expire(t) PROVE LoopTypeOK'
  BY <1>8 DEF ModelFails, ModelAnswers, Expire, AfterError, LoopTypeOK, LoopLabel, Paired, locals
<1>9. ASSUME NEW t \in Loop, NEW batch \in Batches(t), ModelCalls(t, batch) PROVE LoopTypeOK'
  <2>1. CASE RecordThen(t, "end") /\ UNCHANGED <<calls, status, sideEffects>>
    BY <1>9, <2>1 DEF ModelCalls, LoopTypeOK, LoopLabel, Paired
  <2>2. CASE /\ calls' = [calls EXCEPT ![t] = batch]
             /\ status' = [status EXCEPT ![t] = [i \in DOMAIN batch |-> "waiting"]]
             /\ sideEffects' = [sideEffects EXCEPT ![t] = @ \/ ~ ToSet(batch) \subseteq ReadTools]
             /\ Move(t, "batch") /\ UNCHANGED then
    <3>1. PICK n \in Nat : batch \in [1 .. n -> Tools]
      BY AnswersAreBatches
    <3>2. [i \in DOMAIN batch |-> "waiting"] \in [1 .. n -> Status]
      BY <3>1 DEF Status
    <3>3. ASSUME NEW u \in Loop PROVE Paired(u)'
      <4>1. CASE u = t
        <5>1. calls'[u] = batch /\ status'[u] = [i \in DOMAIN batch |-> "waiting"]
          BY <2>2, <4>1 DEF LoopTypeOK
        <5>2. QED BY <3>1, <3>2, <5>1 DEF Paired
      <4>2. CASE u # t
        <5>1. calls'[u] = calls[u] /\ status'[u] = status[u]
          BY <2>2, <4>2 DEF LoopTypeOK
        <5>2. QED BY <5>1 DEF LoopTypeOK, Paired
      <4>3. QED BY <4>1, <4>2
    <3>4. UNCHANGED <<attempt, records>>
      BY <1>9 DEF ModelCalls
    <3>5. sideEffects' \in [Loop -> BOOLEAN]
      BY <2>2 DEF LoopTypeOK
    <3>6. QED BY <2>2, <3>3, <3>4, <3>5 DEF LoopTypeOK, LoopLabel
  <2>3. QED BY <1>9, <2>1, <2>2 DEF ModelCalls
<1>10. ASSUME NEW t \in Loop, EndBatch(t) PROVE LoopTypeOK'
  <2>1. CASE End(t) /\ UNCHANGED then
    BY <1>4, <1>10, <2>1 DEF EndBatch, End, LoopLabel
  <2>2. CASE /\ \E label \in {"end", "model"} : RecordThen(t, label)
             /\ calls' = [calls EXCEPT ![t] = << >>] /\ status' = [status EXCEPT ![t] = << >>]
             /\ UNCHANGED <<attempt, last, repeats, sideEffects, expired>>
    <3>1. ASSUME NEW u \in Loop PROVE Paired(u)'
      <4>1. CASE u = t
        <5>1. calls'[u] = << >> /\ status'[u] = << >>
          BY <2>2, <4>1 DEF LoopTypeOK
        <5>2. QED BY <5>1, NoCalls DEF Paired
      <4>2. CASE u # t
        <5>1. calls'[u] = calls[u] /\ status'[u] = status[u]
          BY <2>2, <4>2 DEF LoopTypeOK
        <5>2. QED BY <5>1 DEF LoopTypeOK, Paired
      <4>3. QED BY <4>1, <4>2
    <3>2. UNCHANGED records
      BY <1>10 DEF EndBatch
    <3>3. QED BY <2>2, <3>1, <3>2 DEF LoopTypeOK, LoopLabel
  <2>3. QED BY <1>10, <2>1, <2>2 DEF EndBatch
<1>11. ASSUME NEW t \in Loop, NEW i \in DOMAIN calls[t], StartCall(t, i) \/ EndCall(t, i)
       PROVE  LoopTypeOK'
  <2>1. PICK s \in Status : status' = [status EXCEPT ![t][i] = s]
    BY <1>11 DEF StartCall, EndCall, Status
  <2>2. UNCHANGED <<at, then, calls, attempt, sideEffects, records>>
    BY <1>11 DEF StartCall, EndCall
  <2>3. ASSUME NEW u \in Loop PROVE Paired(u)'
    <3>1. PICK n \in Nat : calls[u] \in [1 .. n -> Tools] /\ status[u] \in [1 .. n -> Status]
      BY DEF LoopTypeOK, Paired
    <3>2. status'[u] \in [1 .. n -> Status]
      BY <2>1, <3>1 DEF LoopTypeOK
    <3>3. QED BY <2>2, <3>1, <3>2 DEF Paired
  <2>4. QED BY <2>1, <2>2, <2>3 DEF LoopTypeOK
<1>12. CASE UNCHANGED loopVars
  BY <1>12 DEF loopVars, locals, LoopTypeOK, Paired
<1>13. QED
  BY <1>2, <1>3, <1>5, <1>6, <1>7, <1>8, <1>9, <1>10, <1>11, <1>12
  DEF LoopNext, LoopStep, TaskStep

\* Every type holds in every state, and each call of a batch keeps its outcome.
THEOREM LoopTypeCorrect == LoopSpec => []LoopTypeOK
BY LoopInitTyped, LoopStepTyped, PTL DEF LoopSpec

-----------------------------------------------------------------------------
(* Side effects. *)

\* A task that has run a tool that writes is an agent task with the tool in its transcript,
\* until it ends; and such a batch is in the transcript before its tools run.
Marked ==
  /\ \A e \in effects : \E t \in Loop :
       /\ e = <<t, attempt[t]>> /\ at[t] \notin {"idle", "retry"}
       /\ at[t] # "end" => t \in AgentTasks /\ sideEffects[t]
  /\ \A t \in Loop : at[t] = "batch" /\ ~ sideEffects[t] => ToSet(calls[t]) \subseteq ReadTools

Wrote(t) == \E e \in effects : e[1] = t

LEMMA WrotePlace ==
  ASSUME Marked, NEW t \in Loop, Wrote(t)
  PROVE  at[t] \notin {"idle", "retry"} /\ (at[t] # "end" => t \in AgentTasks /\ sideEffects[t])
BY DEF Marked, Wrote

\* Steps that run no tool keep what is marked, if they neither begin another attempt of a task
\* that has written nor take its mark away before it ends.
LEMMA KeepMarks ==
  ASSUME LoopTypeOK, Marked, NEW t \in Loop, UNCHANGED effects,
         \A u \in Loop : u # t => /\ at'[u] = at[u] /\ attempt'[u] = attempt[u]
                                  /\ sideEffects'[u] = sideEffects[u] /\ calls'[u] = calls[u],
         Wrote(t) => /\ attempt'[t] = attempt[t] /\ at'[t] \notin {"idle", "retry"}
                     /\ at'[t] # "end" => t \in AgentTasks /\ sideEffects'[t],
         at'[t] = "batch" /\ ~ sideEffects'[t] => ToSet(calls'[t]) \subseteq ReadTools
  PROVE  Marked'
<1>1. ASSUME NEW e \in effects'
      PROVE  \E u \in Loop : /\ e = <<u, attempt'[u]>> /\ at'[u] \notin {"idle", "retry"}
                             /\ at'[u] # "end" => u \in AgentTasks /\ sideEffects'[u]
  <2>1. PICK u \in Loop : /\ e = <<u, attempt[u]>> /\ at[u] \notin {"idle", "retry"}
                          /\ at[u] # "end" => u \in AgentTasks /\ sideEffects[u]
    BY <1>1 DEF Marked
  <2>2. CASE u # t
    BY <2>1, <2>2
  <2>3. CASE u = t
    <3>1. Wrote(t)
      BY <1>1, <2>1, <2>3 DEF Wrote
    <3>2. QED BY <2>1, <2>3, <3>1
  <2>4. QED BY <2>2, <2>3
<1>2. ASSUME NEW u \in Loop, at'[u] = "batch", ~ sideEffects'[u]
      PROVE  ToSet(calls'[u]) \subseteq ReadTools
  BY <1>2 DEF Marked
<1>3. QED BY <1>1, <1>2 DEF Marked

LEMMA StepMarks == LoopTypeOK /\ Marked /\ [LoopNext]_loopVars => Marked'
<1> SUFFICES ASSUME LoopTypeOK, Marked, [LoopNext]_loopVars PROVE Marked'
  OBVIOUS
<1> USE DEF LoopTypeOK, Move, RecordThen
<1>1. ASSUME NEW t \in Loop, at[t] \in {"idle", "retry"},
             \E label \in {"model", "call"} : Begin(t, label)
      PROVE  Marked'
  <2>1. ~ Wrote(t)
    BY <1>1, WrotePlace
  <2>2. /\ UNCHANGED <<effects, calls>> /\ at'[t] # "batch"
        /\ \A u \in Loop : u # t => at'[u] = at[u] /\ attempt'[u] = attempt[u]
                                    /\ sideEffects'[u] = sideEffects[u]
    BY <1>1 DEF Begin
  <2>3. QED BY <2>1, <2>2, KeepMarks
<1>2. ASSUME NEW t \in Loop, AgentTask(t) \/ TextTask(t) \/ (ToolTask(t) /\ Due(t)) PROVE Marked'
  <2>1. CASE at[t] \in {"idle", "retry"} /\ \E label \in {"model", "call"} : Begin(t, label)
    BY <1>1, <2>1
  <2>2. QED BY <1>2, <2>1 DEF AgentTask, TextTask, ToolTask, Due
<1>3. CASE Synthesize
  BY <1>1, <1>3 DEF Synthesize, Loop
<1>4. ASSUME NEW t \in Loop, at[t] \notin {"idle", "retry", "end"},
             UNCHANGED <<attempt, calls, sideEffects, effects>>,
             \E label \in LoopLabel \ {"idle", "retry", "batch"} : at' = [at EXCEPT ![t] = label]
      PROVE  Marked'
  <2>1. /\ at'[t] \notin {"idle", "retry", "batch"}
        /\ \A u \in Loop : u # t => at'[u] = at[u]
    BY <1>4
  <2>2. Wrote(t) => t \in AgentTasks /\ sideEffects[t]
    BY <1>4, WrotePlace
  <2>3. QED BY <1>4, <2>1, <2>2, KeepMarks
<1>5. ASSUME NEW t \in Loop, Forget(t), at' = [at EXCEPT ![t] = "end"], UNCHANGED effects
      PROVE  Marked'
  <2>1. /\ attempt' = attempt /\ at'[t] = "end"
        /\ \A u \in Loop : u # t => /\ at'[u] = at[u] /\ sideEffects'[u] = sideEffects[u]
                                    /\ calls'[u] = calls[u]
    BY <1>5 DEF Forget
  <2>2. QED BY <1>5, <2>1, KeepMarks
<1>6. ASSUME NEW t \in Loop, AttemptFails(t) PROVE Marked'
  <2>1. CASE End(t)
    BY <1>5, <1>6, <2>1 DEF AttemptFails, End
  <2>2. CASE Retryable(t) /\ Move(t, "retry") /\ UNCHANGED locals
    <3>1. ~ Wrote(t)
      BY <1>6, <2>2, WrotePlace DEF AttemptFails, Retryable
    <3>2. /\ UNCHANGED <<attempt, calls, sideEffects, effects>> /\ at'[t] = "retry"
          /\ \A u \in Loop : u # t => at'[u] = at[u]
      BY <1>6, <2>2 DEF AttemptFails, locals
    <3>3. QED BY <3>1, <3>2, KeepMarks
  <2>3. QED BY <1>6, <2>1, <2>2 DEF AttemptFails
<1>7. ASSUME NEW t \in Loop, GiveUp(t) \/ OutOfTime(t) PROVE Marked'
  BY <1>5, <1>7 DEF GiveUp, OutOfTime, End
<1>8. ASSUME NEW t \in Loop,
             Number(t) \/ ModelFails(t) \/ ModelAnswers(t) \/ (ToolTask(t) /\ ~ Due(t))
      PROVE  Marked'
  <2>1. at[t] \notin {"idle", "retry", "end"} /\ UNCHANGED <<attempt, calls, sideEffects, effects>>
    BY <1>8 DEF Number, ModelFails, ModelAnswers, ToolTask, locals
  <2>2. \E label \in {"number", "record"} : at' = [at EXCEPT ![t] = label]
    BY <1>8 DEF Number, ModelFails, ModelAnswers, ToolTask
  <2>3. QED BY <1>4, <2>1, <2>2 DEF LoopLabel
<1>9. ASSUME NEW t \in Loop, RecordStep(t) PROVE Marked'
  <2>1. CASE then[t] = "end"
    BY <1>5, <1>9, <2>1 DEF RecordStep
  <2>2. CASE then[t] # "end"
    <3>1. at[t] = "record" /\ UNCHANGED <<attempt, calls, sideEffects, effects>>
      BY <1>9, <2>2 DEF RecordStep, locals
    <3>2. \E label \in {"model", "fail"} : at' = [at EXCEPT ![t] = label]
      BY <1>9, <2>2 DEF RecordStep
    <3>3. QED BY <1>4, <3>1, <3>2 DEF LoopLabel
  <2>3. QED BY <2>1, <2>2
<1>10. ASSUME NEW t \in Loop, NEW batch \in Batches(t), ModelCalls(t, batch) PROVE Marked'
  <2>1. CASE RecordThen(t, "end") /\ UNCHANGED <<calls, status, sideEffects>>
    BY <1>4, <1>10, <2>1 DEF ModelCalls, LoopLabel
  <2>2. CASE /\ calls' = [calls EXCEPT ![t] = batch]
             /\ sideEffects' = [sideEffects EXCEPT ![t] = @ \/ ~ ToSet(batch) \subseteq ReadTools]
             /\ Move(t, "batch")
    <3>1. /\ UNCHANGED <<attempt, effects>> /\ at[t] = "model"
          /\ at'[t] = "batch" /\ calls'[t] = batch
          /\ \A u \in Loop : u # t => /\ at'[u] = at[u] /\ sideEffects'[u] = sideEffects[u]
                                      /\ calls'[u] = calls[u]
      BY <1>10, <2>2 DEF ModelCalls
    <3>2. sideEffects'[t] = (sideEffects[t] \/ ~ ToSet(batch) \subseteq ReadTools)
      BY <2>2
    <3>3. Wrote(t) => t \in AgentTasks /\ sideEffects[t]
      BY <3>1, WrotePlace
    <3>4. QED BY <3>1, <3>2, <3>3, KeepMarks
  <2>3. QED BY <1>10, <2>1, <2>2 DEF ModelCalls
<1>11. ASSUME NEW t \in Loop, EndBatch(t) PROVE Marked'
  <2>1. CASE End(t)
    BY <1>5, <1>11, <2>1 DEF EndBatch, End
  <2>2. CASE /\ \E label \in {"end", "model"} : RecordThen(t, label)
             /\ calls' = [calls EXCEPT ![t] = << >>] /\ UNCHANGED <<attempt, sideEffects>>
    <3>1. /\ at[t] = "batch" /\ at'[t] = "number" /\ UNCHANGED effects
          /\ \A u \in Loop : u # t => at'[u] = at[u] /\ calls'[u] = calls[u]
      BY <1>11, <2>2 DEF EndBatch
    <3>2. Wrote(t) => t \in AgentTasks /\ sideEffects[t]
      BY <3>1, WrotePlace
    <3>3. QED BY <2>2, <3>1, <3>2, KeepMarks
  <2>3. QED BY <1>11, <2>1, <2>2 DEF EndBatch
<1>12. ASSUME NEW t \in Loop, NEW i \in DOMAIN calls[t], StartCall(t, i) PROVE Marked'
  <2>1. UNCHANGED <<at, attempt, sideEffects, calls>> /\ at[t] = "batch"
    BY <1>12 DEF StartCall
  <2>2. CASE effects' = effects
    BY <2>1, <2>2 DEF Marked
  <2>3. CASE effects' # effects
    <3>1. /\ effects' = effects \cup {<<t, attempt[t]>>}
          /\ calls[t][i] \in WriteTools /\ calls[t][i] \in Registry(t)
      BY <1>12, <2>3 DEF StartCall
    <3>2. t \in AgentTasks
      BY <3>1 DEF Registry
    <3>3. ~ ToSet(calls[t]) \subseteq ReadTools
      BY <3>1, LoopBounds DEF ToSet
    <3>4. sideEffects[t]
      BY <2>1, <3>3 DEF Marked
    <3>5. QED BY <2>1, <3>1, <3>2, <3>4 DEF Marked
  <2>4. QED BY <2>2, <2>3
<1>13. ASSUME NEW t \in Loop, Expire(t) \/ (\E i \in DOMAIN calls[t] : EndCall(t, i)) PROVE Marked'
  <2>1. UNCHANGED <<at, attempt, sideEffects, calls, effects>>
    BY <1>13 DEF Expire, EndCall, locals
  <2>2. QED BY <2>1 DEF Marked
<1>14. CASE UNCHANGED loopVars
  BY <1>14 DEF loopVars, locals, Marked
<1>15. QED
  BY <1>2, <1>3, <1>6, <1>7, <1>8, <1>9, <1>10, <1>11, <1>12, <1>13, <1>14
  DEF LoopNext, LoopStep, TaskStep

\* However tasks, batches, retries and timeouts meet, a tool that writes runs in one attempt
\* of a task only (runAgentTask, transcriptUsedSideEffects).
THEOREM EffectsInOneAttempt == LoopSpec => []SideEffectsNotRepeated
<1>1. LoopInit => Marked
  BY DEF LoopInit, Marked
<1>2. Marked => SideEffectsNotRepeated
  BY DEF Marked, SideEffectsNotRepeated
<1>3. QED BY <1>1, <1>2, LoopInitTyped, LoopStepTyped, StepMarks, PTL DEF LoopSpec

-----------------------------------------------------------------------------
(* The numbers of the steps. *)

\* A number is drawn once, recorded once, and never above the counter.
Numbered ==
  /\ \A n \in recorded : n <= seq
  /\ \A t \in Loop : at[t] = "record" => index[t] <= seq /\ index[t] \notin recorded
  /\ \A t, u \in Loop : at[t] = "record" /\ at[u] = "record" /\ t # u => index[t] # index[u]
  /\ ~ rejected

LEMMA StepNumbers == LoopTypeOK /\ Numbered /\ [LoopNext]_loopVars => Numbered'
<1> SUFFICES ASSUME LoopTypeOK, Numbered, [LoopNext]_loopVars PROVE Numbered'
  OBVIOUS
<1> USE DEF LoopTypeOK, Move
<1>1. ASSUME UNCHANGED records, \A t \in Loop : at'[t] = "record" => at[t] = "record"
      PROVE  Numbered'
  BY <1>1 DEF Numbered, records
<1>2. ASSUME NEW t \in Loop, Number(t) PROVE Numbered'
  BY <1>2 DEF Number, Numbered, StepIndex
<1>3. ASSUME NEW t \in Loop, RecordStep(t) PROVE Numbered'
  <2>1. /\ at[t] = "record" /\ recorded' = recorded \cup {index[t]} /\ ~ rejected'
        /\ UNCHANGED seq /\ at'[t] # "record"
        /\ \A u \in Loop : u # t => at'[u] = at[u] /\ index'[u] = index[u]
    BY <1>3 DEF RecordStep, Numbered
  <2>2. QED BY <2>1 DEF Numbered
<1>4. ASSUME NEW t \in Loop,
             (LoopStep(t) \/ TaskStep(t) \/ Expire(t)) /\ ~ Number(t) /\ ~ RecordStep(t)
      PROVE  UNCHANGED records /\ \A u \in Loop : at'[u] = "record" => at[u] = "record"
  <2>1. CASE LoopStep(t)
    <3>1. CASE OutOfTime(t) \/ ModelFails(t) \/ ModelAnswers(t)
      BY <3>1 DEF OutOfTime, ModelFails, ModelAnswers, End, RecordThen
    <3>2. CASE \E batch \in Batches(t) : ModelCalls(t, batch)
      BY <3>2 DEF ModelCalls, RecordThen
    <3>3. CASE EndBatch(t)
      BY <3>3 DEF EndBatch, End, RecordThen
    <3>4. CASE \E i \in DOMAIN calls[t] : StartCall(t, i) \/ EndCall(t, i)
      BY <3>4 DEF StartCall, EndCall
    <3>5. QED BY <2>1, <3>1, <3>2, <3>3, <3>4 DEF LoopStep
  <2>2. CASE AgentTask(t) \/ TextTask(t) \/ ToolTask(t)
    <3>1. CASE \E label \in {"model", "call"} : Begin(t, label)
      BY <3>1 DEF Begin
    <3>2. CASE /\ ToolTask(t) /\ at[t] = "call" /\ UNCHANGED records
               /\ at' = [at EXCEPT ![t] = "number"]
      BY <3>2
    <3>3. QED BY <2>2, <3>1, <3>2 DEF AgentTask, TextTask, ToolTask, RecordThen
  <2>3. CASE AttemptFails(t) \/ GiveUp(t) \/ Expire(t)
    BY <2>3 DEF AttemptFails, GiveUp, Expire, End
  <2>4. QED BY <1>4, <2>1, <2>2, <2>3 DEF TaskStep
<1>5. CASE Synthesize
  BY <1>1, <1>5 DEF Synthesize, Begin
<1>6. CASE UNCHANGED loopVars
  BY <1>1, <1>6 DEF loopVars
<1>7. QED
  BY <1>1, <1>2, <1>3, <1>4, <1>5, <1>6 DEF LoopNext

\* No two steps of a run get the same number, so the unique key never refuses one
\* (stepRecorder.prepare, CreateAgentStep).
THEOREM StepsAreNotRejected == LoopSpec => []NoStepRejected
<1>1. LoopInit => Numbered
  BY DEF LoopInit, Numbered
<1>2. Numbered => NoStepRejected
  BY DEF Numbered, NoStepRejected
<1>3. QED BY <1>1, <1>2, LoopInitTyped, LoopStepTyped, StepNumbers, PTL DEF LoopSpec

-----------------------------------------------------------------------------
(* The batches. *)

\* Tasks have nothing to do with each other's calls.
LEMMA OthersAlone ==
  ASSUME LoopTypeOK, WriterRunsAlone, NEW t \in Loop,
         \A u \in Loop : u # t => /\ at'[u] = at[u] /\ calls'[u] = calls[u]
                                  /\ status'[u] = status[u],
         \A i \in DOMAIN calls'[t] :
           /\ status'[t][i] = "running" => at'[t] = "batch"
           /\ status'[t][i] = "running" /\ calls'[t][i] \in WriteTools
                => {j \in DOMAIN calls'[t] : status'[t][j] = "running"} = {i}
  PROVE  WriterRunsAlone'
BY DEF WriterRunsAlone, Calls

LEMMA StepAlone == LoopTypeOK /\ WriterRunsAlone /\ [LoopNext]_loopVars => WriterRunsAlone'
<1> SUFFICES ASSUME LoopTypeOK, WriterRunsAlone, [LoopNext]_loopVars PROVE WriterRunsAlone'
  OBVIOUS
<1> USE DEF LoopTypeOK, Move, RecordThen
\* A task whose calls do not change, and which does not leave a batch.
<1>1. ASSUME NEW t \in Loop, UNCHANGED <<calls, status>>, at[t] # "batch",
             \A u \in Loop : u # t => at'[u] = at[u]
      PROVE  WriterRunsAlone'
  BY <1>1, OthersAlone DEF WriterRunsAlone
\* A task that has no calls any more.
<1>2. ASSUME NEW t \in Loop,
             calls' = [calls EXCEPT ![t] = << >>], status' = [status EXCEPT ![t] = << >>],
             \A u \in Loop : u # t => at'[u] = at[u]
      PROVE  WriterRunsAlone'
  <2>1. DOMAIN calls'[t] = {}
    BY <1>2
  <2>2. QED BY <1>2, <2>1, OthersAlone
<1>3. ASSUME NEW t \in Loop, End(t) PROVE WriterRunsAlone'
  BY <1>2, <1>3 DEF End, Forget
<1>4. ASSUME NEW t \in Loop, \E label \in {"model", "call"} : Begin(t, label), at[t] # "batch"
      PROVE  WriterRunsAlone'
  BY <1>1, <1>4 DEF Begin
<1>5. ASSUME NEW t \in Loop, TaskStep(t) PROVE WriterRunsAlone'
  <2>1. CASE AgentTask(t) \/ TextTask(t) \/ (ToolTask(t) /\ Due(t))
    <3>1. at[t] # "batch" /\ \E label \in {"model", "call"} : Begin(t, label)
      BY <2>1 DEF AgentTask, TextTask, ToolTask, Due
    <3>2. QED BY <1>4, <3>1
  <2>2. CASE ToolTask(t) /\ ~ Due(t)
    BY <1>1, <2>2 DEF ToolTask, locals
  <2>3. CASE AttemptFails(t) \/ GiveUp(t)
    BY <1>1, <1>3, <2>3 DEF AttemptFails, GiveUp, locals
  <2>4. CASE Number(t)
    BY <1>1, <2>4 DEF Number, locals
  <2>5. CASE RecordStep(t)
    BY <1>1, <1>2, <2>5 DEF RecordStep, Forget, locals
  <2>6. QED BY <1>5, <2>1, <2>2, <2>3, <2>4, <2>5 DEF TaskStep
<1>6. ASSUME NEW t \in Loop, OutOfTime(t) \/ ModelFails(t) \/ ModelAnswers(t) \/ Expire(t)
      PROVE  WriterRunsAlone'
  <2>1. CASE OutOfTime(t)
    BY <1>3, <2>1 DEF OutOfTime
  <2>2. CASE ModelFails(t) \/ ModelAnswers(t)
    BY <1>1, <2>2 DEF ModelFails, ModelAnswers, locals
  <2>3. CASE Expire(t)
    BY <2>3 DEF Expire, locals, WriterRunsAlone, Calls
  <2>4. QED BY <1>6, <2>1, <2>2, <2>3
<1>7. ASSUME NEW t \in Loop, NEW batch \in Batches(t), ModelCalls(t, batch) PROVE WriterRunsAlone'
  <2>1. CASE UNCHANGED <<calls, status>> /\ RecordThen(t, "end")
    BY <1>1, <1>7, <2>1 DEF ModelCalls
  <2>2. CASE /\ calls' = [calls EXCEPT ![t] = batch]
             /\ status' = [status EXCEPT ![t] = [i \in DOMAIN batch |-> "waiting"]]
             /\ Move(t, "batch")
    <3>1. /\ calls'[t] = batch /\ \A i \in DOMAIN batch : status'[t][i] = "waiting"
          /\ \A u \in Loop : u # t => /\ at'[u] = at[u] /\ calls'[u] = calls[u]
                                      /\ status'[u] = status[u]
      BY <2>2
    <3>2. QED BY <3>1, OthersAlone
  <2>3. QED BY <1>7, <2>1, <2>2 DEF ModelCalls
<1>8. ASSUME NEW t \in Loop, EndBatch(t) PROVE WriterRunsAlone'
  BY <1>2, <1>3, <1>8 DEF EndBatch
<1>9. ASSUME NEW t \in Loop, NEW i \in DOMAIN calls[t], StartCall(t, i) PROVE WriterRunsAlone'
  <2>1. /\ at[t] = "batch" /\ UNCHANGED <<at, calls>>
        /\ \E s \in {"running", "failed"} : status' = [status EXCEPT ![t][i] = s]
    BY <1>9 DEF StartCall
  <2>2. PICK n \in Nat : calls[t] \in [1 .. n -> Tools] /\ status[t] \in [1 .. n -> Status]
    BY DEF Paired
  <2>3. /\ status'[t][i] \in {"running", "failed"}
        /\ \A j \in DOMAIN calls[t] : j # i => status'[t][j] = status[t][j]
        /\ \A u \in Loop : u # t => status'[u] = status[u]
    BY <2>1, <2>2
  <2>4. CASE ToSet(calls[t]) \subseteq ReadTools
    <3>1. \A j \in DOMAIN calls[t] : calls[t][j] \notin WriteTools
      BY <2>4, LoopBounds DEF ToSet
    <3>2. QED BY <2>1, <2>3, <3>1, OthersAlone
  <2>5. CASE ~ ToSet(calls[t]) \subseteq ReadTools
    <3>1. Calls(t, "running") = {}
      BY <1>9, <2>5 DEF StartCall, MayStartCall, AllConcurrencySafe
    <3>2. \A j \in DOMAIN calls[t] : status[t][j] # "running"
      BY <3>1 DEF Calls
    <3>3. QED BY <2>1, <2>3, <3>2, OthersAlone
  <2>6. QED BY <2>4, <2>5
<1>10. ASSUME NEW t \in Loop, NEW i \in DOMAIN calls[t], EndCall(t, i) PROVE WriterRunsAlone'
  <2>1. /\ at[t] = "batch" /\ status[t][i] = "running" /\ UNCHANGED <<at, calls>>
        /\ \E s \in {"ok", "failed"} : status' = [status EXCEPT ![t][i] = s]
    BY <1>10 DEF EndCall
  <2>2. PICK n \in Nat : calls[t] \in [1 .. n -> Tools] /\ status[t] \in [1 .. n -> Status]
    BY DEF Paired
  <2>3. /\ status'[t][i] # "running"
        /\ \A j \in DOMAIN calls[t] : j # i => status'[t][j] = status[t][j]
        /\ \A u \in Loop : u # t => status'[u] = status[u]
    BY <2>1, <2>2
  <2>4. ASSUME NEW j \in DOMAIN calls[t], status'[t][j] = "running", calls[t][j] \in WriteTools
        PROVE  FALSE
    <3>1. Calls(t, "running") = {j}
      BY <2>3, <2>4 DEF WriterRunsAlone
    <3>2. i \in Calls(t, "running")
      BY <2>1 DEF Calls
    <3>3. QED BY <2>3, <2>4, <3>1, <3>2
  <2>5. QED BY <2>1, <2>3, <2>4, OthersAlone
<1>11. CASE Synthesize
  BY <1>4, <1>11 DEF Synthesize, Loop
<1>12. CASE UNCHANGED loopVars
  BY <1>12 DEF loopVars, locals, WriterRunsAlone, Calls
<1>13. QED
  BY <1>5, <1>6, <1>7, <1>8, <1>9, <1>10, <1>11, <1>12 DEF LoopNext, LoopStep

\* A tool that is not safe side by side has its batch to itself while it runs, and no call
\* runs outside its step (BatchExecutor).
THEOREM WritersRunAlone == LoopSpec => []WriterRunsAlone
<1>1. LoopInit => WriterRunsAlone
  BY DEF LoopInit, WriterRunsAlone
<1>2. QED BY <1>1, LoopInitTyped, LoopStepTyped, StepAlone, PTL DEF LoopSpec

-----------------------------------------------------------------------------
(* AgentRun. *)

\* Where a request is: not yet counted, about to be checked, at work, or on its way out.
Before == {"idle", "lock", "join", "follow", "slot"}
Past   == {"ask", "open", "work", "reply", "finish", "handOver", "charge"}
Out    == {"release", "leave", "end"}
Label  == Before \cup {"budget"} \cup Past \cup Out

TypeOK ==
  /\ pc \in [Requests -> Label]
  /\ flight \in [Keys -> Requests \cup {None}]
  /\ follows \in [Requests -> Requests \cup {None}]
  /\ lock \in [Keys -> Requests \cup {None}]
  /\ slots \in Nat /\ used \in Nat
  /\ holds \subseteq Requests /\ IsFiniteSet(holds)
  /\ outcome \in [Requests -> {"result", "error", None}]
  /\ tokens \in [Requests -> 0 .. MaxTokens]
  /\ record \in [Requests -> {"running", "finished", None}]
  /\ tasks \in Nat
  /\ process \in {"serving", "draining", "stopping", "closed"}
  /\ late \in BOOLEAN
  /\ outlived \subseteq Requests
  /\ overlooked \in Nat /\ leaked \in Nat
  /\ waved \subseteq Requests /\ IsFiniteSet(waved)

LEMMA KeysOfRequests == \A r \in Requests : Key[r] \in Keys
BY DEF Keys

LEMMA InitTyped == Init => TypeOK
<1> SUFFICES ASSUME Init PROVE TypeOK
  OBVIOUS
<1>1. IsFiniteSet({})
  BY FS_EmptySet
<1>2. 0 \in 0 .. MaxTokens
  BY RunBounds
<1>3. QED BY <1>1, <1>2 DEF Init, TypeOK, Label, Before

\* The steps of a request, and those of keys and processes, keep every type.
LEMMA RequestTyped ==
  ASSUME TypeOK, NEW r \in Requests, Run(r)
  PROVE  TypeOK'
<1> USE KeysOfRequests
<1> USE DEF TypeOK, Label, Before, Past, Out, Goto, Works, Fails,
            merging, quota, work, host
<1>1. CASE Request(r) BY <1>1 DEF Request
<1>2. CASE Lock(r)
  <2>1. /\ lock' \in {lock, [lock EXCEPT ![Key[r]] = r]}
        /\ pc' \in {[pc EXCEPT ![r] = "slot"], [pc EXCEPT ![r] = "end"]}
    BY <1>2 DEF Lock
  <2>2. UNCHANGED <<flight, follows, outlived, quota, record, work, host>>
    BY <1>2 DEF Lock
  <2>3. QED BY <2>1, <2>2
<1>3. CASE Join(r) BY <1>3 DEF Join
<1>4. CASE Share(r) BY <1>4 DEF Share
<1>5. CASE Slot(r)
  <2>1. IsFiniteSet(holds \cup {r}) /\ IsFiniteSet(waved \cup {r})
    BY FS_AddElement
  <2>2. /\ slots' \in Nat
        /\ holds' \in {holds, holds \cup {r}} /\ waved' \in {waved, waved \cup {r}}
        /\ pc' \in {[pc EXCEPT ![r] = "budget"], [pc EXCEPT ![r] = "leave"]}
        /\ UNCHANGED <<merging, used, overlooked, leaked, record, work, host>>
    BY <1>5 DEF Slot
  <2>3. pc' \in [Requests -> Label]
    BY <2>2
  <2>4. /\ holds' \subseteq Requests /\ IsFiniteSet(holds')
        /\ waved' \subseteq Requests /\ IsFiniteSet(waved')
    BY <2>1, <2>2
  <2>5. QED BY <2>2, <2>3, <2>4
<1>6. CASE Budget(r)
  <2>1. IsFiniteSet(waved \cup {r})
    BY FS_AddElement
  <2>2. QED BY <1>6, <2>1 DEF Budget, OnRefusal
<1>7. CASE Ask(r) BY <1>7 DEF Ask
<1>8. CASE Open(r) BY <1>8 DEF Open
<1>9. CASE WorkByPlan(r) BY <1>9 DEF WorkByPlan, Spent
<1>10. CASE WorkByLoop(r) BY <1>10 DEF WorkByLoop, Spent
<1>11. CASE Reply(r) BY <1>11 DEF Reply
<1>12. CASE Finish(r) BY <1>12 DEF Finish
<1>13. CASE HandOver(r) BY <1>13 DEF HandOver
<1>14. CASE Charge(r) BY <1>14, RunBounds DEF Charge
<1>15. CASE Release(r)
  <2>1. IsFiniteSet(holds \ {r})
    BY FS_RemoveElement
  <2>2. QED BY <1>15, <2>1 DEF Release
<1>16. CASE Leave(r) BY <1>16 DEF Leave, Released
<1>17. QED
  BY <1>1, <1>2, <1>3, <1>4, <1>5, <1>6, <1>7, <1>8, <1>9, <1>10, <1>11, <1>12, <1>13,
     <1>14, <1>15, <1>16 DEF Run

LEMMA OthersTyped ==
  ASSUME TypeOK, TaskEnds \/ Expiry \/ Process
  PROVE  TypeOK'
<1> USE DEF TypeOK, Label, Before, Past, Out, merging, quota, work, host
<1>1. Cardinality(holds) \in Nat
  BY FS_CardinalityType
<1>2. CASE TaskEnds BY <1>2 DEF TaskEnds
<1>3. ASSUME NEW k \in Keys, LoseLead(k) PROVE TypeOK'
  BY <1>3 DEF LoseLead
<1>4. ASSUME NEW k \in Keys, LockExpires(k) PROVE TypeOK'
  BY <1>4 DEF LockExpires
<1>5. CASE SlotsExpire BY <1>1, <1>5 DEF SlotsExpire
<1>6. CASE NewDay BY <1>6 DEF NewDay
<1>7. CASE Shutdown BY <1>7 DEF Shutdown
<1>8. CASE StopWorkers BY <1>8 DEF StopWorkers
<1>9. CASE CloseConnections BY <1>9 DEF CloseConnections
<1>10. CASE Restart
  <2>1. IsFiniteSet({})
    BY FS_EmptySet
  <2>2. 0 \in 0 .. MaxTokens
    BY RunBounds
  <2>3. holds' = {} /\ leaked' \in Nat /\ tasks' = 0 /\ late' = FALSE /\ process' = "serving"
        /\ UNCHANGED <<lock, slots, used, overlooked, waved, record>>
    BY <1>1, <1>10 DEF Restart
  <2>4. pc' \in [Requests -> Label]
    BY <1>10 DEF Restart
  <2>5. /\ flight' \in [Keys -> Requests \cup {None}]
        /\ follows' \in [Requests -> Requests \cup {None}]
        /\ outlived' = {}
    BY <1>10 DEF Restart
  <2>6. /\ outcome' \in [Requests -> {"result", "error", None}]
        /\ tokens' \in [Requests -> 0 .. MaxTokens]
    BY <1>10, <2>2 DEF Restart
  <2>7. QED BY <2>1, <2>3, <2>4, <2>5, <2>6
<1>11. QED
  BY <1>2, <1>3, <1>4, <1>5, <1>6, <1>7, <1>8, <1>9, <1>10 DEF Expiry, Process

LEMMA StepTyped == TypeOK /\ [Next]_vars => TypeOK'
<1> SUFFICES ASSUME TypeOK, [Next]_vars PROVE TypeOK'
  OBVIOUS
<1>1. CASE \E r \in Requests : Run(r) BY <1>1, RequestTyped
<1>2. CASE TaskEnds \/ Expiry \/ Process BY <1>2, OthersTyped
<1>3. CASE UNCHANGED vars BY <1>3 DEF TypeOK, vars, merging, quota, work, host
<1>4. QED BY <1>1, <1>2, <1>3 DEF Next

\* Every type holds in every state of any set of requests, with any number of faults.
THEOREM RunsTypeCorrect == Spec => []TypeOK
BY InitTyped, StepTyped, PTL DEF Spec

-----------------------------------------------------------------------------
(* Streams. *)

\* A stream never goes through the single-flight.
StreamsDoNotJoin == \A r \in Streams : pc[r] \notin {"join", "follow"}

Alone == TypeOK /\ StreamsDoNotJoin /\ StreamKeepsItsLock

LEMMA StreamsAlone == Alone /\ [Next]_vars => StreamsDoNotJoin' /\ StreamKeepsItsLock'
<1> SUFFICES ASSUME Alone, [Next]_vars
             PROVE  StreamsDoNotJoin' /\ StreamKeepsItsLock'
  OBVIOUS
<1> USE KeysOfRequests, RunBounds
<1> USE DEF Alone, TypeOK, StreamsDoNotJoin, StreamKeepsItsLock, Streaming, Goto, merging
<1>1. ASSUME NEW r \in Requests, Request(r) PROVE StreamsDoNotJoin' /\ StreamKeepsItsLock'
  BY <1>1 DEF Request
<1>2. ASSUME NEW r \in Requests, Lock(r) PROVE StreamsDoNotJoin' /\ StreamKeepsItsLock'
  <2>1. UNCHANGED outlived
    BY <1>2 DEF Lock
  <2>2. CASE lock[Key[r]] = None /\ pc' \in {[pc EXCEPT ![r] = "slot"], [pc EXCEPT ![r] = "end"]}
             /\ lock' = [lock EXCEPT ![Key[r]] = r]
    BY <1>2, <2>1, <2>2 DEF Lock
  <2>3. CASE pc' = [pc EXCEPT ![r] = "end"] /\ lock' = lock
    BY <2>1, <2>3
  <2>4. QED BY <1>2, <2>2, <2>3 DEF Lock
<1>3. ASSUME NEW r \in Requests, Join(r) PROVE StreamsDoNotJoin' /\ StreamKeepsItsLock'
  BY <1>3 DEF Join
<1>4. ASSUME NEW r \in Requests, Share(r) PROVE StreamsDoNotJoin' /\ StreamKeepsItsLock'
  BY <1>4 DEF Share
<1>5. ASSUME NEW r \in Requests,
             Slot(r) \/ Budget(r) \/ Ask(r) \/ Open(r) \/ WorkByPlan(r) \/ WorkByLoop(r)
             \/ Reply(r) \/ Finish(r) \/ HandOver(r) \/ Charge(r) \/ Release(r)
      PROVE  StreamsDoNotJoin' /\ StreamKeepsItsLock'
  <2>1. UNCHANGED <<lock, outlived>> /\ pc[r] \notin {"idle", "lock", "end"}
    BY <1>5 DEF Slot, Budget, Ask, Open, WorkByPlan, WorkByLoop, Reply, Finish,
                HandOver, Charge, Release
  <2>2. \E label \in Label \ {"join", "follow"} : pc' = [pc EXCEPT ![r] = label]
    BY <1>5 DEF Slot, Budget, Ask, Open, WorkByPlan, WorkByLoop, Reply, Finish,
                HandOver, Charge, Release, OnRefusal, Label, Before, Past, Out
  <2>3. QED BY <2>1, <2>2
<1>6. ASSUME NEW r \in Requests, Leave(r) PROVE StreamsDoNotJoin' /\ StreamKeepsItsLock'
  <2>1. /\ pc' = [pc EXCEPT ![r] = "end"] /\ outlived' = outlived \ {r}
        /\ lock' \in {lock, [lock EXCEPT ![Key[r]] = Released(r)]}
    BY <1>6 DEF Leave
  <2>2. ASSUME NEW s \in Requests, s # r, lock[Key[s]] = s
        PROVE  lock'[Key[s]] = s
    BY <2>1, <2>2 DEF Released
  <2>3. QED BY <2>1, <2>2
<1>7. ASSUME NEW k \in Keys, LoseLead(k) PROVE StreamsDoNotJoin' /\ StreamKeepsItsLock'
  <2>1. PICK F \in SUBSET {r \in Requests : pc[r] = "follow" /\ follows[r] = flight[k]} :
          pc' = [r \in Requests |-> IF r \in F THEN "join" ELSE pc[r]]
    BY <1>7 DEF LoseLead
  <2>2. F \cap Streams = {} /\ UNCHANGED <<lock, outlived>>
    BY <1>7, <2>1 DEF LoseLead
  <2>3. \A r \in Streams : pc'[r] = pc[r]
    BY <2>1, <2>2
  <2>4. QED BY <2>2, <2>3
<1>8. ASSUME NEW k \in Keys, LockExpires(k) PROVE StreamsDoNotJoin' /\ StreamKeepsItsLock'
  BY <1>8 DEF LockExpires
<1>9. CASE TaskEnds \/ SlotsExpire \/ NewDay \/ Shutdown \/ StopWorkers \/ CloseConnections
  BY <1>9 DEF TaskEnds, SlotsExpire, NewDay, Shutdown, StopWorkers, CloseConnections
<1>10. CASE Restart
  <2>1. pc' = [r \in Requests |-> IF r \in Active THEN "end" ELSE pc[r]]
    BY <1>10 DEF Restart
  <2>2. \A r \in Requests : pc'[r] \in {"idle", "end"}
    BY <2>1 DEF Active
  <2>3. QED BY <2>2
<1>11. CASE UNCHANGED vars
  BY <1>11 DEF vars
<1>12. QED
  BY <1>1, <1>2, <1>3, <1>4, <1>5, <1>6, <1>7, <1>8, <1>9, <1>10, <1>11
     DEF Next, Run, Expiry, Process

\* A stream's lock is its own until it ends or the lock expires: no step of another request,
\* and no expiry of another's lock, takes it away (acquireRunLock, releaseRunLockScript).
THEOREM StreamsKeepTheirLocks == Spec => []StreamKeepsItsLock
<1>1. Init => Alone
  <2> SUFFICES ASSUME Init PROVE Alone
    OBVIOUS
  <2>1. \A r \in Requests : pc[r] = "idle"
    BY DEF Init
  <2>2. StreamsDoNotJoin /\ StreamKeepsItsLock
    BY <2>1, RunBounds DEF StreamsDoNotJoin, StreamKeepsItsLock, Streaming
  <2>3. QED BY <2>2, InitTyped DEF Alone
<1>2. Alone /\ [Next]_vars => Alone'
  BY StepTyped, StreamsAlone DEF Alone
<1>3. QED BY <1>1, <1>2, PTL DEF Spec, Alone

-----------------------------------------------------------------------------
(* The background tasks. *)

LEMMA TasksCounted == TypeOK /\ NoTaskAfterClose /\ [Next]_vars => NoTaskAfterClose'
<1> SUFFICES ASSUME TypeOK, NoTaskAfterClose, [Next]_vars PROVE NoTaskAfterClose'
  OBVIOUS
<1> USE DEF TypeOK, NoTaskAfterClose
<1>1. ASSUME NEW r \in Requests, Run(r), ~ HandOver(r) PROVE NoTaskAfterClose'
  <2>1. UNCHANGED host
    BY <1>1 DEF Run, Request, Lock, Join, Share, Slot, Budget, Ask, Open, WorkByPlan,
                WorkByLoop, Reply, Finish, Charge, Release, Leave
  <2>2. QED BY <2>1 DEF host
<1>2. ASSUME NEW r \in Requests, HandOver(r) PROVE NoTaskAfterClose'
  BY <1>2 DEF HandOver, PoolTakes
<1>3. CASE TaskEnds BY <1>3 DEF TaskEnds
<1>4. CASE Expiry
  BY <1>4 DEF Expiry, LoseLead, LockExpires, SlotsExpire, NewDay, host
<1>5. CASE Process
  BY <1>5 DEF Process, Shutdown, StopWorkers, CloseConnections, Restart
<1>6. CASE UNCHANGED vars BY <1>6 DEF vars, host
<1>7. QED BY <1>1, <1>2, <1>3, <1>4, <1>5, <1>6 DEF Next

\* Whatever a request hands over, and however late: after the connections are closed there
\* are background tasks only if main gave up waiting for them (asyncPool.Go, main).
THEOREM NoTasksAfterClose == Spec => []NoTaskAfterClose
<1>1. Init => NoTaskAfterClose
  BY DEF Init, NoTaskAfterClose
<1>2. QED BY <1>1, TasksCounted, InitTyped, StepTyped, PTL DEF Spec

-----------------------------------------------------------------------------
(* The quota. *)

\* Who has a slot is between taking and giving it back; the counter is within the limit and
\* differs from the slots in use by those overlooked and those leaked.
Counted ==
  /\ \A r \in holds : pc[r] \in {"budget", "release"} \cup Past
  /\ slots <= MaxConcurrentRuns
  /\ Cardinality(holds) <= slots + overlooked
  /\ slots <= Cardinality(holds) + leaked

LEMMA StepCounts == TypeOK /\ Counted /\ [Next]_vars => Counted'
<1> SUFFICES ASSUME TypeOK, Counted, [Next]_vars PROVE Counted'
  OBVIOUS
<1>0. Cardinality(holds) \in Nat
  BY FS_CardinalityType DEF TypeOK
<1> USE DEF TypeOK, Counted, Goto
<1>1. ASSUME NEW r \in Requests,
             Request(r) \/ Lock(r) \/ Join(r) \/ Share(r) \/ Budget(r) \/ Ask(r) \/ Open(r)
             \/ WorkByPlan(r) \/ WorkByLoop(r) \/ Reply(r) \/ Finish(r) \/ HandOver(r)
             \/ Charge(r) \/ Leave(r)
      PROVE  Counted'
  <2>1. UNCHANGED <<slots, holds, overlooked, leaked>>
    BY <1>1 DEF Request, Lock, Join, Share, Budget, Ask, Open, WorkByPlan, WorkByLoop,
                Reply, Finish, HandOver, Charge, Leave, quota
  <2>2. CASE pc[r] \notin {"budget"} \cup Past
    <3>1. \E label \in Label : pc' = [pc EXCEPT ![r] = label]
      BY <1>1, <2>2 DEF Request, Lock, Join, Share, Budget, Ask, Open, WorkByPlan,
                WorkByLoop, Reply, Finish, HandOver, Charge, Leave, Label, Before, Past, Out
    <3>2. r \notin holds
      BY <1>1, <2>2 DEF Request, Lock, Join, Share, Budget, Ask, Open, WorkByPlan,
                WorkByLoop, Reply, Finish, HandOver, Charge, Leave, Past
    <3>3. QED BY <2>1, <3>1, <3>2
  <2>3. CASE pc[r] \in {"budget"} \cup Past
    <3>1. \E label \in Past \cup {"release"} : pc' = [pc EXCEPT ![r] = label]
      BY <1>1, <2>3 DEF Request, Lock, Join, Share, Budget, Ask, Open, WorkByPlan,
                WorkByLoop, Reply, Finish, HandOver, Charge, Leave, Past, OnRefusal
    <3>2. QED BY <2>1, <3>1
  <2>4. QED BY <2>2, <2>3
<1>2. ASSUME NEW r \in Requests, Slot(r) PROVE Counted'
  <2>1. r \notin holds
    BY <1>2 DEF Slot, Past
  <2>2. Cardinality(holds \cup {r}) = Cardinality(holds) + 1
    BY <2>1, FS_AddElement
  <2>3. CASE slots < MaxConcurrentRuns /\ slots' = slots + 1 /\ holds' = holds \cup {r}
             /\ pc' = [pc EXCEPT ![r] = "budget"]
    BY <1>0, <1>2, <2>2, <2>3, RunBounds DEF Slot
  <2>4. CASE UNCHANGED <<slots, holds>>
             /\ pc' \in {[pc EXCEPT ![r] = "budget"], [pc EXCEPT ![r] = "leave"]}
    BY <1>2, <2>1, <2>4 DEF Slot
  <2>5. QED BY <1>2, <2>3, <2>4 DEF Slot
<1>3. ASSUME NEW r \in Requests, Release(r) PROVE Counted'
  <2>1. UNCHANGED overlooked /\ pc' = [pc EXCEPT ![r] = "leave"] /\ holds' = holds \ {r}
    BY <1>3 DEF Release
  <2>2. CASE r \notin holds
    <3>1. UNCHANGED <<slots, holds, leaked>>
      BY <1>3, <2>2 DEF Release
    <3>2. QED BY <2>1, <2>2, <3>1
  <2>3. CASE r \in holds
    <3>1. Cardinality(holds \ {r}) = Cardinality(holds) - 1
      BY <2>3, FS_RemoveElement
    <3>2. Cardinality(holds \ {r}) \in Nat
      BY FS_RemoveElement, FS_CardinalityType
    <3>3. \/ slots' = (IF slots > 0 THEN slots - 1 ELSE 0) /\ UNCHANGED leaked
          \/ leaked' = leaked + 1 /\ UNCHANGED slots
      BY <1>3, <2>3 DEF Release
    <3>4. \A s \in holds' : pc'[s] \in {"budget", "release"} \cup Past
      BY <2>1
    <3>5. Cardinality(holds') = Cardinality(holds) - 1 /\ Cardinality(holds') \in Nat
      BY <2>1, <3>1, <3>2
    <3>6. slots' <= MaxConcurrentRuns /\ Cardinality(holds') <= slots' + overlooked'
          /\ slots' <= Cardinality(holds') + leaked'
      BY <1>0, <2>1, <3>3, <3>5, RunBounds
    <3>7. QED BY <3>4, <3>6
  <2>4. QED BY <2>2, <2>3
<1>4. CASE TaskEnds \/ NewDay \/ Shutdown \/ StopWorkers \/ CloseConnections
           \/ (\E k \in Keys : LockExpires(k))
  BY <1>4 DEF TaskEnds, NewDay, Shutdown, StopWorkers, CloseConnections, LockExpires, quota
<1>5. ASSUME NEW k \in Keys, LoseLead(k) PROVE Counted'
  <2>1. PICK F \in SUBSET {r \in Requests : pc[r] = "follow" /\ follows[r] = flight[k]} :
          pc' = [r \in Requests |-> IF r \in F THEN "join" ELSE pc[r]]
    BY <1>5 DEF LoseLead
  <2>2. UNCHANGED quota
    BY <1>5 DEF LoseLead
  <2>3. \A r \in holds : r \notin F
    BY <2>1 DEF Past
  <2>4. QED BY <2>1, <2>2, <2>3 DEF quota
<1>6. CASE SlotsExpire
  BY <1>0, <1>6, RunBounds DEF SlotsExpire
<1>7. CASE Restart
  <2>1. holds' = {} /\ leaked' = leaked + Cardinality(holds) /\ UNCHANGED <<slots, overlooked>>
    BY <1>7 DEF Restart
  <2>2. Cardinality(holds') = 0
    BY <2>1, FS_EmptySet
  <2>3. QED BY <1>0, <2>1, <2>2, RunBounds
<1>8. CASE UNCHANGED vars
  BY <1>8 DEF vars, quota
<1>9. QED
  BY <1>1, <1>2, <1>3, <1>4, <1>5, <1>6, <1>7, <1>8 DEF Next, Run, Expiry, Process

LEMMA InitCounts == Init => Counted
<1>1. Cardinality({}) = 0
  BY FS_EmptySet
<1>2. QED BY <1>1, RunBounds DEF Init, Counted

\* The counter and the runs agree up to what expiries, failing releases and lost processes
\* account for (acquireRunSlot, releaseSlotScript).
THEOREM SlotsAndRunsMatch == Spec => []SlotsMatchRuns
<1>1. ASSUME TypeOK, Counted PROVE SlotsMatchRuns
  <2>1. holds \cap Active = holds
    BY <1>1 DEF TypeOK, Counted, Active, Past
  <2>2. QED BY <1>1, <2>1 DEF Counted, SlotsMatchRuns
<1>2. QED BY <1>1, InitTyped, StepTyped, InitCounts, StepCounts, PTL DEF Spec

-----------------------------------------------------------------------------
(* The budget. *)

\* The requests that may still be charged, having passed the check or passing it unchecked.
Spenders == {r \in Requests : pc[r] \in Past} \cup {r \in waved : pc[r] = "budget"}

\* How many more requests may pass the check while these run.
Room == MaxConcurrentRuns + overlooked + Cardinality(waved) - Cardinality(Spenders)

\* Who is past the slot has one or was waved, and nobody is waved before.
Passed ==
  /\ \A r \in waved : pc[r] \notin Before
  /\ \A r \in Requests : pc[r] \in {"budget"} \cup Past => r \in holds \cup waved

\* What is spent, and what those under way can spend, each at most MaxTokens.
Budgeted == Passed /\ used <= DailyTokenLimit - 1 + MaxTokens * Room

Quotas == TypeOK /\ Counted /\ Budgeted

\* There is room for every slot and every waved request.
LEMMA RoomLeft ==
  TypeOK /\ Counted /\ Passed
    => Room \in Nat /\ IsFiniteSet(Spenders) /\ Cardinality(Spenders) \in Nat
<1> SUFFICES ASSUME TypeOK, Counted, Passed
             PROVE  Room \in Nat /\ IsFiniteSet(Spenders) /\ Cardinality(Spenders) \in Nat
  OBVIOUS
<1>1. Spenders \subseteq holds \cup waved
  BY DEF Spenders, Passed
<1>2. IsFiniteSet(holds \cup waved)
  BY FS_Union DEF TypeOK
<1>3. /\ IsFiniteSet(Spenders) /\ Cardinality(Spenders) <= Cardinality(holds \cup waved)
      /\ Cardinality(Spenders) \in Nat /\ Cardinality(holds \cup waved) \in Nat
  BY <1>1, <1>2, FS_Subset, FS_CardinalityType
<1>4. /\ Cardinality(holds \cup waved)
           = Cardinality(holds) + Cardinality(waved) - Cardinality(holds \cap waved)
      /\ Cardinality(holds) \in Nat /\ Cardinality(waved) \in Nat
      /\ Cardinality(holds \cap waved) \in Nat
  BY FS_Union, FS_Intersection, FS_CardinalityType DEF TypeOK
<1>5. QED BY <1>3, <1>4, RunBounds DEF TypeOK, Counted, Room

LEMMA SpendMore ==
  ASSUME NEW m \in Nat, NEW a \in Nat, NEW b \in Nat, a <= b
  PROVE  m * a <= m * b /\ m * (a + 1) = m * a + m /\ m * a \in Nat /\ m * b \in Nat
<1>1. PICK c \in Nat : b = a + c
  <2>1. b - a \in Nat /\ b = a + (b - a)
    OBVIOUS
  <2>2. QED BY <2>1
<1>2. m * (a + c) = m * a + m * c /\ m * c >= 0 /\ m * (a + 1) = m * a + m
  OBVIOUS
<1>3. QED BY <1>1, <1>2

\* The three ways the two sides of the inequality may move.
LEMMA BudgetKept ==
  ASSUME NEW m \in Nat, NEW limit \in Nat \ {0}, NEW u \in Nat, NEW v \in Nat,
         NEW a \in Nat, NEW b \in Nat, u <= limit - 1 + m * a,
         \/ v <= u /\ a <= b
         \/ v <= u + m /\ a + 1 <= b
         \/ v <= limit - 1
  PROVE  v <= limit - 1 + m * b
<1>1. m * a \in Nat /\ m * b \in Nat /\ m * (a + 1) = m * a + m
  BY SpendMore
<1>2. CASE v <= u /\ a <= b
  <2>1. m * a <= m * b
    BY <1>2, SpendMore
  <2>2. QED BY <1>1, <1>2, <2>1
<1>3. CASE v <= u + m /\ a + 1 <= b
  <2>1. a + 1 \in Nat
    OBVIOUS
  <2>2. m * (a + 1) <= m * b
    BY <1>3, <2>1, SpendMore
  <2>3. QED BY <1>1, <1>3, <2>2
<1>4. CASE v <= limit - 1
  BY <1>1, <1>4
<1>5. QED BY <1>2, <1>3, <1>4

\* A request's step from before the slot leads to before it, out, or to the next check; past
\* the slot, on or out.
LEMMA StepPasses == TypeOK /\ Passed /\ [Next]_vars => Passed'
<1> SUFFICES ASSUME TypeOK, Passed, [Next]_vars PROVE Passed'
  OBVIOUS
<1> USE DEF TypeOK, Passed, Goto
<1>1. ASSUME NEW r \in Requests, Request(r) \/ Lock(r) \/ Join(r) \/ Share(r) PROVE Passed'
  <2>1. UNCHANGED <<holds, waved>> /\ pc[r] \in Before
    BY <1>1 DEF Request, Lock, Join, Share, quota, Before
  <2>2. \E label \in Before \cup {"end"} : pc' = [pc EXCEPT ![r] = label]
    BY <1>1 DEF Request, Lock, Join, Share, Before
  <2>3. QED BY <2>1, <2>2 DEF Before, Past
<1>2. ASSUME NEW r \in Requests, Slot(r) PROVE Passed'
  <2>1. \/ pc' = [pc EXCEPT ![r] = "budget"] /\ r \in holds' \cup waved'
        \/ pc' = [pc EXCEPT ![r] = "leave"] /\ UNCHANGED <<holds, waved>>
    BY <1>2 DEF Slot
  <2>2. holds \subseteq holds' /\ waved \subseteq waved' /\ waved' \subseteq waved \cup {r}
    BY <1>2 DEF Slot
  <2>3. QED BY <2>1, <2>2 DEF Before, Past
<1>3. ASSUME NEW r \in Requests,
             Budget(r) \/ Ask(r) \/ Open(r) \/ WorkByPlan(r) \/ WorkByLoop(r) \/ Reply(r)
             \/ Finish(r) \/ HandOver(r) \/ Charge(r)
      PROVE  Passed'
  <2>1. UNCHANGED holds /\ waved \subseteq waved' /\ waved' \subseteq waved \cup {r}
        /\ pc[r] \in {"budget"} \cup Past
    BY <1>3 DEF Budget, Ask, Open, WorkByPlan, WorkByLoop, Reply, Finish, HandOver, Charge,
                quota, Past
  <2>2. \E label \in Past \cup {"release"} : pc' = [pc EXCEPT ![r] = label]
    BY <1>3 DEF Budget, Ask, Open, WorkByPlan, WorkByLoop, Reply, Finish, HandOver, Charge,
                OnRefusal, Past
  <2>3. QED BY <2>1, <2>2 DEF Before, Past
<1>4. ASSUME NEW r \in Requests, Release(r) PROVE Passed'
  <2>1. pc' = [pc EXCEPT ![r] = "leave"] /\ holds' = holds \ {r} /\ waved' = waved
    BY <1>4 DEF Release
  <2>2. QED BY <2>1 DEF Before, Past
<1>5. ASSUME NEW r \in Requests, Leave(r) PROVE Passed'
  BY <1>5 DEF Leave, quota, Before, Past
<1>6. ASSUME NEW k \in Keys, LoseLead(k) PROVE Passed'
  <2>1. PICK F \in SUBSET {r \in Requests : pc[r] = "follow" /\ follows[r] = flight[k]} :
          pc' = [r \in Requests |-> IF r \in F THEN "join" ELSE pc[r]]
    BY <1>6 DEF LoseLead
  <2>2. UNCHANGED quota
    BY <1>6 DEF LoseLead
  <2>3. \A r \in waved : r \notin F
    BY <2>1 DEF Before
  <2>4. QED BY <2>1, <2>2, <2>3 DEF quota, Before, Past
<1>7. CASE TaskEnds \/ SlotsExpire \/ NewDay \/ Shutdown \/ StopWorkers \/ CloseConnections
           \/ (\E k \in Keys : LockExpires(k))
  BY <1>7 DEF TaskEnds, SlotsExpire, NewDay, Shutdown, StopWorkers, CloseConnections,
              LockExpires, quota
<1>8. CASE Restart
  <2>1. pc' = [r \in Requests |-> IF r \in Active THEN "end" ELSE pc[r]] /\ waved' = waved
    BY <1>8 DEF Restart
  <2>2. \A r \in Requests : pc'[r] \in {"idle", "end"}
    BY <2>1 DEF Active
  <2>3. \A r \in waved : pc'[r] = "end"
    BY <2>1 DEF Active, Before
  <2>4. QED BY <2>1, <2>2, <2>3 DEF Before, Past
<1>9. CASE UNCHANGED vars BY <1>9 DEF vars, quota
<1>10. QED
  BY <1>1, <1>2, <1>3, <1>4, <1>5, <1>6, <1>7, <1>8, <1>9 DEF Next, Run, Expiry, Process

LEMMA StepBudgets == Quotas /\ [Next]_vars => Budgeted'
<1> SUFFICES ASSUME Quotas, [Next]_vars PROVE Budgeted'
  OBVIOUS
<1>1. TypeOK /\ Counted /\ Passed
  BY DEF Quotas, Budgeted
<1>2. TypeOK' /\ Counted' /\ Passed'
  BY <1>1, StepTyped, StepCounts, StepPasses
<1>3. Room \in Nat /\ IsFiniteSet(Spenders) /\ Cardinality(Spenders) \in Nat
  BY <1>1, RoomLeft
<1>4. Room' \in Nat /\ IsFiniteSet(Spenders') /\ Cardinality(Spenders') \in Nat
  <2>1. (TypeOK /\ Counted /\ Passed
           => Room \in Nat /\ IsFiniteSet(Spenders) /\ Cardinality(Spenders) \in Nat)'
    BY RoomLeft, PTL
  <2>2. QED BY <1>2, <2>1
<1>5. /\ used \in Nat /\ used' \in Nat /\ used <= DailyTokenLimit - 1 + MaxTokens * Room
      /\ MaxTokens \in Nat /\ DailyTokenLimit \in Nat \ {0}
  BY <1>1, <1>2, RunBounds DEF TypeOK, Quotas, Budgeted
<1>6. Cardinality(waved) \in Nat /\ Cardinality(holds) \in Nat
  BY <1>1, FS_CardinalityType DEF TypeOK
<1>7. ASSUME \/ used' <= used /\ Room <= Room'
             \/ used' <= used + MaxTokens /\ Room + 1 <= Room'
             \/ used' <= DailyTokenLimit - 1
      PROVE  Budgeted'
  BY <1>2, <1>3, <1>4, <1>5, <1>7, BudgetKept DEF Budgeted
<1>8. ASSUME used' <= used, overlooked <= overlooked', UNCHANGED waved,
             Spenders' \subseteq Spenders
      PROVE  Budgeted'
  <2>1. Cardinality(Spenders') <= Cardinality(Spenders)
    BY <1>3, <1>8, FS_Subset
  <2>2. Room <= Room'
    BY <1>1, <1>2, <1>3, <1>4, <1>6, <1>8, <2>1, RunBounds DEF Room, TypeOK
  <2>3. QED BY <1>7, <1>8, <2>2
<1>9. ASSUME NEW r \in Requests, Slot(r) \/ Budget(r), waved' # waved PROVE Budgeted'
  <2>1. /\ UNCHANGED <<used, overlooked>> /\ waved' = waved \cup {r} /\ r \notin waved
        /\ \E label \in {"budget", "ask"} : pc' = [pc EXCEPT ![r] = label]
    BY <1>9 DEF Slot, Budget, Goto
  <2>2. Spenders' \subseteq Spenders \cup {r}
    BY <1>1, <2>1 DEF Spenders, Past, TypeOK
  <2>3. Cardinality(Spenders') <= Cardinality(Spenders) + 1
    <3>1. IsFiniteSet(Spenders \cup {r})
          /\ Cardinality(Spenders \cup {r})
               = IF r \in Spenders THEN Cardinality(Spenders) ELSE Cardinality(Spenders) + 1
      BY <1>3, FS_AddElement
    <3>2. QED BY <1>3, <1>4, <2>2, <3>1, FS_Subset, FS_CardinalityType
  <2>4. Cardinality(waved') = Cardinality(waved) + 1
    BY <1>1, <2>1, FS_AddElement DEF TypeOK
  <2>5. Room <= Room'
    BY <1>1, <1>3, <1>4, <1>6, <2>1, <2>3, <2>4, RunBounds DEF Room, TypeOK
  <2>6. QED BY <1>5, <1>7, <2>1, <2>5
<1>10. ASSUME NEW r \in Requests, Slot(r), waved' = waved PROVE Budgeted'
  <2>1. /\ UNCHANGED <<used, overlooked>>
        /\ \E label \in {"budget", "leave"} : pc' = [pc EXCEPT ![r] = label]
        /\ pc[r] = "slot"
    BY <1>10 DEF Slot, Goto
  <2>2. Spenders' \subseteq Spenders
    BY <1>1, <1>10, <2>1 DEF Spenders, Past, TypeOK, Passed, Before
  <2>3. QED BY <1>1, <1>5, <1>8, <1>10, <2>1, <2>2 DEF TypeOK
<1>11. ASSUME NEW r \in Requests, Budget(r), waved' = waved PROVE Budgeted'
  <2>1. UNCHANGED <<used, overlooked>> /\ pc[r] = "budget"
    BY <1>11 DEF Budget
  <2>2. CASE WithinBudget
    BY <1>5, <1>7, <2>1, <2>2 DEF WithinBudget
  <2>3. CASE ~ WithinBudget
    <3>1. pc' = [pc EXCEPT ![r] = "release"] \/ r \in waved
      BY <1>11, <2>3 DEF Budget, Goto, OnRefusal
    <3>2. \E label \in {"release", "ask"} : pc' = [pc EXCEPT ![r] = label]
      BY <1>11, <2>3 DEF Budget, Goto, OnRefusal
    <3>3. Spenders' \subseteq Spenders
      BY <1>1, <1>11, <2>1, <3>1, <3>2 DEF Spenders, Past, TypeOK
    <3>4. QED BY <1>1, <1>5, <1>8, <1>11, <2>1, <3>3 DEF TypeOK
  <2>4. QED BY <2>2, <2>3
<1>12. ASSUME NEW r \in Requests, Charge(r) PROVE Budgeted'
  <2>1. /\ pc[r] = "charge" /\ pc' = [pc EXCEPT ![r] = "release"]
        /\ UNCHANGED <<overlooked, waved>> /\ used' \in {used, used + tokens[r]}
    BY <1>12 DEF Charge, Goto
  <2>2. tokens[r] \in 0 .. MaxTokens
    BY <1>1 DEF TypeOK
  <2>3. used' <= used + MaxTokens
    BY <1>5, <2>1, <2>2
  <2>4. Spenders' = Spenders \ {r} /\ r \in Spenders
    BY <1>1, <2>1 DEF Spenders, Past, TypeOK
  <2>5. Cardinality(Spenders') = Cardinality(Spenders) - 1
    BY <1>3, <2>4, FS_RemoveElement
  <2>6. Room + 1 <= Room'
    BY <1>1, <1>3, <1>4, <1>6, <2>1, <2>5, RunBounds DEF Room, TypeOK
  <2>7. QED BY <1>7, <2>3, <2>6
<1>13. ASSUME NEW r \in Requests,
              Request(r) \/ Lock(r) \/ Join(r) \/ Share(r) \/ Ask(r) \/ Open(r)
              \/ WorkByPlan(r) \/ WorkByLoop(r) \/ Reply(r) \/ Finish(r) \/ HandOver(r)
              \/ Release(r) \/ Leave(r)
       PROVE  Budgeted'
  <2>1. UNCHANGED <<used, overlooked, waved>>
    BY <1>13 DEF Request, Lock, Join, Share, Ask, Open, WorkByPlan, WorkByLoop, Reply,
                 Finish, HandOver, Release, Leave, quota
  <2>2. \E label \in Label \ {"budget"} :
          pc' = [pc EXCEPT ![r] = label] /\ (label \in Past => pc[r] \in Past)
    BY <1>13 DEF Request, Lock, Join, Share, Ask, Open, WorkByPlan, WorkByLoop, Reply,
                 Finish, HandOver, Release, Leave, Goto, Label, Before, Past, Out
  <2>3. Spenders' \subseteq Spenders
    BY <1>1, <2>1, <2>2 DEF Spenders, TypeOK
  <2>4. QED BY <1>1, <1>5, <1>8, <2>1, <2>3 DEF TypeOK
<1>14. CASE TaskEnds \/ NewDay \/ SlotsExpire \/ Shutdown \/ StopWorkers \/ CloseConnections
            \/ (\E k \in Keys : LockExpires(k)) \/ UNCHANGED vars
  <2>1. used' <= used /\ overlooked <= overlooked' /\ UNCHANGED <<pc, waved>>
    BY <1>1, <1>6, <1>14 DEF TaskEnds, NewDay, SlotsExpire, Shutdown, StopWorkers,
          CloseConnections, LockExpires, vars, quota, TypeOK
  <2>2. QED BY <1>8, <2>1 DEF Spenders
<1>15. ASSUME NEW k \in Keys, LoseLead(k) PROVE Budgeted'
  <2>1. \E F \in SUBSET {r \in Requests : pc[r] = "follow" /\ follows[r] = flight[k]} :
          pc' = [r \in Requests |-> IF r \in F THEN "join" ELSE pc[r]]
    BY <1>15 DEF LoseLead
  <2>2. UNCHANGED <<used, overlooked, waved>>
    BY <1>15 DEF LoseLead, quota
  <2>3. Spenders' \subseteq Spenders
    BY <1>1, <2>1, <2>2 DEF Spenders, Past, TypeOK
  <2>4. QED BY <1>1, <1>5, <1>8, <2>2, <2>3 DEF TypeOK
<1>16. CASE Restart
  <2>1. UNCHANGED <<used, overlooked, waved>>
        /\ pc' = [r \in Requests |-> IF r \in Active THEN "end" ELSE pc[r]]
    BY <1>16 DEF Restart
  <2>2. Spenders' \subseteq Spenders
    BY <1>1, <2>1 DEF Spenders, Past, Active, TypeOK
  <2>3. QED BY <1>1, <1>5, <1>8, <2>1, <2>2 DEF TypeOK
<1>17. QED
  BY <1>9, <1>10, <1>11, <1>12, <1>13, <1>14, <1>15, <1>16 DEF Next, Run, Expiry, Process

\* However many runs pass the check side by side, the day's tokens exceed the limit by no more
\* than these runs may spend (checkDailyTokenQuota, addDailyTokens).
THEOREM OverdraftIsBounded == Spec => []BudgetIsOverdrawnByRunsUnderWay
<1>1. Init => Budgeted
  <2> SUFFICES ASSUME Init PROVE Budgeted
    OBVIOUS
  <2>1. TypeOK /\ Counted
    BY InitTyped, InitCounts
  <2>2. Passed
    BY DEF Init, Passed, Past
  <2>3. Room \in Nat
    BY <2>1, <2>2, RoomLeft
  <2>4. MaxTokens * Room \in Nat
    <3>1. MaxTokens \in Nat /\ Room <= Room
      BY <2>3, RunBounds
    <3>2. QED BY <2>3, <3>1, SpendMore
  <2>5. QED BY <2>2, <2>4, RunBounds DEF Init, Budgeted
<1>2. Quotas => BudgetIsOverdrawnByRunsUnderWay
  <2> SUFFICES ASSUME Quotas PROVE BudgetIsOverdrawnByRunsUnderWay
    OBVIOUS
  <2> DEFINE bound == MaxConcurrentRuns + overlooked + Cardinality(waved)
  <2>1. Room \in Nat /\ bound \in Nat /\ Room <= bound
    <3>1. Room \in Nat /\ Cardinality(Spenders) \in Nat
      BY RoomLeft DEF Quotas, Budgeted
    <3>2. Cardinality(waved) \in Nat /\ overlooked \in Nat /\ MaxConcurrentRuns \in Nat
      BY FS_CardinalityType, RunBounds DEF Quotas, TypeOK
    <3>3. QED BY <3>1, <3>2 DEF Room
  <2>2. MaxTokens * Room <= MaxTokens * bound /\ MaxTokens * Room \in Nat
        /\ MaxTokens * bound \in Nat
    BY <2>1, RunBounds, SpendMore
  <2>3. used \in Nat /\ used <= DailyTokenLimit - 1 + MaxTokens * Room
    BY DEF Quotas, Budgeted, TypeOK
  <2>4. QED BY <2>2, <2>3, RunBounds DEF BudgetIsOverdrawnByRunsUnderWay
<1>3. QED
  BY <1>1, <1>2, InitTyped, StepTyped, InitCounts, StepCounts, StepBudgets, PTL
  DEF Spec, Quotas
=============================================================================
