------------------------------ MODULE AgentLoop ------------------------------
(***************************************************************************)
(* The tasks of one plan as they are carried out: agent tasks run the      *)
(* ReAct loop (ask the model, run the tools it calls, ask again), text     *)
(* tasks run it once with no tools, tool tasks make one call.  A task that *)
(* fails for a passing reason is tried again.  All tasks of a run record   *)
(* their steps in one table, where (run_id, step_index) is unique.         *)
(*                                                                         *)
(* Which tasks run when is the scheduler's business (PlanScheduler); here  *)
(* all of them run side by side.  A tool call stands for a tool with its   *)
(* arguments; what the model says and what tools return is left open.      *)
(*                                                                         *)
(* Bounds: MaxCalls (calls in one answer of the model), MaxSteps,          *)
(* MaxAttempts, MaxExpired (tasks out of time at once).                    *)
(***************************************************************************)
EXTENDS Integers, Sequences, FiniteSets, SequencesExt

CONSTANTS
  AgentTasks, ToolTasks, TextTasks,
  Once,              \* tasks whose own max_attempts is one
  Synthesis,         \* the text loop that makes the answer when all tasks have ended
  ReadTools,         \* read-only, and safe to run side by side
  WriteTools,        \* neither
  Unknown,           \* a tool the model has made up
  MaxSteps, MaxRepeatActions, MaxToolFailures, MaxParallel, MaxAttempts,
  MaxCalls, MaxExpired

Task == AgentTasks \cup ToolTasks \cup TextTasks
Loop == Task \cup {Synthesis}

ASSUME LoopBounds ==
  /\ {MaxSteps, MaxRepeatActions, MaxToolFailures, MaxParallel, MaxAttempts, MaxCalls, MaxExpired}
       \subseteq Nat \ {0}
  /\ ReadTools \cap WriteTools = {} /\ Unknown \notin ReadTools \cup WriteTools
  /\ Synthesis \notin Task /\ Once \subseteq Task
  /\ AgentTasks \cap ToolTasks = {} /\ TextTasks \cap (AgentTasks \cup ToolTasks) = {}

VARIABLES
  at,         \* where a task is
  then,       \* what it does when its step is recorded
  attempt, step,
  calls,      \* the calls of the model's last answer
  status,     \* what has become of each of them
  failures,   \* consecutive failures of tools
  last, repeats,   \* the calls of the step before, how often they came in a row
  sideEffects,     \* a tool that is not read-only is in the transcript
  index,      \* the number of the step being recorded
  expired,    \* tasks whose time is up, or whose run was canceled
  seq,        \* the run's counter of steps
  recorded,   \* MySQL: the numbers of the run's steps
  rejected,   \* history: a step was refused because its number was taken
  effects     \* history: attempts in which a tool that writes was run

locals  == <<attempt, step, calls, status, failures, last, repeats, sideEffects>>
records == <<index, seq, recorded, rejected>>
loopVars == <<at, then, locals, records, expired, effects>>

LoopInit ==
  /\ at = [t \in Loop |-> "idle"] /\ then = [t \in Loop |-> "end"]
  /\ attempt = [t \in Loop |-> 0] /\ step = [t \in Loop |-> 0]
  /\ calls = [t \in Loop |-> << >>] /\ status = [t \in Loop |-> << >>]
  /\ failures = [t \in Loop |-> 0]
  /\ last = [t \in Loop |-> << >>] /\ repeats = [t \in Loop |-> 0]
  /\ sideEffects = [t \in Loop |-> FALSE]
  /\ index = [t \in Loop |-> 0]
  /\ expired = {} /\ seq = 0 /\ recorded = {} /\ rejected = FALSE /\ effects = {}

Move(t, label) == at' = [at EXCEPT ![t] = label]
RecordThen(t, label) == Move(t, "number") /\ then' = [then EXCEPT ![t] = label]

\* A task has ended: what it leaves behind plays no role any more.
Forget(t) ==
  /\ step' = [step EXCEPT ![t] = 0] /\ failures' = [failures EXCEPT ![t] = 0]
  /\ calls' = [calls EXCEPT ![t] = << >>] /\ status' = [status EXCEPT ![t] = << >>]
  /\ last' = [last EXCEPT ![t] = << >>] /\ repeats' = [repeats EXCEPT ![t] = 0]
  /\ sideEffects' = [sideEffects EXCEPT ![t] = FALSE]
  /\ expired' = expired \ {t}
  /\ UNCHANGED attempt

End(t) == Move(t, "end") /\ Forget(t)

Registry(t) == IF t \in AgentTasks THEN ReadTools \cup WriteTools ELSE {}
Steps(t)    == IF t \in AgentTasks THEN MaxSteps ELSE 1
Attempts(t) == IF t \in Once \cup {Synthesis} THEN 1 ELSE MaxAttempts

-----------------------------------------------------------------------------
(* Attempts: executeTask. *)

\* A new attempt of a task that is due: the first, or another one after the backoff.
Due(t) == at[t] = "idle" \/ (at[t] = "retry" /\ t \notin expired)

\* It starts with an empty transcript.
Begin(t, label) ==
  /\ attempt' = [attempt EXCEPT ![t] = @ + 1]
  /\ step' = [step EXCEPT ![t] = 1]
  /\ failures' = [failures EXCEPT ![t] = 0]
  /\ last' = [last EXCEPT ![t] = << >>] /\ repeats' = [repeats EXCEPT ![t] = 0]
  /\ sideEffects' = [sideEffects EXCEPT ![t] = FALSE]
  /\ Move(t, label)
  /\ UNCHANGED <<then, calls, status, records, expired, effects>>

AgentTask(t) == t \in AgentTasks /\ Due(t) /\ Begin(t, "model")

\* runLLMTask: the loop without a tool.
TextTask(t) == t \in TextTasks /\ Due(t) /\ Begin(t, "model")

\* synthesize: a text loop over the results, when all tasks have ended.
Synthesize ==
  /\ at[Synthesis] = "idle" /\ \A t \in Task : at[t] = "end"
  /\ Begin(Synthesis, "model")

\* isRetryableError: the model or a tool failed or took too long; a cancellation, a wrong
\* argument or a refusal is final.
Errors     == {"upstream", "deadline", "canceled", "refused"}
Passing(e) == e \in {"upstream", "deadline"}

AfterError(e) == IF Passing(e) THEN "fail" ELSE "end"

\* Variant: a failed attempt is repeated whatever its tools have done.
Retryable_Always(t) == TRUE

\* In an agent task, a tool that may have written speaks against another attempt.
Retryable(t) == t \in AgentTasks => ~ sideEffects[t]

\* The attempt has failed, for a reason that may pass.
AttemptFails(t) ==
  /\ at[t] = "fail"
  /\ \/ /\ Retryable(t) /\ attempt[t] < Attempts(t) /\ t \notin expired
        /\ Move(t, "retry") /\ UNCHANGED <<locals, expired>>
     \/ /\ ~ Retryable(t) \/ attempt[t] >= Attempts(t) \/ t \in expired
        /\ End(t)
  /\ UNCHANGED <<then, records, effects>>

\* The context ends during the backoff.
GiveUp(t) ==
  /\ at[t] = "retry" /\ t \in expired
  /\ End(t)
  /\ UNCHANGED <<then, records, effects>>

\* The task's time is up, or the run is canceled.
Expire(t) ==
  /\ at[t] \notin {"idle", "end"} /\ t \notin expired /\ Cardinality(expired) < MaxExpired
  /\ expired' = expired \cup {t}
  /\ UNCHANGED <<at, then, locals, records, effects>>

-----------------------------------------------------------------------------
(* One step of the loop: Loop.Run. *)

\* The time is up before the model is asked: the task has no content and fails for good.
OutOfTime(t) ==
  /\ at[t] = "model" /\ t \in expired
  /\ End(t)
  /\ UNCHANGED <<then, records, effects>>

ModelFails(t) ==
  /\ at[t] = "model"
  /\ \E e \in Errors : RecordThen(t, AfterError(e))
  /\ UNCHANGED <<locals, records, expired, effects>>

\* No calls: the final answer.
ModelAnswers(t) ==
  /\ at[t] = "model" /\ t \notin expired
  /\ RecordThen(t, "end")
  /\ UNCHANGED <<locals, records, expired, effects>>

Batches(t) == UNION {[1 .. n -> Registry(t) \cup {Unknown}] : n \in 1 .. MaxCalls}

\* stepActionSignature: the calls, in no order.
Signature(batch) == [tool \in ToSet(batch) |-> Cardinality({i \in DOMAIN batch : batch[i] = tool})]

\* The model calls tools.  The same calls too often in a row end the loop; otherwise they
\* enter the transcript.
ModelCalls(t, batch) ==
  /\ at[t] = "model" /\ t \notin expired
  /\ LET n == IF Signature(batch) = last[t] THEN repeats[t] + 1 ELSE 1 IN
     /\ repeats' = [repeats EXCEPT ![t] = n]
     /\ last' = [last EXCEPT ![t] = Signature(batch)]
     /\ IF n >= MaxRepeatActions
        THEN RecordThen(t, "end") /\ UNCHANGED <<calls, status, sideEffects>>
        ELSE /\ calls' = [calls EXCEPT ![t] = batch]
             /\ status' = [status EXCEPT ![t] = [i \in DOMAIN batch |-> "waiting"]]
             /\ sideEffects' = [sideEffects EXCEPT ![t] = @ \/ ~ ToSet(batch) \subseteq ReadTools]
             /\ Move(t, "batch") /\ UNCHANGED then
  /\ UNCHANGED <<attempt, step, failures, records, expired, effects>>

-----------------------------------------------------------------------------
(* The batch of calls: BatchExecutor. *)

Calls(t, state) == {i \in DOMAIN calls[t] : status[t][i] = state}

\* Variant: one safe tool in the batch is enough.
AllConcurrencySafe_Any(batch) == ToSet(batch) \cap ReadTools # {}

AllConcurrencySafe(batch) == ToSet(batch) \subseteq ReadTools

\* Side by side as far as slots allow, or one after the other.
MayStartCall(t, i) ==
  /\ status[t][i] = "waiting"
  /\ IF MaxParallel > 1 /\ AllConcurrencySafe(calls[t])
     THEN Cardinality(Calls(t, "running")) < MaxParallel
     ELSE Calls(t, "running") = {} /\ \A j \in Calls(t, "waiting") : i <= j

\* runOne: an expired context or an unknown tool fails at once.
StartCall(t, i) ==
  /\ at[t] = "batch" /\ MayStartCall(t, i)
  /\ LET runs == t \notin expired /\ calls[t][i] \in Registry(t) IN
     /\ status' = [status EXCEPT ![t][i] = IF runs THEN "running" ELSE "failed"]
     /\ effects' = IF runs /\ calls[t][i] \in WriteTools
                   THEN effects \cup {<<t, attempt[t]>>} ELSE effects
  /\ UNCHANGED <<at, then, attempt, step, calls, failures, last, repeats, sideEffects,
                 records, expired>>

\* The tool returns, fails, panics, or runs out of time.
EndCall(t, i) ==
  /\ at[t] = "batch" /\ status[t][i] = "running"
  /\ \E o \in {"ok", "failed"} : status' = [status EXCEPT ![t][i] = o]
  /\ UNCHANGED <<at, then, attempt, step, calls, failures, last, repeats, sideEffects,
                 records, expired, effects>>

\* Failures counted in the order of the calls; a success resets the count.
Failures(n, outcomes) ==
  LET lastOk == SelectLastInSeq(outcomes, LAMBDA o : o = "ok")
  IN IF lastOk = 0 THEN n + Len(outcomes) ELSE Len(outcomes) - lastOk

\* All calls have an outcome; the results join the transcript.
EndBatch(t) ==
  /\ at[t] = "batch"
  /\ Calls(t, "waiting") = {} /\ Calls(t, "running") = {}
  /\ \/ t \in expired /\ End(t) /\ UNCHANGED then
     \/ /\ t \notin expired
        /\ LET n == Failures(failures[t], status[t]) IN
           /\ failures' = [failures EXCEPT ![t] = n]
           /\ IF n >= MaxToolFailures \/ step[t] = Steps(t)
              THEN RecordThen(t, "end") /\ UNCHANGED step
              ELSE RecordThen(t, "model") /\ step' = [step EXCEPT ![t] = @ + 1]
        /\ calls' = [calls EXCEPT ![t] = << >>] /\ status' = [status EXCEPT ![t] = << >>]
        /\ UNCHANGED <<attempt, last, repeats, sideEffects, expired>>
  /\ UNCHANGED <<records, effects>>

\* runToolTask: one call, of a read-only tool, with no loop around it.
ToolTask(t) ==
  \/ t \in ToolTasks /\ Due(t) /\ Begin(t, "call")
  \/ /\ at[t] = "call"
     /\ \/ RecordThen(t, "end")
        \/ \E e \in Errors : RecordThen(t, AfterError(e))
     /\ UNCHANGED <<locals, records, expired, effects>>

-----------------------------------------------------------------------------
(* The recorder of steps. *)

\* Variant: the loop's own number is kept.
StepIndex_OfLoop(t) == step[t]

\* prepare: the next number of the run.
StepIndex(t) == seq + 1

Number(t) ==
  /\ at[t] = "number"
  /\ index' = [index EXCEPT ![t] = StepIndex(t)]
  /\ seq' = seq + 1
  /\ Move(t, "record")
  /\ UNCHANGED <<then, locals, recorded, rejected, expired, effects>>

\* CreateAgentStep; an error is only logged.
RecordStep(t) ==
  /\ at[t] = "record"
  /\ recorded' = recorded \cup {index[t]}
  /\ rejected' = (rejected \/ index[t] \in recorded)
  /\ index' = [index EXCEPT ![t] = 0]
  /\ Move(t, then[t]) /\ then' = [then EXCEPT ![t] = "end"]
  /\ IF then[t] = "end" THEN Forget(t) ELSE UNCHANGED <<locals, expired>>
  /\ UNCHANGED <<seq, effects>>

-----------------------------------------------------------------------------
LoopStep(t) ==
  \/ OutOfTime(t) \/ ModelFails(t) \/ ModelAnswers(t)
  \/ \E batch \in Batches(t) : ModelCalls(t, batch)
  \/ EndBatch(t)
  \/ \E i \in 1 .. MaxCalls : i \in DOMAIN calls[t] /\ (StartCall(t, i) \/ EndCall(t, i))

TaskStep(t) ==
  \/ AgentTask(t) \/ TextTask(t) \/ ToolTask(t) \/ AttemptFails(t) \/ GiveUp(t)
  \/ Number(t) \/ RecordStep(t)

LoopNext == (\E t \in Loop : LoopStep(t) \/ TaskStep(t) \/ Expire(t)) \/ Synthesize

LoopSpec == LoopInit /\ [][LoopNext]_loopVars

-----------------------------------------------------------------------------
(* Properties. *)

\* "A task that has called a tool which is not read-only is not tried again" (the comments
\* at runAgentTask and transcriptUsedSideEffects): a tool that writes runs in one attempt
\* of a task only, also when its call failed or ran out of time.
SideEffectsNotRepeated ==
  \A e \in effects : attempt[e[1]] = e[2]

\* A tool that is not safe to run side by side has its batch to itself while it runs (head
\* of batch.go), and no call outlives its step of the loop.
WriterRunsAlone ==
  \A t \in Loop : \A i \in DOMAIN calls[t] :
    /\ status[t][i] = "running" => at[t] = "batch"
    /\ status[t][i] = "running" /\ calls[t][i] \in WriteTools => Calls(t, "running") = {i}

\* Tasks side by side and attempts one after the other never number a step alike, so none
\* is refused by the unique key (comment of stepRecorder).
NoStepRejected == ~ rejected
=============================================================================
