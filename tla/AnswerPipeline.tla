--------------------------- MODULE AnswerPipeline ---------------------------
(***************************************************************************)
(* services/interview/flow: AnswerPipeline.Execute for ONE interview, with *)
(* the flow state machine, the flow cache, the idempotency keys, the       *)
(* question lock and the score.  Calls run concurrently (double clicks,    *)
(* retries, several tabs, several instances); every Redis command after    *)
(* which another call may run is a step of its own.                        *)
(*                                                                         *)
(* A call whose context (120 s) is over can no longer reach Redis: for the *)
(* state it has crashed.  The TTLs of the lock and of the processing key   *)
(* (300 s) are longer than that, so they only run out on calls that have   *)
(* stopped.  The turn log (step 9) touches none of this state.             *)
(*                                                                         *)
(* Bounds: MaxEvalFailures, MaxScoreFailures and MaxCrashes in a behaviour. *)
(***************************************************************************)
EXTENDS Integers, FiniteSets

CONSTANTS
  Call,             \* calls of Execute
  Request,          \* request ids
  TotalQuestions, MaxFollowUp,
  CASRetries,       \* flowCASMaxRetries
  MaxEvalFailures, MaxScoreFailures, MaxCrashes,
  None

ASSUME InterviewBounds ==
  /\ TotalQuestions \in Nat \ {0}
  /\ MaxFollowUp \in Nat
  /\ CASRetries \in Nat \ {0}
  /\ MaxEvalFailures \in Nat /\ MaxScoreFailures \in Nat /\ MaxCrashes \in Nat

Main == 1 .. TotalQuestions

\* Question "m" is <<m, 0>> and its follow-up "m-Fk" is <<m, k>>.
Question == Main \X (0 .. MaxFollowUp)

ASSUME NoneIsFresh ==
  None \notin Call \cup Request \cup Question /\ None \notin {"ok", "replayed", "error"}

VARIABLES
  flow,        \* the interview's flow hash in Redis
  qlock,       \* interview:answer:lock, per question
  processing,  \* requests with a processing key
  replay,      \* requests with a stored response
  scored,      \* scores added to the sum, per main question
  pc,          \* where each call is inside Execute
  request,     \* the request a call carries
  about,       \* the question a request answers
  seen,        \* a call's flow as read under the lock (preEvalSnapshot)
  read,        \* MutateFlow's current
  tries,       \* MutateFlow's attempt
  move,        \* the mutator in use: "evaluate", "followUp" or "advance"
  mine,        \* the version the call's last mutation wrote
  outcome,     \* what Execute returned: "ok", "replayed", "error"
  applied,     \* history: how often a request has moved the interview on, undone moves left out
  evalFailures, scoreFailures, crashes, \* how many so far
  crossed      \* history: calls whose failing score, and its rollback, other calls have crossed

store  == <<flow, qlock, processing, replay, scored>>
locals == <<request, seen, read, tries, move, mine, outcome>>
counts == <<evalFailures, scoreFailures, crashes, crossed>>
vars   == <<store, pc, locals, about, applied, counts>>

\* The question a call answers.
Q(c) == about[request[c]]

Locked  == {"recheck", "read", "write", "evaluate", "score", "rollback", "mark", "unmark", "unlock"}
Early   == {"replay", "start", "runtime", "lock", "giveUp"}
Resting == {"idle", "done", "crashed"}

NoFlow == [status |-> "INIT", index |-> 0, qn |-> None, count |-> 0, version |-> 0]

Init ==
  /\ flow = [status |-> "ASKING", index |-> 0, qn |-> <<1, 0>>, count |-> 0, version |-> 1]
  /\ qlock = [q \in Question |-> None]
  /\ processing = {} /\ replay = {}
  /\ scored = [m \in Main |-> 0]
  /\ pc = [c \in Call |-> "idle"]
  /\ request = [c \in Call |-> None]
  /\ about = [r \in Request |-> None]
  /\ seen = [c \in Call |-> NoFlow]
  /\ read = [c \in Call |-> NoFlow]
  /\ tries = [c \in Call |-> 0]
  /\ move = [c \in Call |-> "evaluate"]
  /\ mine = [c \in Call |-> 0]
  /\ outcome = [c \in Call |-> None]
  /\ applied = [r \in Request |-> 0]
  /\ evalFailures = 0 /\ scoreFailures = 0 /\ crashes = 0
  /\ crossed = {}

\* The call has moved the interview on: it has written two versions since its snapshot.
Moved(c) == mine[c] = seen[c].version + 2

Goto(c, label) == pc' = [pc EXCEPT ![c] = label]
Say(c, o) == outcome' = [outcome EXCEPT ![c] = o]

-----------------------------------------------------------------------------
(* The client. *)

\* It answers the question it is shown (GetCurrentQuestion), or sends a request again.
Submit(c) ==
  /\ pc[c] = "idle"
  /\ Goto(c, "replay")
  /\ \E r \in Request :
       /\ request' = [request EXCEPT ![c] = r]
       /\ IF about[r] = None
          THEN flow.qn # None /\ about' = [about EXCEPT ![r] = flow.qn]
          ELSE UNCHANGED about
  /\ crossed' = crossed \cup {d \in Call : pc[d] = "rollback" /\ Moved(d)}
  /\ UNCHANGED <<store, seen, read, tries, move, mine, outcome, applied,
                 evalFailures, scoreFailures, crashes>>

-----------------------------------------------------------------------------
(* Steps 2 to 5: idempotency, runtime, question lock, second look. *)

\* TryStart: GET the replay key ...
CheckReplay(c) ==
  /\ pc[c] = "replay"
  /\ IF request[c] \in replay
     THEN Goto(c, "done") /\ Say(c, "replayed")
     ELSE Goto(c, "start") /\ UNCHANGED outcome
  /\ UNCHANGED <<store, about, request, seen, read, tries, move, mine, applied, counts>>

\* ... then SETNX the processing key.
StartProcessing(c) ==
  /\ pc[c] = "start"
  /\ processing' = processing \cup {request[c]}
  /\ IF request[c] \in processing
     THEN Goto(c, "done") /\ Say(c, "error")
     ELSE Goto(c, "runtime") /\ UNCHANGED outcome
  /\ UNCHANGED <<flow, qlock, replay, scored, about, request, seen, read, tries, move, mine,
                 applied, counts>>

\* EnsureRuntime finds the flow in Redis; a completed interview takes no answer.
EnsureRuntime(c) ==
  /\ pc[c] = "runtime"
  /\ Goto(c, IF flow.status = "COMPLETED" THEN "giveUp" ELSE "lock")
  /\ UNCHANGED <<store, locals, about, applied, counts>>

\* SETNX the lock of (session, question).
LockQuestion(c) ==
  /\ pc[c] = "lock"
  /\ IF qlock[Q(c)] = None
     THEN qlock' = [qlock EXCEPT ![Q(c)] = c] /\ Goto(c, "recheck")
     ELSE UNCHANGED qlock /\ Goto(c, "giveUp")
  /\ UNCHANGED <<flow, processing, replay, scored, locals, about, applied, counts>>

\* Variant: the question is not compared again under the lock.
Recheck_Trusts(c) ==
  /\ pc[c] = "recheck"
  /\ seen' = [seen EXCEPT ![c] = flow]
  /\ move' = [move EXCEPT ![c] = "evaluate"]
  /\ Goto(c, "read")
  /\ UNCHANGED <<store, about, request, read, tries, mine, outcome, applied, counts>>

\* Current again, under the lock; the snapshot for a rollback is taken here.
Recheck(c) ==
  /\ pc[c] = "recheck"
  /\ seen' = [seen EXCEPT ![c] = flow]
  /\ move' = [move EXCEPT ![c] = "evaluate"]
  /\ Goto(c, IF flow.qn = Q(c) THEN "read" ELSE "unmark")
  /\ UNCHANGED <<store, about, request, read, tries, mine, outcome, applied, counts>>

\* ClearProcessing on the way out, before the lock was taken.
GiveUp(c) ==
  /\ pc[c] = "giveUp"
  /\ processing' = processing \ {request[c]}
  /\ Goto(c, "done") /\ Say(c, "error")
  /\ UNCHANGED <<flow, qlock, replay, scored, about, request, seen, read, tries, move, mine,
                 applied, counts>>

-----------------------------------------------------------------------------
(* FlowStateMachine over FlowCache.MutateFlow: GET, mutate, compare-and-set. *)

LegalTargets ==
  [ INIT       |-> {"ASKING", "COMPLETED"},
    ASKING     |-> {"EVALUATING", "FOLLOW_UP", "COMPLETED"},
    EVALUATING |-> {"ASKING", "FOLLOW_UP", "COMPLETED"},
    FOLLOW_UP  |-> {"EVALUATING", "ASKING", "COMPLETED"},
    COMPLETED  |-> {} ]

\* The checks of transitionStatus, StartFollowUpQuestion and AdvanceMainQuestion.
Allowed(f, m) ==
  \/ m = "evaluate" /\ (f.status = "EVALUATING" \/ "EVALUATING" \in LegalTargets[f.status])
  \/ m = "followUp" /\ "FOLLOW_UP" \in LegalTargets[f.status]
  \/ m = "advance"  /\ "ASKING" \in LegalTargets[f.status]

\* Variant: a new main question keeps the follow-up counter of the last one.
Advanced_KeepsCount(f) ==
  IF f.index + 1 >= TotalQuestions
  THEN [f EXCEPT !.status = "COMPLETED", !.qn = None]
  ELSE [f EXCEPT !.status = "ASKING", !.qn = <<f.index + 2, 0>>, !.index = @ + 1]

\* AdvanceMainQuestion
Advanced(f) ==
  IF f.index + 1 >= TotalQuestions
  THEN [f EXCEPT !.status = "COMPLETED", !.qn = None, !.count = 0]
  ELSE [f EXCEPT !.status = "ASKING", !.qn = <<f.index + 2, 0>>, !.count = 0, !.index = @ + 1]

\* The follow-up's number comes from the call's question and its first look at the flow.
FollowUpNumber(c) == <<Q(c)[1], seen[c].count + 1>>

Mutated(c, f) ==
  CASE move[c] = "evaluate" -> [f EXCEPT !.status = "EVALUATING"]
    [] move[c] = "followUp" -> [f EXCEPT !.status = "FOLLOW_UP", !.count = @ + 1,
                                         !.qn = FollowUpNumber(c)]
    [] move[c] = "advance"  -> Advanced(f)

MutateRead(c) ==
  /\ pc[c] = "read"
  /\ read' = [read EXCEPT ![c] = flow]
  /\ Goto(c, IF Allowed(flow, move[c]) THEN "write" ELSE "unmark")
  /\ UNCHANGED <<store, about, request, seen, tries, move, mine, outcome, applied, counts>>

\* Variant: a main question is scored only when no follow-up comes after it.
AfterWrite_SkipsFollowedUp(c) ==
  IF move[c] = "evaluate" THEN "evaluate"
  ELSE IF Q(c)[2] = 0 /\ move[c] = "advance" THEN "score" ELSE "mark"

\* Main questions are scored, whichever way the interview goes on; follow-ups are not.
AfterWrite(c) ==
  IF move[c] = "evaluate" THEN "evaluate" ELSE IF Q(c)[2] = 0 THEN "score" ELSE "mark"

\* casUpdate: written if the version is still the one read; else again, at most CASRetries times.
MutateWrite(c) ==
  /\ pc[c] = "write"
  /\ IF flow.version = read[c].version
     THEN /\ flow' = [Mutated(c, read[c]) EXCEPT !.version = @ + 1]
          /\ mine' = [mine EXCEPT ![c] = read[c].version + 1]
          /\ tries' = [tries EXCEPT ![c] = 0]
          /\ applied' = [applied EXCEPT ![request[c]] = IF move[c] = "evaluate" THEN @ ELSE @ + 1]
          /\ Goto(c, AfterWrite(c))
     ELSE /\ tries' = [tries EXCEPT ![c] = @ + 1]
          /\ Goto(c, IF tries[c] + 1 < CASRetries THEN "read" ELSE "unmark")
          /\ UNCHANGED <<flow, mine, applied>>
  /\ UNCHANGED <<qlock, processing, replay, scored, about, request, seen, read, move, outcome,
                 counts>>

-----------------------------------------------------------------------------
(* Steps 6 to 11: evaluation, score, end. *)

\* The AI's verdict and the follow-up rules choose the next move: a follow-up only
\* below the limit, and only when one could be generated.
Evaluate(c) ==
  /\ pc[c] = "evaluate"
  /\ \/ seen[c].count < MaxFollowUp /\ move' = [move EXCEPT ![c] = "followUp"]
     \/ move' = [move EXCEPT ![c] = "advance"]
  /\ Goto(c, "read")
  /\ UNCHANGED <<store, about, request, seen, read, tries, mine, outcome, applied, counts>>

EvaluateFails(c) ==
  /\ pc[c] = "evaluate"
  /\ evalFailures < MaxEvalFailures
  /\ evalFailures' = evalFailures + 1
  /\ Goto(c, "rollback")
  /\ UNCHANGED <<store, locals, about, applied, scoreFailures, crashes, crossed>>

AddScore(c) ==
  /\ pc[c] = "score"
  /\ scored' = [scored EXCEPT ![Q(c)[1]] = @ + 1]
  /\ Goto(c, "mark")
  /\ UNCHANGED <<flow, qlock, processing, replay, locals, about, applied, counts>>

AddScoreFails(c) ==
  /\ pc[c] = "score"
  /\ scoreFailures < MaxScoreFailures
  /\ scoreFailures' = scoreFailures + 1
  /\ crossed' = IF flow.version # mine[c] \/ \E d \in Call \ {c} : pc[d] \notin Resting
                THEN crossed \cup {c} ELSE crossed
  /\ Goto(c, "rollback")
  /\ UNCHANGED <<store, locals, about, applied, evalFailures, crashes>>

\* Variant: the version expected is the snapshot's, not the one the call wrote.
Rollback_WrongVersion(c) ==
  /\ pc[c] = "rollback"
  /\ IF flow.version = seen[c].version
     THEN /\ flow' = seen[c]
          /\ applied' = [applied EXCEPT ![request[c]] = IF move[c] = "evaluate" THEN @ ELSE @ - 1]
     ELSE UNCHANGED <<flow, applied>>
  /\ Goto(c, "unmark")
  /\ UNCHANGED <<qlock, processing, replay, scored, locals, about, counts>>

\* RollbackFlowCAS: the snapshot comes back, with its version, unless the flow moved on.
Rollback(c) ==
  /\ pc[c] = "rollback"
  /\ IF flow.version = mine[c]
     THEN /\ flow' = seen[c]
          /\ applied' = [applied EXCEPT ![request[c]] = IF move[c] = "evaluate" THEN @ ELSE @ - 1]
     ELSE UNCHANGED <<flow, applied>>
  /\ Goto(c, "unmark")
  /\ UNCHANGED <<qlock, processing, replay, scored, locals, about, counts>>

\* ClearProcessing, or MarkSucceeded's DEL.
ClearProcessing(c) ==
  /\ pc[c] = "unmark"
  /\ processing' = processing \ {request[c]}
  /\ Goto(c, "unlock")
  /\ outcome' = [outcome EXCEPT ![c] = IF @ = None THEN "error" ELSE @]
  /\ UNCHANGED <<flow, qlock, replay, scored, about, request, seen, read, tries, move, mine,
                 applied, counts>>

\* MarkSucceeded's SET; when it fails the response goes out and the key stays.
MarkSucceeded(c) ==
  /\ pc[c] = "mark"
  /\ Say(c, "ok")
  /\ \/ replay' = replay \cup {request[c]} /\ Goto(c, "unmark")
     \/ UNCHANGED replay /\ Goto(c, "unlock")
  /\ UNCHANGED <<flow, qlock, processing, scored, about, request, seen, read, tries, move, mine,
                 applied, counts>>

\* The deferred Release: compare-and-delete.
Release(c) ==
  /\ pc[c] = "unlock"
  /\ qlock' = [qlock EXCEPT ![Q(c)] = IF @ = c THEN None ELSE @]
  /\ Goto(c, "done")
  /\ UNCHANGED <<flow, processing, replay, scored, locals, about, applied, counts>>

-----------------------------------------------------------------------------
(* Crashes and TTLs. *)

Crash(c) ==
  /\ pc[c] \notin Resting
  /\ crashes < MaxCrashes
  /\ crashes' = crashes + 1
  /\ Goto(c, "crashed")
  /\ UNCHANGED <<store, locals, about, applied, evalFailures, scoreFailures, crossed>>

\* Variant: the lock's TTL is shorter than an answer takes.
LockExpires_Early(q) ==
  /\ qlock[q] # None
  /\ qlock' = [qlock EXCEPT ![q] = None]
  /\ UNCHANGED <<flow, processing, replay, scored, pc, locals, about, applied, counts>>

LockExpires(q) ==
  /\ qlock[q] # None
  /\ pc[qlock[q]] \in Resting
  /\ qlock' = [qlock EXCEPT ![q] = None]
  /\ UNCHANGED <<flow, processing, replay, scored, pc, locals, about, applied, counts>>

ProcessingExpires(r) ==
  /\ r \in processing
  /\ \A c \in Call : request[c] = r => pc[c] \in Resting \cup {"replay", "start"}
  /\ processing' = processing \ {r}
  /\ UNCHANGED <<flow, qlock, replay, scored, pc, locals, about, applied, counts>>

-----------------------------------------------------------------------------
CallStep(c) ==
  \/ Submit(c) \/ CheckReplay(c) \/ StartProcessing(c) \/ EnsureRuntime(c) \/ LockQuestion(c)
  \/ Recheck(c) \/ GiveUp(c) \/ MutateRead(c) \/ MutateWrite(c) \/ Evaluate(c)
  \/ EvaluateFails(c) \/ AddScore(c) \/ AddScoreFails(c) \/ Rollback(c) \/ ClearProcessing(c)
  \/ MarkSucceeded(c) \/ Release(c) \/ Crash(c)

Next ==
  \/ \E c \in Call : CallStep(c)
  \/ \E q \in Question : LockExpires(q)
  \/ \E r \in Request : ProcessingExpires(r)

Spec == Init /\ [][Next]_vars

-----------------------------------------------------------------------------
(* Properties. *)

Status == DOMAIN LegalTargets

Flow == [status : Status, index : 0 .. TotalQuestions - 1, qn : Question \cup {None},
         count : Nat, version : Nat]

\* Every variable keeps its type: the flow never points past the last question.
TypeOK ==
  /\ flow \in Flow
  /\ qlock \in [Question -> Call \cup {None}]
  /\ processing \subseteq Request
  /\ replay \subseteq Request
  /\ scored \in [Main -> Nat]
  /\ pc \in [Call -> Resting \cup Early \cup Locked]
  /\ request \in [Call -> Request \cup {None}]
  /\ about \in [Request -> Question \cup {None}]
  /\ seen \in [Call -> Flow] /\ read \in [Call -> Flow]
  /\ tries \in [Call -> Nat]
  /\ move \in [Call -> {"evaluate", "followUp", "advance"}]
  /\ mine \in [Call -> Nat]
  /\ outcome \in [Call -> {"ok", "replayed", "error", None}]
  /\ applied \in [Request -> Int]
  /\ evalFailures \in 0 .. MaxEvalFailures
  /\ scoreFailures \in 0 .. MaxScoreFailures
  /\ crashes \in 0 .. MaxCrashes
  /\ crossed \subseteq Call

\* The flow's fields always describe one and the same question, within the limit of
\* follow-ups (unless a rollback was crossed).
FlowCoherent == crossed = {} =>
  /\ flow.count <= MaxFollowUp
  /\ flow.status = "ASKING" => flow.qn = <<flow.index + 1, 0>> /\ flow.count = 0
  /\ flow.status = "FOLLOW_UP" => flow.qn = <<flow.index + 1, flow.count>> /\ flow.count > 0
  /\ flow.status = "EVALUATING" => flow.qn = <<flow.index + 1, flow.count>>
  /\ flow.status = "COMPLETED" => flow.qn = None /\ flow.count = 0

\* A call past the lock holds it ...
LockHeld == \A c \in Call : pc[c] \in Locked => qlock[Q(c)] = c

\* ... so that two calls never answer the same question at the same time.
OneCallPerQuestion ==
  \A c, d \in Call : pc[c] \in Locked /\ pc[d] \in Locked /\ Q(c) = Q(d) => c = d

\* A call moves the interview on from the question it answers, never from another one
\* ("re-validated under the lock, against a drifting cursor", step 5): only a rollback
\* that crosses other calls can take the cursor away under them.
AnswersCurrentQuestion ==
  [][\A c \in Call : crossed = {} /\ pc[c] = "write" /\ mine'[c] # mine[c] => flow.qn = Q(c)]_vars

\* No request moves the interview on twice, whatever is retried or duplicated,
\* and a stored response belongs to a request that did (unless a rollback was crossed).
AppliedOnce == crossed = {} =>
  \A r \in Request : applied[r] <= 1 /\ (r \in replay => applied[r] = 1)

\* Main question m lies behind: it was answered, or its follow-ups have begun.
Passed(m) ==
  \/ flow.status = "COMPLETED"
  \/ m <= flow.index
  \/ m = flow.index + 1 /\ flow.count > 0

\* A call is between the move past main question m and its score, or died there.
Scoring(m) ==
  \E c \in Call : pc[c] \in {"score", "rollback", "crashed"} /\ Moved(c) /\ Q(c) = <<m, 0>>

\* Every main question counts in the score when the interview is past it, and once: the score
\* is missing only while a call is about to add it, or died before it could (unless a
\* rollback was crossed).
PassedIsScoredOnce == crossed = {} => \A m \in Main :
  /\ scored[m] <= 1
  /\ scored[m] = 1 => Passed(m)
  /\ Passed(m) => scored[m] = 1 \/ Scoring(m)

\* A call that reports an error has not moved the interview on (unless a rollback was crossed).
FailureLeavesNoTrace == crossed = {} =>
  \A c \in Call : outcome[c] = "error" /\ pc[c] = "done" =>
    \/ applied[request[c]] = 0
    \/ \E d \in Call \ {c} : request[d] = request[c] /\ outcome[d] # "error"
=============================================================================
