------------------------- MODULE InterviewSessions -------------------------
(***************************************************************************)
(* services/interview: interview sessions from the resume to the report.   *)
(* ExtractInterviewQuestions (through the single-flight group) fills the   *)
(* caches of a session and starts its flow; answers move the flow, score   *)
(* main questions and are archived; the report is computed from the        *)
(* archive, the live score from the score keys.                            *)
(*                                                                         *)
(* The answers to one session come one after the other (AnswerPipeline has *)
(* them overlap); extractions run at any time, also into an interview that *)
(* is under way.  The single-flight group is what SingleFlight shows of    *)
(* it: one leader per key, whose end all waiting callers see.              *)
(*                                                                         *)
(* Bounds: MaxAnswers answers and MaxFailures failing calls in a behaviour.*)
(***************************************************************************)
EXTENDS Integers, Sequences, FiniteSets

CONSTANTS
  Session,
  Extraction,      \* calls of ExtractInterviewQuestions
  Opening, Remainder,      \* the first 64 bytes of a resume's text, and what follows
  MaxQuestions,    \* bound: questions of an extraction
  MaxFollowUp,     \* defaultMaxFollowUp
  Assessments,     \* what EvaluateAnswer may make of an answer (ReplyParser: Accepted)
  LowScore,        \* defaultLowScoreThreshold
  MaxAnswers, MaxFailures,
  None

Resume == Opening \X Remainder

ASSUME SessionBounds ==
  /\ MaxQuestions \in Nat \ {0} /\ MaxFollowUp \in Nat
  /\ LowScore \in 0 .. 100
  /\ MaxAnswers \in Nat /\ MaxFailures \in Nat
  /\ Assessments \subseteq [score : 0 .. 100, needed : BOOLEAN, lacks : BOOLEAN, refused : {FALSE}]

\* What ExtractQuestions returns, and a session's flow.
Result == [resume : Resume, n : Nat \ {0}]
Flow   == [status : {"ASKING", "EVALUATING", "FOLLOW_UP", "COMPLETED"}, index : Nat,
           qn : (Nat \X Nat) \cup {None}, count : Nat, total : Nat, version : Nat]

\* None is no caller, no result, no question and no flow.
ASSUME NoneIsNew == None \notin Extraction \cup Result \cup (Nat \X Nat) \cup Flow

\* The group in Redis, and the process's own when Redis does not answer.
Group == {"redis", "local"} \X Opening

VARIABLES
  leader,     \* the caller that runs a group's function, or None
  xpc,        \* where an extraction is
  job,        \* its session and resume
  group,      \* the group it leads or waits in
  try,        \* its first or second ExtractQuestions
  result,     \* what ExtractQuestions returned: the resume read, and how many questions
  texts,      \* a session's questions hash: the last result saved, or None
  followUps,  \* a session's follow-up questions hash: question numbers
  material,   \* resume score, direction and context: the resume they come from
  cold,       \* the cold snapshot in MySQL: the last result saved, or None
  flow,       \* a session's flow, or None
  score,      \* score_sum and score_count
  apc,        \* where the answer to a session is
  answer,     \* its question, the flow as found, the version it wrote, its score
  archive,    \* a session's archived turns: <<is it a follow-up, the score>>
  answers, failures,  \* how many so far
  given,      \* history: the resumes handed in for a session
  shared,     \* history: sessions that took over a result in the local group
  shortened,  \* history: sessions with a flow of more questions than were saved last
  textLost,   \* history: sessions with a follow-up whose text could not be saved
  zeroed,     \* history: sessions whose score was reset with or during answers
  diverged    \* history: sessions in which a score or an archived turn was lost or doubled

caches   == <<texts, followUps, material, cold>>
extract  == <<leader, xpc, job, group, try, result>>
progress == <<flow, score, apc, answer, archive>>
bounds   == <<answers, failures>>
history  == <<given, shared, shortened, textLost, zeroed, diverged>>
vars     == <<caches, extract, progress, bounds, history>>

NoJob    == [session |-> None, resume |-> None]
NoAnswer == [question |-> None, seen |-> None, mine |-> 0, score |-> 0]

Init ==
  /\ leader = [g \in Group |-> None]
  /\ xpc = [x \in Extraction |-> "idle"]
  /\ job = [x \in Extraction |-> NoJob]
  /\ group = [x \in Extraction |-> None]
  /\ try = [x \in Extraction |-> 0]
  /\ result = [x \in Extraction |-> None]
  /\ texts = [s \in Session |-> None] /\ followUps = [s \in Session |-> {}]
  /\ material = [s \in Session |-> None] /\ cold = [s \in Session |-> None]
  /\ flow = [s \in Session |-> None]
  /\ score = [s \in Session |-> [sum |-> 0, count |-> 0]]
  /\ apc = [s \in Session |-> "idle"]
  /\ answer = [s \in Session |-> NoAnswer]
  /\ archive = [s \in Session |-> << >>]
  /\ answers = 0 /\ failures = 0
  /\ given = [s \in Session |-> {}]
  /\ shared = {} /\ shortened = {} /\ textLost = {} /\ zeroed = {} /\ diverged = {}

Fails == failures < MaxFailures /\ failures' = failures + 1
Works == UNCHANGED failures

Goto(x, label) == xpc' = [xpc EXCEPT ![x] = label]
S(x) == job[x].session

-----------------------------------------------------------------------------
(* ExtractInterviewQuestions: the result. *)

Begin(x, s, r) ==
  /\ xpc[x] = "idle"
  /\ job' = [job EXCEPT ![x] = [session |-> s, resume |-> r]]
  /\ given' = [given EXCEPT ![s] = @ \cup {r}]
  /\ try' = [try EXCEPT ![x] = 1]
  /\ Goto(x, "enter")
  /\ UNCHANGED <<caches, leader, group, result, progress, bounds,
                 shared, shortened, textLost, zeroed, diverged>>

\* The user uploads a resume for a session there is, once or again.
Upload(x) == \E s \in Session, r \in Resume : Begin(x, s, r)

\* The agent's tool interview_start: a session of its own for the resume it was told.
StartInterview(x) == \E s \in Session, r \in Resume : given[s] = {} /\ Begin(x, s, r)

\* hashContent keeps the first 64 bytes of what it is given.
Key(x) == job[x].resume[1]

\* Lead the group g, or wait for the call it has.
Join(x, g) ==
  /\ group' = [group EXCEPT ![x] = g]
  /\ \/ leader[g] = None /\ leader' = [leader EXCEPT ![g] = x] /\ Goto(x, "lead")
     \/ leader[g] # None /\ UNCHANGED leader /\ Goto(x, "wait")

\* Redis does not answer: one failure for all the callers it hits meanwhile.
Outage == Fails \/ (Works /\ \E r \in Resume : leader[<<"local", r[1]>>] # None)

\* SingleFlight.Do: in Redis, or within the process when Redis does not answer.
Enter(x) ==
  /\ xpc[x] = "enter"
  /\ \/ Works /\ Join(x, <<"redis", Key(x)>>)
     \/ Outage /\ Join(x, <<"local", Key(x)>>)
  /\ UNCHANGED <<caches, job, try, result, progress, answers, history>>

\* An error of ExtractQuestions: the second try, or the end.
AfterError(x) == IF try[x] = 1 THEN "enter" ELSE "failed"

\* Variant: a follower decodes the JSON it reads, as the agent's runs do.
Takes_Decoded(w, x) == xpc[w] = "wait" /\ group[w] = group[x]

\* A follower can use the result only when it is handed over in memory: the map that
\* comes out of Redis is no *ExtractionResult.
Takes(w, x) == xpc[w] = "wait" /\ group[w] = group[x] /\ group[x][1] = "local"

\* The call of x ends with the result res, or None: x and the callers that wait for it go on.
End(x, res) ==
  LET settled == {w \in Extraction : w = x \/ (xpc[w] = "wait" /\ group[w] = group[x])}
      happy   == {w \in settled : res # None /\ (w = x \/ Takes(w, x))}
  IN  /\ leader' = [leader EXCEPT ![group[x]] = None]
      /\ xpc' = [w \in Extraction |-> IF w \in happy THEN "save"
                                      ELSE IF w \in settled THEN AfterError(w) ELSE xpc[w]]
      /\ try' = [w \in Extraction |-> IF w \in settled \ happy THEN 2 ELSE try[w]]
      /\ result' = [w \in Extraction |-> IF w \in happy THEN res ELSE result[w]]
      /\ shared' = shared \cup {S(w) : w \in {v \in happy \ {x} : group[v][1] = "local"}}

Extracted(x) ==
  /\ xpc[x] = "lead"
  /\ \E n \in 1 .. MaxQuestions : End(x, [resume |-> job[x].resume, n |-> n])
  /\ UNCHANGED <<caches, job, group, progress, bounds,
                 given, shortened, textLost, zeroed, diverged>>

\* The model fails, or its answer is no JSON or has no questions.
NotExtracted(x) ==
  /\ xpc[x] = "lead"
  /\ Fails
  /\ End(x, None)
  /\ UNCHANGED <<caches, job, group, progress, answers,
                 given, shortened, textLost, zeroed, diverged>>

-----------------------------------------------------------------------------
(* ExtractInterviewQuestions: what it writes, one store after the other. *)

\* A session's flow, or the one its answer may put back, counts on more questions than these.
Shorter(s, saved) == \E f \in {flow[s], answer[s].seen} \ {None} : saved.n < f.total

SaveQuestions(x) ==
  /\ xpc[x] = "save"
  /\ \/ /\ Works
        /\ texts' = [texts EXCEPT ![S(x)] = result[x]]
        /\ shortened' = IF Shorter(S(x), result[x]) THEN shortened \cup {S(x)} ELSE shortened
        /\ Goto(x, "material")
     \/ Fails /\ UNCHANGED <<texts, shortened>> /\ Goto(x, "failed")
  /\ UNCHANGED <<followUps, material, cold, leader, job, group, try, result, progress, answers,
                 given, shared, textLost, zeroed, diverged>>

\* SaveSuggestions, SaveResumeScore, SaveDirection, SaveResumeContext: errors are ignored.
SaveMaterial(x) ==
  /\ xpc[x] = "material"
  /\ \/ Works /\ material' = [material EXCEPT ![S(x)] = result[x].resume]
     \/ Fails /\ UNCHANGED material
  /\ Goto(x, "cold")
  /\ UNCHANGED <<texts, followUps, cold, leader, job, group, try, result, progress, answers,
                 history>>

\* RefreshColdSnapshot: an upsert, its error logged.
RefreshCold(x) ==
  /\ xpc[x] = "cold"
  /\ \/ Works /\ cold' = [cold EXCEPT ![S(x)] = result[x]]
     \/ Fails /\ UNCHANGED cold
  /\ Goto(x, "reset")
  /\ UNCHANGED <<texts, followUps, material, leader, job, group, try, result, progress, answers,
                 history>>

\* ResetScore: its error is ignored.
ResetScore(x) ==
  /\ xpc[x] = "reset"
  /\ \/ /\ Works
        /\ score' = [score EXCEPT ![S(x)] = [sum |-> 0, count |-> 0]]
        /\ zeroed' = IF archive[S(x)] # << >> \/ apc[S(x)] # "idle" \/ score[S(x)].count > 0
                     THEN zeroed \cup {S(x)} ELSE zeroed
     \/ Fails /\ UNCHANGED <<score, zeroed>>
  /\ Goto(x, "look")
  /\ UNCHANGED <<caches, leader, job, group, try, result, flow, apc, answer, archive, answers,
                 given, shared, shortened, textLost, diverged>>

\* EnsureInitialized: an existing flow stays ...
LookForFlow(x) ==
  /\ xpc[x] = "look"
  /\ \/ Works /\ Goto(x, IF flow[S(x)] # None THEN "done" ELSE "start")
     \/ Fails /\ Goto(x, "failed")
  /\ UNCHANGED <<caches, leader, job, group, try, result, progress, answers, history>>

\* Variant: the number of questions is one too high.
FirstFlow_OneMore(res) ==
  [status |-> "ASKING", index |-> 0, qn |-> <<1, 0>>, count |-> 0, total |-> res.n + 1, version |-> 1]

FirstFlow(res) ==
  [status |-> "ASKING", index |-> 0, qn |-> <<1, 0>>, count |-> 0, total |-> res.n, version |-> 1]

\* ... and where none was found, SaveFlow writes one without looking again.
StartFlow(x) ==
  /\ xpc[x] = "start"
  /\ \/ Works /\ flow' = [flow EXCEPT ![S(x)] = FirstFlow(result[x])] /\ Goto(x, "done")
     \/ Fails /\ UNCHANGED flow /\ Goto(x, "failed")
  /\ UNCHANGED texts
  /\ shortened' = IF texts[S(x)].n < result[x].n THEN shortened \cup {S(x)} ELSE shortened
  /\ UNCHANGED <<followUps, material, cold, leader, job, group, try, result, score, apc, answer,
                 archive, answers, given, shared, textLost, zeroed, diverged>>

-----------------------------------------------------------------------------
(* An answer: AnswerPipeline.Execute with nobody else answering. *)

Step(s, label) == apc' = [apc EXCEPT ![s] = label]

\* RestoreFlow: the flow as found, unless another version is there now.
Restored(s) ==
  IF flow[s].version = answer[s].mine THEN [flow EXCEPT ![s] = answer[s].seen] ELSE flow

\* The question is the one the flow asks; MoveToEvaluating writes a version.
Take(s) ==
  /\ apc[s] = "idle" /\ answers < MaxAnswers
  /\ flow[s] # None /\ flow[s].status # "COMPLETED"
  /\ answers' = answers + 1
  /\ flow' = [flow EXCEPT ![s].status = "EVALUATING", ![s].version = @ + 1]
  /\ answer' = [answer EXCEPT ![s] = [question |-> flow[s].qn, seen |-> flow[s],
                                      mine |-> flow[s].version + 1, score |-> 0]]
  /\ Step(s, "evaluate")
  /\ UNCHANGED <<caches, extract, score, archive, failures, history>>

\* DecideFollowUp: below the limit, on the model's wish, a low score or something lacking.
NeedFollowUp(s, assessment) ==
  /\ answer[s].seen.count < MaxFollowUp
  /\ assessment.needed \/ assessment.score < LowScore \/ assessment.lacks

\* EvaluateAnswer, and GenerateFollowUp where one is needed: it may fail or decline.
Evaluate(s) ==
  /\ apc[s] = "evaluate"
  /\ \E assessment \in Assessments :
       /\ answer' = [answer EXCEPT ![s].score = assessment.score]
       /\ \/ Step(s, "advance")
          \/ NeedFollowUp(s, assessment) /\ Step(s, "followUp")
  /\ UNCHANGED <<caches, extract, flow, score, archive, bounds, history>>

\* Both attempts of EvaluateAnswer fail: no answer, or one that is refused.
NotEvaluated(s) ==
  /\ apc[s] = "evaluate"
  /\ Fails
  /\ flow' = Restored(s)
  /\ Step(s, "idle") /\ answer' = [answer EXCEPT ![s] = NoAnswer]
  /\ UNCHANGED <<caches, extract, score, archive, answers, history>>

\* Variant: follow-ups are scored as well.
AfterMove_ScoresAll(s) == "score"

\* Main questions are scored, follow-ups are not.
AfterMove(s) == IF answer[s].question[2] = 0 THEN "score" ELSE "log"

StartFollowUp(s) ==
  /\ apc[s] = "followUp"
  /\ flow' = [flow EXCEPT ![s].status = "FOLLOW_UP", ![s].count = @ + 1, ![s].version = @ + 1,
                          ![s].qn = <<answer[s].question[1], answer[s].seen.count + 1>>]
  /\ answer' = [answer EXCEPT ![s].mine = flow[s].version + 1]
  /\ Step(s, "text")
  /\ UNCHANGED <<caches, extract, score, archive, bounds, history>>

\* SaveFollowUpQuestion, after the flow has moved to it; its error is ignored.
SaveFollowUp(s) ==
  /\ apc[s] = "text"
  /\ LET number == <<answer[s].question[1], answer[s].seen.count + 1>>
     IN  \/ /\ Works
            /\ followUps' = [followUps EXCEPT ![s] = @ \cup {number}]
            /\ UNCHANGED textLost
         \/ Fails /\ UNCHANGED followUps /\ textLost' = textLost \cup {s}
  /\ Step(s, AfterMove(s))
  /\ UNCHANGED <<texts, material, cold, extract, flow, score, answer, archive, answers,
                 given, shared, shortened, zeroed, diverged>>

Advanced(f) ==
  IF f.index + 1 >= f.total
  THEN [f EXCEPT !.status = "COMPLETED", !.qn = None, !.count = 0, !.version = @ + 1]
  ELSE [f EXCEPT !.status = "ASKING", !.qn = <<f.index + 2, 0>>, !.index = @ + 1, !.count = 0,
                 !.version = @ + 1]

Advance(s) ==
  /\ apc[s] = "advance" /\ flow[s].status = "EVALUATING"
  /\ flow' = [flow EXCEPT ![s] = Advanced(@)]
  /\ answer' = [answer EXCEPT ![s].mine = flow[s].version + 1]
  /\ Step(s, AfterMove(s))
  /\ UNCHANGED <<caches, extract, score, archive, bounds, history>>

\* A flow that was started again meanwhile is ASKING: no legal transition, the answer fails.
NotAdvanced(s) ==
  /\ apc[s] = "advance" /\ flow[s].status = "ASKING"
  /\ Step(s, "idle") /\ answer' = [answer EXCEPT ![s] = NoAnswer]
  /\ UNCHANGED <<caches, extract, flow, score, archive, bounds, history>>

Scored(s) == [score EXCEPT ![s] = [sum |-> @.sum + answer[s].score, count |-> @.count + 1]]

\* AddScore: the script runs; or it does not, or its reply is lost, and the move is undone.
AddScore(s) ==
  /\ apc[s] = "score"
  /\ Works /\ score' = Scored(s) /\ Step(s, "log")
  /\ UNCHANGED <<caches, extract, flow, answer, archive, answers, history>>

AddScoreFails(s) ==
  /\ apc[s] = "score"
  /\ Fails
  /\ \/ UNCHANGED <<score, diverged>>
     \/ score' = Scored(s) /\ diverged' = diverged \cup {s}
  /\ flow' = Restored(s)
  /\ Step(s, "idle") /\ answer' = [answer EXCEPT ![s] = NoAnswer]
  /\ UNCHANGED <<caches, extract, archive, answers, given, shared, shortened, textLost, zeroed>>

\* The archive of the turn, which InterviewRecords models in its steps.
Archive(s) ==
  /\ apc[s] = "log"
  /\ \/ /\ Works
        /\ archive' = [archive EXCEPT ![s] = Append(@, <<answer[s].question[2] # 0, answer[s].score>>)]
        /\ UNCHANGED diverged
     \/ Fails /\ UNCHANGED archive /\ diverged' = diverged \cup {s}
  /\ Step(s, "idle") /\ answer' = [answer EXCEPT ![s] = NoAnswer]
  /\ UNCHANGED <<caches, extract, flow, score, answers, given, shared, shortened, textLost, zeroed>>

-----------------------------------------------------------------------------
Extract(x) ==
  \/ Upload(x) \/ StartInterview(x) \/ Enter(x) \/ Extracted(x) \/ NotExtracted(x) \/ SaveQuestions(x)
  \/ SaveMaterial(x) \/ RefreshCold(x) \/ ResetScore(x)
  \/ LookForFlow(x) \/ StartFlow(x)

Answer(s) ==
  \/ Take(s) \/ Evaluate(s) \/ NotEvaluated(s) \/ StartFollowUp(s) \/ SaveFollowUp(s)
  \/ Advance(s) \/ NotAdvanced(s) \/ AddScore(s) \/ AddScoreFails(s) \/ Archive(s)

Next == (\E x \in Extraction : Extract(x)) \/ (\E s \in Session : Answer(s))

Spec == Init /\ [][Next]_vars

-----------------------------------------------------------------------------
(* What a session shows: the question's text, and the two averages. *)

\* GetQuestion: the main questions first, then the follow-ups.
HasText(s, q) ==
  \/ q[2] = 0 /\ texts[s] # None /\ q[1] <= texts[s].n
  \/ q \in followUps[s]

\* The main turns the report counts, added up: SaveInterviewRecordFromRedis leaves out zeros.
Counted(turns) ==
  LET first[i \in 0 .. Len(turns)] ==   \* of the first i
        IF i = 0 THEN [sum |-> 0, count |-> 0]
        ELSE IF ~ turns[i][1] /\ turns[i][2] > 0
             THEN [sum |-> first[i - 1].sum + turns[i][2], count |-> first[i - 1].count + 1]
             ELSE first[i - 1]
  IN  first[Len(turns)]

\* Its average, rounded down ...
Report(s) ==
  LET total == Counted(archive[s])
  IN  IF total.count = 0 THEN 0 ELSE total.sum \div total.count

\* ... and the average the score script keeps, rounded to the nearest.
LiveScore(s) ==
  IF score[s].count = 0 THEN 0 ELSE (2 * score[s].sum + score[s].count) \div (2 * score[s].count)

-----------------------------------------------------------------------------
(* Properties. *)

\* The questions and the material of a session come from a resume that was handed in for it;
\* only a result shared within the process may come from one that begins with the same 64
\* bytes (extraction_service.go shares "the same resume" by this key).
OwnQuestions ==
  \A s \in Session :
    LET own(r) == \E g \in given[s] : r = g \/ (s \in shared /\ r[1] = g[1])
    IN  /\ texts[s] # None => own(texts[s].resume)
        /\ material[s] # None => own(material[s])
        /\ cold[s] # None => own(cold[s].resume)

\* The question a session asks has a text to show and to evaluate answers by, except while
\* a follow-up is being saved, when saving one has failed, or when a later extraction has
\* left fewer questions than the flow counts on (EnsureInitialized, getCurrentQuestionInfo).
QuestionHasText ==
  \A s \in Session : flow[s] # None /\ flow[s].status # "COMPLETED" /\ s \notin shortened =>
    LET q == flow[s].qn
    IN  \/ HasText(s, q)
        \/ q[2] > 0 /\ (apc[s] = "text" \/ s \in textLost)

\* Between answers the report agrees with the live score, but for the rounding, as long as
\* the model gave no zero, no reset came between, and nothing was lost half-way
\* (SaveInterviewRecordFromRedis and AddScore keep separate accounts).
ReportAgrees ==
  \A s \in Session :
    apc[s] = "idle" /\ s \notin zeroed \cup diverged
      /\ (\A i \in DOMAIN archive[s] : archive[s][i][2] > 0)
    => LiveScore(s) - Report(s) \in {0, 1}
=============================================================================
