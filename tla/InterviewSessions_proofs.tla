----------------------- MODULE InterviewSessions_proofs -----------------------
(***************************************************************************)
(* Machine-checked facts about InterviewSessions, for any sessions,        *)
(* extractions, resumes and assessments, and any bounds.                   *)
(***************************************************************************)
EXTENDS InterviewSessions, FiniteSetTheorems, WellFoundedInduction, TLAPS

-----------------------------------------------------------------------------
(* Types. *)

ExtractionStep ==
  {"idle", "enter", "lead", "wait", "save", "material", "cold", "reset", "look", "start", "done",
   "failed"}
AnswerStep == {"idle", "evaluate", "followUp", "advance", "text", "score", "log"}

\* Where an extraction has a result.
Writing == {"save", "material", "cold", "reset", "look", "start"}

Job    == [session : Session, resume : Resume]
QuestionNumber == Nat \X Nat
Turn   == BOOLEAN \X (0 .. 100)

\* A flow that asks a question, and one that is at its end.
Running  == {f \in Flow : f.status # "COMPLETED" /\ f.qn \in QuestionNumber}
Finished == {f \in Flow : f.status = "COMPLETED"}

Answers ==
  [question : QuestionNumber \cup {None}, seen : Running \cup {None}, mine : Nat, score : 0 .. 100]

CachesOK ==
  /\ texts \in [Session -> Result \cup {None}] /\ followUps \in [Session -> SUBSET QuestionNumber]
  /\ material \in [Session -> Resume \cup {None}] /\ cold \in [Session -> Result \cup {None}]

ExtractsOK ==
  /\ leader \in [Group -> Extraction \cup {None}]
  /\ xpc \in [Extraction -> ExtractionStep]
  /\ job \in [Extraction -> Job \cup {NoJob}]
  /\ group \in [Extraction -> Group \cup {None}]
  /\ try \in [Extraction -> 0 .. 2]
  /\ result \in [Extraction -> Result \cup {None}]
  /\ \A x \in Extraction :
       /\ xpc[x] # "idle" => job[x] \in Job
       /\ xpc[x] \in {"lead", "wait"} => group[x] \in {"redis", "local"} \X {Key(x)}
       /\ xpc[x] \in Writing => result[x] \in Result
       /\ xpc[x] = "lead" => leader[group[x]] = x
  /\ \A g \in Group : leader[g] # None => xpc[leader[g]] = "lead" /\ group[leader[g]] = g

AnswersOK ==
  /\ flow \in [Session -> Running \cup Finished \cup {None}]
  /\ score \in [Session -> [sum : Nat, count : Nat]]
  /\ apc \in [Session -> AnswerStep]
  /\ answer \in [Session -> Answers]
  /\ archive \in [Session -> Seq(Turn)]
  /\ \A s \in Session :
       apc[s] # "idle" => /\ flow[s] # None /\ answer[s].seen # None
                          /\ answer[s].question \in QuestionNumber

HistoryOK ==
  /\ answers \in 0 .. MaxAnswers /\ failures \in 0 .. MaxFailures
  /\ given \in [Session -> SUBSET Resume]
  /\ shared \in SUBSET Session /\ shortened \in SUBSET Session /\ textLost \in SUBSET Session
  /\ zeroed \in SUBSET Session /\ diverged \in SUBSET Session

SessionsTypeOK == CachesOK /\ ExtractsOK /\ AnswersOK /\ HistoryOK

-----------------------------------------------------------------------------
\* A resume handed in for a session, or taken over within the process.
From(resumes, taken, r) == \E g \in resumes : r = g \/ (taken /\ r[1] = g[1])
Own(s, r) == From(given[s], s \in shared, r)

\* Each extraction carries its session's own resume, and a result that is its own.
OwnJobs ==
  \A x \in Extraction :
    /\ xpc[x] # "idle" => job[x].resume \in given[S(x)]
    /\ xpc[x] \in Writing => Own(S(x), result[x].resume)

OwnInv == OwnJobs /\ OwnQuestions

\* A flow asks a main question it counts on, and counts on questions that are saved, unless a
\* later extraction has left fewer.
Within(f) ==
  /\ f.status # "COMPLETED" /\ f.qn[2] = 0 => f.qn[1] \in 1 .. f.total
  /\ f.index < f.total

Fits(f, saved, short) == saved # None /\ Within(f) /\ (~ short => f.total <= saved.n)

\* The follow-up it asks is saved, unless saving one has failed.
Known(f, numbers, lost) == f.qn[2] > 0 => f.qn \in numbers \/ lost

\* The number of the follow-up an answer moves to.
NextFollowUp(s) == <<answer[s].question[1], answer[s].seen.count + 1>>

\* So it is with the flow, and with the one its answer may put back.
Shown(s) ==
  /\ flow[s] # None => Fits(flow[s], texts[s], s \in shortened)
  /\ flow[s] # None /\ flow[s].status # "COMPLETED" =>
       \/ Known(flow[s], followUps[s], s \in textLost)
       \/ apc[s] = "text" /\ flow[s].qn = NextFollowUp(s)
  /\ answer[s].seen # None => /\ Fits(answer[s].seen, texts[s], s \in shortened)
                              /\ Known(answer[s].seen, followUps[s], s \in textLost)

\* An extraction starts a flow after it has saved the questions.
SavesFirst ==
  \A x \in Extraction :
    xpc[x] \in {"material", "cold", "reset", "look", "start"} => texts[S(x)] # None

TextInv == SavesFirst /\ \A s \in Session : Shown(s)

\* What the live score has and the archive will get, of an answer that has been scored.
Pending(s) ==
  IF apc[s] = "log" /\ answer[s].question[2] = 0
  THEN [sum |-> answer[s].score, count |-> 1] ELSE [sum |-> 0, count |-> 0]

ScoreMatches(s) ==
  s \notin zeroed \cup diverged /\ (\A i \in DOMAIN archive[s] : archive[s][i][2] > 0) =>
    /\ score[s].sum = Counted(archive[s]).sum + Pending(s).sum
    /\ score[s].count = Counted(archive[s]).count + Pending(s).count

\* Only a main question comes to be scored.
ScoresMain(s) == apc[s] = "score" => answer[s].question[2] = 0

ScoreInv == \A s \in Session : ScoresMain(s) /\ ScoreMatches(s)

-----------------------------------------------------------------------------
(* Steps, and what they leave alone. *)

\* What an extraction does before it has a result, and after.
Asking(x)  == Enter(x) \/ Extracted(x) \/ NotExtracted(x)
Handing(x) == \E s \in Session, r \in Resume : Begin(x, s, r)

LEMMA NextSplit ==
  ASSUME [Next]_vars
  PROVE  \/ \E x \in Extraction :
              \/ Handing(x) \/ Asking(x) \/ SaveQuestions(x) \/ SaveMaterial(x) \/ RefreshCold(x)
              \/ ResetScore(x) \/ LookForFlow(x) \/ StartFlow(x)
         \/ \E s \in Session : Answer(s)
         \/ UNCHANGED vars
<1>1. ASSUME NEW x \in Extraction, Upload(x) \/ StartInterview(x) PROVE Handing(x)
  BY <1>1 DEF Upload, StartInterview, Handing
<1>2. QED BY <1>1 DEF Next, Extract, Asking

LEMMA Bounds ==
  /\ MaxQuestions \in Nat \ {0} /\ MaxFollowUp \in Nat /\ LowScore \in 0 .. 100
  /\ MaxAnswers \in Nat /\ MaxFailures \in Nat
BY SessionBounds

LEMMA HandingLeaves ==
  ASSUME NEW x \in Extraction, Handing(x) \/ Asking(x)
  PROVE  UNCHANGED <<caches, progress, answers, shortened, textLost, zeroed, diverged>>
BY DEF Handing, Asking, Begin, Enter, Extracted, NotExtracted, bounds, history

LEMMA WritingLeaves ==
  ASSUME NEW x \in Extraction, SaveQuestions(x) \/ SaveMaterial(x) \/ RefreshCold(x)
                                 \/ ResetScore(x) \/ LookForFlow(x) \/ StartFlow(x)
  PROVE  UNCHANGED <<leader, job, group, try, result, apc, answer, archive, answers, followUps,
                     given, shared, textLost, diverged>>
BY DEF SaveQuestions, SaveMaterial, RefreshCold, ResetScore, LookForFlow, StartFlow, caches,
       progress, history

LEMMA AnswerLeaves ==
  ASSUME NEW s \in Session, Answer(s)
  PROVE  UNCHANGED <<extract, texts, material, cold, given, shared, shortened, zeroed>>
BY DEF Answer, Take, Evaluate, NotEvaluated, StartFollowUp, SaveFollowUp, Advance, NotAdvanced,
       AddScore, AddScoreFails, Archive, caches, history

-----------------------------------------------------------------------------
(* Types of the stores. *)

LEMMA CachesStep == SessionsTypeOK /\ [Next]_vars => CachesOK'
<1> SUFFICES ASSUME SessionsTypeOK, [Next]_vars PROVE CachesOK'
  OBVIOUS
<1> CachesOK /\ ExtractsOK /\ AnswersOK
  BY DEF SessionsTypeOK
<1>1. ASSUME UNCHANGED caches PROVE CachesOK'
  BY <1>1 DEF caches, CachesOK
<1>2. ASSUME NEW x \in Extraction, Handing(x) \/ Asking(x) PROVE CachesOK'
  BY <1>1, <1>2, HandingLeaves
<1>3. ASSUME NEW x \in Extraction, xpc[x] \in Writing
      PROVE  S(x) \in Session /\ result[x] \in Result /\ result[x].resume \in Resume
  <2>1. result[x] \in Result /\ job[x] \in Job
    BY <1>3 DEF ExtractsOK, Writing
  <2>2. QED BY <2>1 DEF S, Job, Result
<1>4. ASSUME NEW x \in Extraction, SaveQuestions(x) PROVE CachesOK'
  <2>1. xpc[x] \in Writing
    BY <1>4 DEF SaveQuestions, Writing
  <2>2. QED BY <1>3, <1>4, <2>1 DEF SaveQuestions, CachesOK
<1>5. ASSUME NEW x \in Extraction, SaveMaterial(x) PROVE CachesOK'
  <2>1. xpc[x] \in Writing
    BY <1>5 DEF SaveMaterial, Writing
  <2>2. QED BY <1>3, <1>5, <2>1 DEF SaveMaterial, CachesOK
<1>6. ASSUME NEW x \in Extraction, RefreshCold(x) PROVE CachesOK'
  <2>1. xpc[x] \in Writing
    BY <1>6 DEF RefreshCold, Writing
  <2>2. QED BY <1>3, <1>6, <2>1 DEF RefreshCold, CachesOK
<1>7. ASSUME NEW x \in Extraction, ResetScore(x) \/ LookForFlow(x) \/ StartFlow(x) PROVE CachesOK'
  BY <1>1, <1>7 DEF ResetScore, LookForFlow, StartFlow, caches
<1>8. ASSUME NEW s \in Session, SaveFollowUp(s) PROVE CachesOK'
  <2>1. NextFollowUp(s) \in QuestionNumber
    <3>1. answer[s] \in Answers /\ answer[s].question \in QuestionNumber /\ answer[s].seen # None
      BY <1>8 DEF SaveFollowUp, AnswersOK
    <3>2. answer[s].seen \in Flow
      BY <3>1 DEF Answers, Running
    <3>3. answer[s].seen.count \in Nat /\ answer[s].question[1] \in Nat
      BY <3>1, <3>2 DEF Flow, QuestionNumber
    <3>4. QED BY <3>3 DEF NextFollowUp, QuestionNumber
  <2>2. followUps' \in {followUps, [followUps EXCEPT ![s] = @ \cup {NextFollowUp(s)}]}
        /\ UNCHANGED <<texts, material, cold>>
    BY <1>8 DEF SaveFollowUp, NextFollowUp
  <2>3. QED BY <2>1, <2>2 DEF CachesOK
<1>9. ASSUME NEW s \in Session, Answer(s), ~ SaveFollowUp(s) PROVE CachesOK'
  BY <1>1, <1>9 DEF Answer, Take, Evaluate, NotEvaluated, StartFollowUp, Advance, NotAdvanced,
                    AddScore, AddScoreFails, Archive
<1>10. CASE UNCHANGED vars
  BY <1>1, <1>10 DEF vars
<1>11. QED BY <1>2, <1>4, <1>5, <1>6, <1>7, <1>8, <1>9, <1>10, NextSplit

LEMMA ExtractsStep == SessionsTypeOK /\ [Next]_vars => ExtractsOK'
<1> SUFFICES ASSUME SessionsTypeOK, [Next]_vars PROVE ExtractsOK'
  OBVIOUS
<1> ExtractsOK
  BY DEF SessionsTypeOK
<1> USE DEF Goto, ExtractionStep, Writing
<1>1. ASSUME UNCHANGED extract PROVE ExtractsOK'
  BY <1>1 DEF extract, ExtractsOK, Key
<1>2. ASSUME NEW x \in Extraction, Handing(x) PROVE ExtractsOK'
  <2>1. PICK s \in Session, r \in Resume : Begin(x, s, r)
    BY <1>2 DEF Handing
  <2>2. job' = [job EXCEPT ![x] = [session |-> s, resume |-> r]]
        /\ [session |-> s, resume |-> r] \in Job /\ xpc[x] = "idle"
        /\ xpc' = [xpc EXCEPT ![x] = "enter"] /\ try' = [try EXCEPT ![x] = 1]
        /\ UNCHANGED <<leader, group, result>>
    BY <2>1 DEF Begin, Job
  <2>3. QED BY <2>2 DEF ExtractsOK, Key
<1>3. ASSUME NEW x \in Extraction, Enter(x) PROVE ExtractsOK'
  <2>1. Key(x) \in Opening /\ xpc[x] = "enter" /\ UNCHANGED <<job, try, result>>
    BY <1>3 DEF Enter, ExtractsOK, Key, Job, Resume
  <2>2. PICK g \in {"redis", "local"} \X {Key(x)} : Join(x, g)
    BY <1>3 DEF Enter
  <2>3. g \in Group
    BY <2>1 DEF Group
  <2>4. \A y \in Extraction : Key(y)' = Key(y)
    BY <2>1 DEF Key
  <2>5. CASE leader[g] = None /\ leader' = [leader EXCEPT ![g] = x]
             /\ xpc' = [xpc EXCEPT ![x] = "lead"] /\ group' = [group EXCEPT ![x] = g]
    BY <2>1, <2>2, <2>3, <2>4, <2>5, NoneIsNew DEF ExtractsOK
  <2>6. CASE UNCHANGED leader /\ xpc' = [xpc EXCEPT ![x] = "wait"]
             /\ group' = [group EXCEPT ![x] = g]
    BY <2>1, <2>2, <2>3, <2>4, <2>6, NoneIsNew DEF ExtractsOK
  <2>7. QED BY <2>2, <2>5, <2>6 DEF Join
<1>4. ASSUME NEW x \in Extraction, NEW res \in Result \cup {None}, xpc[x] = "lead", End(x, res),
             UNCHANGED <<job, group>>
      PROVE  ExtractsOK'
  <2> DEFINE settled == {w \in Extraction : w = x \/ (xpc[w] = "wait" /\ group[w] = group[x])}
             happy   == {w \in settled : res # None /\ (w = x \/ Takes(w, x))}
  <2>1. /\ leader' = [leader EXCEPT ![group[x]] = None]
        /\ xpc' = [w \in Extraction |-> IF w \in happy THEN "save"
                                        ELSE IF w \in settled THEN AfterError(w) ELSE xpc[w]]
        /\ try' = [w \in Extraction |-> IF w \in settled \ happy THEN 2 ELSE try[w]]
        /\ result' = [w \in Extraction |-> IF w \in happy THEN res ELSE result[w]]
    BY <1>4 DEF End
  <2>2. happy \subseteq settled /\ x \in settled /\ (happy # {} => res \in Result)
        /\ \A w \in settled : w \in Extraction /\ xpc[w] \in {"lead", "wait"}
    <3> HIDE DEF ExtractsOK
    <3> QED BY <1>4
  <2>3. \A w \in Extraction : AfterError(w) \in {"enter", "failed"}
    BY DEF AfterError
  <2> HIDE DEF settled, happy
  <2>4. \A y \in Extraction : Key(y)' = Key(y)
    BY <1>4 DEF Key
  <2>5. /\ leader' \in [Group -> Extraction \cup {None}] /\ xpc' \in [Extraction -> ExtractionStep]
        /\ job' \in [Extraction -> Job \cup {NoJob}] /\ group' \in [Extraction -> Group \cup {None}]
        /\ try' \in [Extraction -> 0 .. 2] /\ result' \in [Extraction -> Result \cup {None}]
    <3>1. leader' \in [Group -> Extraction \cup {None}]
      BY <2>1 DEF ExtractsOK
    <3>2. xpc' \in [Extraction -> ExtractionStep]
      BY <2>1, <2>2, <2>3 DEF ExtractsOK
    <3>3. try' \in [Extraction -> 0 .. 2]
      BY <2>1 DEF ExtractsOK
    <3>4. result' \in [Extraction -> Result \cup {None}]
      BY <2>1, <2>2 DEF ExtractsOK
    <3>5. QED BY <1>4, <3>1, <3>2, <3>3, <3>4 DEF ExtractsOK
  <2>6. ASSUME NEW y \in Extraction
        PROVE  /\ xpc'[y] # "idle" => job'[y] \in Job
               /\ xpc'[y] \in {"lead", "wait"} => group'[y] \in {"redis", "local"} \X {Key(y)'}
               /\ xpc'[y] \in Writing => result'[y] \in Result
               /\ xpc'[y] = "lead" => leader'[group'[y]] = y
    <3>1. CASE y \in settled
      BY <1>4, <2>1, <2>2, <2>3, <3>1 DEF ExtractsOK
    <3>2. CASE y \notin settled
      <4>1. xpc'[y] = xpc[y] /\ result'[y] = result[y]
        BY <2>1, <2>2, <3>2
      <4>2. xpc[y] = "lead" => group[y] # group[x]
        BY <1>4, <2>2, <3>2 DEF ExtractsOK
      <4>3. xpc[y] = "lead" => leader'[group[y]] = y
        <5>1. xpc[y] = "lead" => leader[group[y]] = y /\ group[y] \in Group
          BY NoneIsNew DEF ExtractsOK, Group, Key, Job, Resume
        <5>2. QED BY <2>1, <4>2, <5>1 DEF ExtractsOK
      <4>4. QED BY <1>4, <2>4, <4>1, <4>3 DEF ExtractsOK
    <3>3. QED BY <3>1, <3>2
  <2>7. ASSUME NEW g \in Group, leader'[g] # None
        PROVE  xpc'[leader'[g]] = "lead" /\ group'[leader'[g]] = g
    <3>1. g # group[x] /\ leader'[g] = leader[g]
      BY <2>1, <2>7 DEF ExtractsOK
    <3>2. leader[g] \in Extraction /\ xpc[leader[g]] = "lead" /\ group[leader[g]] = g
      BY <2>7, <3>1 DEF ExtractsOK
    <3>3. leader[g] \notin settled
      BY <3>1, <3>2 DEF settled
    <3>4. QED BY <1>4, <2>1, <2>2, <3>1, <3>2, <3>3
  <2>8. QED BY <2>5, <2>6, <2>7 DEF ExtractsOK
<1>5. ASSUME NEW x \in Extraction, Extracted(x) PROVE ExtractsOK'
  <2>1. PICK n \in 1 .. MaxQuestions : End(x, [resume |-> job[x].resume, n |-> n])
    BY <1>5 DEF Extracted
  <2>2. xpc[x] = "lead" /\ job[x] \in Job /\ UNCHANGED <<job, group>>
    BY <1>5 DEF Extracted, ExtractsOK
  <2>3. [resume |-> job[x].resume, n |-> n] \in Result
    BY <2>2, Bounds DEF Job, Result
  <2>4. QED BY <1>4, <2>1, <2>2, <2>3
<1>6. ASSUME NEW x \in Extraction, NotExtracted(x) PROVE ExtractsOK'
  BY <1>4, <1>6 DEF NotExtracted
<1>7. ASSUME NEW x \in Extraction, SaveQuestions(x) \/ SaveMaterial(x) \/ RefreshCold(x)
                                     \/ ResetScore(x) \/ LookForFlow(x) \/ StartFlow(x)
      PROVE  ExtractsOK'
  <2>1. /\ \E label \in {"material", "cold", "reset", "look", "start", "done", "failed"} :
             xpc' = [xpc EXCEPT ![x] = label]
        /\ xpc[x] \in Writing
    BY <1>7 DEF SaveQuestions, SaveMaterial, RefreshCold, ResetScore, LookForFlow, StartFlow
  <2>2. UNCHANGED <<leader, job, group, try, result>>
    BY <1>7, WritingLeaves
  <2>3. \A y \in Extraction : Key(y)' = Key(y)
    BY <2>2 DEF Key
  <2>4. QED BY <2>1, <2>2, <2>3, NoneIsNew DEF ExtractsOK
<1>8. ASSUME NEW s \in Session, Answer(s) PROVE ExtractsOK'
  BY <1>1, <1>8, AnswerLeaves
<1>9. CASE UNCHANGED vars
  BY <1>1, <1>9 DEF vars
<1>10. QED BY <1>2, <1>3, <1>5, <1>6, <1>7, <1>8, <1>9, NextSplit DEF Asking
LEMMA FirstFlowTyped ==
  ASSUME NEW res \in Result
  PROVE  FirstFlow(res) \in Running /\ FirstFlow(res) # None
<1>1. FirstFlow(res) \in Running
  BY DEF FirstFlow, Flow, Result, Running, QuestionNumber
<1>2. QED BY <1>1, NoneIsNew DEF Running

LEMMA IsRunning ==
  ASSUME NEW g \in Flow, g.status # "COMPLETED", g.qn \in QuestionNumber
  PROVE  g \in Running
BY DEF Running

\* One field of a flow after the other.
LEMMA FieldMoves ==
  ASSUME NEW f \in Flow
  PROVE  /\ \A status \in {"ASKING", "EVALUATING", "FOLLOW_UP", "COMPLETED"} :
              [f EXCEPT !.status = status] \in Flow
         /\ \A n \in Nat : [f EXCEPT !.index = n] \in Flow
         /\ \A n \in Nat : [f EXCEPT !.count = n] \in Flow
         /\ \A n \in Nat : [f EXCEPT !.version = n] \in Flow
         /\ \A q \in QuestionNumber \cup {None} : [f EXCEPT !.qn = q] \in Flow
BY DEF Flow, QuestionNumber

LEMMA FlowMoves ==
  ASSUME NEW f \in Running
  PROVE  /\ [f EXCEPT !.status = "EVALUATING", !.version = @ + 1] \in Running
         /\ Advanced(f) \in Running \cup Finished
<1> DEFINE evaluating == [f EXCEPT !.status = "EVALUATING", !.version = @ + 1]
           completed  == [f EXCEPT !.status = "COMPLETED", !.qn = None, !.count = 0,
                                   !.version = @ + 1]
           asking     == [f EXCEPT !.status = "ASKING", !.qn = <<f.index + 2, 0>>, !.index = @ + 1,
                                   !.count = 0, !.version = @ + 1]
<1>1. f \in Flow /\ f.qn \in QuestionNumber
  BY DEF Running
<1>2. /\ f.version + 1 \in Nat /\ f.index + 1 \in Nat /\ 0 \in Nat
      /\ <<f.index + 2, 0>> \in QuestionNumber
  BY <1>1 DEF Flow, QuestionNumber
<1>3. evaluating \in Flow /\ completed \in Flow /\ asking \in Flow
  BY <1>1, <1>2, FieldMoves
<1>4. /\ evaluating.status = "EVALUATING" /\ evaluating.qn = f.qn
      /\ completed.status = "COMPLETED"
      /\ asking.status = "ASKING" /\ asking.qn = <<f.index + 2, 0>>
  BY <1>1 DEF Flow
<1>5. evaluating \in Running /\ completed \in Finished /\ asking \in Running
  <2> HIDE DEF evaluating, completed, asking
  <2> QED BY <1>1, <1>2, <1>3, <1>4 DEF Running, Finished
<1>6. QED BY <1>5 DEF Advanced

LEMMA FollowUpMoves ==
  ASSUME NEW f \in Running \cup Finished, NEW q \in QuestionNumber
  PROVE  [f EXCEPT !.status = "FOLLOW_UP", !.count = @ + 1, !.version = @ + 1, !.qn = q] \in Running
<1> DEFINE moved == [f EXCEPT !.status = "FOLLOW_UP", !.count = @ + 1, !.version = @ + 1, !.qn = q]
<1>1. f \in Flow
  BY DEF Running, Finished
<1>2. f.count + 1 \in Nat /\ f.version + 1 \in Nat
  BY <1>1 DEF Flow
<1>3. moved \in Flow
  BY <1>1, <1>2, FieldMoves
<1>4. moved.status # "COMPLETED" /\ moved.qn = q
  BY <1>1 DEF Flow
<1>5. moved \in Running
  <2> HIDE DEF moved
  <2> QED BY <1>3, <1>4, IsRunning
<1>6. QED BY <1>5

\* A session's answer changes what is kept for this session only.
Alone(s) ==
  /\ flow' = [flow EXCEPT ![s] = flow'[s]] /\ score' = [score EXCEPT ![s] = score'[s]]
  /\ apc' = [apc EXCEPT ![s] = apc'[s]] /\ answer' = [answer EXCEPT ![s] = answer'[s]]
  /\ archive' = [archive EXCEPT ![s] = archive'[s]]

LEMMA AnswerAlone ==
  ASSUME AnswersOK, NEW s \in Session, Answer(s)
  PROVE  Alone(s)
<1>1. ASSUME NEW g \in {flow, score, apc, answer, archive} PROVE g = [g EXCEPT ![s] = g[s]]
  BY DEF AnswersOK
<1>2. ASSUME NEW g \in {flow, score, apc, answer, archive}, NEW v PROVE [g EXCEPT ![s] = v][s] = v
  BY DEF AnswersOK
<1>3. \E v : flow' \in {flow, [flow EXCEPT ![s] = v]}
  BY DEF Answer, Take, Evaluate, NotEvaluated, StartFollowUp, SaveFollowUp, Advance, NotAdvanced,
         AddScore, AddScoreFails, Archive, Restored
<1>4. \E v : score' \in {score, [score EXCEPT ![s] = v]}
  BY DEF Answer, Take, Evaluate, NotEvaluated, StartFollowUp, SaveFollowUp, Advance, NotAdvanced,
         AddScore, AddScoreFails, Archive, Scored
<1>5. \E v : apc' \in {apc, [apc EXCEPT ![s] = v]}
  BY DEF Answer, Take, Evaluate, NotEvaluated, StartFollowUp, SaveFollowUp, Advance, NotAdvanced,
         AddScore, AddScoreFails, Archive, Step
<1>6. \E v : answer' \in {answer, [answer EXCEPT ![s] = v]}
  BY DEF Answer, Take, Evaluate, NotEvaluated, StartFollowUp, SaveFollowUp, Advance, NotAdvanced,
         AddScore, AddScoreFails, Archive
<1>7. \E v : archive' \in {archive, [archive EXCEPT ![s] = v]}
  BY DEF Answer, Take, Evaluate, NotEvaluated, StartFollowUp, SaveFollowUp, Advance, NotAdvanced,
         AddScore, AddScoreFails, Archive
<1>8. QED BY <1>1, <1>2, <1>3, <1>4, <1>5, <1>6, <1>7 DEF Alone

LEMMA AnswerTyped ==
  ASSUME AnswersOK, NEW s \in Session, Alone(s),
         flow'[s] \in Running \cup Finished, answer'[s] \in Answers, apc'[s] \in AnswerStep,
         score'[s] \in [sum : Nat, count : Nat], archive'[s] \in Seq(Turn),
         apc'[s] # "idle" => answer'[s].seen # None /\ answer'[s].question \in QuestionNumber
  PROVE  AnswersOK'
<1>1. flow'[s] # None
  BY NoneIsNew DEF Running, Finished
<1>2. /\ flow' \in [Session -> Running \cup Finished \cup {None}]
      /\ score' \in [Session -> [sum : Nat, count : Nat]]
      /\ apc' \in [Session -> AnswerStep] /\ answer' \in [Session -> Answers]
      /\ archive' \in [Session -> Seq(Turn)]
  BY DEF AnswersOK, Alone
<1>3. ASSUME NEW t \in Session, apc'[t] # "idle"
      PROVE  flow'[t] # None /\ answer'[t].seen # None /\ answer'[t].question \in QuestionNumber
  <2>1. CASE t = s
    BY <1>1, <1>3, <2>1
  <2>2. CASE t # s
    <3>1. flow'[t] = flow[t] /\ apc'[t] = apc[t] /\ answer'[t] = answer[t]
      BY <2>2 DEF AnswersOK, Alone
    <3>2. QED BY <1>3, <3>1 DEF AnswersOK
  <2>3. QED BY <2>1, <2>2
<1>4. QED BY <1>2, <1>3 DEF AnswersOK

LEMMA AnswerOf ==
  ASSUME AnswersOK, NEW s \in Session
  PROVE  /\ answer[s] \in Answers /\ NoAnswer \in Answers /\ apc[s] \in AnswerStep
         /\ score[s] \in [sum : Nat, count : Nat] /\ archive[s] \in Seq(Turn)
         /\ flow[s] \in Running \cup Finished \cup {None}
<1>1. NoAnswer \in Answers
  BY DEF NoAnswer, Answers
<1>2. QED BY <1>1 DEF AnswersOK

LEMMA AnswerUnderWay ==
  ASSUME AnswersOK, NEW s \in Session, apc[s] # "idle"
  PROVE  /\ flow[s] \in Running \cup Finished /\ flow[s] # None
         /\ answer[s].seen \in Running /\ answer[s].seen # None
         /\ answer[s].question \in QuestionNumber
         /\ flow[s].version \in Nat /\ answer[s].seen.count \in Nat
         /\ NextFollowUp(s) \in QuestionNumber
<1>1. /\ flow[s] \in Running \cup Finished /\ flow[s] # None
      /\ answer[s].seen \in Running /\ answer[s].seen # None
      /\ answer[s].question \in QuestionNumber
  BY DEF AnswersOK, Answers
<1>2. flow[s].version \in Nat /\ answer[s].seen.count \in Nat /\ answer[s].question[1] \in Nat
  BY <1>1 DEF Running, Finished, Flow, QuestionNumber
<1>3. QED BY <1>1, <1>2 DEF NextFollowUp, QuestionNumber

\* The flow an answer puts back is the one it found.
LEMMA RestoredIs ==
  ASSUME NEW s
  PROVE  Restored(s) \in {flow, [flow EXCEPT ![s] = answer[s].seen]}
BY DEF Restored

LEMMA StepTyped ==
  ASSUME AnswersOK, NEW s \in Session, Answer(s)
  PROVE  AnswersOK'
<1> Alone(s)
  BY AnswerAlone
<1> USE AnswerOf, AnswerUnderWay DEF Step, AnswerStep
<1>1. ASSUME NEW g \in {flow, score, apc, answer, archive}, NEW v PROVE [g EXCEPT ![s] = v][s] = v
  BY DEF AnswersOK
<1>2. CASE Take(s)
  <2> DEFINE f == [flow[s] EXCEPT !.status = "EVALUATING", !.version = @ + 1]
             a == [question |-> flow[s].qn, seen |-> flow[s], mine |-> flow[s].version + 1,
                   score |-> 0]
  <2>1. flow[s] \in Running /\ flow[s] # None /\ flow[s].qn \in QuestionNumber
        /\ flow[s].version \in Nat
    BY <1>2 DEF Take, Running, Finished, Flow
  <2>2. f \in Running
    BY <2>1, FlowMoves
  <2>3. a \in Answers
    BY <2>1 DEF Answers
  <2>4. flow' = [flow EXCEPT ![s] = f] /\ answer' = [answer EXCEPT ![s] = a]
        /\ apc' = [apc EXCEPT ![s] = "evaluate"] /\ UNCHANGED <<score, archive>>
    BY <1>2 DEF Take
  <2>5. flow'[s] = f /\ answer'[s] = a /\ apc'[s] = "evaluate"
    BY <1>1, <2>4
  <2>6. a.seen # None /\ a.question \in QuestionNumber
    BY <2>1
  <2> HIDE DEF f, a
  <2>7. QED BY <2>2, <2>3, <2>4, <2>5, <2>6, AnswerTyped
<1>3. CASE Evaluate(s)
  <2>1. PICK assessment \in Assessments : answer' = [answer EXCEPT ![s].score = assessment.score]
    BY <1>3 DEF Evaluate
  <2>2. assessment.score \in 0 .. 100
    BY SessionBounds
  <2>3. apc'[s] \in {"advance", "followUp"} /\ UNCHANGED <<flow, score, archive>>
        /\ apc[s] # "idle"
    <3>1. \E p \in {"advance", "followUp"} : apc' = [apc EXCEPT ![s] = p]
      BY <1>3 DEF Evaluate
    <3>2. apc[s] = "evaluate" /\ UNCHANGED <<flow, score, archive>>
      BY <1>3 DEF Evaluate
    <3>3. QED BY <3>1, <3>2 DEF AnswersOK
  <2>4. answer'[s] = [answer[s] EXCEPT !.score = assessment.score]
    BY <2>1 DEF AnswersOK
  <2>5. answer'[s] \in Answers /\ answer'[s].seen = answer[s].seen
        /\ answer'[s].question = answer[s].question
    BY <2>2, <2>4 DEF Answers
  <2>6. QED BY <2>3, <2>5, AnswerTyped
<1>4. CASE NotEvaluated(s) \/ NotAdvanced(s)
  <2>1. /\ apc' = [apc EXCEPT ![s] = "idle"] /\ answer' = [answer EXCEPT ![s] = NoAnswer]
        /\ flow' \in {flow, [flow EXCEPT ![s] = answer[s].seen]}
        /\ UNCHANGED <<score, archive>> /\ apc[s] # "idle"
    BY <1>4, RestoredIs DEF NotEvaluated, NotAdvanced
  <2>2. apc'[s] = "idle" /\ answer'[s] = NoAnswer /\ flow'[s] \in {flow[s], answer[s].seen}
    BY <2>1 DEF AnswersOK
  <2>3. QED BY <2>1, <2>2, AnswerTyped
<1>5. CASE StartFollowUp(s)
  <2> DEFINE f == [flow[s] EXCEPT !.status = "FOLLOW_UP", !.count = @ + 1, !.version = @ + 1,
                                  !.qn = NextFollowUp(s)]
  <2>1. f \in Running
    BY <1>5, FollowUpMoves DEF StartFollowUp
  <2>2. flow' = [flow EXCEPT ![s] = f] /\ apc' = [apc EXCEPT ![s] = "text"]
        /\ answer' = [answer EXCEPT ![s].mine = flow[s].version + 1]
        /\ UNCHANGED <<score, archive>> /\ apc[s] # "idle"
    BY <1>5 DEF StartFollowUp, NextFollowUp
  <2>3. answer'[s] = [answer[s] EXCEPT !.mine = flow[s].version + 1]
    BY <2>2 DEF AnswersOK
  <2>4. answer'[s] \in Answers /\ answer'[s].seen = answer[s].seen
        /\ answer'[s].question = answer[s].question
    <3>1. answer[s] \in Answers /\ flow[s].version + 1 \in Nat
      BY <2>2
    <3>2. QED BY <2>3, <3>1 DEF Answers
  <2>5. flow'[s] = f /\ apc'[s] = "text"
    BY <1>1, <2>2
  <2> HIDE DEF f
  <2>6. QED BY <2>1, <2>2, <2>4, <2>5, AnswerTyped
<1>6. CASE SaveFollowUp(s)
  <2>1. /\ apc' = [apc EXCEPT ![s] = AfterMove(s)] /\ AfterMove(s) \in AnswerStep
        /\ UNCHANGED <<flow, answer, score, archive>> /\ apc[s] # "idle"
    BY <1>6 DEF SaveFollowUp, AfterMove
  <2>2. QED BY <1>1, <2>1, AnswerTyped
<1>7. CASE Advance(s)
  <2>1. flow[s] \in Running
    BY <1>7 DEF Advance, Finished
  <2>2. Advanced(flow[s]) \in Running \cup Finished
    BY <2>1, FlowMoves
  <2>3. /\ flow' = [flow EXCEPT ![s] = Advanced(flow[s])]
        /\ answer' = [answer EXCEPT ![s].mine = flow[s].version + 1]
        /\ apc' = [apc EXCEPT ![s] = AfterMove(s)] /\ AfterMove(s) \in AnswerStep
        /\ UNCHANGED <<score, archive>> /\ apc[s] # "idle"
    BY <1>7 DEF Advance, AfterMove
  <2>4. answer'[s] = [answer[s] EXCEPT !.mine = flow[s].version + 1]
    BY <2>3 DEF AnswersOK
  <2>5. answer'[s] \in Answers /\ answer'[s].seen = answer[s].seen
        /\ answer'[s].question = answer[s].question
    <3>1. answer[s] \in Answers /\ flow[s].version + 1 \in Nat
      BY <2>3
    <3>2. QED BY <2>4, <3>1 DEF Answers
  <2>6. flow'[s] = Advanced(flow[s]) /\ apc'[s] = AfterMove(s)
    BY <1>1, <2>3
  <2>7. QED BY <2>2, <2>3, <2>5, <2>6, AnswerTyped
<1>8. Scored(s)[s] = [sum |-> score[s].sum + answer[s].score, count |-> score[s].count + 1]
      /\ Scored(s)[s] \in [sum : Nat, count : Nat]
  <2>1. answer[s].score \in Nat /\ score[s].sum \in Nat /\ score[s].count \in Nat
    <3>1. answer[s] \in Answers /\ score[s] \in [sum : Nat, count : Nat]
      OBVIOUS
    <3>2. answer[s].score \in 0 .. 100
      BY <3>1 DEF Answers
    <3>3. \A n \in 0 .. 100 : n \in Nat
      OBVIOUS
    <3> HIDE AnswerOf, AnswerUnderWay
    <3>4. QED BY <3>1, <3>2, <3>3
  <2>2. Scored(s)[s] = [sum |-> score[s].sum + answer[s].score, count |-> score[s].count + 1]
    BY DEF Scored, AnswersOK
  <2>3. QED BY <2>1, <2>2
<1>9. CASE AddScore(s)
  <2>1. /\ apc' = [apc EXCEPT ![s] = "log"] /\ score' = Scored(s)
        /\ UNCHANGED <<flow, answer, archive>> /\ apc[s] # "idle"
    BY <1>9 DEF AddScore
  <2>2. QED BY <1>1, <1>8, <2>1, AnswerTyped
<1>10. CASE AddScoreFails(s)
  <2>1. /\ apc' = [apc EXCEPT ![s] = "idle"] /\ answer' = [answer EXCEPT ![s] = NoAnswer]
        /\ flow' \in {flow, [flow EXCEPT ![s] = answer[s].seen]} /\ score' \in {score, Scored(s)}
        /\ UNCHANGED archive /\ apc[s] # "idle"
    BY <1>10, RestoredIs DEF AddScoreFails
  <2>2. apc'[s] = "idle" /\ answer'[s] = NoAnswer /\ flow'[s] \in {flow[s], answer[s].seen}
    BY <2>1 DEF AnswersOK
  <2>3. QED BY <1>8, <2>1, <2>2, AnswerTyped
<1>11. CASE Archive(s)
  <2> DEFINE turn == <<answer[s].question[2] # 0, answer[s].score>>
  <2>1. turn \in Turn
    BY DEF Turn, Answers
  <2>2. Append(archive[s], turn) \in Seq(Turn)
    BY <2>1
  <2>3. /\ apc' = [apc EXCEPT ![s] = "idle"] /\ answer' = [answer EXCEPT ![s] = NoAnswer]
        /\ archive' \in {archive, [archive EXCEPT ![s] = Append(archive[s], turn)]}
        /\ UNCHANGED <<flow, score>> /\ apc[s] # "idle"
    BY <1>11 DEF Archive
  <2>4. apc'[s] = "idle" /\ answer'[s] = NoAnswer
        /\ archive'[s] \in {archive[s], Append(archive[s], turn)}
    <3> HIDE DEF turn
    <3> QED BY <2>3 DEF AnswersOK
  <2> HIDE DEF turn
  <2>5. QED BY <2>2, <2>3, <2>4, AnswerTyped
<1>12. QED BY <1>2, <1>3, <1>4, <1>5, <1>6, <1>7, <1>9, <1>10, <1>11 DEF Answer
LEMMA AnswersStep == SessionsTypeOK /\ [Next]_vars => AnswersOK'
<1> SUFFICES ASSUME SessionsTypeOK, [Next]_vars PROVE AnswersOK'
  OBVIOUS
<1> AnswersOK /\ ExtractsOK
  BY DEF SessionsTypeOK
<1>1. ASSUME UNCHANGED progress PROVE AnswersOK'
  BY <1>1 DEF progress, AnswersOK
<1>2. ASSUME NEW x \in Extraction, Handing(x) \/ Asking(x) PROVE AnswersOK'
  BY <1>1, <1>2, HandingLeaves
<1>3. ASSUME NEW x \in Extraction,
             SaveQuestions(x) \/ SaveMaterial(x) \/ RefreshCold(x) \/ LookForFlow(x)
      PROVE  AnswersOK'
  BY <1>1, <1>3 DEF SaveQuestions, SaveMaterial, RefreshCold, LookForFlow
<1>4. ASSUME NEW x \in Extraction, ResetScore(x) PROVE AnswersOK'
  <2>1. score' \in [Session -> [sum : Nat, count : Nat]]
    <3>1. [sum |-> 0, count |-> 0] \in [sum : Nat, count : Nat]
      OBVIOUS
    <3>2. \E v \in [sum : Nat, count : Nat] : score' \in {score, [score EXCEPT ![S(x)] = v]}
      BY <1>4, <3>1 DEF ResetScore
    <3>3. QED BY <3>2 DEF AnswersOK
  <2>2. UNCHANGED <<flow, apc, answer, archive>>
    BY <1>4 DEF ResetScore
  <2>3. QED BY <2>1, <2>2 DEF AnswersOK
<1>5. ASSUME NEW x \in Extraction, StartFlow(x) PROVE AnswersOK'
  <2>1. result[x] \in Result
    BY <1>5 DEF StartFlow, ExtractsOK, Writing
  <2>2. /\ flow' \in {flow, [flow EXCEPT ![S(x)] = FirstFlow(result[x])]}
        /\ UNCHANGED <<score, apc, answer, archive>>
    BY <1>5 DEF StartFlow
  <2>3. FirstFlow(result[x]) \in Running /\ FirstFlow(result[x]) # None
    BY <2>1, FirstFlowTyped
  <2>4. flow' \in [Session -> Running \cup Finished \cup {None}]
    BY <2>2, <2>3 DEF AnswersOK
  <2>5. \A s \in Session : flow[s] # None => flow'[s] # None
    BY <2>2, <2>3 DEF AnswersOK
  <2>6. QED BY <2>2, <2>4, <2>5 DEF AnswersOK
<1>6. ASSUME NEW s \in Session, Answer(s) PROVE AnswersOK'
  BY <1>6, StepTyped
<1>7. CASE UNCHANGED vars
  BY <1>1, <1>7 DEF vars
<1>8. QED BY <1>2, <1>3, <1>4, <1>5, <1>6, <1>7, NextSplit

LEMMA HistoryStep == SessionsTypeOK /\ [Next]_vars => HistoryOK'
<1> SUFFICES ASSUME SessionsTypeOK, [Next]_vars PROVE HistoryOK'
  OBVIOUS
<1> HistoryOK /\ ExtractsOK
  BY DEF SessionsTypeOK
<1> USE Bounds
<1>1. ASSUME UNCHANGED <<bounds, history>> PROVE HistoryOK'
  BY <1>1 DEF bounds, history, HistoryOK
<1>2. ASSUME Fails \/ Works PROVE failures' \in 0 .. MaxFailures
  BY <1>2 DEF Fails, Works, HistoryOK
<1>3. \A x \in Extraction : xpc[x] # "idle" => S(x) \in Session
  BY DEF ExtractsOK, S, Job
<1>4. ASSUME NEW x \in Extraction, Handing(x) PROVE HistoryOK'
  <2>1. PICK s \in Session, r \in Resume : Begin(x, s, r)
    BY <1>4 DEF Handing
  <2>2. given' = [given EXCEPT ![s] = @ \cup {r}]
        /\ UNCHANGED <<bounds, shared, shortened, textLost, zeroed, diverged>>
    BY <2>1 DEF Begin
  <2>3. QED BY <2>2 DEF HistoryOK, bounds
<1>5. ASSUME NEW x \in Extraction, Asking(x) PROVE HistoryOK'
  <2>1. failures' \in 0 .. MaxFailures
    <3>1. Fails \/ Works
      BY <1>5 DEF Asking, Enter, Extracted, NotExtracted, Outage, Works, bounds
    <3>2. QED BY <1>2, <3>1
  <2>2. UNCHANGED <<answers, given, shortened, textLost, zeroed, diverged>>
    BY <1>5 DEF Asking, Enter, Extracted, NotExtracted, bounds, history
  <2>3. shared' \subseteq Session
    <3>1. CASE Enter(x)
      BY <3>1 DEF Enter, history, HistoryOK
    <3>2. ASSUME NEW res, xpc[x] = "lead", End(x, res) PROVE shared' \subseteq Session
      <4>1. \A w \in Extraction : w # x /\ xpc[w] = "wait" => S(w) \in Session
        BY <1>3
      <4>2. shared' \subseteq shared \cup {S(w) : w \in {v \in Extraction : xpc[v] # "idle"}}
        BY <3>2 DEF End
      <4>3. QED BY <1>3, <4>2 DEF HistoryOK
    <3>3. QED BY <1>5, <3>1, <3>2 DEF Asking, Extracted, NotExtracted
  <2>4. QED BY <2>1, <2>2, <2>3 DEF HistoryOK
<1>6. ASSUME NEW x \in Extraction, SaveQuestions(x) \/ SaveMaterial(x) \/ RefreshCold(x)
                                     \/ ResetScore(x) \/ LookForFlow(x) \/ StartFlow(x)
      PROVE  HistoryOK'
  <2>1. S(x) \in Session
    BY <1>3, <1>6 DEF SaveQuestions, SaveMaterial, RefreshCold, ResetScore, LookForFlow, StartFlow
  <2>2. /\ shortened' \in {shortened, shortened \cup {S(x)}}
        /\ zeroed' \in {zeroed, zeroed \cup {S(x)}}
    BY <1>6 DEF SaveQuestions, SaveMaterial, RefreshCold, ResetScore, LookForFlow, StartFlow,
                history
  <2>3. failures' \in 0 .. MaxFailures
    BY <1>2, <1>6 DEF SaveQuestions, SaveMaterial, RefreshCold, ResetScore, LookForFlow, StartFlow
  <2>4. UNCHANGED <<answers, given, shared, textLost, diverged>>
    BY <1>6, WritingLeaves
  <2>5. QED BY <2>1, <2>2, <2>3, <2>4 DEF HistoryOK
<1>7. ASSUME NEW s \in Session, Answer(s) PROVE HistoryOK'
  <2>1. failures' \in 0 .. MaxFailures
    <3>1. Fails \/ Works
      BY <1>7 DEF Answer, Take, Evaluate, NotEvaluated, StartFollowUp, SaveFollowUp, Advance,
                  NotAdvanced, AddScore, AddScoreFails, Archive, Works, bounds
    <3>2. QED BY <1>2, <3>1
  <2>2. answers' \in 0 .. MaxAnswers
    <3>1. CASE Take(s)
      BY <3>1 DEF Take, HistoryOK
    <3>2. CASE ~ Take(s)
      <4>1. answers' = answers
        BY <1>7, <3>2 DEF Answer, Evaluate, NotEvaluated, StartFollowUp, SaveFollowUp, Advance,
                          NotAdvanced, AddScore, AddScoreFails, Archive, bounds
      <4>2. QED BY <4>1 DEF HistoryOK
    <3>3. QED BY <3>1, <3>2
  <2>3. textLost' \in {textLost, textLost \cup {s}} /\ diverged' \in {diverged, diverged \cup {s}}
    BY <1>7 DEF Answer, Take, Evaluate, NotEvaluated, StartFollowUp, SaveFollowUp, Advance,
                NotAdvanced, AddScore, AddScoreFails, Archive, history
  <2>4. UNCHANGED <<given, shared, shortened, zeroed>>
    BY <1>7, AnswerLeaves
  <2>5. QED BY <2>1, <2>2, <2>3, <2>4 DEF HistoryOK
<1>8. CASE UNCHANGED vars
  BY <1>1, <1>8 DEF vars
<1>9. QED BY <1>4, <1>5, <1>6, <1>7, <1>8, NextSplit

LEMMA StartsTyped == Init => SessionsTypeOK
<1> SUFFICES ASSUME Init PROVE SessionsTypeOK
  OBVIOUS
<1> USE DEF Init
<1>1. CachesOK
  BY DEF CachesOK
<1>2. ExtractsOK
  BY DEF ExtractsOK, ExtractionStep, Writing
<1>3. AnswersOK
  <2>1. << >> \in Seq(Turn) /\ NoAnswer \in Answers
    BY DEF NoAnswer, Answers
  <2>2. QED BY <2>1 DEF AnswersOK, AnswerStep
<1>4. HistoryOK
  BY Bounds DEF HistoryOK
<1>5. QED BY <1>1, <1>2, <1>3, <1>4 DEF SessionsTypeOK

\* The stores, the extractions and the answers under way keep their types; who leads a group of
\* the single-flight is in it and has begun, and who writes has a result
\* (ExtractInterviewQuestions, AnswerPipeline.Execute).
THEOREM SessionsTypeCorrect == Spec => []SessionsTypeOK
<1>1. SessionsTypeOK /\ [Next]_vars => SessionsTypeOK'
  BY CachesStep, ExtractsStep, AnswersStep, HistoryStep DEF SessionsTypeOK
<1>2. QED BY <1>1, StartsTyped, PTL DEF Spec
-----------------------------------------------------------------------------
(* The questions of a session come from its own resume. *)

\* Resumes handed in, and results taken over, stay known.
LEMMA GivenKept ==
  ASSUME SessionsTypeOK, NEW s \in Session, [Next]_vars
  PROVE  given[s] \subseteq given'[s] /\ shared \subseteq shared'
<1>1. HistoryOK
  BY DEF SessionsTypeOK
<1>2. ASSUME NEW x \in Extraction, Handing(x)
      PROVE  given[s] \subseteq given'[s] /\ shared \subseteq shared'
  <2>1. PICK t \in Session, u \in Resume : Begin(x, t, u)
    BY <1>2 DEF Handing
  <2>2. given' = [given EXCEPT ![t] = @ \cup {u}] /\ shared' = shared
    BY <2>1 DEF Begin
  <2>3. QED BY <1>1, <2>2 DEF HistoryOK
<1>3. ASSUME NEW x \in Extraction, Asking(x) PROVE given' = given /\ shared \subseteq shared'
  BY <1>3 DEF Asking, Enter, Extracted, NotExtracted, End, history
<1>4. ASSUME NEW x \in Extraction, SaveQuestions(x) \/ SaveMaterial(x) \/ RefreshCold(x)
               \/ ResetScore(x) \/ LookForFlow(x) \/ StartFlow(x)
      PROVE  given' = given /\ shared' = shared
  BY <1>4, WritingLeaves
<1>5. ASSUME NEW t \in Session, Answer(t) PROVE given' = given /\ shared' = shared
  BY <1>5, AnswerLeaves
<1>6. CASE UNCHANGED vars
  BY <1>6 DEF vars, history
<1>7. QED BY <1>2, <1>3, <1>4, <1>5, <1>6, NextSplit

LEMMA OwnKept ==
  ASSUME SessionsTypeOK, NEW s \in Session, NEW r, Own(s, r), [Next]_vars
  PROVE  From(given'[s], s \in shared', r)
BY GivenKept DEF Own, From

\* OwnQuestions says it of the three stores.
LEMMA OwnStores ==
  ASSUME OwnQuestions, NEW s \in Session
  PROVE  /\ texts[s] # None => Own(s, texts[s].resume)
         /\ material[s] # None => Own(s, material[s])
         /\ cold[s] # None => Own(s, cold[s].resume)
BY DEF OwnQuestions, Own, From

LEMMA OwnStoresNext ==
  ASSUME \A s \in Session :
           /\ texts'[s] # None => From(given'[s], s \in shared', texts'[s].resume)
           /\ material'[s] # None => From(given'[s], s \in shared', material'[s])
           /\ cold'[s] # None => From(given'[s], s \in shared', cold'[s].resume)
  PROVE  OwnQuestions'
BY DEF OwnQuestions, From

\* A step that stores nothing, or what is a session's own.
LEMMA OwnStoresKept ==
  ASSUME SessionsTypeOK, OwnQuestions, [Next]_vars, NEW t \in Session,
         \A s \in Session \ {t} :
           texts'[s] = texts[s] /\ material'[s] = material[s] /\ cold'[s] = cold[s],
         texts'[t] = texts[t] \/ Own(t, texts'[t].resume),
         material'[t] = material[t] \/ Own(t, material'[t]),
         cold'[t] = cold[t] \/ Own(t, cold'[t].resume)
  PROVE  OwnQuestions'
<1>1. ASSUME NEW s \in Session
      PROVE  /\ texts'[s] # None => From(given'[s], s \in shared', texts'[s].resume)
             /\ material'[s] # None => From(given'[s], s \in shared', material'[s])
             /\ cold'[s] # None => From(given'[s], s \in shared', cold'[s].resume)
  <2>1. \A r : Own(s, r) => From(given'[s], s \in shared', r)
    BY OwnKept
  <2>2. /\ texts'[s] = texts[s] \/ Own(s, texts'[s].resume)
        /\ material'[s] = material[s] \/ Own(s, material'[s])
        /\ cold'[s] = cold[s] \/ Own(s, cold'[s].resume)
    BY DEF SessionsTypeOK
  <2>3. QED BY <2>1, <2>2, OwnStores
<1>2. QED BY <1>1, OwnStoresNext
\* An extraction's own job, after a step.
LEMMA OwnJobsNext ==
  ASSUME \A x \in Extraction :
           /\ xpc'[x] # "idle" => job'[x].resume \in given'[job'[x].session]
           /\ xpc'[x] \in Writing => From(given'[job'[x].session], job'[x].session \in shared',
                                          result'[x].resume)
  PROVE  OwnJobs'
BY DEF OwnJobs, Own, From, S

\* An extraction that keeps its job, and has no new result.
LEMMA OwnJobKept ==
  ASSUME SessionsTypeOK, OwnJobs, [Next]_vars, NEW x \in Extraction,
         xpc'[x] # "idle" => xpc[x] # "idle", job'[x] = job[x],
         xpc'[x] \in Writing => xpc[x] \in Writing /\ result'[x] = result[x]
  PROVE  /\ xpc'[x] # "idle" => job'[x].resume \in given'[job'[x].session]
         /\ xpc'[x] \in Writing => From(given'[job'[x].session], job'[x].session \in shared',
                                        result'[x].resume)
<1>1. xpc[x] # "idle" => S(x) \in Session /\ job[x].resume \in given[S(x)]
  BY DEF SessionsTypeOK, ExtractsOK, S, Job, OwnJobs
<1>2. xpc[x] # "idle" => Own(S(x), job[x].resume)
  BY <1>1 DEF Own, From
<1>3. xpc[x] \in Writing => xpc[x] # "idle"
  BY DEF Writing
<1>4. xpc[x] \in Writing => Own(S(x), result[x].resume)
  BY DEF OwnJobs
<1>5. xpc'[x] # "idle" => job[x].resume \in given'[S(x)]
  BY <1>1, GivenKept
<1>6. xpc'[x] \in Writing => From(given'[S(x)], S(x) \in shared', result[x].resume)
  BY <1>1, <1>3, <1>4, OwnKept
<1>7. QED BY <1>5, <1>6 DEF S
LEMMA OwnStoresSame ==
  ASSUME SessionsTypeOK, OwnQuestions, [Next]_vars, UNCHANGED <<texts, material, cold>>
  PROVE  OwnQuestions'
<1>1. ASSUME NEW s \in Session
      PROVE  /\ texts'[s] # None => From(given'[s], s \in shared', texts'[s].resume)
             /\ material'[s] # None => From(given'[s], s \in shared', material'[s])
             /\ cold'[s] # None => From(given'[s], s \in shared', cold'[s].resume)
  BY OwnStores, OwnKept
<1>2. QED BY <1>1, OwnStoresNext

\* The call of x ends: it has the result for its own resume, and a waiting caller that takes it
\* over waits in the same group, for a resume that begins alike.
LEMMA OwnResultEnds ==
  ASSUME SessionsTypeOK, OwnJobs, [Next]_vars, NEW x \in Extraction, NEW res,
         xpc[x] = "lead", End(x, res), res # None => res.resume = job[x].resume, UNCHANGED job
  PROVE  OwnJobs'
<1> DEFINE settled == {w \in Extraction : w = x \/ (xpc[w] = "wait" /\ group[w] = group[x])}
           happy   == {w \in settled : res # None /\ (w = x \/ Takes(w, x))}
<1>1. /\ xpc' = [w \in Extraction |-> IF w \in happy THEN "save"
                                      ELSE IF w \in settled THEN AfterError(w) ELSE xpc[w]]
      /\ result' = [w \in Extraction |-> IF w \in happy THEN res ELSE result[w]]
      /\ shared' = shared \cup {S(w) : w \in {v \in happy \ {x} : group[v][1] = "local"}}
  BY DEF End
<1>2. ExtractsOK
  BY DEF SessionsTypeOK
<1>3. ASSUME NEW y \in Extraction
      PROVE  /\ xpc'[y] # "idle" => job'[y].resume \in given'[job'[y].session]
             /\ xpc'[y] \in Writing => From(given'[job'[y].session], job'[y].session \in shared',
                                            result'[y].resume)
  <2>1. CASE y \in happy
    <3>1. xpc[y] \in {"lead", "wait"} /\ res # None
      BY <2>1
    <3>2. S(y) \in Session /\ job[y].resume \in given[S(y)] /\ job'[y] = job[y]
      BY <1>2, <3>1 DEF ExtractsOK, S, Job, OwnJobs
    <3>3. job[y].resume \in given'[S(y)]
      BY <3>2, GivenKept
    <3>4. result'[y].resume = job[x].resume
      <4> HIDE DEF happy
      <4> QED BY <1>1, <2>1, <3>1
    <3>5. CASE y = x
      BY <3>2, <3>3, <3>4, <3>5 DEF From, S
    <3>6. CASE y # x
      <4>1. xpc[y] = "wait" /\ group[y] = group[x] /\ group[x][1] = "local"
        BY <2>1, <3>6 DEF Takes
      <4>2. /\ group[x] \in {"redis", "local"} \X {Key(x)}
            /\ group[y] \in {"redis", "local"} \X {Key(y)}
        BY <1>2, <4>1 DEF ExtractsOK
      <4>3. Key(x) = Key(y)
        BY <4>1, <4>2
      <4>4. S(y) \in shared'
        <5> HIDE DEF happy
        <5> QED BY <1>1, <2>1, <3>6, <4>1
      <4>5. QED BY <3>2, <3>3, <3>4, <4>3, <4>4 DEF From, S, Key
    <3>7. QED BY <3>5, <3>6
  <2>2. CASE y \in settled /\ y \notin happy
    <3>1. xpc[y] \in {"lead", "wait"}
      BY <2>2
    <3> HIDE DEF happy, settled
    <3>2. xpc'[y] \in {"enter", "failed"}
      BY <1>1, <2>2 DEF AfterError
    <3>3. QED BY <3>1, <3>2, OwnJobKept DEF Writing
  <2>3. CASE y \notin settled
    <3>1. happy \subseteq settled
      OBVIOUS
    <3> HIDE DEF happy, settled
    <3>2. xpc'[y] = xpc[y] /\ result'[y] = result[y]
      BY <1>1, <2>3, <3>1
    <3>3. QED BY <3>2, OwnJobKept
  <2>4. QED
    <3> HIDE DEF happy, settled
    <3> QED BY <2>1, <2>2, <2>3
<1>4. QED BY <1>3, OwnJobsNext

LEMMA OwnStep == SessionsTypeOK /\ OwnInv /\ [Next]_vars => OwnInv'
<1> SUFFICES ASSUME SessionsTypeOK, OwnInv, [Next]_vars PROVE OwnInv'
  OBVIOUS
<1> OwnJobs /\ OwnQuestions /\ ExtractsOK /\ CachesOK
  BY DEF OwnInv, SessionsTypeOK
<1>1. ASSUME UNCHANGED <<xpc, job, result>> PROVE OwnJobs'
  BY <1>1, OwnJobKept, OwnJobsNext
<1>2. ASSUME NEW x \in Extraction, Handing(x) \/ Asking(x) PROVE OwnInv'
  <2>1. OwnQuestions'
    BY <1>2, HandingLeaves, OwnStoresSame DEF caches
  <2>2. ASSUME Handing(x) PROVE OwnJobs'
    <3>1. PICK s \in Session, r \in Resume : Begin(x, s, r)
      BY <2>2 DEF Handing
    <3>2. /\ job' = [job EXCEPT ![x] = [session |-> s, resume |-> r]]
          /\ given' = [given EXCEPT ![s] = @ \cup {r}] /\ xpc' = [xpc EXCEPT ![x] = "enter"]
          /\ UNCHANGED result
      BY <3>1 DEF Begin, Goto
    <3>3. xpc'[x] = "enter" /\ job'[x].session = s /\ job'[x].resume = r /\ r \in given'[s]
      BY <3>2 DEF ExtractsOK, SessionsTypeOK, HistoryOK
    <3>4. \A y \in Extraction \ {x} : xpc'[y] = xpc[y] /\ job'[y] = job[y] /\ result'[y] = result[y]
      BY <3>2 DEF ExtractsOK
    <3>5. QED BY <3>3, <3>4, OwnJobKept, OwnJobsNext DEF Writing
  <2>3. ASSUME Enter(x) PROVE OwnJobs'
    <3>1. xpc[x] = "enter" /\ UNCHANGED <<job, result>>
          /\ \E label \in {"lead", "wait"} : xpc' = [xpc EXCEPT ![x] = label]
      BY <2>3 DEF Enter, Join, Goto
    <3>2. \A y \in Extraction : xpc'[y] = xpc[y] \/ (xpc[y] # "idle" /\ xpc'[y] \notin Writing)
      BY <3>1 DEF ExtractsOK, Writing
    <3>3. QED BY <3>1, <3>2, OwnJobKept, OwnJobsNext
  <2>4. ASSUME Extracted(x) \/ NotExtracted(x) PROVE OwnJobs'
    <3>1. xpc[x] = "lead" /\ UNCHANGED job
      BY <2>4 DEF Extracted, NotExtracted
    <3>2. CASE Extracted(x)
      <4>1. PICK n \in 1 .. MaxQuestions : End(x, [resume |-> job[x].resume, n |-> n])
        BY <3>2 DEF Extracted
      <4>2. [resume |-> job[x].resume, n |-> n].resume = job[x].resume
        OBVIOUS
      <4>3. QED BY <3>1, <4>1, <4>2, OwnResultEnds
    <3>3. CASE NotExtracted(x)
      BY <3>1, <3>3, OwnResultEnds DEF NotExtracted
    <3>4. QED BY <2>4, <3>2, <3>3
  <2>5. QED BY <1>2, <2>1, <2>2, <2>3, <2>4 DEF Asking, OwnInv
<1>3. ASSUME NEW x \in Extraction, SaveQuestions(x) \/ SaveMaterial(x) \/ RefreshCold(x)
                                     \/ ResetScore(x) \/ LookForFlow(x) \/ StartFlow(x)
      PROVE  OwnInv'
  <2>1. UNCHANGED <<job, result>>
    BY <1>3, WritingLeaves
  <2>2. /\ xpc[x] \in Writing
        /\ \E label \in Writing \cup {"done", "failed"} : xpc' = [xpc EXCEPT ![x] = label]
    BY <1>3 DEF SaveQuestions, SaveMaterial, RefreshCold, ResetScore, LookForFlow, StartFlow, Goto,
                Writing
  <2>3. \A y \in Extraction : /\ xpc'[y] # "idle" => xpc[y] # "idle"
                              /\ xpc'[y] \in Writing => xpc[y] \in Writing
    BY <2>2 DEF ExtractsOK, Writing
  <2>4. OwnJobs'
    BY <2>1, <2>3, OwnJobKept, OwnJobsNext
  <2>5. S(x) \in Session /\ Own(S(x), result[x].resume)
    BY <2>2 DEF ExtractsOK, S, Job, Writing, OwnJobs
  <2>6. /\ texts' \in {texts, [texts EXCEPT ![S(x)] = result[x]]}
        /\ material' \in {material, [material EXCEPT ![S(x)] = result[x].resume]}
        /\ cold' \in {cold, [cold EXCEPT ![S(x)] = result[x]]}
    BY <1>3 DEF SaveQuestions, SaveMaterial, RefreshCold, ResetScore, LookForFlow, StartFlow, caches
  <2>7. \A s \in Session \ {S(x)} : texts'[s] = texts[s] /\ material'[s] = material[s]
                                    /\ cold'[s] = cold[s]
    BY <2>6 DEF CachesOK
  <2>8. /\ texts'[S(x)] \in {texts[S(x)], result[x]}
        /\ material'[S(x)] \in {material[S(x)], result[x].resume}
        /\ cold'[S(x)] \in {cold[S(x)], result[x]}
    BY <2>5, <2>6 DEF CachesOK
  <2>9. OwnQuestions'
    BY <2>5, <2>7, <2>8, OwnStoresKept
  <2>10. QED BY <2>4, <2>9 DEF OwnInv
<1>4. ASSUME NEW s \in Session, Answer(s) PROVE OwnInv'
  BY <1>1, <1>4, AnswerLeaves, OwnStoresSame DEF OwnInv, extract
<1>5. CASE UNCHANGED vars
  BY <1>1, <1>5, OwnStoresSame DEF OwnInv, vars, extract, caches
<1>6. QED BY <1>2, <1>3, <1>4, <1>5, NextSplit

\* What a session shows and evaluates by comes from a resume handed in for it, or from one of the
\* same first 64 bytes that a caller in the same process was extracting
\* (ExtractInterviewQuestions, hashContent, localGroup.Do).
THEOREM QuestionsAreOwn == Spec => []OwnQuestions
<1>1. Init => OwnInv
  BY DEF Init, OwnInv, OwnJobs, OwnQuestions, Writing
<1>2. OwnInv => OwnQuestions
  BY DEF OwnInv
<1>3. QED BY <1>1, <1>2, OwnStep, SessionsTypeCorrect, PTL DEF Spec
-----------------------------------------------------------------------------
(* The question a session asks has a text. *)

\* What is kept of a session's texts only grows.
LEMMA TextsStay ==
  ASSUME SessionsTypeOK, [Next]_vars
  PROVE  /\ shortened \subseteq shortened' /\ textLost \subseteq textLost'
         /\ \A s \in Session : /\ texts[s] # None => texts'[s] # None
                               /\ followUps[s] \subseteq followUps'[s]
<1>1. CachesOK /\ ExtractsOK
  BY DEF SessionsTypeOK
<1> DEFINE Stay == /\ shortened \subseteq shortened' /\ textLost \subseteq textLost'
                   /\ \A s \in Session : /\ texts[s] # None => texts'[s] # None
                                         /\ followUps[s] \subseteq followUps'[s]
<1>2. ASSUME UNCHANGED <<texts, followUps, shortened, textLost>> PROVE Stay
  BY <1>2
<1>3. ASSUME NEW x \in Extraction, Handing(x) \/ Asking(x) PROVE Stay
  BY <1>2, <1>3, HandingLeaves DEF caches
<1>4. ASSUME NEW x \in Extraction, SaveQuestions(x) PROVE Stay
  <2>1. result[x] # None
    BY <1>1, <1>4, NoneIsNew DEF SaveQuestions, ExtractsOK, Writing
  <2>2. /\ texts' \in {texts, [texts EXCEPT ![S(x)] = result[x]]}
        /\ shortened \subseteq shortened' /\ UNCHANGED <<followUps, textLost>>
    BY <1>4 DEF SaveQuestions
  <2>3. QED BY <1>1, <2>1, <2>2 DEF CachesOK
<1>5. ASSUME NEW x \in Extraction, SaveMaterial(x) \/ RefreshCold(x) \/ ResetScore(x)
                                     \/ LookForFlow(x) \/ StartFlow(x)
      PROVE  Stay
  BY <1>5 DEF SaveMaterial, RefreshCold, ResetScore, LookForFlow, StartFlow, caches, history
<1>6. ASSUME NEW s \in Session, Answer(s) PROVE Stay
  <2>1. UNCHANGED <<texts, shortened>>
    BY <1>6, AnswerLeaves
  <2>2. textLost' \in {textLost, textLost \cup {s}}
        /\ \E n : followUps' \in {followUps, [followUps EXCEPT ![s] = @ \cup {n}]}
    BY <1>6 DEF Answer, Take, Evaluate, NotEvaluated, StartFollowUp, SaveFollowUp, Advance,
                NotAdvanced, AddScore, AddScoreFails, Archive, history, caches
  <2>3. QED BY <1>1, <2>1, <2>2 DEF CachesOK
<1>7. CASE UNCHANGED vars
  BY <1>2, <1>7 DEF vars, caches, history
<1>8. QED BY <1>3, <1>4, <1>5, <1>6, <1>7, NextSplit

LEMMA FitsStays ==
  ASSUME SessionsTypeOK, [Next]_vars, NEW s \in Session, NEW f,
         texts'[s] = texts[s]
  PROVE  /\ Fits(f, texts[s], s \in shortened) => Fits(f, texts'[s], s \in shortened')
         /\ Known(f, followUps[s], s \in textLost) => Known(f, followUps'[s], s \in textLost')
BY TextsStay DEF Fits, Known

\* Shown, after a step.
LEMMA ShownNext ==
  ASSUME NEW s \in Session,
         flow'[s] # None => Fits(flow'[s], texts'[s], s \in shortened'),
         flow'[s] # None /\ flow'[s].status # "COMPLETED" =>
           \/ Known(flow'[s], followUps'[s], s \in textLost')
           \/ /\ apc'[s] = "text"
              /\ flow'[s].qn = <<answer'[s].question[1], answer'[s].seen.count + 1>>,
         answer'[s].seen # None => /\ Fits(answer'[s].seen, texts'[s], s \in shortened')
                                   /\ Known(answer'[s].seen, followUps'[s], s \in textLost')
  PROVE  Shown(s)'
BY DEF Shown, Fits, Known, Within, NextFollowUp

\* A step that leaves a session's flow, answer and questions alone.
LEMMA ShownStays ==
  ASSUME SessionsTypeOK, [Next]_vars, NEW s \in Session, Shown(s), texts'[s] = texts[s],
         flow'[s] = flow[s], answer'[s].seen \in {answer[s].seen, None},
         apc[s] = "text" => apc'[s] = "text" /\ answer'[s] = answer[s]
  PROVE  Shown(s)'
<1>1. \A f : /\ Fits(f, texts[s], s \in shortened) => Fits(f, texts'[s], s \in shortened')
             /\ Known(f, followUps[s], s \in textLost) => Known(f, followUps'[s], s \in textLost')
  BY FitsStays
<1>2. flow'[s] # None => Fits(flow'[s], texts'[s], s \in shortened')
  BY <1>1 DEF Shown
<1>3. flow'[s] # None /\ flow'[s].status # "COMPLETED" =>
        \/ Known(flow'[s], followUps'[s], s \in textLost')
        \/ /\ apc'[s] = "text"
           /\ flow'[s].qn = <<answer'[s].question[1], answer'[s].seen.count + 1>>
  BY <1>1 DEF Shown, NextFollowUp
<1>4. answer'[s].seen # None => /\ Fits(answer'[s].seen, texts'[s], s \in shortened')
                                /\ Known(answer'[s].seen, followUps'[s], s \in textLost')
  BY <1>1 DEF Shown
<1>5. QED BY <1>2, <1>3, <1>4, ShownNext
\* An extraction that is past saving its questions has saved them.
LEMMA SavesFirstNext ==
  ASSUME SessionsTypeOK, SavesFirst, [Next]_vars
  PROVE  SavesFirst'
<1> DEFINE late == {"material", "cold", "reset", "look", "start"}
<1> ExtractsOK /\ CachesOK
  BY DEF SessionsTypeOK
<1>1. \A x \in Extraction : xpc[x] # "idle" => S(x) \in Session
  BY DEF ExtractsOK, S, Job
<1>2. ASSUME NEW x \in Extraction, xpc'[x] \in late => xpc[x] \in late,
             xpc[x] \in late => job'[x] = job[x]
      PROVE  xpc'[x] \in late => texts'[job'[x].session] # None
  BY <1>1, <1>2, TextsStay DEF SavesFirst, S
<1>3. ASSUME UNCHANGED <<xpc, job>> PROVE SavesFirst'
  BY <1>2, <1>3 DEF SavesFirst, S
<1>4. ASSUME NEW x \in Extraction, Handing(x) PROVE SavesFirst'
  <2>1. /\ xpc[x] = "idle" /\ xpc' = [xpc EXCEPT ![x] = "enter"]
        /\ \E j : job' = [job EXCEPT ![x] = j]
    BY <1>4 DEF Handing, Begin, Goto
  <2>2. \A y \in Extraction : /\ xpc'[y] \in late => xpc[y] \in late
                              /\ xpc[y] \in late => job'[y] = job[y]
    BY <2>1 DEF ExtractsOK
  <2>3. QED BY <1>2, <2>2 DEF SavesFirst, S
<1>5. ASSUME NEW x \in Extraction, Asking(x) PROVE SavesFirst'
  <2>1. \A y \in Extraction : xpc'[y] \in late => xpc[y] \in late
    <3>1. CASE Enter(x)
      <4>1. \E label \in {"lead", "wait"} : xpc' = [xpc EXCEPT ![x] = label]
        BY <3>1 DEF Enter, Join, Goto
      <4>2. QED BY <4>1 DEF ExtractsOK
    <3>2. ASSUME NEW res, End(x, res)
          PROVE  \A y \in Extraction : xpc'[y] \in {xpc[y], "save", "enter", "failed"}
      BY <3>2 DEF End, AfterError
    <3>3. QED BY <1>5, <3>1, <3>2 DEF Asking, Extracted, NotExtracted
  <2>2. UNCHANGED job
    BY <1>5 DEF Asking, Enter, Extracted, NotExtracted
  <2>3. QED BY <1>2, <2>1, <2>2 DEF SavesFirst, S
<1>6. ASSUME NEW x \in Extraction, SaveQuestions(x) PROVE SavesFirst'
  <2>1. S(x) \in Session /\ result[x] # None /\ UNCHANGED job
    BY <1>1, <1>6, NoneIsNew DEF SaveQuestions, ExtractsOK, Writing
  <2>2. \/ texts' = [texts EXCEPT ![S(x)] = result[x]] /\ xpc' = [xpc EXCEPT ![x] = "material"]
        \/ xpc' = [xpc EXCEPT ![x] = "failed"]
    BY <1>6 DEF SaveQuestions, Goto
  <2>3. xpc'[x] \in late => texts'[job'[x].session] # None
    BY <2>1, <2>2 DEF ExtractsOK, CachesOK, S
  <2>4. \A y \in Extraction \ {x} : xpc'[y] = xpc[y]
    BY <2>2 DEF ExtractsOK
  <2>5. \A y \in Extraction \ {x} : xpc'[y] \in late => texts'[job'[y].session] # None
    BY <1>2, <2>1, <2>4
  <2>6. QED BY <2>3, <2>5 DEF SavesFirst, S
<1>7. ASSUME NEW x \in Extraction, SaveMaterial(x) \/ RefreshCold(x) \/ ResetScore(x)
                                     \/ LookForFlow(x) \/ StartFlow(x)
      PROVE  SavesFirst'
  <2>1. /\ xpc[x] \in late /\ UNCHANGED job
        /\ \E label \in ExtractionStep : xpc' = [xpc EXCEPT ![x] = label]
    BY <1>7 DEF SaveMaterial, RefreshCold, ResetScore, LookForFlow, StartFlow, Goto, ExtractionStep
  <2>2. \A y \in Extraction : xpc'[y] \in late => xpc[y] \in late
    BY <2>1 DEF ExtractsOK
  <2>3. QED BY <1>2, <2>1, <2>2 DEF SavesFirst, S
<1>8. ASSUME NEW s \in Session, Answer(s) PROVE SavesFirst'
  BY <1>3, <1>8, AnswerLeaves DEF extract
<1>9. CASE UNCHANGED vars
  BY <1>3, <1>9 DEF vars, extract
<1>10. QED BY <1>4, <1>5, <1>6, <1>7, <1>8, <1>9, NextSplit

\* Questions saved again: only the sessions that are noted have fewer than their flow counts on.
LEMMA SavedShown ==
  ASSUME SessionsTypeOK, [Next]_vars, NEW x \in Extraction, SaveQuestions(x), Shown(S(x))
  PROVE  Shown(S(x))'
<1> DEFINE s == S(x)
<1> CachesOK /\ ExtractsOK /\ AnswersOK
  BY DEF SessionsTypeOK
<1>1. s \in Session /\ result[x] \in Result /\ result[x] # None /\ job'[x] = job[x]
  BY NoneIsNew DEF SaveQuestions, ExtractsOK, Writing, S, Job
<1>2. UNCHANGED <<flow, answer, apc, followUps, textLost>>
  BY DEF SaveQuestions, progress
<1>3. CASE UNCHANGED <<texts, shortened>>
  BY <1>1, <1>2, <1>3 DEF Shown, S, NextFollowUp
<1>4. CASE /\ texts' = [texts EXCEPT ![s] = result[x]]
           /\ shortened' = IF Shorter(s, result[x]) THEN shortened \cup {s} ELSE shortened
  <2>1. texts'[s] = result[x]
    BY <1>1, <1>4 DEF CachesOK
  <2>2. ASSUME NEW f \in {flow[s], answer[s].seen} \ {None}, Fits(f, texts[s], s \in shortened)
        PROVE  Fits(f, texts'[s], s \in shortened')
    <3>1. s \in shortened' \/ ~ (result[x].n < f.total)
      BY <1>4 DEF Shorter
    <3>2. f.total \in Nat /\ result[x].n \in Nat
      <4>1. f \in Flow
        BY <1>1 DEF AnswersOK, Answers, Running, Finished
      <4>2. QED BY <1>1, <4>1 DEF Flow, Result
    <3>3. QED BY <1>1, <2>1, <2>2, <3>1, <3>2 DEF Fits
  <2> HIDE DEF s
  <2>3. flow'[s] # None => Fits(flow'[s], texts'[s], s \in shortened')
    BY <1>2, <2>2 DEF Shown, s
  <2>4. answer'[s].seen # None => Fits(answer'[s].seen, texts'[s], s \in shortened')
    BY <1>2, <2>2 DEF Shown, s
  <2>5. Shown(s)
    BY DEF s
  <2>6. flow'[s] # None /\ flow'[s].status # "COMPLETED" =>
          \/ Known(flow'[s], followUps'[s], s \in textLost')
          \/ /\ apc'[s] = "text"
             /\ flow'[s].qn = <<answer'[s].question[1], answer'[s].seen.count + 1>>
    BY <1>2, <2>5 DEF Shown, NextFollowUp
  <2>7. answer'[s].seen # None => Known(answer'[s].seen, followUps'[s], s \in textLost')
    BY <1>2, <2>5 DEF Shown
  <2>8. \A t \in Session : t = s => Shown(t)'
    BY <2>3, <2>4, <2>6, <2>7, ShownNext
  <2>9. S(x)' = s
    BY <1>1 DEF S, s
  <2>10. QED BY <1>1, <2>8, <2>9 DEF Shown, S, s
<1>5. QED BY <1>3, <1>4 DEF SaveQuestions
\* A flow that is started asks the first of the questions; it may count on more than are saved.
LEMMA StartedShown ==
  ASSUME SessionsTypeOK, SavesFirst, [Next]_vars, NEW x \in Extraction, StartFlow(x),
         NEW s \in Session, s = S(x), Shown(s)
  PROVE  Shown(s)'
<1> CachesOK /\ ExtractsOK /\ AnswersOK
  BY DEF SessionsTypeOK
<1>1. result[x] \in Result /\ texts[s] # None /\ texts[s] \in Result
  BY DEF StartFlow, ExtractsOK, Writing, SavesFirst, CachesOK
<1>2. UNCHANGED <<texts, answer, apc, followUps, textLost>>
  BY DEF StartFlow
<1>3. CASE UNCHANGED flow
  BY <1>2, <1>3, ShownStays
<1>4. CASE flow' = [flow EXCEPT ![s] = FirstFlow(result[x])]
  <2>1. flow'[s] = FirstFlow(result[x])
    BY <1>4 DEF AnswersOK
  <2>2. flow'[s].qn = <<1, 0>> /\ flow'[s].index = 0 /\ flow'[s].total = result[x].n
    BY <2>1 DEF FirstFlow
  <2>3. result[x].n \in Nat \ {0} /\ texts[s].n \in Nat
    BY <1>1 DEF Result
  <2>4. s \in shortened' \/ ~ (texts[s].n < result[x].n)
    BY DEF StartFlow
  <2>5. Fits(flow'[s], texts'[s], s \in shortened')
    BY <1>1, <1>2, <2>2, <2>3, <2>4 DEF Fits, Within
  <2>6. Known(flow'[s], followUps'[s], s \in textLost')
    BY <2>2 DEF Known
  <2>7. answer'[s].seen # None => /\ Fits(answer'[s].seen, texts'[s], s \in shortened')
                                  /\ Known(answer'[s].seen, followUps'[s], s \in textLost')
    BY <1>2, FitsStays DEF Shown
  <2>8. QED BY <2>5, <2>6, <2>7, ShownNext
<1>5. QED BY <1>3, <1>4 DEF StartFlow

\* An answer moves its flow on, or puts back the one it found.
LEMMA AnswerShown ==
  ASSUME SessionsTypeOK, [Next]_vars, NEW s \in Session, Answer(s), Shown(s)
  PROVE  Shown(s)'
<1> CachesOK /\ AnswersOK
  BY DEF SessionsTypeOK
<1>1. texts' = texts /\ shortened' = shortened
  BY AnswerLeaves
<1>2. \A f : /\ Fits(f, texts[s], s \in shortened) => Fits(f, texts'[s], s \in shortened')
             /\ Known(f, followUps[s], s \in textLost) => Known(f, followUps'[s], s \in textLost')
  BY <1>1, FitsStays
<1>3. ASSUME apc[s] # "text", flow'[s] \in {flow[s], answer[s].seen}, answer'[s] = NoAnswer
      PROVE  Shown(s)'
  <2>1. answer'[s].seen = None
    BY <1>3 DEF NoAnswer
  <2>2. flow'[s] # None => /\ Fits(flow'[s], texts'[s], s \in shortened')
                           /\ flow'[s].status # "COMPLETED" =>
                                Known(flow'[s], followUps'[s], s \in textLost')
    BY <1>2, <1>3 DEF Shown
  <2>3. QED BY <2>1, <2>2, ShownNext
<1>4. CASE Take(s)
  <2> DEFINE f == [flow[s] EXCEPT !.status = "EVALUATING", !.version = @ + 1]
             a == [question |-> flow[s].qn, seen |-> flow[s], mine |-> flow[s].version + 1,
                   score |-> 0]
  <2>1. flow' = [flow EXCEPT ![s] = f] /\ answer' = [answer EXCEPT ![s] = a] /\ apc[s] = "idle"
        /\ flow[s] # None /\ flow[s].status # "COMPLETED"
    BY <1>4 DEF Take
  <2>2. flow'[s] = f /\ answer'[s].seen = flow[s]
    BY <2>1 DEF AnswersOK
  <2>3. flow[s] \in Flow
    BY <2>1, AnswerOf DEF Running, Finished
  <2>4. f.qn = flow[s].qn /\ f.index = flow[s].index /\ f.total = flow[s].total
    BY <2>3 DEF Flow
  <2>5. Fits(flow[s], texts[s], s \in shortened) /\ Known(flow[s], followUps[s], s \in textLost)
    BY <2>1 DEF Shown
  <2> HIDE DEF f, a
  <2>6. Fits(f, texts[s], s \in shortened) /\ Known(f, followUps[s], s \in textLost)
    BY <2>1, <2>4, <2>5 DEF Fits, Within, Known
  <2>7. QED BY <1>2, <2>2, <2>5, <2>6, ShownNext
<1>5. CASE Evaluate(s)
  <2>1. PICK assessment \in Assessments : answer' = [answer EXCEPT ![s].score = assessment.score]
    BY <1>5 DEF Evaluate
  <2>2. answer'[s].seen = answer[s].seen /\ flow' = flow /\ apc[s] = "evaluate"
    BY <1>5, <2>1 DEF Evaluate, AnswersOK, Answers
  <2>3. QED BY <1>1, <2>2, ShownStays
<1>6. CASE NotEvaluated(s) \/ NotAdvanced(s) \/ AddScoreFails(s)
  <2>1. /\ apc[s] # "text" /\ answer' = [answer EXCEPT ![s] = NoAnswer]
        /\ flow' \in {flow, [flow EXCEPT ![s] = answer[s].seen]}
    BY <1>6, RestoredIs DEF NotEvaluated, NotAdvanced, AddScoreFails
  <2>2. answer'[s] = NoAnswer /\ flow'[s] \in {flow[s], answer[s].seen}
    BY <2>1 DEF AnswersOK
  <2>3. QED BY <1>3, <2>1, <2>2
<1>7. CASE StartFollowUp(s)
  <2> DEFINE f == [flow[s] EXCEPT !.status = "FOLLOW_UP", !.count = @ + 1, !.version = @ + 1,
                                  !.qn = NextFollowUp(s)]
  <2>1. /\ flow' = [flow EXCEPT ![s] = f] /\ apc' = [apc EXCEPT ![s] = "text"]
        /\ answer' = [answer EXCEPT ![s].mine = flow[s].version + 1] /\ apc[s] # "idle"
    BY <1>7 DEF StartFollowUp, NextFollowUp, Step
  <2>2. /\ flow'[s] = f /\ apc'[s] = "text"
        /\ answer'[s].seen = answer[s].seen /\ answer'[s].question = answer[s].question
    BY <2>1 DEF AnswersOK, Answers
  <2>3. flow[s] \in Flow /\ flow[s] # None /\ answer[s].seen.count \in Nat
    BY <2>1, AnswerUnderWay DEF Running, Finished
  <2>4. f.qn = NextFollowUp(s) /\ f.index = flow[s].index /\ f.total = flow[s].total
    BY <2>3 DEF Flow
  <2> HIDE DEF f
  <2>5. f.qn[2] # 0
    BY <2>3, <2>4 DEF NextFollowUp
  <2>6. Fits(f, texts[s], s \in shortened)
    BY <2>3, <2>4, <2>5 DEF Shown, Fits, Within
  <2>7. flow'[s].qn = <<answer'[s].question[1], answer'[s].seen.count + 1>>
    BY <2>2, <2>4 DEF NextFollowUp
  <2>8. answer'[s].seen # None => /\ Fits(answer'[s].seen, texts'[s], s \in shortened')
                                  /\ Known(answer'[s].seen, followUps'[s], s \in textLost')
    BY <1>2, <2>2 DEF Shown
  <2>9. QED BY <1>2, <2>2, <2>6, <2>7, <2>8, ShownNext
<1>8. CASE SaveFollowUp(s)
  <2>1. /\ UNCHANGED <<flow, answer>> /\ apc[s] # "idle"
        /\ \/ followUps' = [followUps EXCEPT ![s] = @ \cup {NextFollowUp(s)}]
           \/ textLost' = textLost \cup {s}
    BY <1>8 DEF SaveFollowUp, NextFollowUp
  <2>2. NextFollowUp(s) \in followUps'[s] \/ s \in textLost'
    BY <2>1 DEF CachesOK
  <2>3. flow[s] # None /\ flow[s].status # "COMPLETED" =>
          Known(flow[s], followUps'[s], s \in textLost')
    BY <1>2, <2>2 DEF Shown, Known
  <2>4. flow'[s] # None => Fits(flow'[s], texts'[s], s \in shortened')
    BY <1>2, <2>1 DEF Shown
  <2>5. answer'[s].seen # None => /\ Fits(answer'[s].seen, texts'[s], s \in shortened')
                                  /\ Known(answer'[s].seen, followUps'[s], s \in textLost')
    BY <1>2, <2>1 DEF Shown
  <2>6. QED BY <2>1, <2>3, <2>4, <2>5, ShownNext
<1>9. CASE Advance(s)
  <2>1. /\ flow' = [flow EXCEPT ![s] = Advanced(flow[s])] /\ apc[s] # "idle"
        /\ answer' = [answer EXCEPT ![s].mine = flow[s].version + 1]
        /\ flow[s].status = "EVALUATING"
    BY <1>9 DEF Advance
  <2>2. flow'[s] = Advanced(flow[s]) /\ answer'[s].seen = answer[s].seen
    BY <2>1 DEF AnswersOK, Answers
  <2>3. flow[s] \in Flow /\ flow[s] # None /\ flow[s].index \in Nat /\ flow[s].total \in Nat
    <3>1. flow[s] \in Flow /\ flow[s] # None
      BY <2>1, AnswerUnderWay DEF Running, Finished
    <3>2. QED BY <3>1 DEF Flow
  <2>4. Fits(flow[s], texts[s], s \in shortened)
    BY <2>3 DEF Shown
  <2> DEFINE f == Advanced(flow[s])
  <2>5. CASE flow[s].index + 1 >= flow[s].total
    <3>1. f.status = "COMPLETED" /\ f.index = flow[s].index /\ f.total = flow[s].total
      BY <2>3, <2>5 DEF Advanced, Flow
    <3> HIDE DEF f
    <3>2. Fits(f, texts[s], s \in shortened)
      BY <2>4, <3>1 DEF Fits, Within
    <3>3. flow'[s] = f
      BY <2>2 DEF f
    <3>4. answer'[s].seen # None => /\ Fits(answer'[s].seen, texts'[s], s \in shortened')
                                    /\ Known(answer'[s].seen, followUps'[s], s \in textLost')
      BY <1>2, <2>2 DEF Shown
    <3>5. QED BY <1>2, <3>1, <3>2, <3>3, <3>4, ShownNext
  <2>6. CASE ~ (flow[s].index + 1 >= flow[s].total)
    <3>1. f.qn = <<flow[s].index + 2, 0>> /\ f.index = flow[s].index + 1 /\ f.total = flow[s].total
      BY <2>3, <2>6 DEF Advanced, Flow
    <3> HIDE DEF f
    <3>2. Fits(f, texts[s], s \in shortened)
      BY <2>3, <2>4, <2>6, <3>1 DEF Fits, Within
    <3>3. Known(f, followUps[s], s \in textLost)
      BY <3>1 DEF Known
    <3>4. flow'[s] = f
      BY <2>2 DEF f
    <3>5. answer'[s].seen # None => /\ Fits(answer'[s].seen, texts'[s], s \in shortened')
                                    /\ Known(answer'[s].seen, followUps'[s], s \in textLost')
      BY <1>2, <2>2 DEF Shown
    <3>6. QED BY <1>2, <3>2, <3>3, <3>4, <3>5, ShownNext
  <2>7. QED BY <2>5, <2>6
<1>10. CASE AddScore(s)
  BY <1>1, <1>10, ShownStays DEF AddScore
<1>11. CASE Archive(s)
  <2>1. apc[s] = "log" /\ answer' = [answer EXCEPT ![s] = NoAnswer] /\ UNCHANGED flow
    BY <1>11 DEF Archive
  <2>2. answer'[s].seen = None
    BY <2>1 DEF AnswersOK, NoAnswer
  <2>3. QED BY <1>1, <2>1, <2>2, ShownStays
<1>12. QED BY <1>4, <1>5, <1>6, <1>7, <1>8, <1>9, <1>10, <1>11 DEF Answer

LEMMA TextStep == SessionsTypeOK /\ TextInv /\ [Next]_vars => TextInv'
<1> SUFFICES ASSUME SessionsTypeOK, TextInv, [Next]_vars PROVE TextInv'
  OBVIOUS
<1> CachesOK /\ ExtractsOK /\ AnswersOK /\ SavesFirst /\ \A s \in Session : Shown(s)
  BY DEF SessionsTypeOK, TextInv
<1>1. SavesFirst'
  BY SavesFirstNext
<1>2. ASSUME UNCHANGED <<texts, progress>> PROVE \A s \in Session : Shown(s)'
  BY <1>2, ShownStays DEF progress
<1>3. ASSUME NEW x \in Extraction, Handing(x) \/ Asking(x) PROVE \A s \in Session : Shown(s)'
  BY <1>2, <1>3, HandingLeaves DEF caches
<1>4. ASSUME NEW x \in Extraction, SaveQuestions(x) PROVE \A s \in Session : Shown(s)'
  <2>1. S(x) \in Session /\ job'[x] = job[x] /\ UNCHANGED <<flow, answer, apc>>
        /\ texts' \in {texts, [texts EXCEPT ![S(x)] = result[x]]}
    BY <1>4 DEF SaveQuestions, ExtractsOK, S, Job, progress
  <2>2. \A s \in Session \ {S(x)} : texts'[s] = texts[s]
    BY <2>1 DEF CachesOK
  <2>3. \A s \in Session \ {S(x)} : Shown(s)'
    BY <2>1, <2>2, ShownStays
  <2>4. Shown(S(x))'
    BY <1>4, <2>1, SavedShown
  <2>5. \A s \in Session : s = S(x) => Shown(s)'
    BY <2>1, <2>4 DEF Shown, S
  <2>6. QED BY <2>3, <2>5
<1>5. ASSUME NEW x \in Extraction,
             SaveMaterial(x) \/ RefreshCold(x) \/ ResetScore(x) \/ LookForFlow(x)
      PROVE  \A s \in Session : Shown(s)'
  <2>1. UNCHANGED <<texts, flow, answer, apc>>
    BY <1>5 DEF SaveMaterial, RefreshCold, ResetScore, LookForFlow, caches, progress
  <2>2. QED BY <2>1, ShownStays
<1>6. ASSUME NEW x \in Extraction, StartFlow(x) PROVE \A s \in Session : Shown(s)'
  <2>1. UNCHANGED <<texts, answer, apc>>
        /\ flow' \in {flow, [flow EXCEPT ![S(x)] = FirstFlow(result[x])]}
    BY <1>6 DEF StartFlow
  <2>2. \A s \in Session \ {S(x)} : flow'[s] = flow[s]
    BY <2>1 DEF AnswersOK
  <2>3. \A s \in Session \ {S(x)} : Shown(s)'
    BY <2>1, <2>2, ShownStays
  <2>4. \A s \in Session : s = S(x) => Shown(s)'
    BY <1>6, StartedShown
  <2>5. QED BY <2>3, <2>4
<1>7. ASSUME NEW s \in Session, Answer(s) PROVE \A t \in Session : Shown(t)'
  <2>1. \A t \in Session \ {s} : flow'[t] = flow[t] /\ answer'[t] = answer[t] /\ apc'[t] = apc[t]
    BY <1>7, AnswerAlone DEF AnswersOK, Alone
  <2>2. UNCHANGED texts
    BY <1>7, AnswerLeaves
  <2>3. \A t \in Session \ {s} : Shown(t)'
    BY <2>1, <2>2, ShownStays
  <2>4. Shown(s)'
    BY <1>7, AnswerShown
  <2>5. QED BY <2>3, <2>4
<1>8. ASSUME UNCHANGED vars PROVE \A s \in Session : Shown(s)'
  <2>1. UNCHANGED <<texts, progress>>
    BY <1>8 DEF vars, caches
  <2>2. QED BY <1>2, <2>1
<1>9. \A s \in Session : Shown(s)'
  <2>1. CASE \E x \in Extraction :
              \/ Handing(x) \/ Asking(x) \/ SaveQuestions(x) \/ SaveMaterial(x) \/ RefreshCold(x)
              \/ ResetScore(x) \/ LookForFlow(x) \/ StartFlow(x)
    BY <1>3, <1>4, <1>5, <1>6, <2>1
  <2>2. CASE \E s \in Session : Answer(s)
    BY <1>7, <2>2
  <2>3. QED BY <1>8, <2>1, <2>2, NextSplit
<1>10. QED BY <1>1, <1>9 DEF TextInv

LEMMA TextShown == SessionsTypeOK /\ TextInv => QuestionHasText
<1> SUFFICES ASSUME SessionsTypeOK, TextInv, NEW s \in Session, flow[s] # None,
                    flow[s].status # "COMPLETED", s \notin shortened
             PROVE  \/ HasText(s, flow[s].qn)
                    \/ flow[s].qn[2] > 0 /\ (apc[s] = "text" \/ s \in textLost)
  BY DEF QuestionHasText
<1>1. flow[s] \in Running
  BY DEF SessionsTypeOK, AnswersOK, Finished
<1>2. flow[s].qn[1] \in Nat /\ flow[s].qn[2] \in Nat /\ flow[s].total \in Nat
  BY <1>1 DEF Running, Flow, QuestionNumber
<1>3. /\ Fits(flow[s], texts[s], FALSE)
      /\ \/ Known(flow[s], followUps[s], s \in textLost)
         \/ apc[s] = "text"
  <2>1. Shown(s)
    BY DEF TextInv
  <2>2. QED BY <2>1 DEF Shown, Fits
<1>4. texts[s] # None /\ texts[s].n \in Nat
  BY <1>3 DEF Fits, SessionsTypeOK, CachesOK, Result
<1>5. CASE flow[s].qn[2] = 0
  BY <1>2, <1>3, <1>4, <1>5 DEF Fits, Within, HasText
<1>6. CASE flow[s].qn[2] > 0
  BY <1>3, <1>6 DEF Known, HasText
<1>7. QED BY <1>2, <1>5, <1>6

\* What a session asks has a text to show and to evaluate by, also when extractions run into an
\* interview that is under way; the exceptions are a follow-up's text that could not be saved and
\* an extraction that left fewer questions (getCurrentQuestionInfo, EnsureInitialized).
THEOREM QuestionsHaveText == Spec => []QuestionHasText
<1>1. Init => TextInv
  BY DEF Init, TextInv, SavesFirst, Shown, NoAnswer
<1>2. QED BY <1>1, TextShown, TextStep, SessionsTypeCorrect, PTL DEF Spec
-----------------------------------------------------------------------------
(* What the report counts. *)

\* Induction over the numbers up to n, for a set of them.
LEMMA StepByStep ==
  ASSUME NEW n \in Nat, NEW G, 0 \in G, \A i \in 0 .. n - 1 : i \in G => i + 1 \in G
  PROVE  n \in G
<1> DEFINE R == OpToRel(<, Nat)
           T == {i \in 0 .. n : i \notin G}
<1>1. ASSUME NEW i \in T PROVE \E j \in T : j < i
  <2>1. i # 0 /\ i - 1 \in 0 .. n - 1 /\ i - 1 + 1 = i
    OBVIOUS
  <2>2. i - 1 \in T
    BY <2>1
  <2>3. QED BY <2>2
<1>2. IsWellFoundedOn(R, Nat)
  BY NatLessThanWellFounded
<1>3. ASSUME T # {} PROVE \E i \in T : \A j \in T : <<j, i>> \notin R
  <2>1. T \subseteq Nat
    OBVIOUS
  <2> HIDE DEF R, T
  <2>2. QED BY <1>2, <1>3, <2>1, WFMin
<1>4. \A i, j \in T : j < i => <<j, i>> \in R
  BY DEF OpToRel
<1>5. T = {}
  <2> HIDE DEF R, T
  <2> QED BY <1>1, <1>3, <1>4
<1>6. QED BY <1>5

Account == [sum : Nat, count : Nat]

\* One more turn, as SaveInterviewRecordFromRedis counts it.
Plus(account, turn) ==
  IF ~ turn[1] /\ turn[2] > 0 THEN [sum |-> account.sum + turn[2], count |-> account.count + 1]
  ELSE account

\* The equation of the function Counted is defined with, up to n.
Adds(f, turns, n) ==
  f = [i \in 0 .. n |->
        IF i = 0 THEN [sum |-> 0, count |-> 0]
        ELSE IF ~ turns[i][1] /\ turns[i][2] > 0
             THEN [sum |-> f[i - 1].sum + turns[i][2], count |-> f[i - 1].count + 1]
             ELSE f[i - 1]]

LEMMA SomeTurn == \E turn : turn \in Turn
<1>1. FALSE \in BOOLEAN /\ 0 \in 0 .. 100
  OBVIOUS
<1>2. <<FALSE, 0>> \in BOOLEAN \X (0 .. 100)
  BY <1>1, Zenon
<1>3. QED BY <1>2 DEF Turn

LEMMA PlusTyped ==
  ASSUME NEW account \in Account, NEW turn \in Turn
  PROVE  Plus(account, turn) \in Account
<1>1. turn[2] \in Nat
  BY DEF Turn
<1>2. QED BY <1>1 DEF Plus, Account

LEMMA AddsAt ==
  ASSUME NEW n \in Nat, NEW f, NEW turns, Adds(f, turns, n)
  PROVE  f[0] = [sum |-> 0, count |-> 0] /\ \A i \in 1 .. n : f[i] = Plus(f[i - 1], turns[i])
<1>1. \A i \in 0 .. n : f[i] = IF i = 0 THEN [sum |-> 0, count |-> 0]
                               ELSE IF ~ turns[i][1] /\ turns[i][2] > 0
                                    THEN [sum |-> f[i - 1].sum + turns[i][2],
                                          count |-> f[i - 1].count + 1]
                                    ELSE f[i - 1]
  BY DEF Adds
<1>2. \A i \in 1 .. n : i \in 0 .. n /\ i # 0
  OBVIOUS
<1>3. 0 \in 0 .. n
  OBVIOUS
<1>4. QED BY <1>1, <1>2, <1>3 DEF Plus

LEMMA AddsExist ==
  ASSUME NEW turns \in Seq(Turn)
  PROVE  \E f : Adds(f, turns, Len(turns))
<1> DEFINE G == {n \in 0 .. Len(turns) : \E f \in [0 .. n -> Account] : Adds(f, turns, n)}
<1>1. 0 \in G
  <2> DEFINE f == [i \in 0 .. 0 |-> [sum |-> 0, count |-> 0]]
  <2>1. f \in [0 .. 0 -> Account]
    BY DEF Account
  <2>2. Adds(f, turns, 0)
    BY DEF Adds
  <2>3. 0 \in 0 .. Len(turns)
    OBVIOUS
  <2>4. QED BY <2>1, <2>2, <2>3
<1>2. ASSUME NEW n \in 0 .. Len(turns) - 1, n \in G PROVE n + 1 \in G
  <2>1. PICK g \in [0 .. n -> Account] : Adds(g, turns, n)
    BY <1>2
  <2>2. turns[n + 1] \in Turn /\ n + 1 \in 0 .. Len(turns) /\ n \in Nat /\ g[n] \in Account
    OBVIOUS
  <2> DEFINE last == Plus(g[n], turns[n + 1])
             f == [i \in 0 .. n + 1 |-> IF i = n + 1 THEN last ELSE g[i]]
  <2>3. last \in Account
    BY <2>2, PlusTyped
  <2>4. f \in [0 .. n + 1 -> Account]
    <3>1. \A i \in 0 .. n + 1 : i # n + 1 => i \in 0 .. n
      BY <2>2
    <3> HIDE DEF last
    <3>2. QED BY <2>1, <2>3, <3>1
  <2>5. ASSUME NEW i \in 0 .. n + 1
        PROVE  f[i] = IF i = 0 THEN [sum |-> 0, count |-> 0]
                      ELSE IF ~ turns[i][1] /\ turns[i][2] > 0
                           THEN [sum |-> f[i - 1].sum + turns[i][2], count |-> f[i - 1].count + 1]
                           ELSE f[i - 1]
    <3>1. CASE i = n + 1
      <4>1. f[n + 1] = last /\ f[n] = g[n] /\ n + 1 # 0 /\ n + 1 - 1 = n
        BY <2>2
      <4>2. QED BY <3>1, <4>1 DEF Plus
    <3>2. CASE i # n + 1
      <4>1. i \in 0 .. n /\ (i # 0 => i - 1 \in 0 .. n /\ i - 1 # n + 1)
        BY <2>2, <3>2
      <4>2. f[i] = g[i] /\ (i # 0 => f[i - 1] = g[i - 1])
        BY <2>2, <4>1, <3>2
      <4>3. g[i] = IF i = 0 THEN [sum |-> 0, count |-> 0]
                   ELSE IF ~ turns[i][1] /\ turns[i][2] > 0
                        THEN [sum |-> g[i - 1].sum + turns[i][2], count |-> g[i - 1].count + 1]
                        ELSE g[i - 1]
        BY <2>1, <4>1 DEF Adds
      <4> HIDE DEF f
      <4>4. QED BY <4>2, <4>3
    <3>3. QED BY <3>1, <3>2
  <2>6. Adds(f, turns, n + 1)
    <3>1. f = [i \in 0 .. n + 1 |-> f[i]]
      OBVIOUS
    <3> HIDE DEF f
    <3>2. QED BY <2>5, <3>1 DEF Adds
  <2> HIDE DEF f
  <2>7. QED BY <2>2, <2>4, <2>6
<1>3. Len(turns) \in Nat
  OBVIOUS
<1>4. Len(turns) \in G
  <2> HIDE DEF G
  <2> QED BY <1>1, <1>2, <1>3, StepByStep
<1>5. QED BY <1>4

\* Counted, by the function it is defined with.
LEMMA CountedIs ==
  ASSUME NEW turns \in Seq(Turn)
  PROVE  \E f : Adds(f, turns, Len(turns)) /\ Counted(turns) = f[Len(turns)]
<1> DEFINE f == CHOOSE g : Adds(g, turns, Len(turns))
<1>1. Adds(f, turns, Len(turns))
  BY AddsExist
<1>2. Counted(turns) = f[Len(turns)]
  BY DEF Counted, Adds
<1>3. QED
  <2> HIDE DEF f
  <2> QED BY <1>1, <1>2

LEMMA CountedNothing == Counted(<< >>) = [sum |-> 0, count |-> 0]
<1>1. << >> \in Seq(Turn) /\ Len(<< >>) = 0
  OBVIOUS
<1>2. PICK f : Adds(f, << >>, 0) /\ Counted(<< >>) = f[0]
  BY <1>1, CountedIs
<1>3. QED BY <1>2, AddsAt

\* One more turn is counted on top of those before it.
LEMMA CountedMore ==
  ASSUME NEW turns \in Seq(Turn), NEW turn \in Turn
  PROVE  /\ Counted(turns) \in Account
         /\ Counted(Append(turns, turn)) = Plus(Counted(turns), turn)
<1> DEFINE n == Len(turns)
           more == Append(turns, turn)
<1>1. /\ n \in Nat /\ more \in Seq(Turn) /\ Len(more) = n + 1 /\ more[n + 1] = turn
      /\ \A i \in 1 .. n : more[i] = turns[i] /\ turns[i] \in Turn
  OBVIOUS
<1> HIDE DEF n, more
<1>2. PICK f : Adds(f, turns, n) /\ Counted(turns) = f[n]
  BY CountedIs DEF n
<1>3. PICK g : Adds(g, more, n + 1) /\ Counted(more) = g[n + 1]
  BY <1>1, CountedIs
<1>4. f[0] = [sum |-> 0, count |-> 0] /\ \A i \in 1 .. n : f[i] = Plus(f[i - 1], turns[i])
  BY <1>1, <1>2, AddsAt
<1>5. g[0] = [sum |-> 0, count |-> 0] /\ \A i \in 1 .. n + 1 : g[i] = Plus(g[i - 1], more[i])
  BY <1>1, <1>3, AddsAt
<1> DEFINE G == {i \in 0 .. n : f[i] \in Account /\ g[i] = f[i]}
<1>6. 0 \in G
  <2>1. [sum |-> 0, count |-> 0] \in Account
    BY DEF Account
  <2>2. QED BY <1>1, <1>4, <1>5, <2>1
<1>7. ASSUME NEW i \in 0 .. n - 1, i \in G PROVE i + 1 \in G
  <2>1. i + 1 \in 1 .. n /\ i + 1 \in 0 .. n /\ i + 1 \in 1 .. n + 1 /\ i + 1 - 1 = i
    BY <1>1
  <2>2. f[i + 1] = Plus(f[i], turns[i + 1]) /\ g[i + 1] = Plus(g[i], turns[i + 1])
    BY <1>1, <1>4, <1>5, <2>1
  <2>3. f[i] \in Account /\ g[i] = f[i] /\ turns[i + 1] \in Turn
    BY <1>1, <1>7, <2>1
  <2>4. QED BY <2>1, <2>2, <2>3, PlusTyped
<1>8. n \in G
  <2> HIDE DEF G
  <2> QED BY <1>1, <1>6, <1>7, StepByStep
<1>9. g[n + 1] = Plus(g[n], more[n + 1])
  <2>1. n + 1 \in 1 .. n + 1 /\ n + 1 - 1 = n
    BY <1>1
  <2>2. QED BY <1>1, <1>5, <2>1
<1>10. QED BY <1>1, <1>2, <1>3, <1>8, <1>9 DEF more

LEMMA Quotient == ASSUME NEW a \in Nat, NEW c \in Nat \ {0}
  PROVE a \div c \in Int /\ c * (a \div c) <= a /\ a < c * (a \div c) + c
OBVIOUS
LEMMA Positive == ASSUME NEW a \in Int, NEW c \in Nat \ {0}, a * c > 0
  PROVE a > 0
OBVIOUS
LEMMA Rounded ==
  ASSUME NEW a \in Nat, NEW c \in Nat \ {0}
  PROVE  ((2 * a + c) \div (2 * c)) - (a \div c) \in {0, 1}
<1> DEFINE q == a \div c
           l == (2 * a + c) \div (2 * c)
<1>1. q \in Int /\ c * q <= a /\ a < c * q + c
  BY Quotient
<1>2. l \in Int /\ (2 * c) * l <= 2 * a + c /\ 2 * a + c < (2 * c) * l + 2 * c
  <2>1. 2 * a + c \in Nat /\ 2 * c \in Nat \ {0}
    OBVIOUS
  <2> QED BY Quotient, <2>1
<1> HIDE DEF q, l
<1>3. (2 * q + 3 - 2 * l) * c > 0
  <2>1. (2 * q + 3 - 2 * l) * c = 2 * (c * q) + 3 * c - (2 * c) * l
    BY <1>1, <1>2
  <2>2. c * q \in Int /\ (2 * c) * l \in Int
    BY <1>1, <1>2
  <2>3. QED BY <1>1, <1>2, <2>1, <2>2
<1>4. (l + 1 - q) * c > 0
  <2>1. 2 * ((l + 1 - q) * c) = (2 * c) * l + 2 * c - 2 * (c * q)
    BY <1>1, <1>2
  <2>2. c * q \in Int /\ (2 * c) * l \in Int /\ (l + 1 - q) * c \in Int
    BY <1>1, <1>2
  <2>3. QED BY <1>1, <1>2, <2>1, <2>2
<1>5. 2 * q + 3 - 2 * l > 0 /\ l + 1 - q > 0
  <2>1. 2 * q + 3 - 2 * l \in Int /\ l + 1 - q \in Int
    BY <1>1, <1>2
  <2>2. QED BY <1>3, <1>4, <2>1, Positive
<1>6. l - q \in {0, 1}
  BY <1>1, <1>2, <1>5
<1>7. QED BY <1>6 DEF q, l
-----------------------------------------------------------------------------
(* The report and the live score. *)

\* A session whose answer, score and archive a step leaves alone.
LEMMA ScoreStays ==
  ASSUME NEW s \in Session, ScoresMain(s), ScoreMatches(s),
         score'[s] = score[s], apc'[s] = apc[s], answer'[s] = answer[s], archive'[s] = archive[s],
         zeroed \subseteq zeroed', diverged \subseteq diverged'
  PROVE  (ScoresMain(s) /\ ScoreMatches(s))'
BY DEF ScoresMain, ScoreMatches, Pending

\* ScoreMatches, after a step.
LEMMA MatchesNext ==
  ASSUME NEW s \in Session,
         apc'[s] = "score" => answer'[s].question[2] = 0,
         \/ s \in zeroed' \cup diverged'
         \/ \E i \in DOMAIN archive'[s] : ~ (archive'[s][i][2] > 0)
         \/ \E c, d \in [sum : Nat, count : Nat] :
              /\ Counted(archive'[s]) = c /\ score'[s].sum = c.sum + d.sum
              /\ score'[s].count = c.count + d.count
              /\ d = IF apc'[s] = "log" /\ answer'[s].question[2] = 0
                     THEN [sum |-> answer'[s].score, count |-> 1] ELSE [sum |-> 0, count |-> 0]
  PROVE  (ScoresMain(s) /\ ScoreMatches(s))'
<1>1. ScoresMain(s)'
  BY DEF ScoresMain
<1>2. ScoreMatches(s)'
  BY DEF ScoreMatches, Pending, Counted
<1>3. QED BY <1>1, <1>2
\* An answer is scored and archived once, unless one of the two is noted as lost or doubled.
LEMMA AnswerMatches ==
  ASSUME SessionsTypeOK, [Next]_vars, NEW s \in Session, Answer(s), ScoresMain(s), ScoreMatches(s)
  PROVE  (ScoresMain(s) /\ ScoreMatches(s))'
<1> DEFINE zero == [sum |-> 0, count |-> 0]
           mine == [sum |-> answer[s].score, count |-> 1]
<1> AnswersOK
  BY DEF SessionsTypeOK
<1>1. zeroed' = zeroed /\ diverged \subseteq diverged'
  <2>1. diverged' \in {diverged, diverged \cup {s}}
    BY DEF Answer, Take, Evaluate, NotEvaluated, StartFollowUp, SaveFollowUp, Advance, NotAdvanced,
           AddScore, AddScoreFails, Archive, history
  <2>2. QED BY <2>1, AnswerLeaves
<1>2. answer[s].score \in Nat /\ Counted(archive[s]) \in Account /\ zero \in Account
      /\ mine \in Account /\ score[s] \in Account /\ archive[s] \in Seq(Turn)
  <2>1. answer[s].score \in 0 .. 100 /\ score[s] \in Account /\ archive[s] \in Seq(Turn)
    BY AnswerOf DEF Answers, Account
  <2>2. \A n \in 0 .. 100 : n \in Nat
    OBVIOUS
  <2>3. answer[s].score \in Nat
    BY <2>1, <2>2
  <2>4. Counted(archive[s]) \in Account
    BY <2>1, SomeTurn, CountedMore
  <2>5. zero \in Account /\ mine \in Account
    BY <2>3 DEF Account
  <2>6. QED BY <2>1, <2>3, <2>4, <2>5
<1> DEFINE Same == /\ s \notin zeroed \cup diverged
                   /\ \A i \in DOMAIN archive[s] : archive[s][i][2] > 0
<1>3. Same => /\ score[s].sum = Counted(archive[s]).sum + Pending(s).sum
              /\ score[s].count = Counted(archive[s]).count + Pending(s).count
  BY DEF ScoreMatches
\* Most steps leave score and archive alone, and what is scored already is archived alone.
<1>4. ASSUME apc[s] # "log" \/ answer[s].question[2] # 0, score'[s] = score[s],
             archive'[s] = archive[s],
             apc'[s] = "log" => answer'[s].question[2] # 0,
             apc'[s] = "score" => answer'[s].question[2] = 0
      PROVE  (ScoresMain(s) /\ ScoreMatches(s))'
  <2>1. Pending(s) = zero
    BY <1>4 DEF Pending
  <2>2. Same => /\ score'[s].sum = Counted(archive[s]).sum + zero.sum
                /\ score'[s].count = Counted(archive[s]).count + zero.count
    BY <1>3, <1>4, <2>1
  <2>3. zero = IF apc'[s] = "log" /\ answer'[s].question[2] = 0
               THEN [sum |-> answer'[s].score, count |-> 1] ELSE [sum |-> 0, count |-> 0]
    BY <1>4
  <2>4. \/ s \in zeroed' \cup diverged'
        \/ \E i \in DOMAIN archive'[s] : ~ (archive'[s][i][2] > 0)
        \/ Same
    BY <1>1, <1>4
  <2> HIDE DEF Same, zero
  <2>5. QED BY <1>2, <1>4, <2>2, <2>3, <2>4, MatchesNext DEF Account
<1>5. CASE Take(s) \/ Evaluate(s) \/ NotEvaluated(s) \/ NotAdvanced(s) \/ StartFollowUp(s)
  <2>1. /\ apc[s] \in {"idle", "evaluate", "advance", "followUp"} /\ UNCHANGED <<score, archive>>
        /\ \E p \in {"evaluate", "advance", "followUp", "idle", "text"} :
             apc' = [apc EXCEPT ![s] = p]
    BY <1>5 DEF Take, Evaluate, NotEvaluated, NotAdvanced, StartFollowUp, Step
  <2>2. apc'[s] \in {"evaluate", "advance", "followUp", "idle", "text"}
    BY <2>1 DEF AnswersOK
  <2>3. QED BY <1>4, <2>1, <2>2
<1>6. CASE SaveFollowUp(s) \/ Advance(s)
  <2>1. /\ apc[s] \in {"text", "advance"} /\ UNCHANGED <<score, archive>>
        /\ apc' = [apc EXCEPT ![s] = AfterMove(s)]
        /\ \E v : answer' \in {answer, [answer EXCEPT ![s].mine = v]}
    BY <1>6 DEF SaveFollowUp, Advance, Step
  <2>2. apc'[s] = AfterMove(s) /\ answer'[s].question = answer[s].question
    BY <2>1 DEF AnswersOK, Answers
  <2>3. QED BY <1>4, <2>1, <2>2 DEF AfterMove
<1>7. Scored(s)[s] = [sum |-> score[s].sum + answer[s].score, count |-> score[s].count + 1]
  BY DEF Scored, AnswersOK
<1>8. CASE AddScore(s)
  <2>1. /\ apc[s] = "score" /\ score' = Scored(s) /\ UNCHANGED <<answer, archive>>
        /\ apc' = [apc EXCEPT ![s] = "log"]
    BY <1>8 DEF AddScore, Step
  <2>2. apc'[s] = "log" /\ answer[s].question[2] = 0 /\ Pending(s) = zero
    BY <2>1 DEF AnswersOK, ScoresMain, Pending
  <2>3. Same => /\ score'[s].sum = Counted(archive[s]).sum + mine.sum
                /\ score'[s].count = Counted(archive[s]).count + mine.count
    <3>1. score[s].sum \in Nat /\ score[s].count \in Nat /\ Counted(archive[s]).sum \in Nat
          /\ Counted(archive[s]).count \in Nat
      BY <1>2 DEF Account
    <3> HIDE DEF Same
    <3>2. QED BY <1>2, <1>3, <1>7, <2>1, <2>2, <3>1
  <2>4. mine = IF apc'[s] = "log" /\ answer'[s].question[2] = 0
               THEN [sum |-> answer'[s].score, count |-> 1] ELSE [sum |-> 0, count |-> 0]
    BY <2>1, <2>2
  <2>5. \/ s \in zeroed' \cup diverged'
        \/ \E i \in DOMAIN archive'[s] : ~ (archive'[s][i][2] > 0)
        \/ Same
    BY <1>1, <2>1
  <2>6. archive'[s] = archive[s] /\ apc'[s] # "score"
    BY <2>1, <2>2
  <2> HIDE DEF Same, mine
  <2>7. QED BY <1>2, <2>3, <2>4, <2>5, <2>6, MatchesNext DEF Account
<1>9. CASE AddScoreFails(s)
  <2>1. apc[s] = "score" /\ archive' = archive /\ apc' = [apc EXCEPT ![s] = "idle"]
    BY <1>9 DEF AddScoreFails, Step
  <2>2. apc'[s] = "idle"
    BY <2>1 DEF AnswersOK
  <2>3. CASE score' = score
    BY <1>4, <2>1, <2>2, <2>3
  <2>4. CASE s \in diverged'
    BY <2>2, <2>4, MatchesNext
  <2>5. QED BY <1>9, <2>3, <2>4 DEF AddScoreFails
<1>10. CASE Archive(s)
  <2> DEFINE turn == <<answer[s].question[2] # 0, answer[s].score>>
  <2>1. apc[s] = "log" /\ UNCHANGED score /\ apc' = [apc EXCEPT ![s] = "idle"]
    BY <1>10 DEF Archive, Step
  <2>2. apc'[s] = "idle" /\ score'[s] = score[s]
    BY <2>1 DEF AnswersOK
  <2>3. CASE s \in diverged'
    BY <2>2, <2>3, MatchesNext
  <2>4. CASE archive' = [archive EXCEPT ![s] = Append(archive[s], turn)]
    <3>1. turn \in Turn
      BY AnswerOf DEF Turn, Answers
    <3>2. turn[1] = (answer[s].question[2] # 0) /\ turn[2] = answer[s].score
      OBVIOUS
    <3> HIDE DEF turn
    <3>3. archive'[s] = Append(archive[s], turn)
      BY <2>4 DEF AnswersOK
    <3>4. /\ Counted(archive'[s]) = Plus(Counted(archive[s]), turn)
          /\ Plus(Counted(archive[s]), turn) \in Account
      BY <1>2, <3>1, <3>3, CountedMore, PlusTyped
    <3>5. \/ s \in zeroed' \cup diverged'
          \/ \E i \in DOMAIN archive'[s] : ~ (archive'[s][i][2] > 0)
          \/ Same /\ turn[2] > 0
      <4>1. /\ \A i \in DOMAIN archive[s] :
                 i \in DOMAIN archive'[s] /\ archive'[s][i] = archive[s][i]
            /\ \E i \in DOMAIN archive'[s] : archive'[s][i] = turn
        <5>1. /\ Len(archive[s]) \in Nat /\ Len(archive'[s]) = Len(archive[s]) + 1
              /\ archive'[s][Len(archive[s]) + 1] = turn
              /\ \A i \in 1 .. Len(archive[s]) : archive'[s][i] = archive[s][i]
              /\ DOMAIN archive[s] = 1 .. Len(archive[s])
              /\ DOMAIN archive'[s] = 1 .. Len(archive[s]) + 1
          BY <1>2, <3>1, <3>3
        <5>2. QED BY <5>1
      <4>2. QED BY <1>1, <4>1
    <3>6. Same /\ turn[2] > 0 =>
            /\ score[s].sum = Plus(Counted(archive[s]), turn).sum + zero.sum
            /\ score[s].count = Plus(Counted(archive[s]), turn).count + zero.count
      <4>1. CASE answer[s].question[2] = 0
        <5>1. Pending(s) = mine
          BY <2>1, <4>1 DEF Pending
        <5>2. turn[2] > 0 => Plus(Counted(archive[s]), turn)
                               = [sum |-> Counted(archive[s]).sum + answer[s].score,
                                  count |-> Counted(archive[s]).count + 1]
          BY <3>2, <4>1 DEF Plus
        <5>3. Counted(archive[s]).sum \in Nat /\ Counted(archive[s]).count \in Nat
          BY <1>2 DEF Account
        <5> HIDE DEF Same
        <5>4. QED BY <1>2, <1>3, <5>1, <5>2, <5>3
      <4>2. CASE answer[s].question[2] # 0
        <5>1. Pending(s) = zero
          BY <4>2 DEF Pending
        <5>2. Plus(Counted(archive[s]), turn) = Counted(archive[s])
          BY <3>2, <4>2 DEF Plus
        <5> HIDE DEF Same
        <5>3. QED BY <1>3, <5>1, <5>2
      <4>3. QED BY <4>1, <4>2
    <3>7. zero = IF apc'[s] = "log" /\ answer'[s].question[2] = 0
                 THEN [sum |-> answer'[s].score, count |-> 1] ELSE [sum |-> 0, count |-> 0]
      BY <2>2
    <3> HIDE DEF Same, zero
    <3>8. QED BY <1>2, <2>2, <3>4, <3>5, <3>6, <3>7, MatchesNext DEF Account
  <2>5. QED BY <1>10, <2>3, <2>4 DEF Archive
<1>11. QED BY <1>5, <1>6, <1>8, <1>9, <1>10 DEF Answer
LEMMA ScoreStep == SessionsTypeOK /\ ScoreInv /\ [Next]_vars => ScoreInv'
<1> SUFFICES ASSUME SessionsTypeOK, ScoreInv, [Next]_vars PROVE ScoreInv'
  OBVIOUS
<1> ExtractsOK /\ AnswersOK /\ \A s \in Session : ScoresMain(s) /\ ScoreMatches(s)
  BY DEF SessionsTypeOK, ScoreInv
<1>1. ASSUME UNCHANGED <<score, apc, answer, archive, zeroed, diverged>> PROVE ScoreInv'
  BY <1>1, ScoreStays DEF ScoreInv
<1>2. ASSUME NEW x \in Extraction, Handing(x) \/ Asking(x) PROVE ScoreInv'
  BY <1>1, <1>2, HandingLeaves DEF progress
<1>3. ASSUME NEW x \in Extraction, SaveQuestions(x) \/ SaveMaterial(x) \/ RefreshCold(x)
                                     \/ LookForFlow(x) \/ StartFlow(x)
      PROVE  ScoreInv'
  BY <1>1, <1>3 DEF SaveQuestions, SaveMaterial, RefreshCold, LookForFlow, StartFlow, progress,
                    history
<1>4. ASSUME NEW x \in Extraction, ResetScore(x) PROVE ScoreInv'
  <2>1. UNCHANGED <<apc, answer, archive, diverged>>
    BY <1>4 DEF ResetScore
  <2>2. CASE UNCHANGED <<score, zeroed>>
    BY <1>1, <2>1, <2>2
  <2>3. CASE /\ score' = [score EXCEPT ![S(x)] = [sum |-> 0, count |-> 0]]
             /\ zeroed' = IF archive[S(x)] # << >> \/ apc[S(x)] # "idle" \/ score[S(x)].count > 0
                          THEN zeroed \cup {S(x)} ELSE zeroed
    <3>1. ASSUME NEW s \in Session, s # S(x) PROVE (ScoresMain(s) /\ ScoreMatches(s))'
      <4>1. score'[s] = score[s] /\ zeroed \subseteq zeroed'
        BY <2>3, <3>1 DEF AnswersOK
      <4>2. QED BY <2>1, <4>1, ScoreStays
    <3>2. ASSUME NEW s \in Session, s = S(x) PROVE (ScoresMain(s) /\ ScoreMatches(s))'
      <4>1. score'[s] = [sum |-> 0, count |-> 0]
        BY <2>3, <3>2 DEF AnswersOK
      <4>2. apc'[s] = "score" => answer'[s].question[2] = 0
        BY <2>1 DEF ScoresMain
      <4>3. CASE s \in zeroed'
        BY <4>2, <4>3, MatchesNext
      <4>4. CASE s \notin zeroed'
        <5>1. archive'[s] = << >> /\ apc'[s] = "idle"
          BY <2>1, <2>3, <3>2, <4>4
        <5>2. Counted(archive'[s]) = [sum |-> 0, count |-> 0]
          BY <5>1, CountedNothing
        <5>3. [sum |-> 0, count |-> 0] \in [sum : Nat, count : Nat]
          OBVIOUS
        <5>4. [sum |-> 0, count |-> 0]
                = IF apc'[s] = "log" /\ answer'[s].question[2] = 0
                  THEN [sum |-> answer'[s].score, count |-> 1] ELSE [sum |-> 0, count |-> 0]
          BY <5>1
        <5>5. score'[s].sum = [sum |-> 0, count |-> 0].sum + [sum |-> 0, count |-> 0].sum
              /\ score'[s].count = [sum |-> 0, count |-> 0].count + [sum |-> 0, count |-> 0].count
          BY <4>1
        <5>6. QED BY <4>2, <5>2, <5>3, <5>4, <5>5, MatchesNext
      <4>5. QED BY <4>3, <4>4
    <3>3. QED BY <3>1, <3>2 DEF ScoreInv
  <2>4. QED BY <1>4, <2>2, <2>3 DEF ResetScore
<1>5. ASSUME NEW s \in Session, Answer(s) PROVE ScoreInv'
  <2>1. \A t \in Session \ {s} : /\ score'[t] = score[t] /\ apc'[t] = apc[t]
                                 /\ answer'[t] = answer[t] /\ archive'[t] = archive[t]
    BY <1>5, AnswerAlone DEF AnswersOK, Alone
  <2>2. zeroed' = zeroed /\ diverged \subseteq diverged'
    <3>1. diverged' \in {diverged, diverged \cup {s}}
      BY <1>5 DEF Answer, Take, Evaluate, NotEvaluated, StartFollowUp, SaveFollowUp, Advance,
                  NotAdvanced, AddScore, AddScoreFails, Archive, history
    <3>2. QED BY <1>5, <3>1, AnswerLeaves
  <2>3. \A t \in Session \ {s} : (ScoresMain(t) /\ ScoreMatches(t))'
    BY <2>1, <2>2, ScoreStays
  <2>4. (ScoresMain(s) /\ ScoreMatches(s))'
    BY <1>5, AnswerMatches
  <2>5. QED BY <2>3, <2>4 DEF ScoreInv
<1>6. CASE UNCHANGED vars
  BY <1>1, <1>6 DEF vars, progress, history
<1>7. QED BY <1>2, <1>3, <1>4, <1>5, <1>6, NextSplit

LEMMA MatchingAgrees == SessionsTypeOK /\ ScoreInv => ReportAgrees
<1> SUFFICES ASSUME SessionsTypeOK, ScoreInv, NEW s \in Session, apc[s] = "idle",
                    s \notin zeroed \cup diverged, \A i \in DOMAIN archive[s] : archive[s][i][2] > 0
             PROVE  LiveScore(s) - Report(s) \in {0, 1}
  BY DEF ReportAgrees
<1>1. score[s] \in Account /\ archive[s] \in Seq(Turn)
  BY DEF SessionsTypeOK, AnswersOK, Account
<1>2. Counted(archive[s]) \in Account
  BY <1>1, SomeTurn, CountedMore
<1>3. score[s].sum = Counted(archive[s]).sum /\ score[s].count = Counted(archive[s]).count
  <2>1. Pending(s) = [sum |-> 0, count |-> 0]
    BY DEF Pending
  <2>2. score[s].sum = Counted(archive[s]).sum + 0 /\ score[s].count = Counted(archive[s]).count + 0
    BY <2>1 DEF ScoreInv, ScoreMatches
  <2>3. Counted(archive[s]).sum \in Nat /\ Counted(archive[s]).count \in Nat
    BY <1>2 DEF Account
  <2>4. QED BY <2>2, <2>3
<1>4. score[s].sum \in Nat /\ score[s].count \in Nat
  BY <1>1 DEF Account
<1>5. CASE score[s].count = 0
  <2>1. LiveScore(s) = 0 /\ Report(s) = 0
    BY <1>3, <1>5 DEF LiveScore, Report
  <2>2. QED BY <2>1
<1>6. CASE score[s].count # 0
  <2>1. /\ LiveScore(s) = (2 * score[s].sum + score[s].count) \div (2 * score[s].count)
        /\ Report(s) = score[s].sum \div score[s].count
    BY <1>3, <1>6 DEF LiveScore, Report
  <2>2. QED BY <1>4, <1>6, <2>1, Rounded
<1>7. QED BY <1>5, <1>6

\* The report, computed from the archived turns, and the live score, kept by the score script, tell
\* the same story but for the rounding (SaveInterviewRecordFromRedis, AddScore, GetTotalScore).
THEOREM ReportsAgree == Spec => []ReportAgrees
<1>1. Init => ScoreInv
  BY CountedNothing DEF Init, ScoreInv, ScoresMain, ScoreMatches, Pending
<1>2. QED BY <1>1, MatchingAgrees, ScoreStep, SessionsTypeCorrect, PTL DEF Spec
=============================================================================
