------------------------ MODULE MCInterviewSessions ------------------------
(* Sessions over a few answers of the model, and the parser as its tests have it. *)
EXTENDS InterviewSessions, ReplyParser, TLC

Words(n) == [json |-> Nothing, object |-> Nothing, number |-> Nothing, parts |-> n,
             blank |-> n = 0, yes |-> FALSE]
Said(n)  == Text(Words(n))
Yes      == Text([Words(1) EXCEPT !.yes = TRUE])
Spelled(n) == Text([Words(1) EXCEPT !.number = Number(n)])

\* A text that is an object, and one with a fence or words around it.
Plain(o) == [Words(2) EXCEPT !.json = o, !.object = o]
Fenced(o) == [Words(2) EXCEPT !.object = o]

\* The envelopes of the model's interface.
Choice(part, text) ==
  Plain(Object([choices |-> List(<<Object(part :> Object([content |-> Text(text)]))>>)]))
Enveloped(text) ==
  {Choice("message", text), Choice("delta", text), Plain(Object([content |-> Text(text)]))}

-----------------------------------------------------------------------------
\* response_parser_test.go: envelopes; objects, fenced, in prose and unwrapped (here from a
\* text as well).
ASSUME ContentAsTested ==
  /\ \A raw \in Enveloped(Words(1)) : ExtractContent(raw) = Words(1)
  /\ \A raw \in {Words(0), Words(1)} : ExtractContent(raw) = raw

ASSUME ObjectAsTested ==
  LET o == Object([score |-> Number(660)])
  IN  /\ \A t \in {Plain(o), Fenced(o), Plain(Object([json |-> o])),
                  Fenced(Object([json |-> Text(Plain(o))]))} : ParseObject(t) = o
      /\ \A t \in {Words(0), Words(1)} : ParseObject(t) = Nothing

\* The scores, lists and flags of response_parser_test.go.
ASSUME FieldsAsTested ==
  /\ ParseScore(Number(884)) = 88 /\ ParseScore(Number(886)) = 89
  /\ ParseScore(Number(750)) = 75 /\ ParseScore(Spelled(920)) = 92
  /\ ParseScore(Number(1500)) = 100
  /\ \A v \in {Number(-100), Nothing, Said(1)} : ParseScore(v) = 0
  /\ \A v \in {List(<<Said(1), Said(1)>>), Text([Words(2) EXCEPT !.json = List(<<Said(1), Said(1)>>)])} :
       Entries(v) = 2
  /\ Entries(Said(5)) = 5 /\ Entries(Said(1)) = 1 /\ Entries(Nothing) = 0
  /\ \A v \in {Flag(TRUE), Yes, Number(10)} : AsBoolean(v)
  /\ \A v \in {Said(1), Number(0), Nothing} : ~ AsBoolean(v)

\* evaluation_service_test.go: the fields, their aliases, missing points left out.
ASSUME AssessmentAsTested ==
  /\ Normalized(Object([score |-> Number(880), feedback |-> Said(1), follow_up_needed |-> Flag(TRUE),
                        follow_up_question |-> Said(1), missing_points |-> List(<<Said(1), Said(1)>>),
                        logic_ok |-> Flag(TRUE)]))
       = [score |-> 88, needed |-> TRUE, lacks |-> TRUE, refused |-> FALSE]
  /\ Normalized(Object([total_score |-> Number(900), comment |-> Said(1), ask_to_user |-> Said(1),
                        lack_points |-> List(<<Said(1)>>), logicOk |-> Flag(FALSE),
                        followUpNeeded |-> Flag(FALSE)]))
       = [score |-> 90, needed |-> FALSE, lacks |-> TRUE, refused |-> FALSE]
  /\ ~ Normalized(Object([score |-> Number(600)])).lacks

\* However often an assessment is wrapped, in whatever way, the parser finds it and nothing else.
Wrapped(o) ==
  LET inObject(v) == {Object([json |-> v]), Object([result |-> v])}
      around(text) == Enveloped(text) \cup {Plain(v) : v \in inObject(Text(text))}
                                      \cup {Fenced(v) : v \in inObject(Text(text))}
      bare   == inObject(o) \cup {o, Object([result |-> List(<<Said(1), Object([note |-> Nothing]), o>>)])}
      once   == {Plain(v) : v \in bare} \cup {Fenced(v) : v \in bare}
      twice  == UNION {around(t) : t \in once}
  IN  once \cup twice \cup UNION {around(t) : t \in twice}

ASSUME WrappingIsUndone ==
  LET o == Object([score |-> Number(800)])
  IN  \A raw \in Wrapped(o) : ExtractStructuredResult(raw, EvaluationKeys) = {o}

-----------------------------------------------------------------------------
\* Two scores, one low and one out of range, with something lacking and without; a refused answer.
MCReplies ==
  LET Rated(n) == Object([score |-> Number(n), logic_ok |-> Flag(TRUE)])
  IN  {Plain(Rated(550)), Fenced(Rated(1800)), Words(3),
       Choice("message", Fenced(Object([result |-> Object([score |-> Spelled(1800), ask |-> Said(1)])])))}

MCAssessments == Accepted(MCReplies)

Symmetric == Permutations(Session) \cup Permutations(Extraction) \cup Permutations(Remainder)
=============================================================================
