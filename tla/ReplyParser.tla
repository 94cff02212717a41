----------------------------- MODULE ReplyParser -----------------------------
(***************************************************************************)
(* services/interview/evaluation/response_parser.go and normalizeResult:   *)
(* what is read out of a model's answer, however it is wrapped.            *)
(*                                                                         *)
(* A JSON value is a record with one field, its kind.  A text is what it   *)
(* shows to the parser:                                                    *)
(*   json    the value it is as a whole, Nothing if it is none             *)
(*   object  the object found in it: without a code fence the whole, or    *)
(*           what stands between its first and its last brace              *)
(*   number  the number it spells, in tenths, or Nothing                   *)
(*   parts   how many pieces its separators leave; blank: it is empty      *)
(*   yes     whether it says true, 1 or yes                                *)
(* Left out: a text of spaces is an empty one, keys differ in more than    *)
(* case, and numbers fit an int and have one decimal.                      *)
(***************************************************************************)
EXTENDS Integers, Sequences, FiniteSetsExt

Nothing   == [null |-> TRUE]
Number(n) == [number |-> n]
Flag(b)   == [flag |-> b]
Text(t)   == [text |-> t]
List(s)   == [list |-> s]
Object(f) == [object |-> f]

Is(v, kind) == kind \in DOMAIN v
Fits(v, kind) == Is(v, kind) \/ Is(v, "null")

Items(v) == IF Is(v, "list") THEN v.list ELSE << >>
Member(v, key) == IF Is(v, "object") /\ key \in DOMAIN v.object THEN v.object[key] ELSE Nothing

\* The first of the aliases the object has, be its value null.
Field(v, aliases) ==
  LET known == {i \in DOMAIN aliases : Is(v, "object") /\ aliases[i] \in DOMAIN v.object}
  IN  IF known = {} THEN Nothing ELSE v.object[aliases[Min(known)]]

-----------------------------------------------------------------------------
(* From an answer to the object meant. *)

\* The answer decodes as an openAIResponse: what the struct names has the struct's types.
Decodes(v) ==
  LET Holds(m) == Fits(m, "object") /\ Fits(Member(m, "content"), "text")
  IN  /\ Holds(v) /\ Fits(Member(v, "choices"), "list")
      /\ \A i \in DOMAIN Items(Member(v, "choices")) :
           LET choice == Items(Member(v, "choices"))[i]
           IN  /\ Fits(choice, "object")
               /\ Holds(Member(choice, "delta")) /\ Holds(Member(choice, "message"))

\* The contents of an envelope, in the order they are tried.
Contents(v) ==
  LET choices == Items(Member(v, "choices"))
      first   == IF choices = << >> THEN Nothing ELSE choices[1]
  IN  <<Member(Member(first, "delta"), "content"), Member(Member(first, "message"), "content"),
        Member(v, "content")>>

ExtractContent(raw) ==
  LET said == SelectSeq(Contents(raw.json), LAMBDA v : Is(v, "text") /\ ~ v.text.blank)
  IN  IF Decodes(raw.json) /\ said # << >> THEN said[1].text ELSE raw

\* One layer of {"json": ...} comes off; an empty object is none.
Unwrapped(v) ==
  LET inner == Member(v, "json")
  IN  IF Is(inner, "object") THEN inner
      ELSE IF Is(inner, "text") /\ Is(inner.text.json, "object") THEN inner.text.json
      ELSE IF Is(v, "object") /\ DOMAIN v.object = {} THEN Nothing ELSE v

ParseObject(text) == Unwrapped(text.object)

\* Where to look below a value: lists are not searched for texts.
Inside(v) ==
  IF Is(v, "object") THEN <<v>>
  ELSE IF Is(v, "text") THEN <<ParseObject(v.text)>>
  ELSE SelectSeq(Items(v), LAMBDA item : Is(item, "object"))

\* The objects the depth-first search may end at: a map's entries come in no order.
RECURSIVE Found(_, _)
Found(v, keys) ==
  LET FirstIn(s) == LET hits == {i \in DOMAIN s : Found(s[i], keys) # {}}
                    IN  IF hits = {} THEN {} ELSE Found(s[Min(hits)], keys)
  IN  IF ~ Is(v, "object") THEN {}
      ELSE IF keys \cap DOMAIN v.object # {} THEN {v}
      ELSE UNION {FirstIn(Inside(v.object[key])) : key \in DOMAIN v.object}

ExtractStructuredResult(raw, keys) ==
  LET parsed == ParseObject(ExtractContent(raw))
      tries  == SelectSeq(<<Found(parsed, keys), Found(ParseObject(raw), keys)>>,
                          LAMBDA hits : hits # {})
  IN  IF tries = << >> THEN {parsed} ELSE tries[1]

-----------------------------------------------------------------------------
(* From its fields to values. *)

\* Rounded to the nearest, and forced into 0 .. 100; what is no number counts as 0.
ParseScore(v) ==
  LET tenths  == IF Is(v, "number") THEN v.number
                 ELSE IF Is(v, "text") /\ Is(v.text.number, "number") THEN v.text.number.number
                 ELSE 0
  IN  Max({0, Min({100, (tenths + 5) \div 10})})

Blank(v) == Is(v, "null") \/ (Is(v, "text") /\ v.text.blank)

\* How many strings AsStringList makes of a value.
Entries(v) ==
  LET NonBlank(s) == Len(SelectSeq(s, LAMBDA item : Is(item, "null") \/ ~ Blank(item)))
  IN  IF Is(v, "list") THEN NonBlank(v.list)
      ELSE IF Is(v, "text") THEN (IF Is(v.text.json, "list") THEN NonBlank(v.text.json.list)
                                  ELSE v.text.parts)
      ELSE IF Is(v, "null") THEN 0 ELSE 1

AsBoolean(v) ==
  \/ Is(v, "flag") /\ v.flag
  \/ Is(v, "text") /\ v.text.yes
  \/ Is(v, "number") /\ v.number # 0

-----------------------------------------------------------------------------
(* EvaluationService: the assessment of an answer, or Refused. *)

EvaluationKeys == {"score", "feedback", "follow_up_needed", "missing_points"}
Refused == [score |-> 0, needed |-> FALSE, lacks |-> FALSE, refused |-> TRUE]

\* normalizeResult: where the model does not say whether a follow-up is needed, its other
\* remarks do.  A text counts as lacking what its points and its question name.
Normalized(m) ==
  LET wish   == Field(m, <<"follow_up_needed", "followUpNeeded">>)
      asks   == ~ Blank(Field(m, <<"follow_up_question", "followUpQuestion", "ask_to_user", "ask">>))
      points == Entries(Field(m, <<"missing_points", "missingPoints", "lack_points">>))
      logic  == AsBoolean(Field(m, <<"logic_ok", "logicOk">>))
      lacks  == points > 0 \/ asks
  IN  [score   |-> ParseScore(Field(m, <<"score", "total_score", "composite_score">>)),
       needed  |-> IF Is(wish, "null") THEN ~ logic \/ lacks ELSE AsBoolean(wish),
       lacks   |-> lacks,
       refused |-> FALSE]

\* callAndParse: refused is what has no score at all.
Assessed(raw) ==
  {IF Is(Field(m, <<"score", "total_score", "composite_score">>), "null") THEN Refused
   ELSE Normalized(m) : m \in ExtractStructuredResult(raw, EvaluationKeys)}

\* EvaluateAnswer: what it may make of such answers, one that is refused aside.
Accepted(replies) == {a \in UNION {Assessed(raw) : raw \in replies} : ~ a.refused}
=============================================================================
