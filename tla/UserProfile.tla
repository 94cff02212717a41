----------------------------- MODULE UserProfile -----------------------------
(***************************************************************************)
(* The long-term profile of one user: a row of MySQL with a version, and a *)
(* copy of it in Redis.  Who needs it loads the copy, or the row, which    *)
(* then fills Redis.  The consolidation works candidates of facts into it  *)
(* with a model's help and asks the user about conflicts; the user's       *)
(* confirmations change it directly.  Both write the row by compare-and-   *)
(* set on the version they have loaded, but a first profile without.       *)
(*                                                                         *)
(* One topic (field and key) is modelled: its values compete.  A fact's id *)
(* is the value it was created with.  Confidence counts in steps of 0.05   *)
(* or more; a confirmation has the highest.  The consolidation's choice of *)
(* messages, and its cursor, are left out; a diff of the model adds or     *)
(* updates or supersedes one fact, asks one question, or changes nothing,  *)
(* and names candidates the model was given.                               *)
(*                                                                         *)
(* Bounds: Rounds (consolidations), Faults (failing commands and workers   *)
(* that stop half-way).                                                    *)
(***************************************************************************)
EXTENDS Integers, Sequences, FiniteSets, SequencesExt

CONSTANTS
  Values, MaxConfidence,
  Candidates,
  Confirmers,     \* requests of the user: to confirm or reject a question
  Readers,        \* runs that put the profile into their context
  Consolidator,   \* the one consolidation the single-flight lets run
  Rounds, Faults

Worker == Confirmers \cup Readers \cup {Consolidator}

ASSUME ProfileBounds ==
  /\ MaxConfidence \in Nat \ {0} /\ {Rounds, Faults} \subseteq Nat
  /\ Consolidator \notin Confirmers \cup Readers /\ Confirmers \cap Readers = {}

VARIABLES
  row,          \* MySQL: the profile, NoProfile before the first
  copy,         \* Redis: the profile, or NoProfile
  candidates,   \* MySQL: status of the candidates
  questions,    \* MySQL: the questions to the user, each a value and a status
  pc,
  profile,      \* what a worker has loaded
  next,         \* the facts it is going to write
  question,     \* the question a confirmer resolves
  listed,       \* candidates the consolidation has read
  verdict,      \* what is to become of them, and what the user is asked
  rounds, faults,
  blind,        \* history: a first profile was written over another one
  read          \* history: candidates a consolidation has read

stored == <<row, copy, candidates, questions>>
locals == <<profile, next, question, listed, verdict>>
vars   == <<stored, pc, locals, rounds, faults, blind, read>>

NoProfile == [version |-> 0, facts |-> << >>]

NoVerdict == [used |-> {}, reject |-> {}, rest |-> FALSE, ask |-> {}]

Init ==
  /\ row = NoProfile /\ copy = NoProfile
  /\ candidates = [c \in Candidates |-> "unseen"] /\ questions = << >>
  /\ pc = [w \in Worker |-> "idle"]
  /\ profile = [w \in Worker |-> NoProfile] /\ next = [w \in Worker |-> << >>]
  /\ question = [w \in Confirmers |-> 0]
  /\ listed = {} /\ verdict = NoVerdict
  /\ rounds = 0 /\ faults = 0 /\ blind = FALSE /\ read = {}

Goto(w, label) == pc' = [pc EXCEPT ![w] = label]
Fault == faults < Faults /\ faults' = faults + 1

-----------------------------------------------------------------------------
(* Facts: ApplyProfileDiff and NormalizeProfile. *)

Fact(v, c) == [id |-> v, value |-> v, confidence |-> c, active |-> TRUE]

Active(facts) == {facts[i].value : i \in {j \in DOMAIN facts : facts[j].active}}

Supersede(facts, id) ==
  LET i == SelectLastInSeq(facts, LAMBDA f : f.id = id)
  IN IF i = 0 THEN facts ELSE [facts EXCEPT ![i].active = FALSE]

\* An update changes an active fact's value and confidence, not its id.
Update(facts, id, v, c) ==
  LET i == SelectLastInSeq(facts, LAMBDA f : f.id = id)
  IN IF i = 0 \/ ~ facts[i].active THEN facts
     ELSE [facts EXCEPT ![i].value = v, ![i].confidence = c]

\* Variant: the user's word counts like the model's.
Overrides_Weighed(force, c, old) == c > old.confidence

\* A new value takes over from the old one if the user says so, or if it is more certain.
Overrides(force, c, old) == force \/ c > old.confidence

Current(facts) == SelectLastInSeq(facts, LAMBDA f : f.active)

\* The value is neither known nor may it take over: the user is asked.
Conflicts(facts, v, c, force) ==
  LET i == Current(facts)
  IN i # 0 /\ facts[i].value # v /\ ~ Overrides(force, c, facts[i])

Add(facts, v, c, force) ==
  LET i == Current(facts) IN
  CASE i = 0 -> Append(facts, Fact(v, c))
    [] i # 0 /\ facts[i].value = v ->
         [facts EXCEPT ![i].confidence = IF c > @ THEN c ELSE @]
    [] Conflicts(facts, v, c, force) -> facts
    [] OTHER -> Append([facts EXCEPT ![i].active = FALSE], Fact(v, c))

\* Facts of one value compete: the most certain wins, the first of them if there are several,
\* whatever its status.
SameValue(facts, i) == {j \in DOMAIN facts : facts[j].value = facts[i].value}

Best(facts, i) ==
  CHOOSE j \in SameValue(facts, i) : \A k \in SameValue(facts, i) :
    \/ facts[j].confidence > facts[k].confidence
    \/ facts[j].confidence = facts[k].confidence /\ j <= k

Firsts(facts) == {i \in DOMAIN facts : \A j \in SameValue(facts, i) : i <= j}
Place(facts, i) == Cardinality({j \in Firsts(facts) : j <= i})

\* NormalizeProfile: one fact per value, in the order in which the values first occur.
Normalize(facts) ==
  [n \in 1 .. Cardinality(Firsts(facts)) |->
     facts[Best(facts, CHOOSE i \in Firsts(facts) : Place(facts, i) = n)]]

-----------------------------------------------------------------------------
(* Loading: LoadProfile. *)

Begin(w, label) ==
  /\ Goto(w, label)
  /\ profile' = [profile EXCEPT ![w] = NoProfile] /\ next' = [next EXCEPT ![w] = << >>]

\* What a worker does when it has the profile; a reader is done with it.
Loaded(w, p) ==
  /\ profile' = [profile EXCEPT ![w] = IF w \in Readers THEN NoProfile ELSE p]
  /\ Goto(w, CASE w = Consolidator -> "list" [] w \in Confirmers -> "apply" [] OTHER -> "end")

\* The copy of Redis; or on to the row: there is no copy, it has gone, or the command fails.
GetUserProfile(w) ==
  /\ pc[w] = "load"
  /\ \/ copy # NoProfile /\ Loaded(w, copy)
     \/ Goto(w, "find") /\ UNCHANGED profile
  /\ UNCHANGED <<stored, next, question, listed, verdict, rounds, faults, blind, read>>

\* The row, if there is one; an error counts as none.
FindUserProfile(w) ==
  /\ pc[w] = "find"
  /\ \/ row = NoProfile /\ Loaded(w, NoProfile) /\ UNCHANGED faults
     \/ row # NoProfile /\ Fault /\ Loaded(w, NoProfile)
     \/ /\ row # NoProfile
        /\ profile' = [profile EXCEPT ![w] = row]
        /\ Goto(w, "fill") /\ UNCHANGED faults
  /\ UNCHANGED <<stored, next, question, listed, verdict, rounds, blind, read>>

\* The row is copied to Redis, even if both have moved on.
Fill(w) ==
  /\ pc[w] = "fill"
  /\ Loaded(w, profile[w])
  /\ \/ copy' = profile[w] /\ UNCHANGED faults
     \/ Fault /\ UNCHANGED copy
  /\ UNCHANGED <<row, candidates, questions, next, question, listed, verdict, rounds, blind, read>>

\* A run's context takes the profile in.
Read(w) ==
  /\ w \in Readers /\ pc[w] = "idle"
  /\ Begin(w, "load")
  /\ UNCHANGED <<stored, question, listed, verdict, rounds, faults, blind, read>>

-----------------------------------------------------------------------------
(* Writing: persistConsolidatedProfile. *)

\* Variant: the update goes by the user alone.
VersionMatches_Any(w) == TRUE

VersionMatches(w) == row.version = profile[w].version

\* What a worker writes: the next version of what it has loaded.
Written(w, facts) == [version |-> profile[w].version + 1, facts |-> facts]

\* A first profile is written whatever is there; a later one by compare-and-set.
Persist(w) ==
  /\ pc[w] = "persist"
  /\ LET first == profile[w] = NoProfile
         facts == Normalize(next[w])
     IN
     \/ /\ first \/ VersionMatches(w)
        /\ row' = Written(w, facts) /\ next' = [next EXCEPT ![w] = facts]
        /\ blind' = (blind \/ (first /\ row # NoProfile))
        /\ Goto(w, "publish") /\ UNCHANGED faults
     \/ /\ ~ first /\ ~ VersionMatches(w)
        /\ Goto(w, "end") /\ UNCHANGED <<row, blind, next, faults>>
     \/ Fault /\ Goto(w, "end") /\ UNCHANGED <<row, blind, next>>
  /\ UNCHANGED <<copy, candidates, questions, profile, question, listed, verdict, rounds, read>>

\* The copy in Redis; an error is only logged.  The worker is done with the profile.
Publish(w) ==
  /\ pc[w] = "publish"
  /\ \/ copy' = Written(w, next[w]) /\ UNCHANGED faults
     \/ Fault /\ UNCHANGED copy
  /\ profile' = [profile EXCEPT ![w] = NoProfile] /\ next' = [next EXCEPT ![w] = << >>]
  /\ Goto(w, IF w \in Confirmers THEN "mark" ELSE "promote")
  /\ UNCHANGED <<row, candidates, questions, question, listed, verdict, rounds, blind, read>>

-----------------------------------------------------------------------------
(* The consolidation: CaptureCandidatesAsync, ConsolidateIfNeeded. *)

\* A rule finds something worth remembering in a message.
Capture(c) ==
  /\ candidates[c] = "unseen"
  /\ candidates' = [candidates EXCEPT ![c] = "pending"]
  /\ UNCHANGED <<row, copy, questions, pc, locals, rounds, faults, blind, read>>

Consolidate ==
  /\ pc[Consolidator] \in {"idle", "end"} /\ rounds < Rounds
  /\ rounds' = rounds + 1
  /\ Begin(Consolidator, "load")
  /\ listed' = {} /\ verdict' = NoVerdict
  /\ UNCHANGED <<stored, question, faults, blind, read>>

Pending == {c \in Candidates : candidates[c] = "pending"}

\* The candidates are read; without any, new messages may still call for the model.
List ==
  /\ pc[Consolidator] = "list"
  /\ \/ /\ listed' = Pending /\ read' = read \cup Pending
        /\ Goto(Consolidator, "ask_model") /\ UNCHANGED faults
     \/ Pending = {} /\ Goto(Consolidator, "end") /\ UNCHANGED <<listed, read, faults>>
     \/ Fault /\ Goto(Consolidator, "end") /\ UNCHANGED <<listed, read>>
  /\ UNCHANGED <<stored, profile, next, question, verdict, rounds, blind>>

\* Variant: whatever is pending by now is done with.
Unused_Pending == Pending

\* Candidates the model takes no notice of when it changes nothing are done with.
Unused == listed

\* A fact of a diff has a value, and a confidence within bounds.
CleanFact == [value : Values, confidence : 1 .. MaxConfidence]

\* The answer leaves these facts, and this is to become of the candidates.
Diff(facts, outcome) ==
  /\ next' = [next EXCEPT ![Consolidator] = facts]
  /\ verdict' = outcome
  /\ Goto(Consolidator, "persist") /\ UNCHANGED faults

Verdict(used, reject, ask) == [used |-> used, reject |-> reject, rest |-> FALSE, ask |-> ask]

\* The model answers that nothing changes, or with a diff, or the call fails.
AnswerDiff ==
  /\ pc[Consolidator] = "ask_model"
  /\ LET facts == profile[Consolidator].facts IN
     \/ Diff(facts, [NoVerdict EXCEPT !.rest = TRUE])
     \/ \E used \in SUBSET listed : \E reject \in {{}, listed \ used} :
          \/ used \cup reject # {} /\ Diff(facts, Verdict(used, reject, {}))
          \/ \E v \in Values : Diff(facts, Verdict(used, reject, {v}))
          \/ \E f \in CleanFact :
               Diff(Add(facts, f.value, f.confidence, FALSE),
                    Verdict(used, reject,
                      IF Conflicts(facts, f.value, f.confidence, FALSE) THEN {f.value} ELSE {}))
          \/ \E i \in DOMAIN facts, f \in CleanFact :
               Diff(Update(facts, facts[i].id, f.value, f.confidence), Verdict(used, reject, {}))
          \/ \E i \in DOMAIN facts :
               Diff(Supersede(facts, facts[i].id), Verdict(used, reject, {}))
     \/ Fault /\ Goto(Consolidator, "end") /\ UNCHANGED <<next, verdict>>
  /\ UNCHANGED <<stored, profile, question, listed, rounds, blind, read>>

Marked(ids, status) ==
  candidates' = [c \in Candidates |-> IF c \in ids THEN status ELSE candidates[c]]

\* Each of the three writes may fail, which is only logged.
Promote ==
  /\ pc[Consolidator] = "promote"
  /\ \/ Marked(verdict.used, "promoted") /\ UNCHANGED faults
     \/ Fault /\ UNCHANGED candidates
  /\ Goto(Consolidator, "reject")
  /\ UNCHANGED <<row, copy, questions, locals, rounds, blind, read>>

Discard ==
  /\ pc[Consolidator] = "reject"
  /\ \/ /\ Marked(IF verdict.rest THEN Unused ELSE verdict.reject, "rejected")
        /\ UNCHANGED faults
     \/ Fault /\ UNCHANGED candidates
  /\ Goto(Consolidator, "ask")
  /\ UNCHANGED <<row, copy, questions, locals, rounds, blind, read>>

Ask ==
  /\ pc[Consolidator] = "ask"
  /\ \/ /\ questions' = questions \o SetToSeq({[value |-> v, status |-> "pending"] : v \in verdict.ask})
        /\ UNCHANGED faults
     \/ verdict.ask # {} /\ Fault /\ UNCHANGED questions
  /\ Goto(Consolidator, "end")
  /\ listed' = {} /\ verdict' = NoVerdict
  /\ UNCHANGED <<row, copy, candidates, profile, next, question, rounds, blind, read>>

-----------------------------------------------------------------------------
(* The user's answers: ResolveProfileConfirmation. *)

\* The user confirms a question that is pending when it is looked up.
Confirm(w) ==
  /\ w \in Confirmers /\ pc[w] = "idle"
  /\ \E n \in DOMAIN questions :
       /\ questions[n].status = "pending"
       /\ question' = [question EXCEPT ![w] = n]
  /\ Begin(w, "load")
  /\ UNCHANGED <<stored, listed, verdict, rounds, faults, blind, read>>

Asked(w) == questions[question[w]].value

\* The confirmed value is added with the highest confidence, by force.
Apply(w) ==
  /\ w \in Confirmers /\ pc[w] = "apply"
  /\ next' = [next EXCEPT ![w] = Add(profile[w].facts, Asked(w), MaxConfidence, TRUE)]
  /\ Goto(w, "persist")
  /\ UNCHANGED <<stored, profile, question, listed, verdict, rounds, faults, blind, read>>

\* A question is resolved once; who comes second is told so.
Resolve(n, status) ==
  questions' = [questions EXCEPT ![n].status = IF @ = "pending" THEN status ELSE @]

MarkConfirmed(w) ==
  /\ w \in Confirmers /\ pc[w] = "mark"
  /\ \/ Resolve(question[w], "confirmed") /\ UNCHANGED faults
     \/ Fault /\ UNCHANGED questions
  /\ Goto(w, "end")
  /\ UNCHANGED <<row, copy, candidates, locals, rounds, blind, read>>

\* A rejected question leaves the profile alone.
Reject(w) ==
  /\ w \in Confirmers /\ pc[w] = "idle"
  /\ \E n \in DOMAIN questions :
       /\ questions[n].status = "pending"
       /\ Resolve(n, "rejected")
  /\ Goto(w, "end")
  /\ UNCHANGED <<row, copy, candidates, locals, rounds, faults, blind, read>>

-----------------------------------------------------------------------------

\* A worker's process stops, or its time is up.
Stop(w) ==
  /\ pc[w] \notin {"idle", "end"} /\ Fault
  /\ Goto(w, "end")
  /\ UNCHANGED <<stored, locals, rounds, blind, read>>

Next ==
  \/ Consolidate \/ List \/ AnswerDiff \/ Promote \/ Discard \/ Ask
  \/ \E c \in Candidates : Capture(c)
  \/ \E w \in Worker :
       \/ GetUserProfile(w) \/ FindUserProfile(w) \/ Fill(w) \/ Read(w)
       \/ Confirm(w) \/ Apply(w) \/ MarkConfirmed(w) \/ Reject(w)
       \/ Persist(w) \/ Publish(w) \/ Stop(w)

Spec == Init /\ [][Next]_vars

-----------------------------------------------------------------------------

\* A profile is written over the one it was made from: an update that a confirmation, another
\* consolidation or a stale copy has overtaken is refused by the version.  Excepted is what
\* follows a first profile written blindly over another one, whose version starts again at 1.
\* (persistConsolidatedProfile, UpdateUserProfileCAS)
WriteBuildsOnCurrent ==
  [][row' # row => blind' \/ \E w \in Worker : pc[w] = "persist" /\ pc'[w] # "persist"
                                               /\ profile[w] = row]_vars

\* What the user has confirmed is the topic's one active value in the profile that is written,
\* however certain the model was of another; excepted is a value that had been confirmed
\* and given up before, which NormalizeProfile drops.  (ResolveProfileConfirmation,
\* ApplyProfileDiff, NormalizeProfile)
ConfirmedValueStands ==
  [][\A w \in Confirmers : pc[w] = "persist" /\ pc'[w] = "publish" =>
       \/ Active(row'.facts) = {Asked(w)}
       \/ \E i \in DOMAIN profile[w].facts :
            LET f == profile[w].facts[i]
            IN f.value = Asked(w) /\ ~ f.active /\ f.confidence = MaxConfidence]_vars

\* No candidate is done with that no consolidation has read, one that is captured while the
\* model thinks included.  (ConsolidateIfNeeded, MarkProfileCandidates)
UnreadCandidatesWait ==
  \A c \in Candidates : candidates[c] \in {"promoted", "rejected"} => c \in read
=============================================================================
