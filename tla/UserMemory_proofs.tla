-------------------------- MODULE UserMemory_proofs --------------------------
(***************************************************************************)
(* Machine-checked facts about what is remembered for a user.              *)
(*                                                                         *)
(* First the long-term profile (UserProfile), for any values, candidates,  *)
(* confirmers and readers, and any number of rounds and faults; then the   *)
(* conversations' memory and the model settings (AiChat), for any chats,   *)
(* window and bounds.                                                      *)
(***************************************************************************)
EXTENDS UserProfile, AiChat, FiniteSetTheorems, WellFoundedInduction, TLAPS

\* The actions of a worker of either kind, the consolidation's and the rest.
Shared(w)  == GetUserProfile(w) \/ FindUserProfile(w) \/ Fill(w) \/ Read(w)
                \/ Persist(w) \/ Publish(w) \/ Stop(w)
Answer(w)  == Confirm(w) \/ Apply(w) \/ MarkConfirmed(w) \/ Reject(w)
Round      == Consolidate \/ List \/ AnswerDiff \/ Promote \/ Discard \/ Ask

LEMMA NextSplit ==
  Next => \/ \E w \in Worker : Shared(w) \/ Answer(w)
          \/ Round \/ \E c \in Candidates : Capture(c)
BY DEF Next, Shared, Answer, Round

-----------------------------------------------------------------------------
(* The candidates. *)

\* What the consolidation holds of candidates it has read.
ReadBefore ==
  /\ candidates = [c \in Candidates |-> candidates[c]]
  /\ listed \subseteq read /\ verdict.used \subseteq read /\ verdict.reject \subseteq read
  /\ UnreadCandidatesWait

LEMMA StepReads == ReadBefore /\ [Next]_vars => ReadBefore'
<1> SUFFICES ASSUME ReadBefore, [Next]_vars PROVE ReadBefore'
  OBVIOUS
<1> USE DEF ReadBefore, UnreadCandidatesWait
<1>1. ASSUME UNCHANGED <<candidates, listed, verdict, read>> PROVE ReadBefore'
  BY <1>1
<1>2. ASSUME NEW w \in Worker, Shared(w) PROVE ReadBefore'
  BY <1>1, <1>2 DEF Shared, GetUserProfile, FindUserProfile, Fill, Read, Persist, Publish,
                    Stop, stored, locals
<1>3. ASSUME NEW w \in Worker, Answer(w) PROVE ReadBefore'
  BY <1>1, <1>3 DEF Answer, Confirm, Apply, MarkConfirmed, Reject, stored, locals
<1>4. ASSUME NEW c \in Candidates, Capture(c) PROVE ReadBefore'
  BY <1>4 DEF Capture, locals
<1>5. CASE Consolidate
  BY <1>5 DEF Consolidate, NoVerdict, stored
<1>6. CASE List
  <2>1. UNCHANGED <<candidates, verdict>> /\ read \subseteq read'
    BY <1>6 DEF List, stored
  <2>2. listed' \subseteq read' /\ (listed' = listed \/ listed' = Pending)
    BY <1>6 DEF List
  <2>3. QED BY <2>1, <2>2
<1>7. CASE AnswerDiff
  <2>1. UNCHANGED <<candidates, listed, read>>
    BY <1>7 DEF AnswerDiff, stored
  <2>2. CASE UNCHANGED verdict
    BY <2>1, <2>2
  <2>3. ASSUME NEW used \in SUBSET listed, NEW reject \in {{}, listed \ used},
               \E facts, ask : Diff(facts, Verdict(used, reject, ask))
        PROVE  ReadBefore'
    <3>1. verdict'.used = used /\ verdict'.reject = reject
      BY <2>3 DEF Diff, Verdict
    <3>2. QED BY <2>1, <3>1
  <2>4. CASE \E facts : Diff(facts, [NoVerdict EXCEPT !.rest = TRUE])
    <3>1. verdict'.used = {} /\ verdict'.reject = {}
      BY <2>4 DEF Diff, NoVerdict
    <3>2. QED BY <2>1, <3>1
  <2>5. QED BY <1>7, <2>2, <2>3, <2>4, Zenon DEF AnswerDiff
<1>8. CASE Promote
  BY <1>1, <1>8 DEF Promote, Marked, locals
<1>9. CASE Discard
  BY <1>1, <1>9 DEF Discard, Marked, Unused, locals
<1>10. CASE Ask
  BY <1>10 DEF Ask, NoVerdict
<1>11. CASE UNCHANGED vars
  BY <1>1, <1>11 DEF vars, stored, locals
<1>12. QED
  BY <1>2, <1>3, <1>4, <1>5, <1>6, <1>7, <1>8, <1>9, <1>10, <1>11, NextSplit DEF Round

\* A candidate that is promoted or rejected has been read by a consolidation, at whatever point
\* of one it was captured (ConsolidateIfNeeded, MarkProfileCandidates).
THEOREM CandidatesAreRead == Spec => []UnreadCandidatesWait
<1>1. Init => ReadBefore
  <2> SUFFICES ASSUME Init PROVE ReadBefore
    OBVIOUS
  <2>1. verdict.used = {} /\ verdict.reject = {} /\ listed = {} /\ read = {}
    BY DEF Init, NoVerdict
  <2>2. UnreadCandidatesWait /\ candidates = [c \in Candidates |-> candidates[c]]
    BY ProfileBounds DEF Init, UnreadCandidatesWait
  <2>3. QED BY <2>1, <2>2 DEF ReadBefore
<1>2. ReadBefore => UnreadCandidatesWait
  BY DEF ReadBefore
<1>3. QED BY <1>1, <1>2, StepReads, PTL DEF Spec

-----------------------------------------------------------------------------
(* The versions. *)

\* A profile that somebody holds is the stored one, or one of an earlier version.
Behind(p) ==
  /\ p.version \in Nat /\ p.version <= row.version
  /\ p.version = row.version => p = row

Domains ==
  /\ pc = [w \in Worker |-> pc[w]] /\ profile = [w \in Worker |-> profile[w]]
  /\ next = [w \in Worker |-> next[w]]
  /\ blind \in BOOLEAN

Ordered ==
  ~ blind => /\ row.version \in Nat /\ (row.version = 0 => row = NoProfile)
             /\ Behind(copy) /\ \A w \in Worker : Behind(profile[w])
             /\ \A w \in Worker : pc[w] = "publish" => Behind(Written(w, next[w]))

\* While the row stays, what is loaded is the row, the copy, or nothing.
LEMMA KeepOrder ==
  ASSUME Ordered, UNCHANGED <<row, blind>>,
         copy' = copy
           \/ (\E w \in Worker : copy' = profile[w])
           \/ (\E w \in Worker : pc[w] = "publish" /\ copy' = Written(w, next[w])),
         \A w \in Worker : profile'[w] \in {profile[w], row, copy, NoProfile},
         \A w \in Worker : pc'[w] = "publish" => /\ pc[w] = "publish" /\ next'[w] = next[w]
                                                 /\ profile'[w] = profile[w]
  PROVE  Ordered'
<1> SUFFICES ASSUME ~ blind
             PROVE  /\ Behind(copy)' /\ \A w \in Worker : Behind(profile[w])'
                    /\ \A w \in Worker : pc'[w] = "publish" => Behind(Written(w, next[w]))'
  BY DEF Ordered
<1>1. Behind(row) /\ Behind(NoProfile)
  BY DEF Ordered, Behind, NoProfile
<1>2. Behind(copy)'
  BY <1>1 DEF Ordered, Behind
<1>3. ASSUME NEW w \in Worker PROVE Behind(profile[w])'
  <2>1. Behind(profile'[w])
    BY <1>1 DEF Ordered
  <2>2. QED BY <2>1 DEF Behind
<1>4. ASSUME NEW w \in Worker, pc'[w] = "publish" PROVE Behind(Written(w, next[w]))'
  <2>1. Behind(Written(w, next[w])) /\ next'[w] = next[w] /\ profile'[w] = profile[w]
    BY <1>4 DEF Ordered
  <2>2. QED BY <2>1 DEF Behind, Written
<1>5. QED BY <1>2, <1>3, <1>4

\* Somebody is writing who has loaded the row.
OnCurrent == \E w \in Worker : pc[w] = "persist" /\ pc'[w] # "persist" /\ profile[w] = row

LEMMA StepDomains == Domains /\ [Next]_vars => Domains'
<1> SUFFICES ASSUME Domains, [Next]_vars PROVE Domains'
  OBVIOUS
<1> USE DEF Domains, Goto, Loaded, Begin
<1>1. ASSUME NEW w \in Worker, Shared(w) PROVE Domains'
  BY <1>1 DEF Shared, GetUserProfile, FindUserProfile, Fill, Read, Persist, Publish, Stop,
              stored, locals
<1>2. ASSUME NEW w \in Worker, Answer(w) PROVE Domains'
  BY <1>2 DEF Answer, Confirm, Apply, MarkConfirmed, Reject, stored, locals
<1>3. CASE Consolidate \/ List \/ Promote \/ Discard \/ Ask
  BY <1>3 DEF Consolidate, List, Promote, Discard, Ask, stored, locals
<1>4. CASE AnswerDiff
  <2>1. UNCHANGED <<profile, blind>>
    BY <1>4 DEF AnswerDiff, Diff
  <2>2. \E label \in {"persist", "end"} : pc' = [pc EXCEPT ![Consolidator] = label]
    BY <1>4 DEF AnswerDiff, Diff
  <2>3. next' = next \/ \E new : next' = [next EXCEPT ![Consolidator] = new]
    BY <1>4 DEF AnswerDiff, Diff
  <2>4. QED BY <2>1, <2>2, <2>3
<1>5. CASE (\E c \in Candidates : Capture(c)) \/ UNCHANGED vars
  BY <1>5 DEF Capture, vars, stored, locals
<1>6. QED BY <1>1, <1>2, <1>3, <1>4, <1>5, NextSplit DEF Round

LEMMA StepOrders ==
  Domains /\ Ordered /\ [Next]_vars => Ordered' /\ (row' # row => blind' \/ OnCurrent)
<1> SUFFICES ASSUME Domains, Ordered, [Next]_vars
             PROVE  Ordered' /\ (row' # row => blind' \/ OnCurrent)
  OBVIOUS
<1> USE DEF Domains, Goto, Begin
<1>1. ASSUME UNCHANGED <<row, copy, blind, profile, next>>,
             \A w \in Worker : pc'[w] = "publish" => pc[w] = "publish"
      PROVE  Ordered' /\ row' = row
  BY <1>1, KeepOrder
<1>2. ASSUME NEW w \in Worker, GetUserProfile(w) \/ FindUserProfile(w)
      PROVE  Ordered' /\ row' = row
  <2>1. /\ UNCHANGED <<row, copy, blind, next>> /\ pc'[w] # "publish" /\ pc[w] # "publish"
        /\ profile'[w] \in {profile[w], row, copy, NoProfile}
        /\ \A u \in Worker : u # w => pc'[u] = pc[u] /\ profile'[u] = profile[u]
    BY <1>2 DEF GetUserProfile, FindUserProfile, Loaded, stored
  <2>2. QED BY <2>1, KeepOrder
<1>3. ASSUME NEW w \in Worker, Fill(w) PROVE Ordered' /\ row' = row
  <2>1. /\ UNCHANGED <<row, blind, next>> /\ pc'[w] # "publish"
        /\ copy' \in {copy, profile[w]} /\ profile'[w] \in {profile[w], NoProfile}
        /\ \A u \in Worker : u # w => pc'[u] = pc[u] /\ profile'[u] = profile[u]
    BY <1>3 DEF Fill, Loaded
  <2>2. QED BY <2>1, KeepOrder
<1>4. ASSUME NEW w \in Worker, Read(w) \/ Confirm(w) \/ (w = Consolidator /\ Consolidate)
      PROVE  Ordered' /\ row' = row
  <2>1. /\ UNCHANGED <<row, copy, blind>> /\ pc'[w] = "load" /\ profile'[w] = NoProfile
        /\ \A u \in Worker : u # w => /\ pc'[u] = pc[u] /\ profile'[u] = profile[u]
                                      /\ next'[u] = next[u]
    BY <1>4 DEF Read, Confirm, Consolidate, stored
  <2>2. QED BY <2>1, KeepOrder
<1>5. ASSUME NEW w \in Worker, Publish(w) PROVE Ordered' /\ row' = row
  <2>1. /\ UNCHANGED <<row, blind>> /\ pc[w] = "publish" /\ pc'[w] # "publish"
        /\ copy' \in {copy, Written(w, next[w])} /\ profile'[w] = NoProfile
        /\ \A u \in Worker : u # w => /\ pc'[u] = pc[u] /\ profile'[u] = profile[u]
                                      /\ next'[u] = next[u]
    BY <1>5 DEF Publish
  <2>2. QED BY <2>1, KeepOrder
<1>6. ASSUME NEW w \in Worker, Apply(w) \/ (w = Consolidator /\ AnswerDiff)
      PROVE  Ordered' /\ row' = row
  <2>1. /\ UNCHANGED <<row, copy, blind, profile>> /\ pc'[w] # "publish"
        /\ \A u \in Worker : u # w => pc'[u] = pc[u] /\ next'[u] = next[u]
    BY <1>6 DEF Apply, AnswerDiff, Diff, stored
  <2>2. QED BY <2>1, KeepOrder
<1>7. ASSUME NEW w \in Worker,
             Stop(w) \/ MarkConfirmed(w) \/ Reject(w)
             \/ (w = Consolidator /\ (List \/ Promote \/ Discard \/ Ask))
      PROVE  Ordered' /\ row' = row
  <2>1. UNCHANGED <<row, copy, blind, profile, next>> /\ pc'[w] # "publish"
        /\ \A u \in Worker : u # w => pc'[u] = pc[u]
    BY <1>7 DEF Stop, MarkConfirmed, Reject, List, Promote, Discard, Ask, stored, locals
  <2>2. QED BY <1>1, <2>1
<1>8. CASE (\E c \in Candidates : Capture(c)) \/ UNCHANGED vars
  BY <1>1, <1>8 DEF Capture, vars, stored, locals
<1>9. ASSUME NEW w \in Worker, Persist(w)
       PROVE  Ordered' /\ (row' # row => blind' \/ OnCurrent)
  <2> DEFINE facts == Normalize(next[w])
  <2>1. /\ pc[w] = "persist" /\ UNCHANGED <<copy, profile>> /\ pc'[w] # "persist"
        /\ \A u \in Worker : u # w => pc'[u] = pc[u] /\ next'[u] = next[u]
    BY <1>9 DEF Persist
  <2>2. CASE UNCHANGED <<row, blind, next>> /\ pc' = [pc EXCEPT ![w] = "end"]
    BY <1>1, <2>1, <2>2
  <2>3. CASE /\ profile[w] = NoProfile \/ VersionMatches(w)
             /\ row' = Written(w, facts) /\ next' = [next EXCEPT ![w] = facts]
             /\ blind' = (blind \/ (profile[w] = NoProfile /\ row # NoProfile))
    <3>1. CASE blind'
      BY <3>1 DEF Ordered
    <3>2. CASE ~ blind'
      <4>1. ~ blind /\ (profile[w] = NoProfile => row = NoProfile)
        BY <2>3, <3>2
      <4>2. profile[w] = row /\ row.version \in Nat
        BY <2>3, <4>1 DEF Ordered, Behind, VersionMatches
      <4>3. row'.version = row.version + 1
        BY <2>3, <4>2 DEF Written
      <4>5. Behind(copy)' /\ \A u \in Worker : Behind(profile[u])'
        <5>1. Behind(copy) /\ \A u \in Worker : Behind(profile[u])
          BY <4>1 DEF Ordered
        <5>2. QED BY <2>1, <4>2, <4>3, <5>1 DEF Behind
      <4>6. ASSUME NEW u \in Worker, pc'[u] = "publish" PROVE Behind(Written(u, next[u]))'
        <5>1. CASE u = w
          <6>1. Written(u, next[u])' = row'
            BY <2>1, <2>3, <5>1 DEF Written
          <6>2. QED BY <4>2, <4>3, <6>1 DEF Behind
        <5>2. CASE u # w
          <6>1. Behind(Written(u, next[u])) /\ Written(u, next[u])' = Written(u, next[u])
            BY <2>1, <4>1, <4>6, <5>2 DEF Ordered, Written
          <6>2. QED BY <4>2, <4>3, <6>1 DEF Behind
        <5>3. QED BY <5>1, <5>2
      <4>7. OnCurrent
        BY <2>1, <4>2 DEF OnCurrent
      <4>8. QED BY <4>2, <4>3, <4>5, <4>6, <4>7 DEF Ordered
    <3>3. QED BY <3>1, <3>2
  <2>4. QED BY <1>9, <2>2, <2>3 DEF Persist
<1>10. Consolidator \in Worker
  BY DEF Worker
<1>11. QED
  BY <1>2, <1>3, <1>4, <1>5, <1>6, <1>7, <1>8, <1>9, <1>10, NextSplit
  DEF Shared, Answer, Round

\* Whoever writes has loaded what is written over: an overtaken update finds another version.
\* (persistConsolidatedProfile, UpdateUserProfileCAS)
THEOREM WritesBuildOnCurrent == Spec => WriteBuildsOnCurrent
<1>1. Init => Domains /\ Ordered
  <2> SUFFICES ASSUME Init PROVE Domains /\ Ordered
    OBVIOUS
  <2>1. Domains
    BY DEF Init, Domains
  <2>2. Behind(NoProfile) /\ row.version = 0
    BY DEF Init, Behind, NoProfile
  <2>3. \A w \in Worker : profile[w] = NoProfile /\ pc[w] # "publish"
    BY DEF Init
  <2>4. QED BY <2>1, <2>2, <2>3 DEF Init, Ordered
<1>2. Domains /\ Ordered /\ [Next]_vars =>
        [row' # row => blind' \/ OnCurrent]_vars
  BY StepOrders
<1>3. Spec => [][row' # row => blind' \/ OnCurrent]_vars
  BY <1>1, <1>2, StepDomains, StepOrders, PTL DEF Spec
<1>4. QED BY <1>3 DEF WriteBuildsOnCurrent, OnCurrent

-----------------------------------------------------------------------------
(* What NormalizeProfile keeps. *)

FactRecord == [id : Values, value : Values, confidence : 1 .. MaxConfidence, active : BOOLEAN]

\* A topic has one active fact, or none.
OneActive(facts) ==
  \A i, j \in DOMAIN facts : facts[i].active /\ facts[j].active => i = j

Sound(facts) == facts \in Seq(FactRecord) /\ OneActive(facts)

LEMMA LeastNumber ==
  ASSUME NEW T \in SUBSET Nat, T # {}
  PROVE  \E m \in T : \A k \in T : m <= k
<1> DEFINE R == OpToRel(<, Nat)
<1>1. IsWellFoundedOn(R, Nat)
  BY NatLessThanWellFounded
<1>2. PICK m \in T : \A k \in T : <<k, m>> \notin R
  <2> HIDE DEF R
  <2> QED BY <1>1, WFMin
<1>3. \A k \in T : k < m => <<k, m>> \in R
  BY DEF OpToRel
<1> HIDE DEF R
<1>4. ASSUME NEW k \in T PROVE m <= k
  <2>1. m \in Nat /\ k \in Nat /\ ~ (k < m)
    BY <1>2, <1>3
  <2>2. QED BY <2>1
<1>5. QED BY <1>4

LEMMA Positions ==
  ASSUME NEW facts \in Seq(FactRecord)
  PROVE  /\ Len(facts) \in Nat /\ DOMAIN facts = 1 .. Len(facts)
         /\ \A i \in DOMAIN facts : i \in Nat /\ facts[i] \in FactRecord
OBVIOUS

\* Among the facts of a value there is a best one.
LEMMA BestFact ==
  ASSUME NEW facts \in Seq(FactRecord), NEW i \in DOMAIN facts
  PROVE  /\ Best(facts, i) \in SameValue(facts, i)
         /\ \A k \in SameValue(facts, i) :
              \/ facts[Best(facts, i)].confidence > facts[k].confidence
              \/ /\ facts[Best(facts, i)].confidence = facts[k].confidence
                 /\ Best(facts, i) <= k
<1> DEFINE S == SameValue(facts, i)
           Deficits == {MaxConfidence - facts[j].confidence : j \in S}
<1>1. S \subseteq DOMAIN facts /\ i \in S
  BY DEF SameValue
<1>2. \A j \in S : /\ j \in Nat /\ facts[j].confidence \in Nat
                   /\ MaxConfidence - facts[j].confidence \in Nat
  <2>1. ASSUME NEW j \in S
        PROVE  j \in Nat /\ facts[j].confidence \in 1 .. MaxConfidence
    <3>1. j \in Nat /\ facts[j] \in FactRecord
      BY <1>1, Positions
    <3>2. QED BY <3>1 DEF FactRecord
  <2>2. MaxConfidence \in Nat
    BY ProfileBounds
  <2> HIDE DEF S
  <2>3. QED BY <2>1, <2>2
<1>3. PICK top \in S : \A k \in S : facts[k].confidence <= facts[top].confidence
  <2>1. Deficits \subseteq Nat /\ Deficits # {}
    BY <1>1, <1>2
  <2>2. PICK m \in Deficits : \A k \in Deficits : m <= k
    <3> HIDE DEF Deficits
    <3> QED BY <2>1, LeastNumber
  <2>3. PICK top \in S : m = MaxConfidence - facts[top].confidence
    BY <2>2
  <2>4. ASSUME NEW k \in S PROVE facts[k].confidence <= facts[top].confidence
    <3>1. MaxConfidence - facts[top].confidence <= MaxConfidence - facts[k].confidence
      BY <2>2, <2>3
    <3>2. facts[top].confidence \in Nat /\ facts[k].confidence \in Nat /\ MaxConfidence \in Nat
      BY <1>2, ProfileBounds
    <3> HIDE DEF S
    <3>3. QED BY <3>1, <3>2, SMTT(30)
  <2>5. QED BY <2>4
<1> DEFINE Tops == {j \in S : facts[j].confidence = facts[top].confidence}
<1>4. PICK best \in Tops : \A k \in Tops : best <= k
  <2>1. Tops \in SUBSET Nat /\ Tops # {}
    BY <1>2
  <2> HIDE DEF Tops
  <2>2. QED BY <2>1, LeastNumber
<1>5. best \in S /\ \A k \in S : \/ facts[best].confidence > facts[k].confidence
                                 \/ facts[best].confidence = facts[k].confidence /\ best <= k
  BY <1>2, <1>3, <1>4
<1> HIDE DEF S
<1>6. QED BY <1>5 DEF Best, S

\* Every value that occurs has a first fact.
LEMMA FirstFact ==
  ASSUME NEW facts \in Seq(FactRecord), NEW i \in DOMAIN facts
  PROVE  \E j \in Firsts(facts) : SameValue(facts, j) = SameValue(facts, i)
<1>1. SameValue(facts, i) \in SUBSET Nat /\ i \in SameValue(facts, i)
  BY Positions DEF SameValue
<1>2. PICK j \in SameValue(facts, i) : \A k \in SameValue(facts, i) : j <= k
  BY <1>1, LeastNumber
<1>3. j \in DOMAIN facts /\ SameValue(facts, j) = SameValue(facts, i)
  BY DEF SameValue
<1>4. QED BY <1>2, <1>3 DEF Firsts

\* The first facts take the places from 1 on, one each.
LEMMA Places ==
  ASSUME NEW facts \in Seq(FactRecord)
  PROVE  /\ Firsts(facts) \subseteq DOMAIN facts /\ Cardinality(Firsts(facts)) \in Nat
         /\ \A i \in Firsts(facts) : Place(facts, i) \in 1 .. Cardinality(Firsts(facts))
         /\ \A i, j \in Firsts(facts) : Place(facts, i) = Place(facts, j) => i = j
         /\ \A n \in 1 .. Cardinality(Firsts(facts)) :
              \E i \in Firsts(facts) : Place(facts, i) = n
<1> DEFINE F == Firsts(facts)
           Upto(i) == {j \in F : j <= i}
           size == Cardinality(F)
           place == [i \in F |-> Place(facts, i)]
<1>1. F \subseteq DOMAIN facts /\ \A i \in F : i \in Nat
  BY Positions DEF Firsts
<1>2. IsFiniteSet(F) /\ size \in Nat
  <2>1. IsFiniteSet(DOMAIN facts)
    BY Positions, FS_Interval
  <2> HIDE DEF F
  <2>2. IsFiniteSet(F)
    BY <1>1, <2>1, FS_Subset
  <2>3. QED BY <2>2, FS_CardinalityType
<1>3. \A i \in F : Place(facts, i) = Cardinality(Upto(i))
  BY DEF Place
<1> HIDE DEF F
<1>4. ASSUME NEW i \in F
      PROVE  IsFiniteSet(Upto(i)) /\ Cardinality(Upto(i)) \in 1 .. size
  <2>1. Upto(i) \in SUBSET F /\ i \in Upto(i)
    BY <1>1
  <2> HIDE DEF Upto
  <2>2. IsFiniteSet(Upto(i)) /\ Cardinality(Upto(i)) <= size
    BY <1>2, <2>1, FS_Subset
  <2>3. Cardinality(Upto(i)) \in Nat /\ Cardinality(Upto(i)) # 0
    BY <2>1, <2>2, FS_CardinalityType, FS_EmptySet
  <2>4. QED BY <1>2, <2>2, <2>3
<1>5. ASSUME NEW i \in F, NEW j \in F, i < j PROVE Cardinality(Upto(i)) # Cardinality(Upto(j))
  <2>1. Upto(i) \in SUBSET Upto(j) /\ Upto(i) # Upto(j)
    BY <1>1, <1>5
  <2>2. IsFiniteSet(Upto(j))
    BY <1>4
  <2> HIDE DEF Upto
  <2>3. QED BY <2>1, <2>2, FS_Subset
<1>6. \A i, j \in F : Place(facts, i) = Place(facts, j) => i = j
  <2> HIDE DEF Upto
  <2> QED BY <1>1, <1>3, <1>5
<1>7. \A i \in F : Place(facts, i) \in 1 .. size
  <2> HIDE DEF Upto, size
  <2> QED BY <1>3, <1>4
<1>8. \A n \in 1 .. size : \E i \in F : Place(facts, i) = n
  <2>1. place \in Injection(F, 1 .. size)
    <3>1. place \in [F -> 1 .. size]
      <4> HIDE DEF size
      <4> QED BY <1>7
    <3>2. IsInjective(place)
      BY <1>6 DEF IsInjective
    <3> HIDE DEF place, size
    <3>3. QED BY <3>1, <3>2 DEF Injection
  <2>2. IsFiniteSet(1 .. size) /\ Cardinality(1 .. size) = size
    <3> HIDE DEF size
    <3>1. 1 \in Int /\ size \in Int
      BY <1>2
    <3>2. IsFiniteSet(1 .. size) /\ Cardinality(1 .. size) = IF 1 > size THEN 0 ELSE size - 1 + 1
      BY <3>1, FS_Interval
    <3>3. QED BY <1>2, <3>2
  <2> DEFINE N == 1 .. size
  <2>3. place \in Injection(F, N) /\ IsFiniteSet(N) /\ Cardinality(N) = Cardinality(F)
    BY <2>1, <2>2
  <2> HIDE DEF place, N
  <2>4. place \in Surjection(F, N)
    BY <2>3, FS_Injection
  <2>5. \A n \in N : \E i \in F : place[i] = n
    BY <2>4 DEF Surjection
  <2> HIDE DEF size
  <2>6. QED BY <2>5 DEF place, N
<1>9. QED BY <1>1, <1>2, <1>6, <1>7, <1>8 DEF F

\* The first fact whose place is n.
Nth(facts, n) == CHOOSE i \in Firsts(facts) : Place(facts, i) = n

\* NormalizeProfile returns facts it was given, and the best of every value.
LEMMA Normalized ==
  ASSUME NEW facts \in Seq(FactRecord)
  PROVE  /\ Normalize(facts) \in Seq(FactRecord)
         /\ \A n \in DOMAIN Normalize(facts) :
              /\ Nth(facts, n) \in Firsts(facts) /\ Place(facts, Nth(facts, n)) = n
              /\ Normalize(facts)[n] = facts[Best(facts, Nth(facts, n))]
         /\ \A i \in DOMAIN facts : \E n \in DOMAIN Normalize(facts) :
              Normalize(facts)[n] = facts[Best(facts, i)]
<1> DEFINE size == Cardinality(Firsts(facts))
           kept == Normalize(facts)
<1>1. kept = [n \in 1 .. size |-> facts[Best(facts, Nth(facts, n))]]
  BY DEF Normalize, Nth
<1>2. size \in Nat /\ Firsts(facts) \subseteq DOMAIN facts
  BY Places
<1>3. \A n \in 1 .. size : Nth(facts, n) \in Firsts(facts) /\ Place(facts, Nth(facts, n)) = n
  BY Places DEF Nth
<1>4. \A i \in DOMAIN facts : Best(facts, i) \in DOMAIN facts
  BY BestFact DEF SameValue
<1>5. \A n \in 1 .. size : facts[Best(facts, Nth(facts, n))] \in FactRecord
  BY <1>2, <1>3, <1>4, Positions
<1> HIDE DEF size, kept
<1>6. kept \in Seq(FactRecord) /\ DOMAIN kept = 1 .. size
  BY <1>1, <1>2, <1>5
<1>7. ASSUME NEW i \in DOMAIN facts
      PROVE  \E n \in 1 .. size : kept[n] = facts[Best(facts, i)]
  <2>1. PICK j \in Firsts(facts) : SameValue(facts, j) = SameValue(facts, i)
    BY FirstFact
  <2>2. Best(facts, j) = Best(facts, i)
    BY <2>1 DEF Best
  <2>3. Place(facts, j) \in 1 .. size /\ Nth(facts, Place(facts, j)) = j
    <3>1. Place(facts, j) \in 1 .. size
      BY Places DEF size
    <3>2. QED BY <1>3, <3>1, Places
  <2>4. QED BY <1>1, <2>2, <2>3
<1>8. QED BY <1>1, <1>3, <1>6, <1>7 DEF kept

\* At most one active fact stays at most one.
LEMMA NormalizeSound ==
  ASSUME NEW facts, Sound(facts)
  PROVE  Sound(Normalize(facts))
<1>1. facts \in Seq(FactRecord) /\ OneActive(facts)
  BY DEF Sound
<1> DEFINE kept == Normalize(facts)
           chosen(n) == Best(facts, Nth(facts, n))
<1>2. ASSUME NEW m \in DOMAIN kept, NEW n \in DOMAIN kept, kept[m].active, kept[n].active
      PROVE  m = n
  <2>1. /\ kept[m] = facts[chosen(m)] /\ kept[n] = facts[chosen(n)]
        /\ Nth(facts, m) \in Firsts(facts) /\ Place(facts, Nth(facts, m)) = m
        /\ Nth(facts, n) \in Firsts(facts) /\ Place(facts, Nth(facts, n)) = n
    BY <1>1, Normalized
  <2>2. Firsts(facts) \subseteq DOMAIN facts /\ \A i \in Firsts(facts) : i \in Nat
    BY <1>1, Positions DEF Firsts
  <2>3. /\ chosen(m) \in SameValue(facts, Nth(facts, m))
        /\ chosen(n) \in SameValue(facts, Nth(facts, n))
    BY <1>1, <2>1, <2>2, BestFact
  <2>4. chosen(m) = chosen(n)
    BY <1>1, <1>2, <2>1, <2>3 DEF OneActive, SameValue
  <2> HIDE DEF chosen, kept
  <2>5. /\ Nth(facts, n) \in SameValue(facts, Nth(facts, m))
        /\ Nth(facts, m) \in SameValue(facts, Nth(facts, n))
    BY <2>1, <2>2, <2>3, <2>4 DEF SameValue
  <2>6. Nth(facts, m) = Nth(facts, n)
    BY <2>1, <2>2, <2>5 DEF Firsts
  <2>7. QED BY <2>1, <2>6
<1>3. QED BY <1>1, <1>2, Normalized DEF Sound, OneActive

-----------------------------------------------------------------------------
(* What a diff makes of the facts. *)

LEMMA CurrentFact ==
  ASSUME NEW facts, Sound(facts)
  PROVE  \/ Current(facts) = 0 /\ \A i \in DOMAIN facts : ~ facts[i].active
         \/ Current(facts) \in DOMAIN facts /\ facts[Current(facts)].active
<1> DEFINE I == {i \in 1 .. Len(facts) : facts[i].active}
<1>1. /\ Len(facts) \in Nat /\ DOMAIN facts = 1 .. Len(facts)
      /\ \A i, j \in I : i = j
  BY Positions DEF Sound, OneActive
<1>2. Current(facts) = IF I # {} THEN Max(I) ELSE 0
  BY DEF Current, SelectLastInSeq
<1>3. CASE I = {}
  BY <1>1, <1>2, <1>3
<1>4. CASE I # {}
  <2>1. PICK a \in I : I = {a}
    BY <1>1, <1>4
  <2>2. a \in Int
    BY <1>1
  <2> HIDE DEF I
  <2>3. Max(I) = a
    BY <2>1, <2>2 DEF Max
  <2>4. QED BY <1>1, <1>2, <1>4, <2>3 DEF I
<1>5. QED BY <1>3, <1>4

\* The fact at one position is replaced by one that is no more active than it was.
LEMMA ChangeSound ==
  ASSUME NEW facts, Sound(facts), NEW a \in DOMAIN facts, NEW new \in FactRecord,
         new.active => facts[a].active,
         NEW changed, changed = [facts EXCEPT ![a] = new]
  PROVE  Sound(changed)
<1>1. facts \in Seq(FactRecord) /\ OneActive(facts)
  BY DEF Sound
<1>2. changed \in Seq(FactRecord) /\ DOMAIN changed = DOMAIN facts
  BY <1>1
<1>3. \A i \in DOMAIN changed : changed[i].active => facts[i].active
  OBVIOUS
<1>4. QED
  BY <1>1, <1>2, <1>3 DEF Sound, OneActive

\* A fact is appended to facts that are all given up.
LEMMA AppendSound ==
  ASSUME NEW facts \in Seq(FactRecord), \A i \in DOMAIN facts : ~ facts[i].active,
         NEW new \in FactRecord
  PROVE  Sound(Append(facts, new))
<1> DEFINE longer == Append(facts, new)
<1>1. /\ longer \in Seq(FactRecord) /\ DOMAIN longer = DOMAIN facts \cup {Len(facts) + 1}
      /\ \A i \in DOMAIN facts : longer[i] = facts[i]
  OBVIOUS
<1> HIDE DEF longer
<1>2. Sound(longer)
  BY <1>1 DEF Sound, OneActive
<1>3. QED BY <1>2 DEF longer

\* One active fact has the value, and all other facts of that value were there before.
Stands(facts, new, v, c) ==
  \E a \in DOMAIN new :
    /\ new[a].active /\ new[a].value = v /\ c <= new[a].confidence
    /\ \A k \in DOMAIN new : k # a /\ new[k].value = v => k \in DOMAIN facts /\ new[k] = facts[k]

\* What the three cases of an addition that changes something leave.
LEMMA AddCases ==
  ASSUME NEW facts, Sound(facts), NEW v \in Values, NEW c \in 1 .. MaxConfidence,
         NEW force, NEW new, new = Add(facts, v, c, force)
  PROVE  /\ Sound(new)
         /\ \/ new = facts /\ Conflicts(facts, v, c, force)
            \/ Stands(facts, new, v, c)
<1> DEFINE i == Current(facts)
<1>1. /\ facts \in Seq(FactRecord) /\ OneActive(facts)
      /\ Fact(v, c) \in FactRecord /\ Fact(v, c).value = v /\ Fact(v, c).active
      /\ Fact(v, c).confidence = c /\ c <= c
  BY DEF Sound, Fact, FactRecord
<1>2. CASE i = 0
  <2>1. new = Append(facts, Fact(v, c))
    BY <1>2 DEF Add, Conflicts
  <2>2. \A k \in DOMAIN facts : ~ facts[k].active
    BY <1>2, CurrentFact, Positions, <1>1
  <2>3. Sound(new)
    BY <1>1, <2>1, <2>2, AppendSound
  <2>4. Stands(facts, new, v, c)
    <3>1. /\ DOMAIN new = DOMAIN facts \cup {Len(facts) + 1} /\ new[Len(facts) + 1] = Fact(v, c)
          /\ \A k \in DOMAIN facts : new[k] = facts[k]
      BY <1>1, <2>1
    <3>2. QED BY <1>1, <3>1 DEF Stands
  <2>5. QED BY <2>3, <2>4
<1>3. CASE i # 0 /\ facts[i].value = v
  <2>1. i \in DOMAIN facts /\ facts[i].active /\ facts[i] \in FactRecord
    BY <1>1, <1>3, CurrentFact, Positions
  <2> DEFINE most == IF c > facts[i].confidence THEN c ELSE facts[i].confidence
             f == [facts[i] EXCEPT !.confidence = most]
  <2>2. new = [facts EXCEPT ![i] = f]
    <3>1. new = [facts EXCEPT ![i].confidence = IF c > @ THEN c ELSE @]
      BY <1>3 DEF Add, Conflicts
    <3>2. QED BY <3>1
  <2>3. /\ f \in FactRecord /\ f.active /\ f.value = v /\ f.confidence = most
        /\ most \in 1 .. MaxConfidence /\ c <= most
    BY <1>3, <2>1, ProfileBounds DEF FactRecord
  <2> HIDE DEF f, i
  <2>4. Sound(new)
    BY <2>1, <2>2, <2>3, ChangeSound
  <2>5. Stands(facts, new, v, c)
    <3>1. /\ DOMAIN new = DOMAIN facts /\ new[i] = f
          /\ \A k \in DOMAIN facts : k # i => new[k] = facts[k]
      BY <1>1, <2>1, <2>2
    <3>2. QED BY <2>1, <2>3, <3>1 DEF Stands
  <2>6. QED BY <2>4, <2>5
<1>4. CASE i # 0 /\ facts[i].value # v /\ Conflicts(facts, v, c, force)
  <2>1. new = facts
    BY <1>4 DEF Add
  <2>2. QED BY <1>4, <2>1
<1>5. CASE i # 0 /\ facts[i].value # v /\ ~ Conflicts(facts, v, c, force)
  <2>1. i \in DOMAIN facts /\ facts[i].active /\ facts[i] \in FactRecord
    BY <1>1, <1>5, CurrentFact, Positions
  <2> DEFINE old == [facts[i] EXCEPT !.active = FALSE]
             rest == [facts EXCEPT ![i] = old]
  <2>2. new = Append(rest, Fact(v, c))
    BY <1>5 DEF Add
  <2>3. old \in FactRecord /\ ~ old.active /\ old.value # v
    BY <1>5, <2>1 DEF FactRecord
  <2> HIDE DEF old, i
  <2>4. /\ rest \in Seq(FactRecord) /\ DOMAIN rest = DOMAIN facts /\ Len(rest) = Len(facts)
        /\ rest[i] = old /\ \A k \in DOMAIN facts : k # i => rest[k] = facts[k]
    BY <1>1, <2>1, <2>3
  <2> HIDE DEF rest
  <2>5. \A k \in DOMAIN rest : ~ rest[k].active
    BY <1>1, <2>1, <2>3, <2>4 DEF OneActive
  <2>6. Sound(new)
    BY <1>1, <2>2, <2>4, <2>5, AppendSound
  <2>7. Stands(facts, new, v, c)
    <3>1. /\ DOMAIN new = DOMAIN facts \cup {Len(facts) + 1} /\ new[Len(facts) + 1] = Fact(v, c)
          /\ \A k \in DOMAIN facts : new[k] = rest[k]
      BY <1>1, <2>2, <2>4
    <3>2. QED BY <1>1, <2>3, <2>4, <3>1 DEF Stands
  <2>8. QED BY <2>6, <2>7
<1>6. QED BY <1>2, <1>3, <1>4, <1>5

LEMMA UpdateSound ==
  ASSUME NEW facts, Sound(facts), NEW id, NEW v \in Values, NEW c \in 1 .. MaxConfidence
  PROVE  Sound(Update(facts, id, v, c))
<1> DEFINE i == SelectLastInSeq(facts, LAMBDA f : f.id = id)
<1>1. CASE i = 0 \/ ~ facts[i].active \/ i \notin DOMAIN facts
  <2>1. i \notin DOMAIN facts => [facts EXCEPT ![i].value = v, ![i].confidence = c] = facts
    <3>1. facts \in Seq(FactRecord)
      BY DEF Sound
    <3> HIDE DEF i
    <3>2. QED BY <3>1
  <2>2. Update(facts, id, v, c) = facts
    BY <1>1, <2>1 DEF Update
  <2>3. QED BY <2>2
<1>2. CASE i # 0 /\ facts[i].active /\ i \in DOMAIN facts
  <2> DEFINE new == [facts[i] EXCEPT !.value = v, !.confidence = c]
  <2>1. Update(facts, id, v, c) = [facts EXCEPT ![i].value = v, ![i].confidence = c]
    BY <1>2 DEF Update
  <2> HIDE DEF i
  <2>2. facts[i] \in FactRecord /\ facts \in Seq(FactRecord)
    BY <1>2, Positions DEF Sound
  <2>3. new \in FactRecord
    BY <2>2 DEF FactRecord
  <2>4. [facts EXCEPT ![i].value = v, ![i].confidence = c] = [facts EXCEPT ![i] = new]
    BY <1>2, <2>2
  <2> HIDE DEF new
  <2>5. Update(facts, id, v, c) = [facts EXCEPT ![i] = new]
    BY <2>1, <2>4
  <2>6. QED BY <1>2, <2>3, <2>5, ChangeSound
<1>3. QED BY <1>1, <1>2

LEMMA SupersedeSound ==
  ASSUME NEW facts, Sound(facts), NEW id
  PROVE  Sound(Supersede(facts, id))
<1> DEFINE i == SelectLastInSeq(facts, LAMBDA f : f.id = id)
<1>1. facts \in Seq(FactRecord)
  BY DEF Sound
<1>2. CASE i = 0 \/ i \notin DOMAIN facts
  <2>1. i \notin DOMAIN facts => [facts EXCEPT ![i].active = FALSE] = facts
    <3> HIDE DEF i
    <3>1. QED BY <1>1
  <2>2. Supersede(facts, id) = facts
    BY <1>2, <2>1 DEF Supersede
  <2>3. QED BY <2>2
<1>3. CASE i # 0 /\ i \in DOMAIN facts
  <2> DEFINE new == [facts[i] EXCEPT !.active = FALSE]
  <2>1. Supersede(facts, id) = [facts EXCEPT ![i].active = FALSE]
    BY <1>3 DEF Supersede
  <2> HIDE DEF i
  <2>2. facts[i] \in FactRecord
    BY <1>1, <1>3, Positions
  <2>3. new \in FactRecord /\ ~ new.active
    BY <2>2 DEF FactRecord
  <2>4. [facts EXCEPT ![i].active = FALSE] = [facts EXCEPT ![i] = new]
    OBVIOUS
  <2> HIDE DEF new
  <2>5. QED BY <1>3, <2>1, <2>3, <2>4, ChangeSound
<1>4. QED BY <1>2, <1>3

\* A value of which no given-up fact is as certain stands alone when it is added by force.
LEMMA ForcedStands ==
  ASSUME NEW facts, Sound(facts), NEW v \in Values
  PROVE  \/ Active(Normalize(Add(facts, v, MaxConfidence, TRUE))) = {v}
         \/ \E i \in DOMAIN facts :
              facts[i].value = v /\ ~ facts[i].active /\ facts[i].confidence = MaxConfidence
<1> DEFINE new == Add(facts, v, MaxConfidence, TRUE)
           kept == Normalize(new)
<1>1. MaxConfidence \in Nat /\ MaxConfidence \in 1 .. MaxConfidence
  BY ProfileBounds
<1>2. Sound(new) /\ Stands(facts, new, v, MaxConfidence)
  <2>1. new = Add(facts, v, MaxConfidence, TRUE) /\ ~ Conflicts(facts, v, MaxConfidence, TRUE)
    BY DEF Conflicts, Overrides
  <2> HIDE DEF new
  <2>2. QED BY <1>1, <2>1, AddCases
<1>3. PICK a \in DOMAIN new :
        /\ new[a].active /\ new[a].value = v /\ MaxConfidence <= new[a].confidence
        /\ \A k \in DOMAIN new :
             k # a /\ new[k].value = v => k \in DOMAIN facts /\ new[k] = facts[k]
  BY <1>2 DEF Stands
<1> HIDE DEF new
<1>4. new \in Seq(FactRecord) /\ OneActive(new)
  BY <1>2 DEF Sound
<1>5. \A i \in DOMAIN new : new[i].confidence \in Nat /\ new[i].confidence <= MaxConfidence
  <2>1. ASSUME NEW i \in DOMAIN new PROVE new[i].confidence \in 1 .. MaxConfidence
    BY <1>4, Positions DEF FactRecord
  <2>2. QED BY <1>1, <2>1
<1> DEFINE b == Best(new, a)
<1>6. /\ b \in DOMAIN new /\ new[b].value = v
      /\ new[b].confidence >= new[a].confidence
  <2>1. b \in SameValue(new, a) /\ a \in SameValue(new, a)
    BY <1>4, BestFact DEF SameValue
  <2>2. \/ new[b].confidence > new[a].confidence
        \/ new[b].confidence = new[a].confidence
    BY <1>4, <2>1, BestFact
  <2>3. b \in DOMAIN new /\ new[b].value = v
    BY <1>3, <2>1 DEF SameValue
  <2> HIDE DEF b
  <2>4. QED BY <1>5, <2>2, <2>3
<1> HIDE DEF b
<1>7. CASE b # a
  <2>1. b \in DOMAIN facts /\ new[b] = facts[b]
    BY <1>3, <1>6, <1>7
  <2>2. ~ new[b].active
    BY <1>3, <1>4, <1>6, <1>7 DEF OneActive
  <2>3. new[b].confidence = MaxConfidence
    BY <1>1, <1>3, <1>5, <1>6
  <2>4. QED BY <1>6, <2>1, <2>2, <2>3
<1>8. CASE b = a
  <2>1. ASSUME NEW n \in DOMAIN kept, kept[n].active PROVE kept[n].value = v
    <3>1. Nth(new, n) \in DOMAIN new /\ kept[n] = new[Best(new, Nth(new, n))]
      BY <1>4, Normalized, Places
    <3>2. Best(new, Nth(new, n)) \in DOMAIN new
      BY <1>4, <3>1, BestFact DEF SameValue
    <3>3. QED BY <1>3, <1>4, <2>1, <3>1, <3>2 DEF OneActive
  <2>2. PICK n \in DOMAIN kept : kept[n] = new[a]
    <3>1. \E n \in DOMAIN kept : kept[n] = new[b]
      BY <1>4, Normalized DEF b
    <3>2. QED BY <1>8, <3>1
  <2> HIDE DEF kept
  <2>3. Active(kept) = {v}
    BY <1>3, <2>1, <2>2 DEF Active
  <2>4. QED BY <2>3 DEF kept, new
<1>9. QED BY <1>7, <1>8

LEMMA SetAsSequence ==
  ASSUME NEW S, IsFiniteSet(S), NEW T, S \subseteq T
  PROVE  SetToSeq(S) \in Seq(T)
<1>1. Cardinality(S) \in Nat /\ ExistsBijection(1 .. Cardinality(S), S)
  BY FS_CardinalityType
<1>2. PICK f \in [1 .. Cardinality(S) -> S] : IsInjective(f)
  BY <1>1 DEF ExistsBijection, Bijection, Injection
<1>3. SetToSeq(S) \in [1 .. Cardinality(S) -> S]
  BY <1>2 DEF SetToSeq
<1>4. SetToSeq(S) \in [1 .. Cardinality(S) -> T]
  BY <1>3
<1>5. QED BY <1>1, <1>4

LEMMA Concatenation ==
  ASSUME NEW T, NEW s \in Seq(T), NEW more \in Seq(T), NEW both, both = s \o more
  PROVE  both \in Seq(T) /\ \A n \in DOMAIN s : n \in DOMAIN both /\ both[n] = s[n]
<1>1. both \in Seq(T) /\ Len(both) = Len(s) + Len(more)
  OBVIOUS
<1>2. \A n \in DOMAIN s : n \in 1 .. Len(s) /\ both[n] = s[n]
  OBVIOUS
<1>3. Len(s) \in Nat /\ Len(more) \in Nat /\ DOMAIN both = 1 .. Len(both)
  BY <1>1
<1>4. QED BY <1>1, <1>2, <1>3

-----------------------------------------------------------------------------
(* The user's word. *)

SoundProfiles ==
  /\ Sound(row.facts) /\ Sound(copy.facts)
  /\ \A w \in Worker : Sound(profile[w].facts) /\ Sound(next[w])

QuestionRecord == [value : Values, status : {"pending", "confirmed", "rejected"}]

\* Questions have a value, and whoever works for the user has one of them.
Questioned ==
  /\ questions \in Seq(QuestionRecord)
  /\ verdict.ask = {} \/ \E v \in Values : verdict.ask = {v}
  /\ question = [w \in Confirmers |-> question[w]]
  /\ \A w \in Confirmers : pc[w] \notin {"idle", "end"} => question[w] \in DOMAIN questions

\* What a confirmer is about to write is its answer, worked into what it has loaded.
AnswerIsNext ==
  \A w \in Confirmers : pc[w] = "persist" =>
    next[w] = Add(profile[w].facts, Asked(w), MaxConfidence, TRUE)

Answering == Domains /\ SoundProfiles /\ Questioned /\ AnswerIsNext

\* No step changes what a question asks.
QuestionsKept ==
  \A n \in DOMAIN questions : n \in DOMAIN questions' /\ questions'[n].value = questions[n].value

LEMMA Kinds ==
  /\ Consolidator \in Worker /\ Consolidator \notin Confirmers
  /\ Confirmers \subseteq Worker /\ \A w \in Confirmers : w \notin Readers
BY ProfileBounds DEF Worker

LEMMA NothingIsSound == Sound(<< >>) /\ Sound(NoProfile.facts)
BY DEF Sound, OneActive, NoProfile

LEMMA QuestionTyped ==
  ASSUME Questioned, NEW n \in DOMAIN questions
  PROVE  questions[n] \in QuestionRecord /\ questions[n].value \in Values
<1>1. questions \in Seq(QuestionRecord)
  BY DEF Questioned
<1>2. questions[n] \in QuestionRecord
  BY <1>1
<1>3. QED BY <1>2 DEF QuestionRecord

\* A question is resolved: it keeps its value.
LEMMA ResolveKeeps ==
  ASSUME Questioned, NEW n \in DOMAIN questions, NEW status \in {"confirmed", "rejected"},
         Resolve(n, status)
  PROVE  /\ questions' \in Seq(QuestionRecord)
         /\ DOMAIN questions' = DOMAIN questions /\ QuestionsKept
<1> DEFINE to == IF questions[n].status = "pending" THEN status ELSE questions[n].status
           new == [questions[n] EXCEPT !.status = to]
<1>1. questions \in Seq(QuestionRecord) /\ questions[n] \in QuestionRecord
  BY QuestionTyped DEF Questioned
<1>2. questions' = [questions EXCEPT ![n] = new]
  BY DEF Resolve
<1>3. new \in QuestionRecord /\ new.value = questions[n].value
  BY <1>1 DEF QuestionRecord
<1> HIDE DEF new
<1>4. questions' \in Seq(QuestionRecord) /\ DOMAIN questions' = DOMAIN questions
  BY <1>1, <1>2, <1>3
<1>5. \A m \in DOMAIN questions : questions'[m].value = questions[m].value
  BY <1>1, <1>2, <1>3
<1>6. QED BY <1>4, <1>5 DEF QuestionsKept

\* New questions come last.
LEMMA AskKeeps ==
  ASSUME Questioned,
         questions' = questions
                        \o SetToSeq({[value |-> v, status |-> "pending"] : v \in verdict.ask})
  PROVE  questions' \in Seq(QuestionRecord) /\ QuestionsKept
<1> DEFINE S == {[value |-> v, status |-> "pending"] : v \in verdict.ask}
           added == SetToSeq(S)
<1>1. S \subseteq QuestionRecord /\ (S = {} \/ \E q : S = {q})
  <2>1. CASE verdict.ask = {}
    BY <2>1
  <2>2. ASSUME NEW v \in Values, verdict.ask = {v}
        PROVE  S \subseteq QuestionRecord /\ (S = {} \/ \E q : S = {q})
    <3>1. S = {[value |-> v, status |-> "pending"]}
      BY <2>2
    <3>2. [value |-> v, status |-> "pending"] \in QuestionRecord
      BY DEF QuestionRecord
    <3> HIDE DEF S
    <3>3. QED BY <3>1, <3>2
  <2>3. QED BY <2>1, <2>2 DEF Questioned
<1> HIDE DEF S
<1>2. IsFiniteSet(S)
  BY <1>1, FS_EmptySet, FS_Singleton
<1>3. questions \in Seq(QuestionRecord) /\ added \in Seq(QuestionRecord)
  BY <1>1, <1>2, SetAsSequence DEF Questioned
<1>4. questions' = questions \o added
  BY DEF S
<1> HIDE DEF added
<1>5. /\ questions' \in Seq(QuestionRecord)
      /\ \A n \in DOMAIN questions : n \in DOMAIN questions' /\ questions'[n] = questions[n]
  BY <1>3, <1>4, Concatenation
<1>6. QED BY <1>5 DEF QuestionsKept

\* Nobody takes a question but by Confirm.
LEMMA KeepQuestioned ==
  ASSUME Questioned, question' = question, QuestionsKept,
         questions' \in Seq(QuestionRecord),
         verdict'.ask = {} \/ \E v \in Values : verdict'.ask = {v},
         \A w \in Confirmers : pc'[w] \notin {"idle", "end"} => pc[w] \notin {"idle", "end"}
  PROVE  Questioned' /\ QuestionsKept
BY DEF Questioned, QuestionsKept

LEMMA StepQuestions ==
  ASSUME Domains, Questioned, [Next]_vars
  PROVE  Questioned' /\ QuestionsKept
<1> USE Kinds
<1>1. ASSUME UNCHANGED <<questions, question, verdict>>,
             \A w \in Confirmers : pc'[w] \notin {"idle", "end"} => pc[w] \notin {"idle", "end"}
      PROVE  Questioned' /\ QuestionsKept
  BY <1>1 DEF Questioned, QuestionsKept
<1>2. ASSUME NEW w \in Worker, Shared(w) PROVE Questioned' /\ QuestionsKept
  <2>1. /\ UNCHANGED <<questions, question, verdict>>
        /\ pc[w] \in {"idle", "end"} => w \notin Confirmers
        /\ \A u \in Worker : u # w => pc'[u] = pc[u]
    BY <1>2 DEF Shared, GetUserProfile, FindUserProfile, Fill, Read, Persist, Publish, Stop,
                Loaded, Begin, Goto, stored, locals, Domains
  <2>2. QED BY <1>1, <2>1
<1>3. ASSUME NEW w \in Worker, Confirm(w) PROVE Questioned' /\ QuestionsKept
  <2>1. PICK n \in DOMAIN questions : question' = [question EXCEPT ![w] = n]
    BY <1>3 DEF Confirm
  <2>2. UNCHANGED <<questions, verdict>> /\ \A u \in Worker : u # w => pc'[u] = pc[u]
    BY <1>3 DEF Confirm, Begin, Goto, stored, Domains
  <2>3. QED BY <2>1, <2>2 DEF Questioned, QuestionsKept
<1>4. ASSUME NEW w \in Worker, Apply(w) PROVE Questioned' /\ QuestionsKept
  <2>1. /\ UNCHANGED <<questions, question, verdict>> /\ pc[w] = "apply"
        /\ \A u \in Worker : u # w => pc'[u] = pc[u]
    BY <1>4 DEF Apply, Goto, stored, Domains
  <2>2. QED BY <1>1, <2>1
<1>5. ASSUME NEW w \in Worker, MarkConfirmed(w) PROVE Questioned' /\ QuestionsKept
  <2>1. /\ UNCHANGED <<question, verdict>> /\ w \in Confirmers /\ pc[w] = "mark"
        /\ \A u \in Worker : u # w => pc'[u] = pc[u]
        /\ Resolve(question[w], "confirmed") \/ UNCHANGED questions
    BY <1>5 DEF MarkConfirmed, Goto, locals, Domains
  <2>2. question[w] \in DOMAIN questions
    BY <2>1 DEF Questioned
  <2>3. CASE UNCHANGED questions
    BY <1>1, <2>1, <2>3
  <2>4. CASE Resolve(question[w], "confirmed")
    BY <2>1, <2>2, <2>4, ResolveKeeps, KeepQuestioned DEF Questioned
  <2>5. QED BY <2>1, <2>3, <2>4
<1>6. ASSUME NEW w \in Worker, Reject(w) PROVE Questioned' /\ QuestionsKept
  <2>1. /\ UNCHANGED <<question, verdict>> /\ pc'[w] = "end"
        /\ \A u \in Worker : u # w => pc'[u] = pc[u]
    BY <1>6 DEF Reject, Goto, locals, Domains
  <2>2. PICK n \in DOMAIN questions : Resolve(n, "rejected")
    BY <1>6 DEF Reject
  <2>3. QED BY <2>1, <2>2, ResolveKeeps, KeepQuestioned DEF Questioned
<1>7. CASE Ask
  <2>1. /\ question' = question /\ verdict'.ask = {}
        /\ \A u \in Worker : u # Consolidator => pc'[u] = pc[u]
    BY <1>7 DEF Ask, NoVerdict, Goto, Domains
  <2>2. CASE UNCHANGED questions
    <3>1. QuestionsKept /\ questions' = questions
      BY <2>2 DEF QuestionsKept
    <3>2. QED BY <2>1, <3>1, KeepQuestioned DEF Questioned
  <2>3. CASE questions' = questions
                            \o SetToSeq({[value |-> v, status |-> "pending"] : v \in verdict.ask})
    BY <2>1, <2>3, AskKeeps, KeepQuestioned
  <2>4. QED BY <1>7, <2>2, <2>3 DEF Ask
<1>8. CASE AnswerDiff
  <2>1. /\ UNCHANGED <<questions, question>>
        /\ \A u \in Worker : u # Consolidator => pc'[u] = pc[u]
    BY <1>8 DEF AnswerDiff, Diff, Goto, stored, Domains
  <2>2. verdict'.ask = {} \/ \E v \in Values : verdict'.ask = {v}
    <3>1. CASE verdict' = verdict
      BY <3>1 DEF Questioned
    <3>2. ASSUME NEW facts, Diff(facts, [NoVerdict EXCEPT !.rest = TRUE])
          PROVE  verdict'.ask = {}
      BY <3>2 DEF Diff, NoVerdict
    <3>3. ASSUME NEW facts, NEW used, NEW reject, NEW asked,
                 Diff(facts, Verdict(used, reject, asked)),
                 asked = {} \/ \E v \in Values : asked = {v}
          PROVE  verdict'.ask = {} \/ \E v \in Values : verdict'.ask = {v}
      BY <3>3 DEF Diff, Verdict
    <3>4. ASSUME NEW f \in CleanFact PROVE f.value \in Values
      BY DEF CleanFact
    <3>5. QED BY <1>8, <3>1, <3>2, <3>3, <3>4, Zenon DEF AnswerDiff
  <2>3. QuestionsKept
    BY <2>1 DEF QuestionsKept
  <2>4. QED BY <2>1, <2>2, <2>3, KeepQuestioned DEF Questioned
<1>9. CASE Consolidate \/ List \/ Promote \/ Discard
  <2>1. /\ UNCHANGED <<questions, question>>
        /\ \A u \in Worker : u # Consolidator => pc'[u] = pc[u]
        /\ verdict' = verdict \/ verdict'.ask = {}
    BY <1>9 DEF Consolidate, List, Promote, Discard, Begin, Goto, NoVerdict, stored, locals, Domains
  <2>2. QuestionsKept
    BY <2>1 DEF QuestionsKept
  <2>3. QED BY <2>1, <2>2, KeepQuestioned DEF Questioned
<1>10. CASE (\E c \in Candidates : Capture(c)) \/ UNCHANGED vars
  BY <1>1, <1>10 DEF Capture, vars, stored, locals
<1>11. QED
  BY <1>2, <1>3, <1>4, <1>5, <1>6, <1>7, <1>8, <1>9, <1>10, NextSplit DEF Answer, Round

LEMMA StepSound ==
  ASSUME Domains, SoundProfiles, Questioned, [Next]_vars
  PROVE  SoundProfiles'
<1> USE Kinds, NothingIsSound DEF Domains, Goto
<1>1. ASSUME NEW w \in Worker, row' = row, copy' = copy \/ copy' = profile[w],
             profile'[w] \in {profile[w], row, copy, NoProfile},
             next'[w] = next[w] \/ Sound(next'[w]),
             \A u \in Worker : u # w => profile'[u] = profile[u] /\ next'[u] = next[u]
      PROVE  SoundProfiles'
  BY <1>1 DEF SoundProfiles
<1>2. ASSUME NEW w \in Worker,
             \/ GetUserProfile(w) \/ FindUserProfile(w) \/ Fill(w)
             \/ Read(w) \/ Confirm(w) \/ (w = Consolidator /\ Consolidate)
      PROVE  SoundProfiles'
  <2>1. /\ row' = row /\ (copy' = copy \/ copy' = profile[w])
        /\ profile'[w] \in {profile[w], row, copy, NoProfile}
        /\ next'[w] = next[w] \/ next'[w] = << >>
        /\ \A u \in Worker : u # w => profile'[u] = profile[u] /\ next'[u] = next[u]
    BY <1>2 DEF GetUserProfile, FindUserProfile, Fill, Read, Confirm, Consolidate, Loaded, Begin,
                stored
  <2>2. QED BY <1>1, <2>1
<1>3. ASSUME UNCHANGED <<row, copy, profile, next>> PROVE SoundProfiles'
  BY <1>3 DEF SoundProfiles
<1>4. ASSUME NEW w \in Worker, Stop(w) \/ MarkConfirmed(w) \/ Reject(w) PROVE SoundProfiles'
  BY <1>3, <1>4 DEF Stop, MarkConfirmed, Reject, stored, locals
<1>5. CASE List \/ Promote \/ Discard \/ Ask \/ (\E c \in Candidates : Capture(c)) \/ UNCHANGED vars
  BY <1>3, <1>5 DEF List, Promote, Discard, Ask, Capture, vars, stored, locals
<1>6. ASSUME NEW w \in Worker, Apply(w) PROVE SoundProfiles'
  <2>1. /\ UNCHANGED <<row, copy, profile>> /\ w \in Confirmers /\ pc[w] = "apply"
        /\ next' = [next EXCEPT ![w] = Add(profile[w].facts, Asked(w), MaxConfidence, TRUE)]
    BY <1>6 DEF Apply, stored
  <2>2. Asked(w) \in Values
    <3>1. question[w] \in DOMAIN questions
      BY <2>1 DEF Questioned
    <3>2. QED BY <3>1, QuestionTyped DEF Asked
  <2>3. Sound(Add(profile[w].facts, Asked(w), MaxConfidence, TRUE))
    <3>1. MaxConfidence \in 1 .. MaxConfidence /\ Sound(profile[w].facts)
      BY ProfileBounds DEF SoundProfiles
    <3>2. QED BY <2>2, <3>1, AddCases
  <2>4. Sound(next'[w]) /\ \A u \in Worker : u # w => next'[u] = next[u]
    BY <2>1, <2>3
  <2>5. QED BY <1>1, <2>1, <2>4
<1>7. CASE AnswerDiff
  <2> DEFINE facts == profile[Consolidator].facts
  <2>1. UNCHANGED <<row, copy, profile>>
    BY <1>7 DEF AnswerDiff, Diff, stored
  <2>2. next' = next \/ \E new : Sound(new) /\ next' = [next EXCEPT ![Consolidator] = new]
    <3>1. Sound(facts)
      BY DEF SoundProfiles
    <3>2. ASSUME NEW f \in CleanFact
          PROVE  /\ Sound(Add(facts, f.value, f.confidence, FALSE))
                 /\ \A id : Sound(Update(facts, id, f.value, f.confidence))
      <4>1. f.value \in Values /\ f.confidence \in 1 .. MaxConfidence
        BY DEF CleanFact
      <4> HIDE DEF facts
      <4>2. QED BY <3>1, <4>1, AddCases, UpdateSound
    <3>3. \A id : Sound(Supersede(facts, id))
      BY <3>1, SupersedeSound
    <3>4. ASSUME NEW new, Sound(new), NEW outcome, Diff(new, outcome)
          PROVE  \E n : Sound(n) /\ next' = [next EXCEPT ![Consolidator] = n]
      BY <3>4 DEF Diff
    <3>5. QED BY <1>7, <3>1, <3>2, <3>3, <3>4, ZenonT(60) DEF AnswerDiff
  <2>3. CASE next' = next
    BY <1>3, <2>1, <2>3
  <2>4. ASSUME NEW new, Sound(new), next' = [next EXCEPT ![Consolidator] = new]
        PROVE  SoundProfiles'
    <3>1. Sound(next'[Consolidator]) /\ \A u \in Worker : u # Consolidator => next'[u] = next[u]
      BY <2>4
    <3>2. QED BY <1>1, <2>1, <3>1
  <2>5. QED BY <2>2, <2>3, <2>4
<1>8. ASSUME NEW w \in Worker, Persist(w) PROVE SoundProfiles'
  <2>1. UNCHANGED <<copy, profile>>
    BY <1>8 DEF Persist
  <2>2. CASE UNCHANGED <<row, next>>
    BY <1>3, <2>1, <2>2
  <2>3. CASE /\ row' = Written(w, Normalize(next[w]))
             /\ next' = [next EXCEPT ![w] = Normalize(next[w])]
    <3>1. Sound(Normalize(next[w]))
      BY NormalizeSound DEF SoundProfiles
    <3>2. row'.facts = Normalize(next[w])
      BY <2>3 DEF Written
    <3>3. QED BY <2>1, <2>3, <3>1, <3>2 DEF SoundProfiles
  <2>4. QED BY <1>8, <2>2, <2>3 DEF Persist
<1>9. ASSUME NEW w \in Worker, Publish(w) PROVE SoundProfiles'
  <2>1. /\ row' = row /\ copy' \in {copy, Written(w, next[w])}
        /\ profile'[w] = NoProfile /\ next'[w] = << >>
        /\ \A u \in Worker : u # w => profile'[u] = profile[u] /\ next'[u] = next[u]
    BY <1>9 DEF Publish
  <2>2. Written(w, next[w]).facts = next[w]
    BY DEF Written
  <2>3. QED BY <2>1, <2>2 DEF SoundProfiles
<1>10. QED
  BY <1>2, <1>4, <1>5, <1>6, <1>7, <1>8, <1>9, NextSplit DEF Shared, Answer, Round

\* What a confirmer is about to write is made by Apply, and stays until it is written.
LEMMA StepAnswers ==
  ASSUME Domains, Questioned, AnswerIsNext, QuestionsKept, [Next]_vars
  PROVE  AnswerIsNext'
<1> USE Kinds DEF Domains, Goto
<1>1. SUFFICES ASSUME NEW u \in Confirmers, pc'[u] = "persist"
               PROVE  next'[u] = Add(profile'[u].facts, questions'[question'[u]].value,
                                     MaxConfidence, TRUE)
  BY DEF AnswerIsNext, Asked
<1>2. ASSUME pc[u] = "persist", next'[u] = next[u], profile'[u] = profile[u],
             question'[u] = question[u]
      PROVE  next'[u] = Add(profile'[u].facts, questions'[question'[u]].value,
                            MaxConfidence, TRUE)
  BY <1>2 DEF AnswerIsNext, Asked, Questioned, QuestionsKept
<1>3. ASSUME NEW w \in Worker, Apply(w)
      PROVE  next'[u] = Add(profile'[u].facts, questions'[question'[u]].value,
                            MaxConfidence, TRUE)
  <2>1. CASE w = u
    BY <1>3, <2>1 DEF Apply, Asked, stored
  <2>2. CASE w # u
    BY <1>1, <1>2, <1>3, <2>2 DEF Apply, stored
  <2>3. QED BY <2>1, <2>2
<1>4. ASSUME NEW w \in Worker, Shared(w) \/ Confirm(w) \/ MarkConfirmed(w) \/ Reject(w)
      PROVE  next'[u] = Add(profile'[u].facts, questions'[question'[u]].value,
                            MaxConfidence, TRUE)
  <2>1. pc'[w] # "persist" \/ w \notin Confirmers
    BY <1>4 DEF Shared, GetUserProfile, FindUserProfile, Fill, Read, Persist, Publish, Stop,
                Confirm, MarkConfirmed, Reject, Loaded, Begin
  <2>2. ASSUME w # u
        PROVE  /\ pc'[u] = pc[u] /\ next'[u] = next[u] /\ profile'[u] = profile[u]
               /\ question'[u] = question[u]
    BY <1>4, <2>2 DEF Shared, GetUserProfile, FindUserProfile, Fill, Read, Persist, Publish, Stop,
                Confirm, MarkConfirmed, Reject, Loaded, Begin, stored, locals, Questioned
  <2>3. QED BY <1>1, <1>2, <2>1, <2>2
<1>5. ASSUME Round
      PROVE  next'[u] = Add(profile'[u].facts, questions'[question'[u]].value,
                            MaxConfidence, TRUE)
  <2>1. /\ pc'[u] = pc[u] /\ next'[u] = next[u] /\ profile'[u] = profile[u]
        /\ question'[u] = question[u]
    BY <1>5 DEF Round, Consolidate, List, AnswerDiff, Promote, Discard, Ask, Diff, Begin,
                stored, locals
  <2>2. QED BY <1>1, <1>2, <2>1
<1>6. CASE (\E c \in Candidates : Capture(c)) \/ UNCHANGED vars
  BY <1>1, <1>2, <1>6 DEF Capture, vars, stored, locals
<1>7. QED BY <1>3, <1>4, <1>5, <1>6, NextSplit DEF Answer

\* Only Persist leads to the publication of a profile.
LEMMA OnlyPersistWrites ==
  ASSUME Domains, [Next]_vars, NEW w \in Confirmers, pc[w] = "persist", pc'[w] = "publish"
  PROVE  row' = Written(w, Normalize(next[w]))
<1> USE Kinds DEF Domains, Goto
<1>1. ASSUME NEW u \in Worker, Shared(u) PROVE u = w /\ Persist(u)
  BY <1>1 DEF Shared, GetUserProfile, FindUserProfile, Fill, Read, Publish, Stop, Persist, Loaded,
              Begin
<1>2. ASSUME NEW u \in Worker, Answer(u) PROVE FALSE
  BY <1>2 DEF Answer, Confirm, Apply, MarkConfirmed, Reject, Begin
<1>3. ASSUME Round PROVE FALSE
  BY <1>3 DEF Round, Consolidate, List, AnswerDiff, Promote, Discard, Ask, Diff, Begin
<1>4. ASSUME (\E c \in Candidates : Capture(c)) \/ UNCHANGED vars PROVE FALSE
  BY <1>4 DEF Capture, vars
<1>5. Persist(w)
  BY <1>1, <1>2, <1>3, <1>4, NextSplit
<1>6. QED BY <1>5 DEF Persist

\* What the user has confirmed is the topic's one active value in the profile that is written,
\* but for a value confirmed before and given up, for any values, confidences, candidates and
\* rounds (ResolveProfileConfirmation, ApplyProfileDiff, NormalizeProfile).
THEOREM ConfirmedValuesStand == Spec => ConfirmedValueStands
<1>1. Init => Answering
  <2> SUFFICES ASSUME Init PROVE Answering
    OBVIOUS
  <2>1. Domains
    BY DEF Init, Domains
  <2>2. SoundProfiles
    BY NothingIsSound DEF Init, SoundProfiles
  <2>3. Questioned
    BY Kinds DEF Init, Questioned, NoVerdict
  <2>4. AnswerIsNext
    BY Kinds DEF Init, AnswerIsNext
  <2>5. QED BY <2>1, <2>2, <2>3, <2>4 DEF Answering
<1>2. Answering /\ [Next]_vars => Answering'
  BY StepDomains, StepQuestions, StepSound, StepAnswers DEF Answering
<1>3. Answering /\ [Next]_vars =>
        [\A w \in Confirmers : pc[w] = "persist" /\ pc'[w] = "publish" =>
           \/ Active(row'.facts) = {Asked(w)}
           \/ \E i \in DOMAIN profile[w].facts :
                LET f == profile[w].facts[i]
                IN f.value = Asked(w) /\ ~ f.active /\ f.confidence = MaxConfidence]_vars
  <2> SUFFICES ASSUME Answering, [Next]_vars, NEW w \in Confirmers,
                      pc[w] = "persist", pc'[w] = "publish"
               PROVE  \/ Active(row'.facts) = {Asked(w)}
                      \/ \E i \in DOMAIN profile[w].facts :
                           LET f == profile[w].facts[i]
                           IN f.value = Asked(w) /\ ~ f.active /\ f.confidence = MaxConfidence
    OBVIOUS
  <2>1. row'.facts = Normalize(Add(profile[w].facts, Asked(w), MaxConfidence, TRUE))
    <3>1. row' = Written(w, Normalize(next[w]))
      BY OnlyPersistWrites DEF Answering
    <3>2. next[w] = Add(profile[w].facts, Asked(w), MaxConfidence, TRUE)
      BY DEF Answering, AnswerIsNext
    <3>3. QED BY <3>1, <3>2 DEF Written
  <2>2. Sound(profile[w].facts) /\ Asked(w) \in Values
    <3>1. question[w] \in DOMAIN questions
      BY DEF Answering, Questioned
    <3>2. QED BY <3>1, Kinds, QuestionTyped DEF Answering, SoundProfiles, Asked
  <2>3. QED BY <2>1, <2>2, ForcedStands
<1>4. QED BY <1>1, <1>2, <1>3, PTL DEF Spec, ConfirmedValueStands

-----------------------------------------------------------------------------
(* AiChat: the states of a conversation. *)

Numbered == 1 .. MaxMessages

\* A summary that has been made: its text tells all up to its index.
Whole == {[text |-> n, index |-> n] : n \in Numbered}

Step ==
  {"idle", "text", "index", "row", "messages", "store", "lookup", "settings", "cache", "model"}

StoreOK ==
  /\ exists \in BOOLEAN
  /\ sequence \in 0 .. MaxMessages /\ messages \in SUBSET (1 .. sequence)
  /\ record \in Whole \cup {NoSummary} /\ text \in 0 .. MaxMessages /\ index \in 0 .. MaxMessages

ContextOK ==
  /\ at \in [Chats -> Step]
  /\ summary \in [Chats -> [text : 0 .. MaxMessages, index : 0 .. MaxMessages]]
  /\ missed \in [Chats -> SUBSET Numbered] /\ found \in [Chats -> BOOLEAN]

Setting == (0 .. MaxSettings) \cup {None, Failed}

ConfigOK ==
  /\ settings \in 0 .. MaxSettings /\ cache \in Setting /\ setting \in [Chats -> Setting]
  /\ unannounced \in BOOLEAN /\ announced \in 0 .. MaxSettings
  /\ expected \in [Chats -> 0 .. MaxSettings] /\ late \in BOOLEAN

TasksOK ==
  /\ save \in [Saver -> Whole \cup {None}] /\ half \in SUBSET {p \in Saver : save[p] # None}
  /\ due \in BOOLEAN /\ upserts \in SUBSET Whole
  /\ deleting \in {"no", "keys", "row", "done"}

MemoryOK ==
  /\ touched \in [Chats -> SUBSET Saver] /\ torn \in [Chats -> BOOLEAN] /\ crossed \in BOOLEAN
  /\ failures \in 0 .. MaxFailures

ChatTypeOK == StoreOK /\ ContextOK /\ ConfigOK /\ TasksOK /\ MemoryOK

\* What the settings' readers know.
SettingsKnown ==
  /\ announced <= settings /\ (~ unannounced => announced = settings)
  /\ \A c \in Chats :
       /\ at[c] \in {"settings", "cache"} => expected[c] <= announced
       /\ at[c] = "cache" => setting[c] # None
       /\ at[c] = "model" => setting[c] \in Nat
  /\ ~ late =>
       /\ cache \in Nat => cache >= announced
       /\ \A c \in Chats : at[c] = "cache" /\ setting[c] \in Nat => setting[c] >= announced

SettingsInv == SettingsKnown /\ SettingsTakeEffect

\* One saver at a time is between its two writes, and the text there is is its own.
OneSave ==
  /\ \A p, q \in half : p = q
  /\ \A p \in half : save[p] # None /\ text \in {0, save[p].text}
  /\ text > 0 => index <= text

\* What a chat has read, and what it can still read.
Reading(c) ==
  /\ at[c] \in {"text", "index", "row"} => save[c] = None
  /\ at[c] = "index" =>
       /\ summary[c].text > 0
       /\ \/ torn[c]
          \/ /\ index <= summary[c].text
             /\ \A p \in half \ touched[c] : save[p].text <= summary[c].text
  /\ at[c] = "messages" => torn[c] \/ summary[c].index <= summary[c].text
  /\ at[c] = "store" => torn[c] \/ missed[c] = {}

SavesApart ==
  /\ \A c \in Chats : at[c] \in {"text", "index", "row"} => save[c] = None
  /\ crossed \/ (OneSave /\ \A c \in Chats : Reading(c))

FifthFits == Window > SummarySize /\ MaxMessages \div 5 <= Window - SummarySize

-----------------------------------------------------------------------------
(* Numbers of messages. *)

LEMMA GreatestNumber ==
  ASSUME NEW n \in Nat, NEW T \in SUBSET (0 .. n), T # {}
  PROVE  \E m \in T : \A k \in T : k <= m
<1> DEFINE U == {n - k : k \in T}
<1>1. U \in SUBSET Nat /\ U # {}
  <2>1. \A k \in T : k \in 0 .. n /\ n - k \in Nat
    OBVIOUS
  <2>2. QED BY <2>1
<1>2. PICK u \in U : \A k \in U : u <= k
  <2> HIDE DEF U
  <2> QED BY <1>1, LeastNumber
<1>3. n - u \in T /\ u \in 0 .. n
  OBVIOUS
<1>4. ASSUME NEW k \in T PROVE k <= n - u
  <2>1. u <= n - k
    BY <1>2
  <2>2. QED BY <2>1, <1>3
<1>5. QED BY <1>3, <1>4

Above(ms, m) == {x \in ms : x > m}

\* Some message has exactly k newer ones, if there are more than k.
LEMMA NumberWithAbove ==
  ASSUME NEW n \in Nat, NEW ms \in SUBSET (0 .. n), NEW k \in Nat, k < Cardinality(ms)
  PROVE  \E m \in ms : Cardinality(Above(ms, m)) = k
<1>1. IsFiniteSet(0 .. n)
  BY FS_Interval
<1>2. ASSUME NEW S \in SUBSET ms PROVE IsFiniteSet(S) /\ Cardinality(S) \in Nat
  BY <1>1, FS_Subset, FS_CardinalityType
<1>3. \A m \in ms : Above(ms, m) \in SUBSET ms
  BY DEF Above
<1> ms \in SUBSET Nat
  OBVIOUS
<1> DEFINE Few == {m \in ms : Cardinality(Above(ms, m)) <= k}
<1>4. Few # {}
  <2>1. ms # {}
    BY FS_EmptySet
  <2>2. PICK m \in ms : \A x \in ms : x <= m
    BY <2>1, GreatestNumber
  <2>3. Above(ms, m) = {}
    <3>1. \A x \in ms : ~ (x > m)
      BY <2>2
    <3>2. QED BY <3>1 DEF Above
  <2>4. Cardinality(Above(ms, m)) = 0
    BY <2>3, FS_EmptySet
  <2>5. QED BY <2>2, <2>4
<1>5. PICK m \in Few : \A x \in Few : m <= x
  <2>1. Few \in SUBSET Nat
    OBVIOUS
  <2> HIDE DEF Few
  <2>2. QED BY <1>4, <2>1, LeastNumber
<1>6. m \in ms /\ Cardinality(Above(ms, m)) <= k /\ Cardinality(Above(ms, m)) \in Nat
  BY <1>2, <1>3
<1>7. ASSUME Cardinality(Above(ms, m)) # k PROVE FALSE
  <2> DEFINE Below == {x \in ms : x < m}
             Top   == Above(ms, m) \cup {m}
  <2>1. Cardinality(Top) = Cardinality(Above(ms, m)) + 1
    <3>1. m \notin Above(ms, m)
      BY DEF Above
    <3>2. QED BY <3>1, <1>2, <1>3, FS_AddElement
  <2>2. Below # {}
    <3>1. ASSUME Below = {} PROVE ms = Top
      <4>1. \A x \in ms : x > m \/ x = m
        BY <1>6, <3>1
      <4>2. QED BY <1>6, <4>1 DEF Above
    <3>2. Cardinality(Top) < Cardinality(ms)
      <4>1. Cardinality(Above(ms, m)) < k
        BY <1>6, <1>7
      <4>2. QED BY <4>1, <2>1, <1>2, <1>6
    <3>3. Cardinality(ms) \in Nat
      BY <1>2
    <3>4. QED BY <3>1, <3>2, <3>3
  <2>3. PICK b \in Below : \A x \in Below : x <= b
    <3>1. Below \in SUBSET (0 .. n)
      OBVIOUS
    <3> HIDE DEF Below
    <3>2. QED BY <2>2, <3>1, GreatestNumber
  <2>4. Above(ms, b) = Top
    <3>1. \A x \in ms : x > b <=> x > m \/ x = m
      BY <1>6, <2>3
    <3>2. QED BY <1>6, <2>3, <3>1 DEF Above
  <2>5. b \in Few
    BY <2>1, <2>3, <2>4, <1>6, <1>7
  <2>6. m <= b /\ b < m
    BY <2>3, <2>5, <1>5
  <2>7. QED BY <2>3, <2>6, <1>3, <1>6
<1>8. QED BY <1>6, <1>7

\* Fewer than n messages are all among the n newest.
LEMMA NewestAll ==
  ASSUME NEW ms, IsFiniteSet(ms), NEW n \in Int, Cardinality(ms) <= n, ms \subseteq Nat
  PROVE  Newest(ms, n) = ms
<1> SUFFICES ASSUME NEW m \in ms PROVE Cardinality({x \in ms : x > m}) < n
  BY DEF Newest
<1>1. {x \in ms : x > m} \subseteq ms \ {m}
  OBVIOUS
<1>2. /\ IsFiniteSet(ms \ {m}) /\ Cardinality(ms \ {m}) = Cardinality(ms) - 1
  BY FS_RemoveElement
<1>3. /\ Cardinality({x \in ms : x > m}) <= Cardinality(ms \ {m})
      /\ Cardinality({x \in ms : x > m}) \in Nat /\ Cardinality(ms) \in Nat
  BY <1>1, <1>2, FS_Subset, FS_CardinalityType
<1>4. QED BY <1>2, <1>3

\* Messages are no more than the numbers they are counted with.
LEMMA Counted ==
  ASSUME NEW n \in Nat, NEW ms \in SUBSET (1 .. n)
  PROVE  IsFiniteSet(ms) /\ Cardinality(ms) \in Nat /\ Cardinality(ms) <= n
<1>1. IsFiniteSet(1 .. n) /\ Cardinality(1 .. n) = n
  BY FS_Interval
<1>2. QED BY <1>1, FS_Subset, FS_CardinalityType

LEMMA RecentCountType ==
  ASSUME NEW ms, Cardinality(ms) \in Nat
  PROVE  /\ RecentCount(ms) \in Nat \ {0}
         /\ Cardinality(ms) >= 5 => RecentCount(ms) = Cardinality(ms) \div 5
         /\ Cardinality(ms) < 5 => RecentCount(ms) = 1
BY DEF RecentCount

\* What a compression makes is a summary of messages there are.
LEMMA CompressedIsWhole ==
  ASSUME NEW n \in Nat, n <= MaxMessages, NEW ms \in SUBSET (1 .. n), LongEnough(ms)
  PROVE  [text |-> LastCompressed(ms), index |-> CompressIndex(ms)] \in Whole
<1>1. Cardinality(ms) \in Nat
  BY Counted
<1>2. RecentCount(ms) \in Nat /\ RecentCount(ms) < Cardinality(ms)
  BY <1>1, RecentCountType DEF LongEnough
<1>3. \E m \in ms : Cardinality(Above(ms, m)) = RecentCount(ms)
  <2>1. ms \in SUBSET (0 .. n)
    OBVIOUS
  <2>2. QED BY <1>2, <2>1, NumberWithAbove
<1>4. LastCompressed(ms) \in ms
  BY <1>3 DEF LastCompressed, Above
<1>5. LastCompressed(ms) \in Numbered
  <2>1. LastCompressed(ms) \in 1 .. n
    BY <1>4
  <2>2. MaxMessages \in Nat
    BY ChatBounds
  <2>3. QED BY <2>1, <2>2 DEF Numbered
<1>6. QED BY <1>5 DEF CompressIndex, Whole

-----------------------------------------------------------------------------
(* Types. *)

LEMMA NumberTypes ==
  /\ MaxMessages \in Nat /\ MaxSettings \in Nat /\ MaxFailures \in Nat
  /\ Window \in Nat /\ SummarySize \in Nat
BY ChatBounds

LEMMA ChatInitTyped == ChatInit => ChatTypeOK
<1> SUFFICES ASSUME ChatInit PROVE ChatTypeOK
  OBVIOUS
<1> USE NumberTypes DEF ChatInit
<1>1. StoreOK
  BY DEF StoreOK
<1>2. ContextOK
  BY DEF ContextOK, NoSummary, Step
<1>3. ConfigOK
  <2>1. 0 \in 0 .. MaxSettings /\ {0, None} \subseteq Setting
    BY DEF Setting
  <2> HIDE NumberTypes
  <2>2. QED BY <2>1, Zenon DEF ConfigOK
<1>4. TasksOK
  BY DEF TasksOK
<1>5. MemoryOK
  <2>1. 0 \in 0 .. MaxFailures
    OBVIOUS
  <2> HIDE NumberTypes
  <2>2. QED BY <2>1, Zenon DEF MemoryOK
<1>6. QED BY <1>1, <1>2, <1>3, <1>4, <1>5 DEF ChatTypeOK

\* What the summaries are made of.
LEMMA WholeSummary ==
  ASSUME NEW s \in Whole
  PROVE  s.text \in 1 .. MaxMessages /\ s.index = s.text /\ s \in [text : Nat, index : Nat]
BY NumberTypes DEF Whole, Numbered

LEMMA MessageStored == StoreOK /\ CreateMessage =>
                         sequence' \in 0 .. MaxMessages /\ messages' \in SUBSET (1 .. sequence')
<1> SUFFICES ASSUME StoreOK, CreateMessage
             PROVE  sequence' \in 0 .. MaxMessages /\ messages' \in SUBSET (1 .. sequence')
  OBVIOUS
<1>1. sequence \in Nat /\ sequence < MaxMessages /\ sequence' = sequence + 1
      /\ messages' = messages \cup {sequence + 1}
  BY NumberTypes DEF StoreOK, CreateMessage, NextSequence
<1>2. messages \in SUBSET (1 .. sequence)
  BY DEF StoreOK
<1>3. messages \cup {sequence + 1} \in SUBSET (1 .. sequence + 1)
  BY <1>1, <1>2
<1>4. QED BY <1>1, <1>3, NumberTypes

LEMMA StoreStep == ChatTypeOK /\ [ChatNext]_chatVars => StoreOK'
<1> SUFFICES ASSUME ChatTypeOK, [ChatNext]_chatVars PROVE StoreOK'
  OBVIOUS
<1> StoreOK /\ TasksOK
  BY DEF ChatTypeOK
<1>1. ASSUME UNCHANGED store PROVE StoreOK'
  BY <1>1 DEF store, StoreOK
<1>2. ASSUME NEW c \in Chats, Store(c) PROVE StoreOK'
  BY <1>2, MessageStored DEF Store, StoreOK
<1>3. ASSUME NEW c \in Chats, Finish(c) PROVE StoreOK'
  BY <1>3, MessageStored DEF Finish, StoreOK
<1>4. ASSUME NEW p \in Saver, SaveText(p) PROVE StoreOK'
  <2>1. save[p] \in Whole
    BY <1>4 DEF SaveText, TasksOK
  <2>2. save[p].text \in 0 .. MaxMessages
    BY <2>1, WholeSummary, NumberTypes
  <2>3. QED BY <1>4, <2>2 DEF SaveText, StoreOK
<1>5. ASSUME NEW p \in Saver, SaveIndex(p) PROVE StoreOK'
  <2>1. save[p] \in Whole
    BY <1>5 DEF SaveIndex, TasksOK
  <2>2. save[p].index \in 0 .. MaxMessages
    BY <2>1, WholeSummary, NumberTypes
  <2>3. QED BY <1>5, <2>2 DEF SaveIndex, StoreOK
<1>6. ASSUME NEW s \in upserts, UpsertRow(s) PROVE StoreOK'
  BY <1>6 DEF UpsertRow, StoreOK, TasksOK
<1>7. CASE DeleteConversation
  BY <1>7 DEF DeleteConversation, StoreOK
<1>8. CASE ClearKeys
  BY <1>8, NumberTypes DEF ClearKeys, StoreOK
<1>9. CASE ClearRow
  BY <1>9 DEF ClearRow, StoreOK
<1>10. CASE KeyExpires
  BY <1>10, NumberTypes DEF KeyExpires, StoreOK
<1>11. ASSUME NEW c \in Chats,
              Chat(c) \/ GetText(c) \/ GetIndex(c) \/ Restore(c) \/ ListMessages(c)
                \/ Lookup(c) \/ FindSettings(c) \/ CacheSettings(c)
       PROVE  UNCHANGED store
  BY <1>11 DEF Chat, GetText, GetIndex, Restore, ListMessages, Lookup, FindSettings,
               CacheSettings, store
<1>12. CASE CacheExpires \/ ChangeSettings \/ InvalidateCache \/ ShareCompression \/ Compress
  BY <1>1, <1>12 DEF CacheExpires, ChangeSettings, InvalidateCache, ShareCompression, Compress,
                     store
<1>13. CASE UNCHANGED chatVars
  BY <1>1, <1>13 DEF chatVars
<1>14. QED
  BY <1>1, <1>2, <1>3, <1>4, <1>5, <1>6, <1>7, <1>8, <1>9, <1>10, <1>11, <1>12, <1>13
     DEF ChatNext

LEMMA ContextStep == ChatTypeOK /\ [ChatNext]_chatVars => ContextOK'
<1> SUFFICES ASSUME ChatTypeOK, [ChatNext]_chatVars PROVE ContextOK'
  OBVIOUS
<1> USE NumberTypes DEF Move, Step
<1> StoreOK /\ ContextOK
  BY DEF ChatTypeOK
<1>1. ASSUME UNCHANGED <<chat, at>> PROVE ContextOK'
  BY <1>1 DEF chat, ContextOK
<1>2. ASSUME NEW c \in Chats, Chat(c) PROVE ContextOK'
  BY <1>2 DEF Chat, ContextOK, StoreOK
<1>3. ASSUME NEW c \in Chats, GetText(c) PROVE ContextOK'
  BY <1>3 DEF GetText, ContextOK, StoreOK
<1>4. ASSUME NEW c \in Chats, GetIndex(c) PROVE ContextOK'
  BY <1>4 DEF GetIndex, ContextOK, StoreOK
<1>5. ASSUME NEW c \in Chats, Restore(c) PROVE ContextOK'
  <2>1. record \in [text : 0 .. MaxMessages, index : 0 .. MaxMessages]
    BY DEF StoreOK, Whole, Numbered, NoSummary
  <2>2. QED BY <1>5, <2>1 DEF Restore, ContextOK, NoSummary
<1>6. ASSUME NEW c \in Chats, ListMessages(c) PROVE ContextOK'
  <2>1. messages \in SUBSET Numbered
    BY DEF StoreOK, Numbered
  <2>2. missed' \in [Chats -> SUBSET Numbered]
    BY <1>6, <2>1 DEF ListMessages, ContextOK
  <2>3. QED BY <1>6, <2>2 DEF ListMessages, ContextOK, NoSummary
<1>7. ASSUME NEW c \in Chats, Store(c) PROVE ContextOK'
  BY <1>7 DEF Store, ContextOK
<1>8. ASSUME NEW c \in Chats, Lookup(c) \/ FindSettings(c) \/ CacheSettings(c) \/ Finish(c)
      PROVE  ContextOK'
  BY <1>8 DEF Lookup, FindSettings, CacheSettings, Finish, Use, ContextOK, chat
<1>9. CASE CacheExpires \/ ChangeSettings \/ InvalidateCache \/ ShareCompression \/ Compress
  BY <1>1, <1>9 DEF CacheExpires, ChangeSettings, InvalidateCache, ShareCompression, Compress
<1>10. ASSUME NEW p \in Saver, SaveText(p) \/ SaveIndex(p) PROVE ContextOK'
  BY <1>1, <1>10 DEF SaveText, SaveIndex
<1>11. ASSUME NEW s \in upserts, UpsertRow(s) PROVE ContextOK'
  BY <1>1, <1>11 DEF UpsertRow
<1>12. CASE DeleteConversation \/ ClearKeys \/ ClearRow \/ KeyExpires
  BY <1>1, <1>12 DEF DeleteConversation, ClearKeys, ClearRow, KeyExpires
<1>13. CASE UNCHANGED chatVars
  BY <1>1, <1>13 DEF chatVars
<1>14. QED
  BY <1>2, <1>3, <1>4, <1>5, <1>6, <1>7, <1>8, <1>9, <1>10, <1>11, <1>12, <1>13 DEF ChatNext

LEMMA ConfigStep == ChatTypeOK /\ [ChatNext]_chatVars => ConfigOK'
<1> SUFFICES ASSUME ChatTypeOK, [ChatNext]_chatVars PROVE ConfigOK'
  OBVIOUS
<1> USE NumberTypes
<1> ConfigOK
  BY DEF ChatTypeOK
<1>1. ASSUME UNCHANGED config PROVE ConfigOK'
  BY <1>1 DEF config, ConfigOK
<1>2. ASSUME NEW c \in Chats, Chat(c) \/ GetText(c) \/ GetIndex(c) \/ Restore(c)
                              \/ ListMessages(c) \/ Store(c)
      PROVE  ConfigOK'
  BY <1>1, <1>2 DEF Chat, GetText, GetIndex, Restore, ListMessages, Store
<1>3. ASSUME NEW c \in Chats, NEW v \in Setting, Use(c, v)
      PROVE  setting' \in [Chats -> Setting] /\ expected' \in [Chats -> 0 .. MaxSettings]
  BY <1>3 DEF Use, ConfigOK, Setting
<1>4. ASSUME NEW c \in Chats, Lookup(c) PROVE ConfigOK'
  BY <1>3, <1>4 DEF Lookup, ConfigOK
<1>5. ASSUME NEW c \in Chats, FindSettings(c) PROVE ConfigOK'
  BY <1>5 DEF FindSettings, ConfigOK, Setting
<1>6. ASSUME NEW c \in Chats, CacheSettings(c) PROVE ConfigOK'
  BY <1>3, <1>6 DEF CacheSettings, ConfigOK
<1>7. ASSUME NEW c \in Chats, Finish(c) PROVE ConfigOK'
  BY <1>7 DEF Finish, ConfigOK, Setting
<1>8. CASE CacheExpires
  BY <1>8 DEF CacheExpires, ConfigOK, Setting
<1>9. CASE ChangeSettings
  BY <1>9 DEF ChangeSettings, ConfigOK
<1>10. CASE InvalidateCache
  BY <1>10 DEF InvalidateCache, Cleared, ConfigOK, Setting
<1>11. CASE ShareCompression \/ Compress
  BY <1>1, <1>11 DEF ShareCompression, Compress
<1>12. ASSUME NEW p \in Saver, SaveText(p) \/ SaveIndex(p) PROVE ConfigOK'
  BY <1>1, <1>12 DEF SaveText, SaveIndex
<1>13. ASSUME NEW s \in upserts, UpsertRow(s) PROVE ConfigOK'
  BY <1>1, <1>13 DEF UpsertRow
<1>14. CASE DeleteConversation \/ ClearKeys \/ ClearRow \/ KeyExpires
  BY <1>1, <1>14 DEF DeleteConversation, ClearKeys, ClearRow, KeyExpires
<1>15. CASE UNCHANGED chatVars
  BY <1>1, <1>15 DEF chatVars
<1>16. QED
  BY <1>2, <1>4, <1>5, <1>6, <1>7, <1>8, <1>9, <1>10, <1>11, <1>12, <1>13, <1>14, <1>15
     DEF ChatNext

LEMMA TasksStep == ChatTypeOK /\ [ChatNext]_chatVars => TasksOK'
<1> SUFFICES ASSUME ChatTypeOK, [ChatNext]_chatVars PROVE TasksOK'
  OBVIOUS
<1> TasksOK /\ StoreOK
  BY DEF ChatTypeOK
<1> Compressor \in Saver /\ Chats \subseteq Saver
  BY DEF Saver
<1>1. ASSUME UNCHANGED tasks PROVE TasksOK'
  BY <1>1 DEF tasks, TasksOK
<1>2. ASSUME NEW c \in Chats,
             Chat(c) \/ GetText(c) \/ GetIndex(c) \/ ListMessages(c) \/ Store(c)
               \/ Lookup(c) \/ FindSettings(c) \/ CacheSettings(c)
      PROVE  TasksOK'
  BY <1>1, <1>2 DEF Chat, GetText, GetIndex, ListMessages, Store, Lookup, FindSettings,
                    CacheSettings
<1>3. ASSUME NEW c \in Chats, Restore(c) PROVE TasksOK'
  <2>1. record # NoSummary => record \in Whole /\ record # None
    BY WholeSummary, ChatMarks DEF StoreOK
  <2>2. QED BY <1>3, <2>1 DEF Restore, TasksOK
<1>4. ASSUME NEW c \in Chats, Finish(c) PROVE TasksOK'
  BY <1>4 DEF Finish, TasksOK
<1>5. CASE ShareCompression
  BY <1>5 DEF ShareCompression, TasksOK
<1>6. CASE Compress
  <2> DEFINE made == [text |-> LastCompressed(messages), index |-> CompressIndex(messages)]
  <2>1. LongEnough(messages) => made \in Whole /\ made # None
    <3>1. sequence \in Nat /\ sequence <= MaxMessages
      BY NumberTypes DEF StoreOK
    <3>2. LongEnough(messages) => made \in Whole
      BY <3>1, CompressedIsWhole DEF StoreOK
    <3>3. QED BY <3>2, WholeSummary, ChatMarks
  <2> HIDE DEF made
  <2>2. /\ save' = save \/ (LongEnough(messages) /\ save' = [save EXCEPT ![Compressor] = made])
        /\ due' = FALSE /\ UNCHANGED <<half, upserts, deleting>>
    BY <1>6 DEF Compress, made
  <2>3. QED BY <2>1, <2>2 DEF TasksOK
<1>7. ASSUME NEW p \in Saver, SaveText(p) PROVE TasksOK'
  BY <1>7 DEF SaveText, TasksOK
<1>8. ASSUME NEW p \in Saver, SaveIndex(p) PROVE TasksOK'
  BY <1>8 DEF SaveIndex, TasksOK
<1>9. ASSUME NEW s \in upserts, UpsertRow(s) PROVE TasksOK'
  BY <1>9 DEF UpsertRow, TasksOK
<1>10. CASE DeleteConversation \/ ClearKeys \/ ClearRow
  BY <1>10 DEF DeleteConversation, ClearKeys, ClearRow, TasksOK
<1>11. CASE CacheExpires \/ ChangeSettings \/ InvalidateCache \/ KeyExpires
  BY <1>1, <1>11 DEF CacheExpires, ChangeSettings, InvalidateCache, KeyExpires
<1>12. CASE UNCHANGED chatVars
  BY <1>1, <1>12 DEF chatVars
<1>13. QED
  BY <1>2, <1>3, <1>4, <1>5, <1>6, <1>7, <1>8, <1>9, <1>10, <1>11, <1>12 DEF ChatNext

LEMMA MemoryStep == ChatTypeOK /\ [ChatNext]_chatVars => MemoryOK'
<1> SUFFICES ASSUME ChatTypeOK, [ChatNext]_chatVars PROVE MemoryOK'
  OBVIOUS
<1> MemoryOK
  BY DEF ChatTypeOK
<1>1. failures' \in 0 .. MaxFailures
  <2>1. ASSUME Fails PROVE failures' \in 0 .. MaxFailures
    BY <2>1, NumberTypes DEF Fails, MemoryOK
  <2>2. ASSUME UNCHANGED failures PROVE failures' \in 0 .. MaxFailures
    BY <2>2 DEF MemoryOK
  <2>3. Fails \/ UNCHANGED failures
    BY DEF ChatNext, chatVars, Chat, GetText, GetIndex, Restore, ListMessages, Store, Lookup,
           FindSettings, CacheSettings, Finish, CacheExpires, ChangeSettings, InvalidateCache,
           ShareCompression, Compress, SaveText, SaveIndex, UpsertRow, DeleteConversation,
           ClearKeys, ClearRow, KeyExpires
  <2>4. QED BY <2>1, <2>2, <2>3
<1>2. ASSUME UNCHANGED memory PROVE MemoryOK'
  BY <1>1, <1>2 DEF memory, MemoryOK
<1>3. ASSUME NEW c \in Chats, Chat(c) \/ GetText(c) \/ ListMessages(c) \/ Lookup(c)
                              \/ FindSettings(c) \/ CacheSettings(c) \/ Finish(c)
      PROVE  MemoryOK'
  BY <1>2, <1>3 DEF Chat, GetText, ListMessages, Lookup, FindSettings, CacheSettings, Finish
<1>4. ASSUME NEW c \in Chats, GetIndex(c) \/ Restore(c) \/ Store(c) PROVE MemoryOK'
  BY <1>1, <1>4 DEF GetIndex, Restore, Store, MemoryOK
<1>5. ASSUME NEW p \in Saver, SaveText(p) PROVE MemoryOK'
  <2>1. touched' \in [Chats -> SUBSET Saver]
    BY <1>5 DEF SaveText, MemoryOK
  <2>2. torn' \in [Chats -> BOOLEAN]
    BY <1>5 DEF SaveText, MemoryOK
  <2>3. crossed' \in BOOLEAN
    BY <1>5 DEF SaveText, MemoryOK
  <2>4. QED BY <1>1, <2>1, <2>2, <2>3 DEF MemoryOK
<1>6. ASSUME NEW p \in Saver, SaveIndex(p) PROVE MemoryOK'
  <2>1. touched' \in [Chats -> SUBSET Saver]
    BY <1>6 DEF SaveIndex, MemoryOK
  <2>2. torn' \in [Chats -> BOOLEAN]
    BY <1>6 DEF SaveIndex, MemoryOK
  <2>3. crossed' \in BOOLEAN
    BY <1>6 DEF SaveIndex, MemoryOK
  <2>4. QED BY <1>1, <2>1, <2>2, <2>3 DEF MemoryOK
<1>7. ASSUME NEW s \in upserts, UpsertRow(s) PROVE MemoryOK'
  BY <1>2, <1>7 DEF UpsertRow
<1>8. CASE CacheExpires \/ ChangeSettings \/ InvalidateCache \/ ShareCompression \/ Compress
           \/ DeleteConversation \/ ClearKeys \/ ClearRow \/ KeyExpires
  BY <1>2, <1>8 DEF CacheExpires, ChangeSettings, InvalidateCache, ShareCompression, Compress,
                    DeleteConversation, ClearKeys, ClearRow, KeyExpires
<1>9. CASE UNCHANGED chatVars
  BY <1>2, <1>9 DEF chatVars
<1>10. QED BY <1>3, <1>4, <1>5, <1>6, <1>7, <1>8, <1>9 DEF ChatNext

\* Every variable of a conversation has its type, for any chats, window and bounds.
THEOREM ChatTypeCorrect == ChatSpec => []ChatTypeOK
<1>1. ChatTypeOK /\ [ChatNext]_chatVars => ChatTypeOK'
  BY StoreStep, ContextStep, ConfigStep, TasksStep, MemoryStep DEF ChatTypeOK
<1>2. QED BY <1>1, ChatInitTyped, PTL DEF ChatSpec

-----------------------------------------------------------------------------
(* The settings. *)

LEMMA SettingsStep == ChatTypeOK /\ SettingsInv /\ [ChatNext]_chatVars => SettingsInv'
<1> SUFFICES ASSUME ChatTypeOK, SettingsInv, [ChatNext]_chatVars PROVE SettingsInv'
  OBVIOUS
<1> USE NumberTypes, ChatMarks DEF SettingsInv, SettingsKnown, SettingsTakeEffect, Move
<1> ConfigOK /\ at \in [Chats -> Step]
  BY DEF ChatTypeOK, ContextOK
<1>1. ASSUME UNCHANGED config, UNCHANGED at PROVE SettingsInv'
  BY <1>1 DEF config
<1>2. ASSUME NEW c \in Chats, Chat(c) \/ GetText(c) \/ GetIndex(c) \/ Restore(c)
                              \/ ListMessages(c) \/ Store(c)
      PROVE  SettingsInv'
  <2>1. /\ UNCHANGED config
        /\ \E label \in Step \ {"settings", "cache", "model"} : at' = [at EXCEPT ![c] = label]
    BY <1>2 DEF Chat, GetText, GetIndex, Restore, ListMessages, Store, Step
  <2>2. QED BY <2>1 DEF config, ConfigOK
<1>3. ASSUME NEW c \in Chats, Lookup(c) PROVE SettingsInv'
  BY <1>3 DEF Lookup, Use, ConfigOK, Setting
<1>4. ASSUME NEW c \in Chats, FindSettings(c) PROVE SettingsInv'
  BY <1>4 DEF FindSettings, ConfigOK, Setting
<1>5. ASSUME NEW c \in Chats, CacheSettings(c) PROVE SettingsInv'
  BY <1>5 DEF CacheSettings, Use, ConfigOK, Setting
<1>6. ASSUME NEW c \in Chats, Finish(c) PROVE SettingsInv'
  BY <1>6 DEF Finish, ConfigOK, Setting
<1>7. CASE CacheExpires
  BY <1>7 DEF CacheExpires
<1>8. CASE ChangeSettings
  BY <1>8 DEF ChangeSettings, ConfigOK
<1>9. CASE InvalidateCache
  <2>1. /\ cache' = None /\ announced' = settings /\ UNCHANGED <<settings, setting, expected, at>>
        /\ late => late'
        /\ ~ late' => \A c \in Chats : at[c] # "cache"
    BY <1>9 DEF InvalidateCache, Cleared
  <2>2. SettingsKnown'
    BY <2>1 DEF ConfigOK
  <2>3. SettingsTakeEffect'
    BY <2>1
  <2>4. QED BY <2>2, <2>3
<1>10. CASE ShareCompression \/ Compress \/ DeleteConversation \/ ClearKeys \/ ClearRow
            \/ KeyExpires
  BY <1>1, <1>10 DEF ShareCompression, Compress, DeleteConversation, ClearKeys, ClearRow,
                     KeyExpires
<1>11. ASSUME NEW p \in Saver, SaveText(p) \/ SaveIndex(p) PROVE SettingsInv'
  BY <1>1, <1>11 DEF SaveText, SaveIndex
<1>12. ASSUME NEW s \in upserts, UpsertRow(s) PROVE SettingsInv'
  BY <1>1, <1>12 DEF UpsertRow
<1>13. CASE UNCHANGED chatVars
  BY <1>1, <1>13 DEF chatVars
<1>14. QED
  BY <1>2, <1>3, <1>4, <1>5, <1>6, <1>7, <1>8, <1>9, <1>10, <1>11, <1>12, <1>13 DEF ChatNext

\* A chat that starts after a change of the settings was announced never calls the model with
\* older ones, but for what was being read when the cache was cleared, for any chats and
\* changes (GetEnabledAiProperty, InvalidateAiPropertyCache).
THEOREM SettingsAreCurrent == ChatSpec => []SettingsTakeEffect
<1>1. ChatInit => SettingsInv
  BY ChatMarks DEF ChatInit, SettingsInv, SettingsKnown, SettingsTakeEffect
<1>2. ChatTypeOK /\ SettingsInv /\ [ChatNext]_chatVars => SettingsInv'
  BY SettingsStep
<1>3. SettingsInv => SettingsTakeEffect
  BY DEF SettingsInv
<1>4. QED BY <1>1, <1>2, <1>3, ChatTypeCorrect, PTL DEF ChatSpec

-----------------------------------------------------------------------------
(* The memory. *)

\* A summary whose index its text reaches, and the window beside it, tell every message.
LEMMA AllTold ==
  ASSUME FifthFits, StoreOK, NEW s \in [text : 0 .. MaxMessages, index : 0 .. MaxMessages],
         s.index <= s.text, NEW recent, recent = {m \in messages : m > s.index}, ~ Lags(recent)
  PROVE  InWindow(s, recent) = recent
<1> USE NumberTypes
<1> DEFINE budget == IF s.text = 0 THEN Window ELSE Max({0, Window - SummarySize})
<1>1. /\ IsFiniteSet(messages) /\ Cardinality(messages) \in Nat
      /\ Cardinality(messages) <= MaxMessages /\ messages \subseteq Nat
  <2>1. sequence \in Nat /\ sequence <= MaxMessages /\ messages \in SUBSET (1 .. sequence)
    BY DEF StoreOK
  <2>2. /\ IsFiniteSet(messages) /\ Cardinality(messages) \in Nat
        /\ Cardinality(messages) <= sequence
    BY <2>1, Counted
  <2>3. QED BY <2>1, <2>2
<1>2. IsFiniteSet(recent) /\ Cardinality(recent) \in Nat /\ recent \subseteq Nat
  BY <1>1, FS_Subset, FS_CardinalityType
<1>3. RecentCount(messages) \in Nat /\ RecentCount(messages) <= Window - SummarySize
  <2>1. Cardinality(messages) \div 5 <= MaxMessages \div 5
    BY <1>1
  <2>2. QED BY <1>1, <2>1, RecentCountType DEF FifthFits
<1>4. Max({0, Window - SummarySize}) = Window - SummarySize
  <2>1. Window - SummarySize \in Nat
    BY <1>3
  <2>2. QED BY <2>1 DEF Max
<1>5. budget \in Int /\ Cardinality(recent) <= budget
  <2>1. Cardinality(recent) <= RecentCount(messages)
    BY <1>2, <1>3 DEF Lags
  <2> HIDE DEF FifthFits
  <2>2. QED BY <1>2, <1>3, <1>4, <2>1
<1> HIDE DEF budget
<1>6. Newest(recent, budget) = recent
  BY <1>2, <1>5, NewestAll
<1>7. QED BY <1>6 DEF InWindow, budget

LEMMA NothingMissed ==
  ASSUME FifthFits, ChatTypeOK, NEW c \in Chats, ListMessages(c), SavesApart
  PROVE  missed'[c] = {} \/ torn[c] \/ crossed
<1> DEFINE recent == {m \in messages : m > summary[c].index}
           told   == InWindow(summary[c], recent) \cup {m \in messages : m <= summary[c].text}
<1>1. missed'[c] = (messages \ told) \ (IF Lags(recent) THEN recent ELSE {})
  BY DEF ListMessages, ChatTypeOK, ContextOK
<1>2. SUFFICES ASSUME ~ torn[c], ~ crossed PROVE missed'[c] = {}
  OBVIOUS
<1>3. /\ summary[c] \in [text : 0 .. MaxMessages, index : 0 .. MaxMessages]
      /\ summary[c].index <= summary[c].text /\ messages \subseteq Nat
  BY <1>2, NumberTypes DEF ListMessages, SavesApart, Reading, ChatTypeOK, ContextOK, StoreOK
<1>4. \A m \in messages : m \in recent \/ m <= summary[c].text
  <2>1. summary[c].index \in Nat /\ summary[c].text \in Nat
    BY <1>3, NumberTypes
  <2>2. \A m \in messages : m > summary[c].index \/ m <= summary[c].text
    BY <1>3, <2>1
  <2>3. QED BY <2>2
<1>5. ~ Lags(recent) => recent \subseteq told
  <2>1. ~ Lags(recent) => InWindow(summary[c], recent) = recent
    BY <1>3, AllTold DEF ChatTypeOK
  <2>2. QED BY <2>1
<1>6. QED BY <1>1, <1>4, <1>5

LEMMA SavesStep ==
  ASSUME FifthFits, ChatTypeOK, SavesApart, [ChatNext]_chatVars
  PROVE  SavesApart'
<1> USE NumberTypes DEF Move
<1> /\ StoreOK /\ ContextOK /\ TasksOK /\ MemoryOK
  BY DEF ChatTypeOK
<1> Compressor \in Saver /\ Chats \subseteq Saver /\ Compressor \notin Chats
  BY ChatBounds DEF Saver
<1>1. ASSUME UNCHANGED <<text, index, summary, missed, save, half, memory, at>> PROVE SavesApart'
  BY <1>1 DEF SavesApart, OneSave, Reading, memory
<1>2. ASSUME NEW c \in Chats, Chat(c) PROVE SavesApart'
  BY <1>2 DEF Chat, SavesApart, OneSave, Reading, ContextOK, store, tasks, memory
<1>3. ASSUME NEW c \in Chats, GetText(c) PROVE SavesApart'
  BY <1>3 DEF GetText, SavesApart, OneSave, Reading, ContextOK, StoreOK, TasksOK, store, tasks,
              memory
<1>4. ASSUME NEW c \in Chats, GetIndex(c) PROVE SavesApart'
  BY <1>4 DEF GetIndex, SavesApart, OneSave, Reading, ContextOK, StoreOK, MemoryOK, store, tasks
<1>5. ASSUME NEW c \in Chats, Restore(c) PROVE SavesApart'
  <2>1. /\ at' = [at EXCEPT ![c] = "messages"]
        /\ UNCHANGED <<text, index, missed, half, touched, crossed>>
        /\ \A p \in Saver : p # c => save'[p] = save[p]
        /\ \A d \in Chats : d # c => summary'[d] = summary[d] /\ torn'[d] = torn[d]
    <3>1. at' = [at EXCEPT ![c] = "messages"] /\ torn' = [torn EXCEPT ![c] = FALSE]
          /\ UNCHANGED <<text, index, missed, half, touched, crossed>>
      BY <1>5 DEF Restore, store
    <3>2. \E s : summary' = [summary EXCEPT ![c] = s]
      BY <1>5 DEF Restore
    <3>3. save' = save \/ \E s : save' = [save EXCEPT ![c] = s]
      BY <1>5 DEF Restore
    <3>4. QED BY <3>1, <3>2, <3>3 DEF ContextOK, MemoryOK, TasksOK
  <2>2. c \notin half
    BY <1>5 DEF Restore, SavesApart, TasksOK
  <2>3. summary'[c].index <= summary'[c].text
    BY <1>5, WholeSummary DEF Restore, StoreOK, ContextOK, NoSummary
  <2>4. ASSUME OneSave PROVE OneSave'
    BY <2>1, <2>2, <2>4 DEF OneSave, TasksOK
  <2>5. ASSUME \A d \in Chats : Reading(d), NEW d \in Chats PROVE Reading(d)'
    BY <2>1, <2>2, <2>3, <2>5 DEF Reading, ContextOK, TasksOK
  <2>6. \A d \in Chats : at'[d] \in {"text", "index", "row"} => save'[d] = None
    BY <2>1 DEF SavesApart, ContextOK
  <2>7. QED BY <2>1, <2>4, <2>5, <2>6 DEF SavesApart
<1>6. ASSUME NEW c \in Chats, ListMessages(c) PROVE SavesApart'
  <2>1. missed'[c] = {} \/ torn[c] \/ crossed
    BY <1>6, NothingMissed
  <2>2. QED BY <1>6, <2>1 DEF ListMessages, SavesApart, OneSave, Reading, ContextOK, store, tasks,
                              memory
<1>7. ASSUME NEW c \in Chats, Store(c) PROVE SavesApart'
  BY <1>7 DEF Store, SavesApart, OneSave, Reading, ContextOK, MemoryOK, tasks
<1>8. ASSUME NEW c \in Chats, Lookup(c) \/ FindSettings(c) \/ CacheSettings(c) \/ Finish(c)
      PROVE  SavesApart'
  BY <1>8 DEF Lookup, FindSettings, CacheSettings, Finish, Use, SavesApart, OneSave, Reading,
              ContextOK, store, chat, tasks, memory
<1>9. CASE CacheExpires \/ ChangeSettings \/ InvalidateCache \/ ShareCompression
  BY <1>1, <1>9 DEF CacheExpires, ChangeSettings, InvalidateCache, ShareCompression, store, chat,
                    tasks
<1>10. CASE Compress
  BY <1>10 DEF Compress, SavesApart, OneSave, Reading, TasksOK, store, chat, memory
<1>11. ASSUME NEW p \in Saver, SaveText(p) PROVE SavesApart'
  <2>1. CASE UNCHANGED <<text, half, touched, crossed>> /\ save' = [save EXCEPT ![p] = None]
    <3>1. UNCHANGED <<index, summary, missed, torn, at>> /\ p \notin half
      BY <1>11 DEF SaveText, chat
    <3>2. QED BY <2>1, <3>1 DEF SavesApart, OneSave, Reading, ContextOK, TasksOK
  <2>2. CASE /\ text' = save[p].text /\ half' = half \cup {p} /\ save' = save
             /\ touched' = [d \in Chats |-> IF at[d] = "index" THEN touched[d] \cup {p} ELSE {}]
             /\ (~ crossed' => ~ crossed /\ half = {} /\ ~ (save[p].text < index))
    <3>1. UNCHANGED <<index, summary, missed, torn, at>> /\ save[p] \in Whole
      BY <1>11 DEF SaveText, chat, TasksOK
    <3>2. \A d \in Chats : at'[d] \in {"text", "index", "row"} => save'[d] = None
      BY <2>2, <3>1 DEF SavesApart
    <3>3. ASSUME ~ crossed' PROVE OneSave'
      <4>1. half' = {p} /\ index <= save[p].text /\ save[p] # None
        BY <1>11, <2>2, <3>1, <3>3, WholeSummary DEF SaveText, StoreOK
      <4>2. QED BY <2>2, <3>1, <4>1 DEF OneSave
    <3>4. ASSUME ~ crossed', NEW d \in Chats PROVE Reading(d)'
      <4>1. Reading(d) /\ half' = {p}
        BY <2>2, <3>4 DEF SavesApart
      <4>2. at[d] = "index" => half' \ touched'[d] = {}
        BY <2>2, <4>1
      <4>3. QED BY <2>2, <3>1, <4>1, <4>2 DEF Reading
    <3>5. QED BY <3>2, <3>3, <3>4 DEF SavesApart
  <2>3. QED BY <1>11, <2>1, <2>2 DEF SaveText
<1>12. ASSUME NEW p \in Saver, SaveIndex(p) PROVE SavesApart'
  <2>1. /\ p \in half /\ half' = half \ {p} /\ save' = [save EXCEPT ![p] = None]
        /\ UNCHANGED <<text, summary, missed, touched, crossed, at>> /\ save[p] \in Whole
    BY <1>12 DEF SaveIndex, chat, TasksOK
  <2>2. CASE UNCHANGED <<index, torn>>
    BY <2>1, <2>2 DEF SavesApart, OneSave, Reading, TasksOK
  <2>3. CASE /\ index' = save[p].index
             /\ torn' = [d \in Chats |-> torn[d] \/ (at[d] = "index" /\ p \in touched[d])]
    <3>1. \A d \in Chats : at'[d] \in {"text", "index", "row"} => save'[d] = None
      BY <2>1 DEF SavesApart, TasksOK
    <3>2. ASSUME ~ crossed PROVE OneSave'
      BY <2>1, <2>3, <3>2, WholeSummary DEF SavesApart, OneSave, TasksOK
    <3>3. ASSUME ~ crossed, NEW d \in Chats PROVE Reading(d)'
      <4>1. Reading(d) /\ half = {p}
        BY <2>1, <3>3 DEF SavesApart, OneSave
      <4>2. torn[d] => torn'[d]
        BY <2>3
      <4>3. at[d] = "index" /\ p \in touched[d] => torn'[d]
        BY <2>3
      <4>4. at[d] = "index" /\ p \notin touched[d] => torn'[d] \/ index' <= summary[d].text
        <5>1. save[p].index = save[p].text
          BY <2>1, WholeSummary
        <5>2. QED BY <2>3, <4>1, <4>2, <5>1 DEF Reading
      <4>5. half' \ touched'[d] = {}
        BY <2>1, <4>1
      <4>6. at[d] \in {"text", "index", "row"} => save'[d] = None
        BY <2>1, <3>1
      <4>7. QED BY <2>1, <4>1, <4>2, <4>3, <4>4, <4>5, <4>6 DEF Reading
    <3>4. QED BY <2>1, <3>1, <3>2, <3>3 DEF SavesApart
  <2>4. QED BY <1>12, <2>2, <2>3 DEF SaveIndex
<1>13. ASSUME NEW s \in upserts, UpsertRow(s) PROVE SavesApart'
  BY <1>1, <1>13 DEF UpsertRow, chat
<1>14. CASE DeleteConversation \/ ClearRow
  BY <1>1, <1>14 DEF DeleteConversation, ClearRow, chat
<1>15. CASE ClearKeys \/ KeyExpires
  BY <1>15 DEF ClearKeys, KeyExpires, SavesApart, OneSave, Reading, ContextOK, StoreOK, TasksOK,
               chat, tasks, memory
<1>16. CASE UNCHANGED chatVars
  BY <1>1, <1>16 DEF chatVars, store, chat, tasks
<1>17. QED
  BY <1>2, <1>3, <1>4, <1>5, <1>6, <1>7, <1>8, <1>9, <1>10, <1>11, <1>12, <1>13, <1>14, <1>15,
     <1>16 DEF ChatNext

\* No message is left out of a chat's context while the kept fifth of the conversation fits
\* into the window beside the summary: for any such window, any chats and any number of
\* messages, whatever fails or expires, but for a save that falls between a chat's two reads
\* and for saves that cross (GetContext, doCompressAiContext, saveCompressedContextToRedis).
THEOREM NothingIsForgotten == ASSUME FifthFits PROVE ChatSpec => []NothingForgotten
<1>1. ChatInit => SavesApart
  BY DEF ChatInit, SavesApart, OneSave, Reading
<1>2. ChatTypeOK /\ SavesApart /\ [ChatNext]_chatVars => SavesApart'
  BY SavesStep
<1>3. SavesApart => NothingForgotten
  BY DEF SavesApart, Reading, NothingForgotten
<1>4. QED BY <1>1, <1>2, <1>3, ChatTypeCorrect, PTL DEF ChatSpec
=============================================================================
