------------------------- MODULE ContextMemory_proofs -------------------------
(***************************************************************************)
(* Machine-checked facts about ContextMemory, for any number of runs, in   *)
(* turn or overlapping, any thresholds and budgets, and any number of      *)
(* failures and losses.                                                    *)
(***************************************************************************)
EXTENDS ContextMemory, WellFoundedInduction, SequenceTheorems, TLAPS

\* Who reads a summary: the runs and the compression; the consolidation only reads messages.
Reader == Run \cup {Compression}

Covers(holds, index) == index \in Nat /\ (~ torn => 1 .. index \subseteq holds \cup cut)

\* What the compression is about to compress: the messages after its boundary.
Compressing ==
  pc[Compression] = "compress" =>
    \E n \in Nat : /\ got[Compression] = Numbers(after[Compression] + 1, after[Compression] + n)
                   /\ n > Kept(n)

\* Every copy of the summary, in a store or in hand, covers what its boundary says.
Covered ==
  /\ pc = [p \in Process |-> pc[p]] /\ after = [p \in Process |-> after[p]]
  /\ known = [p \in Process |-> known[p]] /\ got = [p \in Process |-> got[p]]
  /\ count \in Nat
  /\ pc[Consolidation] \notin {"summary", "index", "find", "backfill", "store", "list"}
  /\ Covers(record.holds, record.index)
  /\ summary # None => Covers(summary.holds, summary.index)
  /\ \A p \in Reader : Covers(known[p], after[p])
  /\ Compressing

LEMMA Readers == Reader \subseteq Process /\ Consolidation \notin Reader
                 /\ Reader = Process \ {Consolidation}
BY MemoryBounds DEF Reader, Process

LEMMA KeptSome == ASSUME NEW n \in Nat PROVE Kept(n) \in Nat \ {0}
<1>1. n \div 5 \in Nat
  OBVIOUS
<1>2. QED BY <1>1, MemoryBounds DEF Kept

\* The compressed part of consecutive messages, and what it leaves.
LEMMA OldMessages ==
  ASSUME NEW a \in Nat, NEW n \in Nat, n > Kept(n), NEW s, s = Numbers(a + 1, a + n)
  PROVE  /\ CoveredThrough(Old(s)) \in Nat
         /\ ToSet(Old(s)) = a + 1 .. CoveredThrough(Old(s))
<1> DEFINE k == n - Kept(n)
<1>1. k \in Nat /\ k >= 1 /\ k <= n
  BY KeptSome
<1>2. s = [i \in 1 .. n |-> a + i] /\ Len(s) = n
  BY DEF Numbers
<1>3. Old(s) = [i \in 1 .. k |-> a + i] /\ Len(Old(s)) = k
  BY <1>1, <1>2 DEF Old
<1>4. CoveredThrough(Old(s)) = a + k
  BY <1>1, <1>3 DEF CoveredThrough
<1>5. ToSet(Old(s)) = a + 1 .. a + k
  <2>1. ToSet(Old(s)) = {a + i : i \in 1 .. k}
    BY <1>3 DEF ToSet
  <2>2. ASSUME NEW m \in a + 1 .. a + k PROVE m \in {a + i : i \in 1 .. k}
    <3>1. m - a \in 1 .. k /\ m = a + (m - a)
      <4> HIDE DEF k
      <4> QED BY <1>1
    <3>2. QED BY <3>1
  <2>3. ASSUME NEW i \in 1 .. k PROVE a + i \in a + 1 .. a + k
    BY <1>1
  <2> HIDE DEF k
  <2>4. QED BY <2>1, <2>2, <2>3
<1> HIDE DEF k
<1>6. a + k \in Nat
  BY <1>1
<1>7. QED BY <1>4, <1>5, <1>6

\* What a compression saves covers what its boundary says, cut off messages apart.
LEMMA SavedSummary ==
  ASSUME Covered, SaveSummary
  PROVE  /\ Covers(record.holds, record.index)'
         /\ Covers(known[Compression], after[Compression])'
         /\ cut \subseteq cut'
<1> DEFINE c == Compression
           old == Old(got[c])
           index == CoveredThrough(old)
<1>1. c \in Reader /\ Covers(known[c], after[c])
  BY DEF Covered, Reader
<1>2. PICK n \in Nat : got[c] = Numbers(after[c] + 1, after[c] + n) /\ n > Kept(n)
  BY DEF Covered, Compressing, SaveSummary
<1>3. index \in Nat /\ ToSet(old) = after[c] + 1 .. index
  BY <1>1, <1>2, OldMessages DEF Covers
<1> HIDE DEF old, index
<1>4. PICK holds : /\ record' = [holds |-> holds, index |-> index]
                   /\ cut' = cut \cup ((known[c] \cup ToSet(old)) \ holds)
                   /\ known' = [known EXCEPT ![c] = holds]
                   /\ after' = [after EXCEPT ![c] = index]
                   /\ torn' = torn
  BY DEF SaveSummary, old, index
<1>5. known'[c] = holds /\ after'[c] = index
  BY <1>1, <1>4, Readers DEF Covered
<1>6. ~ torn => 1 .. index \subseteq holds \cup cut'
  <2>1. 1 .. index \subseteq (1 .. after[c]) \cup ToSet(old)
    BY <1>1, <1>3 DEF Covers
  <2>2. ~ torn => 1 .. after[c] \subseteq known[c] \cup cut
    BY <1>1 DEF Covers
  <2>3. known[c] \cup ToSet(old) \cup cut \subseteq holds \cup cut'
    BY <1>4
  <2>4. QED BY <2>1, <2>2, <2>3
<1>7. QED BY <1>3, <1>4, <1>5, <1>6 DEF Covers

LEMMA CoveredAtStart == Init => Covered
BY MemoryBounds DEF Init, Covered, Covers, Compressing, Empty, Reader, Process

\* A run goes on and has read nothing new.
LEMMA RunMoves ==
  ASSUME Covered, NEW r \in Run, NEW label, Goto(r, label), count' \in Nat,
         UNCHANGED <<record, summary, after, known, got, cut, torn>>
  PROVE  Covered'
<1>1. /\ r \in Process /\ r # Compression /\ r # Consolidation
      /\ Compression \in Process /\ Consolidation \in Process
  BY MemoryBounds DEF Process
<1>2. /\ pc' = [q \in Process |-> pc'[q]]
      /\ pc'[Compression] = pc[Compression] /\ pc'[Consolidation] = pc[Consolidation]
  BY <1>1 DEF Goto, Covered
<1>3. QED BY <1>2 DEF Covered, Covers, Compressing

\* A background task has ended and holds nothing.
LEMMA TaskReturns ==
  ASSUME Covered, NEW t \in {Compression, Consolidation}, Return(t),
         UNCHANGED <<count, record, summary, cut, torn>>
  PROVE  Covered'
<1>1. /\ t \in Process /\ Compression \in Process /\ Consolidation \in Process
      /\ Compression # Consolidation
  BY MemoryBounds DEF Process
<1>2. /\ pc' = [q \in Process |-> pc'[q]] /\ after' = [q \in Process |-> after'[q]]
      /\ known' = [q \in Process |-> known'[q]] /\ got' = [q \in Process |-> got'[q]]
  BY DEF Return, Goto, Covered
<1>3. /\ after'[t] = 0 /\ known'[t] = {} /\ pc'[t] = "idle"
      /\ \A q \in Process \ {t} : /\ after'[q] = after[q] /\ known'[q] = known[q]
                                  /\ got'[q] = got[q] /\ pc'[q] = pc[q]
  BY <1>1 DEF Return, Goto, Covered
<1>4. Compressing' /\ pc'[Consolidation] \in {"idle", pc[Consolidation]}
  BY <1>1, <1>3 DEF Covered, Compressing
<1>5. ASSUME NEW q \in Reader PROVE Covers(known[q], after[q])'
  <2>1. CASE q = t
    BY <1>3, <2>1 DEF Covers
  <2>2. CASE q # t
    BY <1>3, <2>2, Readers DEF Covered, Covers
  <2>3. QED BY <2>1, <2>2
<1>6. QED BY <1>2, <1>4, <1>5 DEF Covered, Covers

\* Steps of a run.
LEMMA RunCovers ==
  ASSUME Covered, NEW r \in Run, RunStep(r)
  PROVE  Covered'
<1>1. r \in Process /\ r \in Reader /\ r # Compression /\ r # Consolidation
      /\ Compression \in Process /\ Consolidation \in Process
  BY MemoryBounds DEF Process, Reader
<1>2. CASE CreateMessage(r)
  <2>1. count' \in Nat /\ UNCHANGED <<record, summary, after, known, got, cut, torn>>
    BY <1>2 DEF CreateMessage, Covered, redis, history
  <2>2. \E label : Goto(r, label)
    BY <1>2 DEF CreateMessage
  <2>3. QED BY <2>1, <2>2, RunMoves
<1>3. CASE PushRecentMessage(r)
  <2>1. count' \in Nat /\ UNCHANGED <<record, summary, after, known, got, cut, torn>>
    BY <1>3 DEF PushRecentMessage, Covered, mysql
  <2>2. \E label : Goto(r, label)
    BY <1>3 DEF PushRecentMessage
  <2>3. QED BY <2>1, <2>2, RunMoves
<1>4. CASE Assemble(r)
  <2>1. count' \in Nat /\ UNCHANGED <<record, summary, after, known, got, cut, torn>>
    BY <1>4 DEF Assemble, Covered, mysql, redis, locals, history
  <2>2. \E label : Goto(r, label)
    BY <1>4 DEF Assemble
  <2>3. QED BY <2>1, <2>2, RunMoves
<1>5. CASE Preflight(r)
  <2>1. UNCHANGED <<count, record, summary, after, known, got, cut, torn>>
    BY <1>5 DEF Preflight, mysql, redis, locals, history
  <2>2. /\ pc' = [q \in Process |-> pc'[q]] /\ pc'[Consolidation] = pc[Consolidation]
        /\ pc'[Compression] \in {"summary", pc[Compression]}
    <3>1. PICK x \in {"summary", pc[Compression]} :
            pc' = [pc EXCEPT ![r] = "wait", ![Compression] = x]
      <4>1. CASE pc[Compression] = "idle"
        BY <1>1, <1>5, <4>1 DEF Preflight, Covered
      <4>2. CASE pc[Compression] # "idle"
        BY <1>1, <1>5, <4>2 DEF Preflight, Covered
      <4>3. QED BY <4>1, <4>2
    <3>2. QED BY <1>1, <3>1, MemoryBounds DEF Covered
  <2>3. QED BY <2>1, <2>2 DEF Covered, Covers, Compressing
<1>6. CASE Rebuilt(r) \/ GoOn(r)
  <2>1. count' \in Nat /\ UNCHANGED <<record, summary, after, known, got, cut, torn>>
    BY <1>6 DEF Rebuilt, GoOn, Covered, mysql, redis, locals, history
  <2>2. \E label : Goto(r, label)
    BY <1>6 DEF Rebuilt, GoOn
  <2>3. QED BY <2>1, <2>2, RunMoves
<1>7. CASE Answer(r)
  <2>1. /\ after' = [after EXCEPT ![r] = 0]
        /\ known' = [known EXCEPT ![r] = {}] /\ got' = [got EXCEPT ![r] = << >>]
        /\ UNCHANGED <<count, record, summary, cut, torn>>
    BY <1>7 DEF Answer, mysql, redis
  <2>2. /\ pc' = [q \in Process |-> pc'[q]] /\ pc'[Consolidation] = pc[Consolidation]
        /\ pc'[Compression] = pc[Compression]
    <3>1. \E label : Goto(r, label)
      BY <1>7 DEF Answer
    <3>2. QED BY <1>1, <3>1 DEF Goto, Covered
  <2>3. /\ after' = [q \in Process |-> after'[q]] /\ known' = [q \in Process |-> known'[q]]
        /\ got' = [q \in Process |-> got'[q]]
        /\ after'[Compression] = after[Compression] /\ got'[Compression] = got[Compression]
    BY <1>1, <2>1 DEF Covered
  <2>4. ASSUME NEW q \in Reader PROVE Covers(known[q], after[q])'
    <3>1. CASE q = r
      BY <1>1, <2>1, <3>1 DEF Covered, Covers
    <3>2. CASE q # r
      BY <2>1, <3>2, Readers DEF Covered, Covers
    <3>3. QED BY <3>1, <3>2
  <2>5. QED BY <2>1, <2>2, <2>3, <2>4 DEF Covered, Covers, Compressing
<1>8. QED BY <1>2, <1>3, <1>4, <1>5, <1>6, <1>7 DEF RunStep

\* Reading a summary and the messages after it.
LEMMA LoadCovers ==
  ASSUME Covered, NEW p \in Process, LoadStep(p)
  PROVE  Covered'
<1> USE Readers
<1>0. Compression \in Process /\ Consolidation \in Process /\ Compression # Consolidation
  BY MemoryBounds DEF Process
<1>1. CASE GetSummary(p)
  <2>1. p \in Reader
    BY <1>1 DEF GetSummary, Covered
  <2>2. UNCHANGED <<count, record, summary, got, cut, torn>>
    BY <1>1 DEF GetSummary, mysql, redis, history
  <2>3. CASE /\ summary # None /\ known' = [known EXCEPT ![p] = summary.holds]
             /\ after' = [after EXCEPT ![p] = summary.index] /\ Goto(p, "index")
    BY <1>0, <2>1, <2>2, <2>3 DEF Goto, Covered, Covers, Compressing
  <2>4. CASE Goto(p, "find") /\ UNCHANGED <<known, after>>
    BY <1>0, <2>1, <2>2, <2>4 DEF Goto, Covered, Covers, Compressing
  <2>5. QED BY <1>1, <2>3, <2>4 DEF GetSummary
<1>2. CASE GetIndex(p)
  <2>1. p \in Reader
    BY <1>2 DEF GetIndex, Covered
  <2>2. UNCHANGED <<count, record, summary, known, got, cut>>
    BY <1>2 DEF GetIndex, mysql, redis
  <2>3. CASE /\ summary # None /\ after' = [after EXCEPT ![p] = summary.index]
             /\ torn' = (torn \/ summary.index # after[p]) /\ Goto(p, AfterSummary(p))
    <3>1. AfterSummary(p) \in {"list", "recent"}
      BY DEF AfterSummary
    <3>2. QED BY <1>0, <2>1, <2>2, <2>3, <3>1 DEF Goto, Covered, Covers, Compressing
  <2>4. CASE Goto(p, "find") /\ UNCHANGED <<after, torn>>
    BY <1>0, <2>1, <2>2, <2>4 DEF Goto, Covered, Covers, Compressing
  <2>5. QED BY <1>2, <2>3, <2>4 DEF GetIndex
<1>3. CASE FindCompressedContext(p)
  <2>1. p \in Reader
    BY <1>3 DEF FindCompressedContext, Covered
  <2>2. UNCHANGED <<count, record, summary, got, cut, torn>>
    BY <1>3 DEF FindCompressedContext, mysql, redis, history
  <2>3. PICK found \in {record, Empty} :
          /\ known' = [known EXCEPT ![p] = found.holds]
          /\ after' = [after EXCEPT ![p] = found.index]
          /\ Goto(p, IF found.index > 0 THEN "backfill" ELSE AfterSummary(p))
    BY <1>3 DEF FindCompressedContext
  <2>4. Covers(found.holds, found.index)
    BY DEF Covered, Covers, Empty
  <2>5. \E label \in {"backfill", "list", "recent"} : Goto(p, label)
    BY <2>3 DEF AfterSummary
  <2>6. QED BY <1>0, <2>1, <2>2, <2>3, <2>4, <2>5 DEF Goto, Covered, Covers, Compressing
<1>4. CASE SetCompressedSummary(p)
  <2>1. p \in Reader
    BY <1>4 DEF SetCompressedSummary, Covered
  <2>2. UNCHANGED <<count, record, after, known, got, cut, torn>>
    BY <1>4 DEF SetCompressedSummary, mysql, locals, history
  <2>3. summary' = [holds |-> known[p], index |-> after[p]] \/ summary' = summary
    BY <1>4 DEF SetCompressedSummary
  <2>4. \E label \in {"rebuild", "list", "recent"} : Goto(p, label)
    BY <1>4 DEF SetCompressedSummary, AfterSummary
  <2>5. (summary # None => Covers(summary.holds, summary.index))'
    BY <2>1, <2>2, <2>3 DEF Covered, Covers
  <2>6. QED BY <1>0, <2>1, <2>2, <2>4, <2>5 DEF Goto, Covered, Covers, Compressing
<1>5. CASE GetRecentMessages(p) \/ ListRecentMessagesAfter(p)
  <2>1. UNCHANGED <<count, record, summary, after, known, cut, torn>>
    BY <1>5 DEF GetRecentMessages, ListRecentMessagesAfter, mysql, redis, history
  <2>2. \E label \in {"assemble", "extract", "messages", "rebuild"} : Goto(p, label)
    BY <1>5 DEF GetRecentMessages, ListRecentMessagesAfter, AfterRecent
  <2>3. got' = [q \in Process |-> got'[q]] /\ \A q \in Process : q # p => got'[q] = got[q]
    BY <1>5 DEF GetRecentMessages, ListRecentMessagesAfter, Covered
  <2>4. QED BY <1>0, <2>1, <2>2, <2>3 DEF Goto, Covered, Covers, Compressing
<1>6. CASE RebuildRecentMessages(p)
  <2>1. UNCHANGED <<count, record, summary, cut, torn>>
    BY <1>6 DEF RebuildRecentMessages, mysql
  <2>2. CASE p = Compression /\ Return(p)
    BY <2>1, <2>2, TaskReturns
  <2>3. CASE Goto(p, AfterRecent(p)) /\ UNCHANGED <<after, known, got>>
    <3>1. AfterRecent(p) \in {"assemble", "extract"}
      BY DEF AfterRecent
    <3>2. QED BY <1>0, <2>1, <2>3, <3>1 DEF Goto, Covered, Covers, Compressing
  <2>4. QED BY <1>6, <2>2, <2>3 DEF RebuildRecentMessages
<1>7. QED BY <1>1, <1>2, <1>3, <1>4, <1>5, <1>6 DEF LoadStep

\* Starting a background task, and its end.
LEMMA TaskCovers ==
  ASSUME Covered, NEW t \in {Compression, Consolidation}, TaskStep(t)
  PROVE  Covered'
<1> USE Readers
<1>0. /\ t \in Process /\ Compression \in Process /\ Consolidation \in Process
      /\ Compression # Consolidation /\ Compression \in Reader
  BY MemoryBounds DEF Process, Reader
<1>1. CASE StartTask(t)
  <2>1. UNCHANGED <<count, record, summary, known, got, cut, torn>>
    BY <1>1 DEF StartTask, mysql, redis, history
  <2>2. CASE t = Compression /\ Goto(t, "summary") /\ after' = [after EXCEPT ![t] = 0]
    <3>1. /\ pc' = [q \in Process |-> pc'[q]] /\ pc'[Consolidation] = pc[Consolidation]
          /\ pc'[Compression] = "summary"
      BY <1>0, <2>2 DEF Goto, Covered
    <3>2. /\ after' = [q \in Process |-> after'[q]] /\ after'[Compression] = 0
          /\ \A q \in Process \ {Compression} : after'[q] = after[q]
      BY <1>0, <2>2 DEF Covered
    <3>3. ASSUME NEW q \in Reader PROVE Covers(known[q], after[q])'
      <4>1. CASE q = Compression
        BY <2>1, <3>2, <4>1 DEF Covers
      <4>2. CASE q # Compression
        BY <2>1, <3>2, <4>2 DEF Covered, Covers
      <4>3. QED BY <4>1, <4>2
    <3>4. QED BY <2>1, <3>1, <3>2, <3>3 DEF Covered, Covers, Compressing
  <2>3. CASE t = Consolidation /\ Goto(t, "recent") /\ after' = [after EXCEPT ![t] = cursor]
    BY <1>0, <2>1, <2>3 DEF Goto, Covered, Covers, Compressing
  <2>4. CASE UNCHANGED <<pc, after>>
    BY <1>0, <2>1, <2>4 DEF Covered, Covers, Compressing
  <2>5. QED BY <1>0, <1>1, <2>2, <2>3, <2>4 DEF StartTask
<1>2. CASE TaskFails(t)
  BY <1>2, TaskReturns DEF TaskFails, mysql, redis, history
<1>3. QED BY <1>1, <1>2 DEF TaskStep

LEMMA ListCovers == ASSUME Covered, ListMessages PROVE Covered'
<1> USE Readers
<1>0. Compression \in Process /\ Compression \in Reader /\ Compression # Consolidation
  BY MemoryBounds DEF Process, Reader
<1>1. UNCHANGED <<count, record, summary, cut, torn>>
  BY DEF ListMessages, mysql, redis, history
<1>2. CASE Return(Compression)
  BY <1>1, <1>2, TaskReturns
<1>3. CASE ~ Return(Compression)
  <2> DEFINE n == count - after[Compression]
  <2>1. /\ n >= 2 /\ n > Kept(n)
        /\ got' = [got EXCEPT ![Compression] = Numbers(after[Compression] + 1, count)]
        /\ Goto(Compression, "compress") /\ UNCHANGED <<after, known>>
    <3>1. n \in Int /\ Kept(n) \in Int
      <4>1. n \in Int
        BY <1>0 DEF Covered, Covers
      <4>2. QED BY <4>1, MemoryBounds DEF Kept
    <3>2. QED BY <1>3, <3>1 DEF ListMessages
  <2>2. n \in Nat /\ count = after[Compression] + n
    BY <1>0, <2>1 DEF Covered, Covers
  <2>3. got'[Compression] = Numbers(after'[Compression] + 1, after'[Compression] + n)
    BY <1>0, <2>1, <2>2 DEF Covered
  <2> HIDE DEF n
  <2>4. Compressing'
    BY <2>1, <2>2, <2>3 DEF Compressing, Kept
  <2>5. /\ pc' = [q \in Process |-> pc'[q]] /\ pc'[Consolidation] = pc[Consolidation]
        /\ got' = [q \in Process |-> got'[q]]
    <3>1. pc' = [pc EXCEPT ![Compression] = "compress"]
      BY <2>1 DEF Goto
    <3>2. got' = [got EXCEPT ![Compression] = got'[Compression]]
      BY <1>0, <2>1 DEF Covered
    <3>3. QED BY <1>0, <3>1, <3>2 DEF Covered
  <2>6. QED BY <1>1, <2>1, <2>4, <2>5 DEF Covered, Covers
<1>4. QED BY <1>2, <1>3

LEMMA SaveCovers == ASSUME Covered, SaveSummary PROVE Covered'
<1> USE Readers
<1>0. Compression \in Process /\ Compression \in Reader /\ Compression # Consolidation
  BY MemoryBounds DEF Process, Reader
<1>1. UNCHANGED <<count, summary, torn>> /\ Goto(Compression, "store")
  BY DEF SaveSummary, redis
<1>2. /\ known' = [q \in Process |-> known'[q]] /\ after' = [q \in Process |-> after'[q]]
      /\ got' = [q \in Process |-> got'[q]]
      /\ \A q \in Process \ {Compression} : known'[q] = known[q] /\ after'[q] = after[q]
  BY DEF SaveSummary, Covered
<1>3. /\ Covers(record.holds, record.index)'
      /\ Covers(known[Compression], after[Compression])'
      /\ cut \subseteq cut'
  BY SavedSummary
<1>4. (summary # None => Covers(summary.holds, summary.index))'
  BY <1>1, <1>3 DEF Covered, Covers
<1>5. ASSUME NEW q \in Reader PROVE Covers(known[q], after[q])'
  <2>1. CASE q = Compression
    BY <1>3, <2>1
  <2>2. CASE q # Compression
    BY <1>1, <1>2, <1>3, <2>2 DEF Covered, Covers
  <2>3. QED BY <2>1, <2>2
<1>6. Compressing' /\ pc' = [q \in Process |-> pc'[q]] /\ pc'[Consolidation] = pc[Consolidation]
  BY <1>0, <1>1 DEF Goto, Covered, Compressing
<1>7. QED BY <1>1, <1>2, <1>3, <1>4, <1>5, <1>6 DEF Covered

LEMMA CoveredStays == ASSUME Covered, [Next]_vars PROVE Covered'
<1>1. CASE \E r \in Run : RunStep(r)
  BY <1>1, RunCovers
<1>2. CASE \E t \in {Compression, Consolidation} : TaskStep(t)
  BY <1>2, TaskCovers
<1>3. CASE \E p \in Process : LoadStep(p)
  BY <1>3, LoadCovers
<1>4. CASE ListMessages
  BY <1>4, ListCovers
<1>5. CASE SaveSummary
  BY <1>5, SaveCovers
<1>6. CASE Extract
  <2>1. Return(Consolidation) /\ UNCHANGED <<count, record, summary, cut, torn>>
    BY <1>6 DEF Extract, redis, history
  <2>2. QED BY <2>1, TaskReturns
<1>7. CASE RecentLost
  BY <1>7 DEF RecentLost, Covered, Covers, Compressing, mysql, locals
<1>8. CASE SummaryLost
  BY <1>8 DEF SummaryLost, Covered, Covers, Compressing, mysql, locals, history
<1>9. CASE UNCHANGED vars
  BY <1>9 DEF vars, Covered, Covers, Compressing, mysql, redis, locals, history
<1>10. QED BY <1>1, <1>2, <1>3, <1>4, <1>5, <1>6, <1>7, <1>8, <1>9 DEF Next

THEOREM SummaryIsCovered == Spec => []SummaryCoversPrefix
<1>1. Init => Covered
  BY CoveredAtStart
<1>2. Covered /\ [Next]_vars => Covered'
  BY CoveredStays
<1>3. Covered => SummaryCoversPrefix
  BY DEF Covered, Covers, SummaryCoversPrefix
<1>4. QED BY <1>1, <1>2, <1>3, PTL DEF Spec

-----------------------------------------------------------------------------
(* Lists of messages. *)

\* Induction over the numbers up to n, for a set of them.
LEMMA StepByStep ==
  ASSUME NEW n \in Nat, NEW G, 0 \in G, \A i \in 0 .. n - 1 : i \in G => i + 1 \in G
  PROVE  n \in G
<1> DEFINE R == OpToRel(<, Nat)
           T == {i \in 0 .. n : i \notin G}
<1>1. ASSUME NEW i \in T PROVE \E j \in T : j < i
  <2>1. i # 0 /\ i - 1 \in 0 .. n - 1 /\ i - 1 + 1 = i
    OBVIOUS
  <2>2. i - 1 \in T
    BY <2>1
  <2>3. QED BY <2>2
<1>2. IsWellFoundedOn(R, Nat)
  BY NatLessThanWellFounded
<1>3. ASSUME T # {} PROVE \E i \in T : \A j \in T : <<j, i>> \notin R
  <2>1. T \subseteq Nat
    OBVIOUS
  <2> HIDE DEF R, T
  <2>2. QED BY <1>2, <1>3, <2>1, WFMin
<1>4. \A i, j \in T : j < i => <<j, i>> \in R
  BY DEF OpToRel
<1>5. T = {}
  <2> HIDE DEF R, T
  <2> QED BY <1>1, <1>3, <1>4
<1>6. QED BY <1>5

\* The equation of the function Past is defined with, up to n.
Selects(f, s, boundary, n) ==
  f = [i \in 0 .. n |->
        IF i = 0 THEN << >>
        ELSE IF s[i] > boundary THEN Append(f[i - 1], s[i]) ELSE f[i - 1]]

LEMMA SelectionExists ==
  ASSUME NEW s \in Seq(Nat), NEW boundary \in Nat
  PROVE  \E f : Selects(f, s, boundary, Len(s))
<1> DEFINE G == {n \in 0 .. Len(s) : \E f \in [0 .. n -> Seq(Nat)] : Selects(f, s, boundary, n)}
<1>1. 0 \in G
  <2>1. [i \in 0 .. 0 |-> << >>] \in [0 .. 0 -> Seq(Nat)]
    OBVIOUS
  <2>2. Selects([i \in 0 .. 0 |-> << >>], s, boundary, 0)
    BY DEF Selects
  <2>3. 0 \in 0 .. Len(s)
    OBVIOUS
  <2>4. QED BY <2>1, <2>2, <2>3
<1>2. ASSUME NEW n \in 0 .. Len(s) - 1, n \in G PROVE n + 1 \in G
  <2>1. PICK g \in [0 .. n -> Seq(Nat)] : Selects(g, s, boundary, n)
    BY <1>2
  <2>2. s[n + 1] \in Nat /\ n + 1 \in 0 .. Len(s) /\ n \in Nat /\ g[n] \in Seq(Nat)
    OBVIOUS
  <2> DEFINE last == IF s[n + 1] > boundary THEN Append(g[n], s[n + 1]) ELSE g[n]
             f == [i \in 0 .. n + 1 |-> IF i = n + 1 THEN last ELSE g[i]]
  <2>3. last \in Seq(Nat)
    BY <2>2
  <2>4. f \in [0 .. n + 1 -> Seq(Nat)]
    <3>1. \A i \in 0 .. n + 1 : i # n + 1 => i \in 0 .. n
      BY <2>2
    <3> HIDE DEF last
    <3>2. QED BY <2>1, <2>3, <3>1
  <2>5. ASSUME NEW i \in 0 .. n + 1
        PROVE  f[i] = IF i = 0 THEN << >>
                      ELSE IF s[i] > boundary THEN Append(f[i - 1], s[i]) ELSE f[i - 1]
    <3>1. CASE i = n + 1
      <4>1. f[n + 1] = last /\ f[n] = g[n] /\ n + 1 # 0 /\ n + 1 - 1 = n
        BY <2>2
      <4>2. QED BY <3>1, <4>1
    <3>2. CASE i # n + 1
      <4>1. i \in 0 .. n /\ (i # 0 => i - 1 \in 0 .. n /\ i - 1 # n + 1)
        BY <2>2, <3>2
      <4>2. f[i] = g[i] /\ (i # 0 => f[i - 1] = g[i - 1])
        BY <2>2, <4>1, <3>2
      <4>3. g[i] = IF i = 0 THEN << >>
                   ELSE IF s[i] > boundary THEN Append(g[i - 1], s[i]) ELSE g[i - 1]
        BY <2>1, <4>1 DEF Selects
      <4>4. QED BY <4>2, <4>3
    <3>3. QED BY <3>1, <3>2
  <2>6. Selects(f, s, boundary, n + 1)
    <3>1. f = [i \in 0 .. n + 1 |-> f[i]]
      OBVIOUS
    <3> HIDE DEF f
    <3>2. QED BY <2>5, <3>1 DEF Selects
  <2> HIDE DEF f
  <2>7. QED BY <2>2, <2>4, <2>6
<1>3. Len(s) \in Nat
  OBVIOUS
<1>4. Len(s) \in G
  <2> HIDE DEF G
  <2> QED BY <1>1, <1>2, <1>3, StepByStep
<1>5. QED BY <1>4

\* What a list with one more message holds.
LEMMA AppendMembers ==
  ASSUME NEW q \in Seq(Nat), NEW m \in Nat
  PROVE  Append(q, m) \in Seq(Nat) /\ ToSet(Append(q, m)) = ToSet(q) \cup {m}
<1> DEFINE n == Len(q)
           a == Append(q, m)
<1>1. /\ n \in Nat /\ Len(a) = n + 1 /\ a[n + 1] = m /\ \A i \in 1 .. n : a[i] = q[i]
      /\ a \in Seq(Nat)
  OBVIOUS
<1>2. DOMAIN a = 1 .. n + 1 /\ DOMAIN q = 1 .. n /\ 1 .. n + 1 = (1 .. n) \cup {n + 1}
  BY <1>1
<1> HIDE DEF n, a
<1>3. ToSet(a) = ToSet(q) \cup {m}
  BY <1>1, <1>2 DEF ToSet
<1>4. QED BY <1>1, <1>3 DEF a

\* Past keeps what is past the boundary, and nothing else.
LEMMA PastMessages ==
  ASSUME NEW s \in Seq(Nat), NEW boundary \in Nat
  PROVE  /\ Past(s, boundary) \in Seq(Nat)
         /\ ToSet(Past(s, boundary)) = {m \in ToSet(s) : m > boundary}
<1> DEFINE f == CHOOSE g : Selects(g, s, boundary, Len(s))
<1>1. Selects(f, s, boundary, Len(s))
  BY SelectionExists
<1>2. Past(s, boundary) = f[Len(s)]
  BY DEF Past, Selects
<1>3. Len(s) \in Nat
  OBVIOUS
<1> HIDE DEF f
<1> DEFINE Upto(i) == {m \in {s[j] : j \in 1 .. i} : m > boundary}
           G == {i \in 0 .. Len(s) : f[i] \in Seq(Nat) /\ ToSet(f[i]) = Upto(i)}
<1>4. 0 \in G
  <2>1. f[0] = << >>
    BY <1>1, <1>3 DEF Selects
  <2>2. ToSet(<< >>) = {} /\ Upto(0) = {}
    BY DEF ToSet
  <2>3. 0 \in 0 .. Len(s) /\ << >> \in Seq(Nat)
    BY <1>3
  <2> HIDE DEF Upto
  <2>4. QED BY <2>1, <2>2, <2>3
<1>5. ASSUME NEW i \in 0 .. Len(s) - 1, i \in G PROVE i + 1 \in G
  <2>1. /\ i + 1 \in 0 .. Len(s) /\ i + 1 # 0 /\ i + 1 - 1 = i /\ i \in Nat
        /\ s[i + 1] \in Nat /\ 1 .. i + 1 = (1 .. i) \cup {i + 1}
    BY <1>3
  <2>2. f[i] \in Seq(Nat) /\ ToSet(f[i]) = Upto(i)
    BY <1>5
  <2>3. f[i + 1] = IF s[i + 1] > boundary THEN Append(f[i], s[i + 1]) ELSE f[i]
    <3>1. \A j \in 0 .. Len(s) :
            f[j] = IF j = 0 THEN << >>
                   ELSE IF s[j] > boundary THEN Append(f[j - 1], s[j]) ELSE f[j - 1]
      BY <1>1 DEF Selects
    <3>2. QED BY <2>1, <3>1
  <2>4. Upto(i + 1) = Upto(i) \cup (IF s[i + 1] > boundary THEN {s[i + 1]} ELSE {})
    BY <2>1
  <2>5. ASSUME NEW q \in Seq(Nat), NEW m \in Nat
        PROVE  Append(q, m) \in Seq(Nat) /\ ToSet(Append(q, m)) = ToSet(q) \cup {m}
    BY AppendMembers
  <2> HIDE DEF Upto
  <2>6. f[i + 1] \in Seq(Nat) /\ ToSet(f[i + 1]) = Upto(i + 1)
    <3>1. CASE s[i + 1] > boundary
      <4>1. f[i + 1] = Append(f[i], s[i + 1]) /\ Upto(i + 1) = Upto(i) \cup {s[i + 1]}
        BY <2>3, <2>4, <3>1
      <4>2. /\ Append(f[i], s[i + 1]) \in Seq(Nat)
            /\ ToSet(Append(f[i], s[i + 1])) = ToSet(f[i]) \cup {s[i + 1]}
        BY <2>1, <2>2, <2>5
      <4>3. QED BY <2>2, <4>1, <4>2
    <3>2. CASE ~ (s[i + 1] > boundary)
      BY <2>2, <2>3, <2>4, <3>2
    <3>3. QED BY <3>1, <3>2
  <2>7. QED BY <2>1, <2>6
<1>6. Len(s) \in G
  <2> HIDE DEF G
  <2> QED BY <1>3, <1>4, <1>5, StepByStep
<1>7. ToSet(s) = {s[j] : j \in 1 .. Len(s)}
  BY DEF ToSet
<1>8. QED BY <1>2, <1>6, <1>7
\* What MySQL returns after a boundary.
LEMMA NumbersBetween ==
  ASSUME NEW a \in Nat, NEW n \in Nat
  PROVE  /\ Numbers(a + 1, n) \in Seq(Nat)
         /\ ToSet(Numbers(a + 1, n)) = a + 1 .. n
<1>1. Numbers(a + 1, n) = [i \in 1 .. n - a |-> a + i]
  <2>1. n - (a + 1) + 1 = n - a /\ \A i \in 1 .. n - a : a + 1 + i - 1 = a + i
    OBVIOUS
  <2>2. QED BY <2>1 DEF Numbers
<1>2. CASE n < a
  <2>1. 1 .. n - a = {} /\ a + 1 .. n = {} /\ 1 .. n - a = 1 .. 0
    BY <1>2
  <2>2. Numbers(a + 1, n) = << >>
    BY <1>1, <2>1
  <2>3. ToSet(<< >>) = {} /\ << >> \in Seq(Nat)
    BY DEF ToSet
  <2>4. QED BY <2>1, <2>2, <2>3
<1>3. CASE n >= a
  <2>1. n - a \in Nat /\ \A i \in 1 .. n - a : a + i \in Nat
    BY <1>3
  <2>2. Numbers(a + 1, n) \in Seq(Nat)
    BY <1>1, <2>1
  <2>3. ToSet(Numbers(a + 1, n)) = {a + i : i \in 1 .. n - a}
    BY <1>1, <2>1 DEF ToSet
  <2>4. ASSUME NEW m \in a + 1 .. n PROVE m \in {a + i : i \in 1 .. n - a}
    <3>1. m - a \in 1 .. n - a /\ m = a + (m - a)
      OBVIOUS
    <3>2. QED BY <3>1
  <2>5. ASSUME NEW i \in 1 .. n - a PROVE a + i \in a + 1 .. n
    OBVIOUS
  <2>6. QED BY <2>2, <2>3, <2>4, <2>5
<1>4. QED BY <1>2, <1>3

-----------------------------------------------------------------------------
(* What a run's context is made of. *)

\* Numbers of messages, and lists of them.
Held ==
  /\ mine = [r \in Run |-> mine[r]] /\ missed = [r \in Run |-> missed[r]]
  /\ prompt = [r \in Run |-> prompt[r]] /\ dropped = [r \in Run |-> dropped[r]]
  /\ \A r \in Run : mine[r] \in 0 .. count
  /\ cursor \in Nat /\ recent \in Seq(Nat)
  /\ \A p \in Process : after[p] \in Nat /\ got[p] \in Seq(Nat)

\* A message is in the cached list, or is known not to be.
Listed == 1 .. count \subseteq ToSet(recent) \cup hidden \cup OnTheWay

\* What a run has read, and what its context was built from.
ReadBefore(r) == 1 .. mine[r] \subseteq known[r] \cup ToSet(got[r]) \cup missed[r] \cup cut
BuiltFrom(r) == 1 .. mine[r] \subseteq prompt[r] \cup dropped[r] \cup missed[r] \cup cut

Informed(r) ==
  /\ pc[r] # "store"
  /\ ~ torn => /\ pc[r] \in {"rebuild", "assemble"} => ReadBefore(r)
               /\ pc[r] \in {"preflight", "wait", "answer"} => BuiltFrom(r)

Complete == Covered /\ Held /\ Listed /\ \A r \in Run : Informed(r)

\* What a step has to keep of it, besides Covered.
Informs == Held' /\ Listed' /\ \A q \in Run : Informed(q)'

LEMMA Processes ==
  /\ Run \subseteq Process /\ Run \subseteq Reader /\ Reader \subseteq Process
  /\ Compression \in Process /\ Compression \in Reader /\ Compression \notin Run
  /\ Consolidation \in Process /\ Consolidation \notin Reader /\ Consolidation \notin Run
  /\ Process = Run \cup {Compression, Consolidation}
BY MemoryBounds DEF Process, Reader

LEMMA CompleteAtStart == Init => Complete
<1> SUFFICES ASSUME Init PROVE Complete
  OBVIOUS
<1>1. Covered
  BY CoveredAtStart
<1>2. Held
  BY Processes DEF Init, Held
<1>3. Listed
  BY DEF Init, Listed
<1>4. \A r \in Run : Informed(r)
  BY Processes DEF Init, Informed
<1>5. QED BY <1>1, <1>2, <1>3, <1>4 DEF Complete

\* A run that neither moves nor reads stays informed.
LEMMA StaysInformed ==
  ASSUME NEW r \in Run, Informed(r), pc'[r] = pc[r], mine'[r] = mine[r],
         known'[r] = known[r], got'[r] = got[r], missed'[r] = missed[r],
         prompt'[r] = prompt[r], dropped'[r] = dropped[r],
         cut \subseteq cut', torn => torn'
  PROVE  Informed(r)'
BY DEF Informed, ReadBefore, BuiltFrom

\* What is left out of a run's messages is its own.
LEMMA OthersAndMine ==
  ASSUME NEW r \in Run, got[r] \in Seq(Nat)
  PROVE  ToSet(got[r]) \subseteq ToSet(Others(r)) \cup {mine[r]}
<1> DEFINE s == got[r]
<1>1. CASE s # << >> /\ Last(s) = mine[r]
  <2>1. Len(s) \in Nat /\ Len(s) >= 1 /\ s[Len(s)] = mine[r]
    BY <1>1 DEF Last
  <2>2. Others(r) = SubSeq(s, 1, Len(s) - 1)
    BY <1>1 DEF Others, Front
  <2>3. /\ DOMAIN SubSeq(s, 1, Len(s) - 1) = 1 .. Len(s) - 1
        /\ \A i \in 1 .. Len(s) - 1 : SubSeq(s, 1, Len(s) - 1)[i] = s[i]
    BY <2>1
  <2>4. DOMAIN s = (1 .. Len(s) - 1) \cup {Len(s)}
    BY <2>1
  <2> HIDE DEF s
  <2>5. ToSet(s) \subseteq ToSet(SubSeq(s, 1, Len(s) - 1)) \cup {mine[r]}
    BY <2>1, <2>3, <2>4 DEF ToSet
  <2>6. QED BY <2>2, <2>5 DEF s
<1>2. CASE ~ (s # << >> /\ Last(s) = mine[r])
  BY <1>2 DEF Others
<1>3. QED BY <1>1, <1>2

-----------------------------------------------------------------------------
(* Steps of a run. *)

LEMMA CreateInforms ==
  ASSUME Complete, NEW r \in Run, CreateMessage(r)
  PROVE  Informs
<1> USE Processes
<1>1. /\ count \in Nat /\ count' = count + 1 /\ mine' = [mine EXCEPT ![r] = count + 1]
      /\ UNCHANGED <<cursor, recent, hidden, after, known, got, prompt, dropped, missed, cut, torn>>
  BY DEF CreateMessage, Complete, Covered, redis, answer, history
<1>2. pc'[r] \in {"push", "pushReply"} /\ \A q \in Run : q # r => pc'[q] = pc[q]
  BY DEF CreateMessage, Goto, Complete, Covered
<1>3. pc[r] \notin {"push", "pushReply"}
  BY DEF CreateMessage, MayStart
<1>4. mine'[r] = count + 1 /\ \A q \in Run : q # r => mine'[q] = mine[q]
  BY <1>1 DEF Complete, Held
<1>5. Held'
  <2>1. mine' = [q \in Run |-> mine'[q]]
    BY <1>1 DEF Complete, Held
  <2>2. \A q \in Run : mine'[q] \in 0 .. count'
    BY <1>1, <1>4 DEF Complete, Held
  <2>3. QED BY <1>1, <2>1, <2>2 DEF Complete, Held
<1>6. Listed'
  <2>1. OnTheWay \subseteq OnTheWay'
    <3>1. \A q \in Run : pc[q] \in {"push", "pushReply"} => pc'[q] = pc[q] /\ mine'[q] = mine[q]
      BY <1>2, <1>3, <1>4
    <3>2. QED BY <3>1 DEF OnTheWay
  <2>2. count + 1 \in OnTheWay'
    BY <1>2, <1>4 DEF OnTheWay
  <2>3. 1 .. count' = (1 .. count) \cup {count + 1}
    BY <1>1
  <2>4. 1 .. count \subseteq ToSet(recent) \cup hidden \cup OnTheWay
    BY DEF Complete, Listed
  <2>5. QED BY <1>1, <2>1, <2>2, <2>3, <2>4 DEF Listed
<1>7. ASSUME NEW q \in Run PROVE Informed(q)'
  <2>1. CASE q = r
    BY <1>2, <2>1 DEF Informed
  <2>2. CASE q # r
    BY <1>1, <1>2, <1>4, <2>2, StaysInformed DEF Complete
  <2>3. QED BY <2>1, <2>2
<1>8. QED BY <1>5, <1>6, <1>7 DEF Informs

LEMMA PushInforms ==
  ASSUME Complete, NEW r \in Run, PushRecentMessage(r)
  PROVE  Informs
<1> USE Processes
<1>1. UNCHANGED <<count, cursor, after, known, got, prompt, dropped, missed, cut, torn>>
  BY DEF PushRecentMessage, mysql, answer
<1>2. /\ pc[r] \in {"push", "pushReply"} /\ pc'[r] \in {"summary", "done"}
      /\ \A q \in Run : q # r => pc'[q] = pc[q]
  BY DEF PushRecentMessage, Goto, Complete, Covered
<1>3. /\ mine' = [q \in Run |-> mine'[q]] /\ mine'[r] \in {0, mine[r]}
      /\ \A q \in Run : q # r => mine'[q] = mine[q]
  BY DEF PushRecentMessage, Complete, Held
<1>4. mine[r] \in Nat /\ recent \in Seq(Nat)
  BY DEF Complete, Held, Covered
<1>5. \/ recent' = Append(recent, mine[r]) /\ hidden' = hidden
      \/ recent' = recent /\ hidden' = hidden \cup {mine[r]}
  BY DEF PushRecentMessage, WithMessage
<1>6. /\ recent' \in Seq(Nat)
      /\ ToSet(recent') \cup hidden' = ToSet(recent) \cup hidden \cup {mine[r]}
  BY <1>4, <1>5, AppendMembers
<1>7. Held'
  <2>1. count \in Nat
    BY DEF Complete, Covered
  <2>2. \A q \in Run : mine[q] \in 0 .. count
    BY DEF Complete, Held
  <2>3. \A q \in Run : mine'[q] \in 0 .. count'
    <3>1. mine'[r] \in 0 .. count
      BY <1>3, <2>1, <2>2
    <3>2. QED BY <1>1, <1>3, <2>2, <3>1
  <2>4. QED BY <1>1, <1>3, <1>6, <2>3 DEF Complete, Held
<1>8. Listed'
  <2>1. OnTheWay \subseteq OnTheWay' \cup {mine[r]}
    <3>1. \A q \in Run : q # r => pc'[q] = pc[q] /\ mine'[q] = mine[q]
      BY <1>2, <1>3
    <3>2. QED BY <3>1 DEF OnTheWay
  <2>2. 1 .. count \subseteq ToSet(recent) \cup hidden \cup OnTheWay
    BY DEF Complete, Listed
  <2>3. QED BY <1>1, <1>6, <2>1, <2>2 DEF Listed
<1>9. ASSUME NEW q \in Run PROVE Informed(q)'
  <2>1. CASE q = r
    BY <1>2, <2>1 DEF Informed
  <2>2. CASE q # r
    BY <1>1, <1>2, <1>3, <2>2, StaysInformed DEF Complete
  <2>3. QED BY <2>1, <2>2
<1>10. QED BY <1>7, <1>8, <1>9 DEF Informs

\* What a run read is in its context, or reported as dropped.
LEMMA AssembleInforms ==
  ASSUME Complete, NEW r \in Run, Assemble(r)
  PROVE  Informs
<1> USE Processes
<1> DEFINE picked == ToSet(Picked(Others(r), Room(r)))
<1>1. /\ prompt' = [prompt EXCEPT ![r] = known[r] \cup picked \cup {mine[r]}]
      /\ dropped' = [dropped EXCEPT ![r] = ToSet(Others(r)) \ picked]
      /\ UNCHANGED <<count, cursor, recent, hidden, mine, after, known, got, missed, cut, torn>>
  BY DEF Assemble, mysql, redis, locals, history
<1>2. /\ pc[r] = "assemble" /\ pc'[r] \in {"preflight", "answer"}
      /\ \A q \in Run : q # r => pc'[q] = pc[q]
  BY DEF Assemble, Goto, Complete, Covered
<1>3. ToSet(got[r]) \subseteq ToSet(Others(r)) \cup {mine[r]}
  BY OthersAndMine DEF Complete, Held
<1> HIDE DEF picked
<1>4. /\ prompt' = [q \in Run |-> prompt'[q]] /\ dropped' = [q \in Run |-> dropped'[q]]
      /\ prompt'[r] = known[r] \cup picked \cup {mine[r]}
      /\ dropped'[r] = ToSet(Others(r)) \ picked
      /\ \A q \in Run : q # r => prompt'[q] = prompt[q] /\ dropped'[q] = dropped[q]
  BY <1>1 DEF Complete, Held
<1>5. Held'
  BY <1>1, <1>4 DEF Complete, Held
<1>6. Listed'
  <2>1. OnTheWay \subseteq OnTheWay'
    BY <1>1, <1>2 DEF OnTheWay
  <2>2. QED BY <1>1, <2>1 DEF Complete, Listed
<1>7. ~ torn => BuiltFrom(r)'
  <2>1. ~ torn => ReadBefore(r)
    BY <1>2 DEF Complete, Informed
  <2>2. QED BY <1>1, <1>3, <1>4, <2>1 DEF ReadBefore, BuiltFrom
<1>8. ASSUME NEW q \in Run PROVE Informed(q)'
  <2>1. CASE q = r
    BY <1>1, <1>2, <1>7, <2>1 DEF Informed
  <2>2. CASE q # r
    BY <1>1, <1>2, <1>4, <2>2, StaysInformed DEF Complete
  <2>3. QED BY <2>1, <2>2
<1>9. QED BY <1>5, <1>6, <1>8 DEF Informs

LEMMA RunInforms ==
  ASSUME Complete, NEW r \in Run, RunStep(r)
  PROVE  Informs
<1> USE Processes
<1>1. CASE Preflight(r) \/ Rebuilt(r) \/ GoOn(r)
  <2>1. UNCHANGED <<count, cursor, recent, hidden, mine, after, known, got,
                    prompt, dropped, missed, cut, torn>>
    BY <1>1 DEF Preflight, Rebuilt, GoOn, mysql, redis, locals, answer, history
  <2>2. /\ pc[r] \in {"preflight", "wait"} /\ pc'[r] \in {"wait", "answer", "summary"}
        /\ \A q \in Run : q # r => pc'[q] = pc[q]
    BY <1>1 DEF Preflight, Rebuilt, GoOn, Goto, Complete, Covered
  <2>3. OnTheWay \subseteq OnTheWay'
    BY <2>1, <2>2 DEF OnTheWay
  <2>4. Held' /\ Listed'
    BY <2>1, <2>3 DEF Complete, Held, Listed
  <2>5. ASSUME NEW q \in Run PROVE Informed(q)'
    <3>1. CASE q = r
      BY <2>1, <2>2, <3>1 DEF Complete, Informed, BuiltFrom
    <3>2. CASE q # r
      BY <2>1, <2>2, <3>2, StaysInformed DEF Complete
    <3>3. QED BY <3>1, <3>2
  <2>6. QED BY <2>4, <2>5 DEF Informs
<1>2. CASE Answer(r)
  <2>1. UNCHANGED <<count, cursor, recent, hidden, cut, torn>>
    BY <1>2 DEF Answer, mysql, redis
  <2>2. /\ pc[r] = "answer" /\ pc'[r] \in {"reply", "done"}
        /\ \A q \in Run : q # r => pc'[q] = pc[q]
    BY <1>2 DEF Answer, Goto, Complete, Covered
  <2>3. /\ mine' = [mine EXCEPT ![r] = 0] /\ after' = [after EXCEPT ![r] = 0]
        /\ known' = [known EXCEPT ![r] = {}] /\ got' = [got EXCEPT ![r] = << >>]
        /\ prompt' = [prompt EXCEPT ![r] = {}] /\ dropped' = [dropped EXCEPT ![r] = {}]
        /\ missed' = [missed EXCEPT ![r] = {}]
    BY <1>2 DEF Answer
  <2>4. \A q \in Process : q # r => /\ after'[q] = after[q] /\ known'[q] = known[q]
                                    /\ got'[q] = got[q]
    BY <2>3 DEF Complete, Covered
  <2>5. \A q \in Run : q # r => /\ mine'[q] = mine[q] /\ prompt'[q] = prompt[q]
                                /\ dropped'[q] = dropped[q] /\ missed'[q] = missed[q]
    BY <2>3 DEF Complete, Held
  <2>6. after'[r] = 0 /\ got'[r] = << >> /\ mine'[r] = 0
    BY <2>3 DEF Complete, Covered, Held
  <2>7. Held'
    <3>1. /\ mine' = [q \in Run |-> mine'[q]] /\ prompt' = [q \in Run |-> prompt'[q]]
          /\ dropped' = [q \in Run |-> dropped'[q]] /\ missed' = [q \in Run |-> missed'[q]]
      BY <2>3 DEF Complete, Held
    <3>2. \A q \in Run : mine'[q] \in 0 .. count'
      BY <2>1, <2>5, <2>6 DEF Complete, Held, Covered
    <3>3. \A p \in Process : after'[p] \in Nat /\ got'[p] \in Seq(Nat)
      <4>1. after'[r] \in Nat /\ got'[r] \in Seq(Nat)
        BY <2>6
      <4>2. \A p \in Process : after[p] \in Nat /\ got[p] \in Seq(Nat)
        BY DEF Complete, Held
      <4>3. QED BY <2>4, <4>1, <4>2
    <3>4. QED BY <2>1, <3>1, <3>2, <3>3 DEF Complete, Held
  <2>8. Listed'
    <3>1. OnTheWay \subseteq OnTheWay'
      BY <2>2, <2>5 DEF OnTheWay
    <3>2. QED BY <2>1, <3>1 DEF Complete, Listed
  <2>9. ASSUME NEW q \in Run PROVE Informed(q)'
    <3>1. CASE q = r
      BY <2>2, <3>1 DEF Informed
    <3>2. CASE q # r
      BY <2>1, <2>2, <2>4, <2>5, <3>2, StaysInformed DEF Complete
    <3>3. QED BY <3>1, <3>2
  <2>10. QED BY <2>7, <2>8, <2>9 DEF Informs
<1>3. QED BY <1>1, <1>2, CreateInforms, PushInforms, AssembleInforms DEF RunStep

-----------------------------------------------------------------------------
(* Reading the summary and the messages. *)

\* A summary is read: nothing a run knows counts before it has read the messages too.
LEMMA SummaryInforms ==
  ASSUME Complete, NEW p \in Process,
         \/ GetSummary(p) \/ GetIndex(p) \/ FindCompressedContext(p) \/ SetCompressedSummary(p),
         Covered'
  PROVE  Informs
<1> USE Processes
<1>1. /\ UNCHANGED <<count, cursor, recent, hidden, mine, got, prompt, dropped, missed, cut>>
      /\ torn => torn'
  <2>1. CASE GetSummary(p)
    BY <2>1 DEF GetSummary, mysql, redis, answer, history
  <2>2. CASE GetIndex(p)
    <3>1. UNCHANGED <<count, cursor, recent, hidden, mine, got, prompt, dropped, missed, cut>>
      BY <2>2 DEF GetIndex, mysql, redis, answer
    <3>2. torn => torn'
      BY <2>2 DEF GetIndex
    <3>3. QED BY <3>1, <3>2
  <2>3. CASE FindCompressedContext(p)
    BY <2>3 DEF FindCompressedContext, mysql, redis, answer, history
  <2>4. CASE SetCompressedSummary(p)
    BY <2>4 DEF SetCompressedSummary, mysql, locals, answer, history
  <2>5. QED BY <2>1, <2>2, <2>3, <2>4
<1>2. p \in Reader /\ pc[p] \in {"summary", "index", "find", "backfill", "store"}
  BY DEF GetSummary, GetIndex, FindCompressedContext, SetCompressedSummary,
         Complete, Covered, Reader, Process
<1>3. /\ p \in Run => pc'[p] \in {"index", "find", "backfill", "recent"}
      /\ \A q \in Process : q # p => pc'[q] = pc[q]
  <2>1. /\ p \in Run => AfterSummary(p) = "recent" /\ pc[p] # "store"
        /\ pc = [q \in Process |-> pc[q]]
    BY DEF AfterSummary, Complete, Informed, Covered
  <2>2. CASE GetSummary(p)
    BY <2>1, <2>2 DEF GetSummary, Goto
  <2>3. CASE GetIndex(p)
    BY <2>1, <2>3 DEF GetIndex, Goto
  <2>4. CASE FindCompressedContext(p)
    BY <2>1, <2>4 DEF FindCompressedContext, Goto
  <2>5. CASE SetCompressedSummary(p)
    BY <2>1, <2>5 DEF SetCompressedSummary, Goto
  <2>6. QED BY <2>2, <2>3, <2>4, <2>5
<1>4. \A q \in Process : q # p => after'[q] = after[q] /\ known'[q] = known[q]
  BY DEF GetSummary, GetIndex, FindCompressedContext, SetCompressedSummary,
         Complete, Covered, locals
<1>5. \A q \in Process : after'[q] \in Nat
  <2>1. after'[p] \in Nat
    BY <1>2 DEF Covered, Covers
  <2>2. QED BY <1>4, <2>1 DEF Complete, Held
<1>6. Held'
  BY <1>1, <1>5 DEF Complete, Held
<1>7. Listed'
  <2>1. OnTheWay \subseteq OnTheWay'
    BY <1>1, <1>2, <1>3 DEF OnTheWay
  <2>2. QED BY <1>1, <2>1 DEF Complete, Listed
<1>8. ASSUME NEW q \in Run PROVE Informed(q)'
  <2>1. CASE q = p
    BY <1>3, <2>1 DEF Informed
  <2>2. CASE q # p
    BY <1>1, <1>3, <1>4, <2>2, StaysInformed DEF Complete
  <2>3. QED BY <2>1, <2>2
<1>9. QED BY <1>6, <1>7, <1>8 DEF Informs

\* What a summary covers and what comes after its boundary is everything.
LEMMA ReadsEverything ==
  ASSUME Complete, NEW r \in Run, NEW read, NEW lacking,
         \A m \in 1 .. count : m > after[r] => m \in read \cup lacking
  PROVE  ~ torn => 1 .. mine[r] \subseteq known[r] \cup read \cup lacking \cup cut
<1>1. /\ after[r] \in Nat /\ (~ torn => 1 .. after[r] \subseteq known[r] \cup cut)
      /\ count \in Nat /\ mine[r] \in 0 .. count
  BY Processes DEF Complete, Covered, Covers, Held
<1>2. ASSUME NEW m \in 1 .. mine[r], ~ torn PROVE m \in known[r] \cup read \cup lacking \cup cut
  <2>1. m \in 1 .. count /\ (m > after[r] \/ m \in 1 .. after[r])
    BY <1>1
  <2>2. QED BY <1>1, <1>2, <2>1
<1>3. QED BY <1>2

LEMMA ListInforms ==
  ASSUME Complete, NEW p \in Process, GetRecentMessages(p) \/ ListRecentMessagesAfter(p)
  PROVE  Informs
<1> USE Processes
<1>1. UNCHANGED <<count, cursor, recent, hidden, mine, after, known, prompt, dropped, cut, torn>>
  BY DEF GetRecentMessages, ListRecentMessagesAfter, mysql, redis, answer, history
<1>2. pc[p] \in {"recent", "messages"} /\ \A q \in Process : q # p => pc'[q] = pc[q]
  BY DEF GetRecentMessages, ListRecentMessagesAfter, Goto, Complete, Covered
<1>3. \A q \in Process : q # p => got'[q] = got[q]
  BY DEF GetRecentMessages, ListRecentMessagesAfter, Complete, Covered
<1>4. missed' = [q \in Run |-> missed'[q]] /\ \A q \in Run : q # p => missed'[q] = missed[q]
  BY DEF GetRecentMessages, ListRecentMessagesAfter, Complete, Held, history
<1>5. /\ after[p] \in Nat /\ recent \in Seq(Nat) /\ count \in Nat
      /\ got = [q \in Process |-> got[q]] /\ got[p] \in Seq(Nat)
  BY DEF Complete, Held, Covered
<1>6. got'[p] \in Seq(Nat)
  <2>1. CASE GetRecentMessages(p)
    <3>1. Past(recent, after[p]) \in Seq(Nat)
      BY <1>5, PastMessages
    <3>2. QED BY <1>5, <2>1, <3>1 DEF GetRecentMessages
  <2>2. CASE ListRecentMessagesAfter(p)
    BY <1>5, <2>2, NumbersBetween DEF ListRecentMessagesAfter
  <2>3. QED BY <2>1, <2>2
<1>7. Held'
  BY <1>1, <1>3, <1>4, <1>6 DEF Complete, Held
<1>8. Listed'
  <2>1. OnTheWay \subseteq OnTheWay'
    BY <1>1, <1>2 DEF OnTheWay
  <2>2. QED BY <1>1, <2>1 DEF Complete, Listed
<1>9. ASSUME p \in Run PROVE Informed(p)'
  <2>1. CASE GetRecentMessages(p)
    <3>1. missed'[p] = hidden \cup OnTheWay
      BY <1>9, <2>1 DEF GetRecentMessages, Complete, Held
    <3>2. \/ pc'[p] = "messages"
          \/ pc'[p] = "assemble" /\ got'[p] = Past(recent, after[p])
      <4>1. AfterRecent(p) = "assemble"
        BY <1>9 DEF AfterRecent
      <4>2. pc = [q \in Process |-> pc[q]]
        BY DEF Complete, Covered
      <4>3. QED BY <1>5, <2>1, <4>1, <4>2 DEF GetRecentMessages, Goto
    <3>3. CASE pc'[p] = "messages"
      BY <3>3 DEF Informed
    <3>4. CASE pc'[p] = "assemble" /\ got'[p] = Past(recent, after[p])
      <4>1. ToSet(got'[p]) = {m \in ToSet(recent) : m > after[p]}
        BY <1>5, <3>4, PastMessages
      <4>2. \A m \in 1 .. count : m > after[p] => m \in ToSet(got'[p]) \cup missed'[p]
        BY <3>1, <4>1 DEF Complete, Listed
      <4>3. ~ torn => 1 .. mine[p] \subseteq known[p] \cup ToSet(got'[p]) \cup missed'[p] \cup cut
        BY <1>9, <4>2, ReadsEverything
      <4>4. QED BY <1>1, <3>4, <4>3 DEF Informed, ReadBefore
    <3>5. QED BY <3>2, <3>3, <3>4
  <2>2. CASE ListRecentMessagesAfter(p)
    <3>1. got'[p] = Numbers(after[p] + 1, count)
      BY <1>5, <2>2 DEF ListRecentMessagesAfter
    <3>2. ToSet(got'[p]) = after[p] + 1 .. count
      BY <1>5, <3>1, NumbersBetween
    <3>3. \A m \in 1 .. count : m > after[p] => m \in ToSet(got'[p]) \cup missed'[p]
      BY <1>5, <3>2
    <3>4. ~ torn => 1 .. mine[p] \subseteq known[p] \cup ToSet(got'[p]) \cup missed'[p] \cup cut
      BY <1>9, <3>3, ReadsEverything
    <3>5. pc'[p] \in {"rebuild", "assemble"}
      BY <1>9, <2>2 DEF ListRecentMessagesAfter, AfterRecent, Goto, Complete, Covered
    <3>6. QED BY <1>1, <3>4, <3>5 DEF Informed, ReadBefore
  <2>3. QED BY <2>1, <2>2
<1>10. ASSUME NEW q \in Run PROVE Informed(q)'
  <2>1. CASE q = p
    BY <1>9, <2>1
  <2>2. CASE q # p
    BY <1>1, <1>2, <1>3, <1>4, <2>2, StaysInformed DEF Complete
  <2>3. QED BY <2>1, <2>2
<1>11. QED BY <1>7, <1>8, <1>10 DEF Informs

-----------------------------------------------------------------------------
(* The background tasks. *)

\* A task moves, and no run does.
LEMMA TaskInforms ==
  ASSUME Complete, NEW t \in {Compression, Consolidation},
         \A q \in Process : q # t => /\ pc'[q] = pc[q] /\ known'[q] = known[q]
                                     /\ got'[q] = got[q] /\ after'[q] = after[q],
         after'[t] \in Nat, got'[t] \in Seq(Nat), cursor' \in Nat, recent' \in Seq(Nat),
         ToSet(recent) \cup hidden \subseteq ToSet(recent') \cup hidden',
         UNCHANGED <<count, mine, prompt, dropped, missed, torn>>, cut \subseteq cut'
  PROVE  Informs
<1> USE Processes
<1>1. t \notin Run
  OBVIOUS
<1>2. Held'
  BY DEF Complete, Held
<1>3. Listed'
  <2>1. OnTheWay \subseteq OnTheWay'
    BY <1>1 DEF OnTheWay
  <2>2. QED BY <2>1 DEF Complete, Listed
<1>4. \A q \in Run : Informed(q)'
  BY <1>1, StaysInformed DEF Complete
<1>5. QED BY <1>2, <1>3, <1>4 DEF Informs

LEMMA ReturnInforms ==
  ASSUME Complete, NEW t \in {Compression, Consolidation}, Return(t),
         cursor' \in Nat, recent' \in Seq(Nat),
         ToSet(recent) \cup hidden \subseteq ToSet(recent') \cup hidden',
         UNCHANGED <<count, mine, prompt, dropped, missed, torn, cut>>
  PROVE  Informs
<1> USE Processes
<1>1. /\ \A q \in Process : q # t => /\ pc'[q] = pc[q] /\ known'[q] = known[q]
                                     /\ got'[q] = got[q] /\ after'[q] = after[q]
      /\ after'[t] = 0 /\ got'[t] = << >>
  BY DEF Return, Goto, Complete, Covered
<1>2. after'[t] \in Nat /\ got'[t] \in Seq(Nat) /\ cut \subseteq cut'
  BY <1>1
<1>3. QED BY <1>1, <1>2, TaskInforms

\* The list becomes what was read; what it had besides is hidden.
LEMMA RebuildInforms ==
  ASSUME Complete, NEW p \in Process, RebuildRecentMessages(p)
  PROVE  Informs
<1> USE Processes
<1>1. /\ UNCHANGED <<count, cursor, mine, prompt, dropped, missed, cut, torn>>
      /\ pc[p] = "rebuild"
  BY DEF RebuildRecentMessages, mysql, answer
<1>2. \/ recent' = got[p] /\ hidden' = (hidden \cup ToSet(recent)) \ ToSet(got[p])
      \/ UNCHANGED <<recent, hidden>>
  BY DEF RebuildRecentMessages
<1>3. /\ recent' \in Seq(Nat) /\ cursor' \in Nat
      /\ ToSet(recent) \cup hidden \subseteq ToSet(recent') \cup hidden'
  BY <1>1, <1>2 DEF Complete, Held
<1>4. CASE p = Compression
  BY <1>1, <1>3, <1>4, ReturnInforms DEF RebuildRecentMessages
<1>5. CASE p # Compression
  <2>1. /\ UNCHANGED <<after, known, got>> /\ pc'[p] = AfterRecent(p)
        /\ \A q \in Process : q # p => pc'[q] = pc[q]
    BY <1>5 DEF RebuildRecentMessages, Goto, Complete, Covered
  <2>2. CASE p = Consolidation
    BY <1>1, <1>3, <2>1, <2>2, TaskInforms DEF Complete, Held
  <2>3. CASE p \in Run
    <3>1. Held'
      BY <1>1, <1>3, <2>1 DEF Complete, Held
    <3>2. Listed'
      <4>1. OnTheWay \subseteq OnTheWay'
        BY <1>1, <2>1 DEF OnTheWay
      <4>2. QED BY <1>1, <1>3, <4>1 DEF Complete, Listed
    <3>3. ASSUME NEW q \in Run PROVE Informed(q)'
      <4>1. CASE q = p
        <5>1. pc'[p] = "assemble"
          BY <2>1, <2>3 DEF AfterRecent
        <5>2. QED BY <1>1, <2>1, <4>1, <5>1 DEF Complete, Informed, ReadBefore
      <4>2. CASE q # p
        BY <1>1, <2>1, <4>2, StaysInformed DEF Complete
      <4>3. QED BY <4>1, <4>2
    <3>4. QED BY <3>1, <3>2, <3>3 DEF Informs
  <2>4. QED BY <1>5, <2>2, <2>3
<1>6. QED BY <1>4, <1>5

LEMMA CompressInforms ==
  ASSUME Complete, ListMessages \/ SaveSummary, Covered'
  PROVE  Informs
<1> USE Processes
<1> DEFINE c == Compression
<1>1. UNCHANGED <<count, cursor, recent, hidden, mine, prompt, dropped, missed, torn>>
  BY DEF ListMessages, SaveSummary, mysql, redis, answer, history
<1>2. /\ recent' \in Seq(Nat) /\ cursor' \in Nat
      /\ count \in Nat /\ after[c] \in Nat /\ got[c] \in Seq(Nat)
  BY <1>1 DEF Complete, Held, Covered
<1>3. CASE ListMessages
  <2>1. cut' = cut
    BY <1>3 DEF ListMessages, history
  <2>2. CASE Return(c)
    BY <1>1, <1>2, <2>1, <2>2, ReturnInforms
  <2>3. CASE ~ Return(c)
    <3>1. /\ got' = [got EXCEPT ![c] = Numbers(after[c] + 1, count)]
          /\ Goto(c, "compress") /\ UNCHANGED <<after, known>>
      BY <1>3, <2>3 DEF ListMessages
    <3>2. /\ got'[c] \in Seq(Nat)
          /\ \A q \in Process : q # c => pc'[q] = pc[q] /\ got'[q] = got[q]
      BY <1>2, <3>1, NumbersBetween DEF Goto, Complete, Covered
    <3>3. QED BY <1>1, <1>2, <2>1, <3>1, <3>2, TaskInforms
  <2>4. QED BY <2>2, <2>3
<1>4. CASE SaveSummary
  <2>1. cut \subseteq cut'
    BY <1>4 DEF SaveSummary
  <2>2. \A q \in Process : q # c => /\ pc'[q] = pc[q] /\ known'[q] = known[q]
                                    /\ got'[q] = got[q] /\ after'[q] = after[q]
    BY <1>4 DEF SaveSummary, Goto, Complete, Covered
  <2>3. after'[c] \in Nat
    BY DEF Covered, Covers
  <2>4. got'[c] \in Seq(Nat)
    <3>1. got'[c] = SubSeq(got[c], Len(Old(got[c])) + 1, Len(got[c]))
      BY <1>4 DEF SaveSummary, Complete, Covered
    <3>2. Len(Old(got[c])) \in Nat
      <4>1. Len(got[c]) \in Nat
        BY <1>2
      <4>2. Kept(Len(got[c])) \in Nat
        BY <4>1, KeptSome
      <4>3. QED BY <1>2, <4>1, <4>2 DEF Old
    <3>3. QED BY <1>2, <3>1, <3>2, SMTT(30)
  <2>5. QED BY <1>1, <1>2, <2>1, <2>2, <2>3, <2>4, TaskInforms
<1>5. QED BY <1>3, <1>4

LEMMA StartInforms ==
  ASSUME Complete, NEW t \in {Compression, Consolidation}, StartTask(t)
  PROVE  Informs
<1> USE Processes
<1>1. UNCHANGED <<count, cursor, recent, hidden, mine, known, got, prompt, dropped, missed, torn, cut>>
  BY DEF StartTask, mysql, redis, answer, history
<1>2. \A q \in Process : q # t => pc'[q] = pc[q] /\ after'[q] = after[q]
  BY DEF StartTask, Goto, Complete, Covered
<1>3. after'[t] \in Nat
  <2>1. cursor \in Nat /\ after[t] \in Nat /\ after = [q \in Process |-> after[q]]
    BY DEF Complete, Covered, Held
  <2>2. QED BY <2>1 DEF StartTask
<1>4. cursor' \in Nat /\ recent' \in Seq(Nat) /\ got'[t] \in Seq(Nat)
  BY <1>1 DEF Complete, Held
<1>5. QED BY <1>1, <1>2, <1>3, <1>4, TaskInforms

\* A run answers with every message before its own, whatever the cache and the
\* compression did in the meantime.
THEOREM ContextsAreComplete == Spec => []ContextIsComplete
<1>1. Init => Complete
  BY CompleteAtStart
<1>2. Complete /\ [Next]_vars => Complete'
  <2> SUFFICES ASSUME Complete, [Next]_vars PROVE Complete'
    OBVIOUS
  <2>0. Covered'
    BY CoveredStays DEF Complete
  <2>1. ASSUME \E r \in Run : RunStep(r) PROVE Informs
    BY <2>1, RunInforms
  <2>2. ASSUME \E t \in {Compression, Consolidation} : TaskStep(t) PROVE Informs
    <3>1. PICK t \in {Compression, Consolidation} : TaskStep(t)
      BY <2>2
    <3>2. CASE StartTask(t)
      BY <3>2, StartInforms
    <3>3. CASE TaskFails(t)
      <4>1. /\ Return(t)
            /\ UNCHANGED <<count, cursor, recent, hidden, mine, prompt, dropped, missed, torn, cut>>
        BY <3>3 DEF TaskFails, mysql, redis, answer, history
      <4>2. cursor' \in Nat /\ recent' \in Seq(Nat)
        BY <4>1 DEF Complete, Held
      <4>3. QED BY <4>1, <4>2, ReturnInforms
    <3>4. QED BY <3>1, <3>2, <3>3 DEF TaskStep
  <2>3. ASSUME \E p \in Process : LoadStep(p) PROVE Informs
    BY <2>0, <2>3, SummaryInforms, ListInforms, RebuildInforms DEF LoadStep
  <2>4. ASSUME ListMessages \/ SaveSummary PROVE Informs
    BY <2>0, <2>4, CompressInforms
  <2>5. ASSUME Extract PROVE Informs
    <3>1. Return(Consolidation)
          /\ UNCHANGED <<count, recent, hidden, mine, prompt, dropped, missed, torn, cut>>
      BY <2>5 DEF Extract, redis, answer, history
    <3>2. cursor' \in Nat /\ recent' \in Seq(Nat)
      <4>1. got[Consolidation] \in Seq(Nat) /\ cursor \in Nat /\ recent \in Seq(Nat)
        BY Processes DEF Complete, Held
      <4>2. ToSet(got[Consolidation]) \subseteq Nat
        BY <4>1 DEF ToSet
      <4>3. QED BY <2>5, <3>1, <4>1, <4>2 DEF Extract
    <3>3. QED BY <3>1, <3>2, ReturnInforms
  <2>6. ASSUME RecentLost \/ SummaryLost PROVE Informs
    <3>1. UNCHANGED <<count, cursor, pc, mine, after, known, got, prompt, dropped, missed, torn, cut>>
      BY <2>6 DEF RecentLost, SummaryLost, mysql, locals, answer, history
    <3>2. /\ recent' \in Seq(Nat)
          /\ ToSet(recent) \cup hidden \subseteq ToSet(recent') \cup hidden'
      <4>1. \/ recent' = << >> /\ hidden' = hidden \cup ToSet(recent)
            \/ recent' = recent /\ hidden' = hidden
        BY <2>6 DEF RecentLost, SummaryLost, history
      <4>2. recent \in Seq(Nat) /\ << >> \in Seq(Nat)
        BY DEF Complete, Held
      <4>3. QED BY <4>1, <4>2
    <3>3. Informs
      BY <3>1, <3>2, TaskInforms, Processes DEF Complete, Held
    <3>4. QED BY <3>3
  <2>7. ASSUME UNCHANGED vars PROVE Informs
    <3>1. UNCHANGED <<count, cursor, recent, hidden, pc, mine, after, known, got,
                      prompt, dropped, missed, torn, cut>>
      BY <2>7 DEF vars, mysql, redis, locals, answer, history
    <3>2. QED BY <3>1, TaskInforms, Processes DEF Complete, Held
  <2>8. Informs
    BY <2>1, <2>2, <2>3, <2>4, <2>5, <2>6, <2>7 DEF Next
  <2>9. QED BY <2>0, <2>8 DEF Complete, Informs
<1>3. Complete => ContextIsComplete
  BY DEF Complete, Informed, BuiltFrom, ContextIsComplete
<1>4. QED BY <1>1, <1>2, <1>3, PTL DEF Spec
=============================================================================
