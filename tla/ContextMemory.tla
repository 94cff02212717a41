---------------------------- MODULE ContextMemory ----------------------------
(***************************************************************************)
(* The memory of ONE agent session: messages and the compressed summary in *)
(* MySQL, the list of recent messages and a copy of the summary in Redis,  *)
(* read and written by runs, by the compression and by the consolidation   *)
(* of the user's profile, which reads the same list.                       *)
(*                                                                         *)
(* A message is its sequence number and costs one token.  A summary is the *)
(* set of messages it was made from, with the boundary stored beside it.   *)
(* Compression and consolidation go through the single-flight (module      *)
(* SingleFlight): at most one of each is under way, others wait for it.    *)
(*                                                                         *)
(* Bounds: MaxFailures (failing commands and operations) and MaxLosses     *)
(* (Redis losing its keys) in a behaviour.                                 *)
(***************************************************************************)
EXTENDS Integers, Sequences, SequencesExt

CONSTANTS
  Runs,                \* how many runs
  Compression, Consolidation,   \* the two background tasks
  Threshold,           \* CompressThresholdTokens
  MinKeep,             \* minKeepRecentTokens
  InputMax,            \* compressionInputMaxTokens
  RecentMax,           \* RecentMaxTokens
  PromptBudget,        \* PromptBudgetTokens
  Prefix,              \* tokens of the identity and the user's profile
  SummarySize,         \* tokens of a summary
  Overlap,             \* FALSE: a run starts only when no other run is under way
  MaxFailures, MaxLosses,
  None

Run == 1 .. Runs

ASSUME MemoryBounds ==
  /\ Runs \in Nat
  /\ {Threshold, MinKeep, InputMax, RecentMax} \subseteq Nat \ {0}
  /\ {PromptBudget, Prefix, SummarySize} \subseteq Nat
  /\ Overlap \in BOOLEAN
  /\ MaxFailures \in Nat /\ MaxLosses \in Nat
  /\ Compression # Consolidation /\ {Compression, Consolidation} \cap Run = {}

VARIABLES
  count,      \* MySQL: messages of the session, numbered from 1
  record,     \* MySQL: the compressed context, what it holds and its boundary
  cursor,     \* MySQL: LastConsolidatedSeq of the profile
  recent,     \* Redis: the list of recent messages, oldest first; << >> when absent
  summary,    \* Redis: copy of the compressed context, or None
  pc,         \* where a process is
  mine,       \* the message a run has saved last
  after,      \* the boundary a process has read
  known,      \* what the summary a process has read holds
  got,        \* the messages a process has read
  prompt,     \* the messages in a run's context
  dropped,    \* the messages a run reports as dropped
  retried,    \* runs that have compressed before they answer
  wanted,     \* compressions and consolidations asked for and not yet begun
  failures, losses,   \* how many so far
  cut,        \* history: messages cut off from the text of a summary
  hidden,     \* history: messages the list lost: not pushed, evicted, overwritten
  missed,     \* history: what the list lacked when a run read it
  torn        \* history: a summary was read together with another one's boundary

mysql   == <<count, record, cursor>>
redis   == <<recent, summary>>
locals  == <<mine, after, known, got>>
answer  == <<prompt, dropped, retried>>
bounds  == <<failures, losses>>
history == <<cut, hidden, missed, torn>>
vars    == <<mysql, redis, pc, locals, answer, wanted, bounds, history>>

Process == Run \cup {Compression, Consolidation}

Empty == [holds |-> {}, index |-> 0]

Init ==
  /\ count = 0 /\ record = Empty /\ cursor = 0
  /\ recent = << >> /\ summary = None
  /\ pc = [p \in Process |-> "idle"]
  /\ mine = [r \in Run |-> 0]
  /\ after = [p \in Process |-> 0]
  /\ known = [p \in Process |-> {}]
  /\ got = [p \in Process |-> << >>]
  /\ prompt = [r \in Run |-> {}] /\ dropped = [r \in Run |-> {}]
  /\ retried = {}
  /\ wanted = [t \in {Compression, Consolidation} |-> 0]
  /\ failures = 0 /\ losses = 0
  /\ cut = {} /\ hidden = {} /\ missed = [r \in Run |-> {}] /\ torn = FALSE

Goto(p, label) == pc' = [pc EXCEPT ![p] = label]

\* A background task has returned; its locals are forgotten.
Return(p) ==
  /\ Goto(p, "idle")
  /\ after' = [after EXCEPT ![p] = 0] /\ known' = [known EXCEPT ![p] = {}]
  /\ got' = [got EXCEPT ![p] = << >>]

Fail == failures < MaxFailures /\ failures' = failures + 1 /\ UNCHANGED losses

\* The messages from one sequence number to another, oldest first.
Numbers(from, to) == [i \in 1 .. to - from + 1 |-> from + i - 1]

-----------------------------------------------------------------------------
(* A run saves a message: execute, saveMessage. *)

MayStart(r) ==
  /\ pc[r] = "idle"
  /\ \A q \in Run : q < r => pc[q] # "idle"
  /\ Overlap \/ \A q \in Run : pc[q] \in {"idle", "done"}

\* CreateMessage: the message and its number in one transaction.
CreateMessage(r) ==
  /\ MayStart(r) \/ pc[r] = "reply"
  /\ count' = count + 1
  /\ mine' = [mine EXCEPT ![r] = count + 1]
  /\ Goto(r, IF pc[r] = "idle" THEN "push" ELSE "pushReply")
  /\ UNCHANGED <<record, cursor, redis, after, known, got, answer, wanted, bounds, history>>

\* Variant: the list is trimmed to the newest two messages, covered by the summary or not.
WithMessage_Trimmed(m) == IF Len(recent) > 1 THEN <<Last(recent), m>> ELSE Append(recent, m)

\* LPUSH without LTRIM.
WithMessage(m) == Append(recent, m)

\* PushRecentMessage; a failure is only logged.  After the reply: CompressAsync and
\* ConsolidateAsync.
PushRecentMessage(r) ==
  /\ pc[r] \in {"push", "pushReply"}
  /\ \/ recent' = WithMessage(mine[r]) /\ UNCHANGED <<hidden, bounds>>
     \/ Fail /\ hidden' = hidden \cup {mine[r]} /\ UNCHANGED recent
  /\ IF pc[r] = "push"
     THEN Goto(r, "summary") /\ UNCHANGED <<mine, wanted>>
     ELSE /\ Goto(r, "done") /\ mine' = [mine EXCEPT ![r] = 0]
          /\ wanted' = [t \in DOMAIN wanted |-> wanted[t] + 1]
  /\ UNCHANGED <<mysql, summary, after, known, got, answer, cut, missed, torn>>

-----------------------------------------------------------------------------
(* LoadSummary: the two keys in Redis, one after the other, else MySQL. *)

AfterSummary(p) == IF p = Compression THEN "list" ELSE "recent"

GetSummary(p) ==
  /\ pc[p] = "summary"
  /\ \/ /\ summary # None
        /\ known' = [known EXCEPT ![p] = summary.holds]
        /\ after' = [after EXCEPT ![p] = summary.index]
        /\ Goto(p, "index") /\ UNCHANGED bounds
     \/ /\ (summary = None /\ UNCHANGED bounds) \/ Fail
        /\ Goto(p, "find") /\ UNCHANGED <<known, after>>
  /\ UNCHANGED <<mysql, redis, mine, got, answer, wanted, history>>

\* The boundary; "torn" remembers when it is not the one of the summary just read.
GetIndex(p) ==
  /\ pc[p] = "index"
  /\ \/ /\ summary # None
        /\ after' = [after EXCEPT ![p] = summary.index]
        /\ torn' = (torn \/ summary.index # after[p])
        /\ Goto(p, AfterSummary(p)) /\ UNCHANGED bounds
     \/ /\ (summary = None /\ UNCHANGED bounds) \/ Fail
        /\ Goto(p, "find") /\ UNCHANGED <<after, torn>>
  /\ UNCHANGED <<mysql, redis, mine, known, got, answer, wanted, cut, hidden, missed>>

\* FindCompressedContext; when it fails, as if there were no summary.
FindCompressedContext(p) ==
  /\ pc[p] = "find"
  /\ \E found \in {record, Empty} :
       /\ (found = record /\ UNCHANGED bounds) \/ (found # record /\ Fail)
       /\ known' = [known EXCEPT ![p] = found.holds]
       /\ after' = [after EXCEPT ![p] = found.index]
       /\ Goto(p, IF found.index > 0 THEN "backfill" ELSE AfterSummary(p))
  /\ UNCHANGED <<mysql, redis, mine, got, answer, wanted, history>>

\* SetCompressedSummary, after a miss or a compression; a failure is only logged.
SetCompressedSummary(p) ==
  /\ pc[p] \in {"backfill", "store"}
  /\ \/ summary' = [holds |-> known[p], index |-> after[p]] /\ UNCHANGED bounds
     \/ Fail /\ UNCHANGED summary
  /\ Goto(p, IF pc[p] = "store" THEN "rebuild" ELSE AfterSummary(p))
  /\ UNCHANGED <<mysql, recent, locals, answer, wanted, history>>

-----------------------------------------------------------------------------
(* LoadRecentMessagesAfter: the list in Redis, else MySQL and a rebuild. *)

AfterRecent(p) == IF p \in Run THEN "assemble" ELSE "extract"

\* Messages that are in MySQL and not in the list yet.
OnTheWay == {mine[r] : r \in {q \in Run : pc[q] \in {"push", "pushReply"}}}

\* The messages of a list that are past a boundary, in their order.
Past(s, boundary) ==
  LET first[i \in 0 .. Len(s)] ==   \* those among the first i
        IF i = 0 THEN << >>
        ELSE IF s[i] > boundary THEN Append(first[i - 1], s[i]) ELSE first[i - 1]
  IN  first[Len(s)]

\* GetRecentMessages: the list is used if anything in it is past the boundary.
GetRecentMessages(p) ==
  /\ pc[p] = "recent"
  /\ LET filtered == Past(recent, after[p]) IN
     \/ /\ filtered # << >>
        /\ got' = [got EXCEPT ![p] = filtered]
        /\ Goto(p, AfterRecent(p)) /\ UNCHANGED bounds
     \/ /\ (filtered = << >> /\ UNCHANGED bounds) \/ Fail
        /\ Goto(p, "messages") /\ UNCHANGED got
  /\ IF p \in Run
     THEN missed' = [missed EXCEPT ![p] = hidden \cup OnTheWay]
     ELSE UNCHANGED missed
  /\ UNCHANGED <<mysql, redis, mine, after, known, answer, wanted, cut, hidden, torn>>

\* ListRecentMessagesAfter; its limit of 500 is not reached.
ListRecentMessagesAfter(p) ==
  /\ pc[p] = "messages"
  /\ got' = [got EXCEPT ![p] = Numbers(after[p] + 1, count)]
  /\ Goto(p, IF count > after[p] THEN "rebuild" ELSE AfterRecent(p))
  /\ UNCHANGED <<mysql, redis, mine, after, known, answer, wanted, bounds, history>>

\* RebuildRecentMessages replaces the list by the messages read before; a failure is
\* only logged.  Whatever the list had besides is no longer in it.
RebuildRecentMessages(p) ==
  /\ pc[p] = "rebuild"
  /\ \/ /\ recent' = got[p]
        /\ hidden' = (hidden \cup ToSet(recent)) \ ToSet(got[p])
        /\ UNCHANGED bounds
     \/ Fail /\ UNCHANGED <<recent, hidden>>
  /\ IF p = Compression
     THEN Return(p)
     ELSE Goto(p, AfterRecent(p)) /\ UNCHANGED <<after, known, got>>
  /\ UNCHANGED <<mysql, summary, mine, answer, wanted, cut, missed, torn>>

-----------------------------------------------------------------------------
(* A run's context: Assembler.Build, the compression before it, the answer. *)

\* What identity, profile and summary, which come first, leave for messages.
Room(r) ==
  LET used == Prefix + (IF known[r] = {} THEN 0 ELSE SummarySize)
  IN  Max({0, Min({RecentMax, PromptBudget - used})})

\* selectRecentByTokens: the newest that fit.
Picked(s, room) == IF Len(s) > room THEN SubSeq(s, Len(s) - room + 1, Len(s)) ELSE s

\* The list without the run's own message, which the loop gets as its input.
Others(r) == IF got[r] # << >> /\ Last(got[r]) = mine[r] THEN Front(got[r]) ELSE got[r]

\* Messages left out make the run compress once and build its context again.
Assemble(r) ==
  /\ pc[r] = "assemble"
  /\ LET picked == ToSet(Picked(Others(r), Room(r))) IN
     /\ prompt' = [prompt EXCEPT ![r] = known[r] \cup picked \cup {mine[r]}]
     /\ dropped' = [dropped EXCEPT ![r] = ToSet(Others(r)) \ picked]
     /\ Goto(r, IF dropped'[r] # {} /\ r \notin retried THEN "preflight" ELSE "answer")
  /\ UNCHANGED <<mysql, redis, locals, retried, wanted, bounds, history>>

\* CompressIfNeeded: starts the compression, or waits for the one under way.
Preflight(r) ==
  /\ pc[r] = "preflight"
  /\ pc' = [pc EXCEPT ![r] = "wait",
                      ![Compression] = IF @ = "idle" THEN "summary" ELSE @]
  /\ retried' = retried \cup {r}
  /\ UNCHANGED <<mysql, redis, locals, prompt, dropped, wanted, bounds, history>>

\* The compression has ended: the context is built again.
Rebuilt(r) ==
  /\ pc[r] = "wait" /\ pc[Compression] = "idle"
  /\ Goto(r, "summary")
  /\ UNCHANGED <<mysql, redis, locals, answer, wanted, bounds, history>>

\* The compression fails or takes too long: the run goes on with the context it has.
GoOn(r) ==
  /\ pc[r] = "wait"
  /\ Fail
  /\ Goto(r, "answer")
  /\ UNCHANGED <<mysql, redis, locals, answer, wanted, history>>

\* The loop or the plan answers, or fails, and the run with it.  The context is done with.
Answer(r) ==
  /\ pc[r] = "answer"
  /\ Goto(r, "reply") \/ Goto(r, "done")
  /\ mine' = [mine EXCEPT ![r] = 0] /\ after' = [after EXCEPT ![r] = 0]
  /\ known' = [known EXCEPT ![r] = {}] /\ got' = [got EXCEPT ![r] = << >>]
  /\ prompt' = [prompt EXCEPT ![r] = {}] /\ dropped' = [dropped EXCEPT ![r] = {}]
  /\ missed' = [missed EXCEPT ![r] = {}]
  /\ retried' = retried \ {r}
  /\ UNCHANGED <<mysql, redis, wanted, bounds, cut, hidden, torn>>

-----------------------------------------------------------------------------
(* doCompress *)

\* A task asked for starts, or finds one under way and waits for that one's end.
StartTask(t) ==
  /\ wanted[t] > 0
  /\ wanted' = [wanted EXCEPT ![t] = @ - 1]
  /\ \/ /\ pc[t] = "idle"
        /\ Goto(t, IF t = Compression THEN "summary" ELSE "recent")
        /\ after' = [after EXCEPT ![t] = IF t = Compression THEN 0 ELSE cursor]
     \/ pc[t] # "idle" /\ UNCHANGED <<pc, after>>
  /\ UNCHANGED <<mysql, redis, mine, known, got, answer, bounds, history>>

\* splitConversationByTokens: how many of n messages are kept as they are.
Kept(n) == IF n \div 5 < MinKeep THEN MinKeep ELSE n \div 5

\* All but the kept ones, which are the newest.
Old(s) == SubSeq(s, 1, Len(s) - Kept(Len(s)))

\* ListMessagesDesc, of which those past the boundary count.
ListMessages ==
  /\ pc[Compression] = "list"
  /\ LET n == count - after[Compression] IN
     IF n < 2 \/ n < Threshold \/ n <= Kept(n)
     THEN Return(Compression)
     ELSE /\ got' = [got EXCEPT ![Compression] = Numbers(after[Compression] + 1, count)]
          /\ Goto(Compression, "compress") /\ UNCHANGED <<after, known>>
  /\ UNCHANGED <<mysql, redis, mine, answer, wanted, bounds, history>>

\* What the text given to the model holds: the oldest InputMax tokens.
InputText(old) == ToSet(SubSeq(old, 1, IF Len(old) > InputMax THEN InputMax ELSE Len(old)))

\* Variant: the boundary is the newest message, kept ones included.
CoveredThrough_Newest(old) == count

\* oldMessages[0].Sequence, the newest of the old ones.
CoveredThrough(old) == old[Len(old)]

\* callCompressAI: the model merges the text into the summary there is.
Merged(holds, old) == holds \cup InputText(old)

\* fallbackSummary, when the model fails or says nothing: the two, cut after some length.
CutOff(holds, old) == {{m \in Merged(holds, old) : m <= k} : k \in Merged(holds, old)}

\* The summary and its boundary are saved, MySQL first.
SaveSummary ==
  /\ pc[Compression] = "compress"
  /\ LET c == Compression
         old == Old(got[c])
         index == CoveredThrough(old) IN
     \E holds \in {Merged(known[c], old)} \cup CutOff(known[c], old) :
       /\ record' = [holds |-> holds, index |-> index]
       /\ cut' = cut \cup ((known[c] \cup ToSet(old)) \ holds)
       /\ known' = [known EXCEPT ![c] = holds]
       /\ after' = [after EXCEPT ![c] = index]
       /\ got' = [got EXCEPT ![c] = SubSeq(@, Len(old) + 1, Len(@))]
  /\ Goto(Compression, "store")
  /\ UNCHANGED <<count, cursor, redis, mine, answer, wanted, bounds, hidden, missed, torn>>

-----------------------------------------------------------------------------
(* ConsolidateIfNeeded, as far as it touches the session's memory. *)

\* Too little has happened, or the model's answer is of no use: nothing changes.
\* Otherwise the cursor moves to the newest message that was read.
Extract ==
  /\ pc[Consolidation] = "extract"
  /\ LET read == ToSet(got[Consolidation]) IN
     \/ UNCHANGED cursor
     \/ \E m \in read : (\A k \in read : k <= m) /\ m > cursor /\ cursor' = m
  /\ Return(Consolidation)
  /\ UNCHANGED <<count, record, redis, mine, answer, wanted, bounds, history>>

-----------------------------------------------------------------------------
(* Failures. *)

\* A background task ends early: an error, its timeout, or its process stops.
TaskFails(t) ==
  /\ pc[t] # "idle"
  /\ Fail
  /\ Return(t)
  /\ UNCHANGED <<mysql, redis, mine, answer, wanted, history>>

\* The keys expire or are evicted.
RecentLost ==
  /\ recent # << >>
  /\ losses < MaxLosses /\ losses' = losses + 1 /\ UNCHANGED failures
  /\ recent' = << >>
  /\ hidden' = hidden \cup ToSet(recent)
  /\ UNCHANGED <<mysql, summary, pc, locals, answer, wanted, cut, missed, torn>>

SummaryLost ==
  /\ summary # None
  /\ losses < MaxLosses /\ losses' = losses + 1 /\ UNCHANGED failures
  /\ summary' = None
  /\ UNCHANGED <<mysql, recent, pc, locals, answer, wanted, history>>

-----------------------------------------------------------------------------
RunStep(r) ==
  \/ CreateMessage(r) \/ PushRecentMessage(r)
  \/ Assemble(r) \/ Preflight(r) \/ Rebuilt(r) \/ GoOn(r) \/ Answer(r)

TaskStep(t) == StartTask(t) \/ TaskFails(t)

LoadStep(p) ==
  \/ GetSummary(p) \/ GetIndex(p) \/ FindCompressedContext(p) \/ SetCompressedSummary(p)
  \/ GetRecentMessages(p) \/ ListRecentMessagesAfter(p) \/ RebuildRecentMessages(p)

Next ==
  \/ \E r \in Run : RunStep(r)
  \/ \E t \in {Compression, Consolidation} : TaskStep(t)
  \/ \E p \in Process : LoadStep(p)
  \/ ListMessages \/ SaveSummary \/ Extract
  \/ RecentLost \/ SummaryLost

Spec == Init /\ [][Next]_vars

-----------------------------------------------------------------------------
(* Properties. *)

\* "The summary covers the messages up to CoveredThroughSeq" (head of compress.go): the
\* summary in MySQL holds every message up to its boundary, those cut off from its text
\* left out, whatever copies of older summaries the compression started from.
SummaryCoversPrefix ==
  ~ torn => record.index = 0 \/ 1 .. record.index \subseteq record.holds \cup cut

\* A run answers with every message before its own in its context, in the summary or
\* word for word, unless the run has reported it as dropped, or it was not in the cached
\* list when the run read it: lost, not pushed yet, or taken out by a compression.
ContextIsComplete ==
  \A r \in Run :
    pc[r] = "answer" /\ ~ torn =>
      1 .. mine[r] \subseteq prompt[r] \cup dropped[r] \cup missed[r] \cup cut
=============================================================================
