-------------------------- MODULE InterviewRecords --------------------------
(***************************************************************************)
(* What remains of an answered question, for ONE interview: the turn log   *)
(* in Redis with its repair queue, the archive and the hot snapshot in     *)
(* MySQL, and the rebuild of the flow when Redis has lost it.              *)
(*                                                                         *)
(* A call is an answer and its request id, numbered in the order in which  *)
(* calls start; AnswerPipeline models what it does before the turn log,    *)
(* here it is the step Move.  The flow is the number of answers it has     *)
(* taken.  The refresh of the snapshot runs in a goroutine of its own      *)
(* after the call has returned.                                            *)
(*                                                                         *)
(* Bounds: MaxFailures (failing commands and crashes, those of the repair  *)
(* worker's appends not counted) and MaxLosses in a behaviour.             *)
(***************************************************************************)
EXTENDS Integers, Sequences

CONSTANTS
  Calls,               \* how many answers
  Worker,              \* instances of the repair service
  MaxRetry,            \* turnRepairMaxRetry
  CASRetries,          \* casMaxRetries
  RecentTurnLimit,     \* HotSnapshotRecentTurnLimit
  Overlap,             \* FALSE: a call starts only when no other call is under way
  MaxFailures, MaxLosses,
  None

Call == 1 .. Calls

ASSUME RecordsBounds ==
  /\ Calls \in Nat
  /\ MaxRetry \in Nat \ {0} /\ CASRetries \in Nat \ {0} /\ RecentTurnLimit \in Nat \ {0}
  /\ Overlap \in BOOLEAN
  /\ MaxFailures \in Nat /\ MaxLosses \in Nat
  /\ Call \cap Worker = {}
  /\ None \notin Call \cup Worker

\* What the repair queue holds, and a snapshot.
RepairItem == [turn : Call, retry : Nat]
HotSnapshot == [version : Nat, flow : Nat, last : Call, turns : Seq(Call), watermark : Nat]

ASSUME NoneIsFresh == None \notin Nat /\ None \notin RepairItem /\ None \notin HotSnapshot

VARIABLES
  flow,       \* Redis: answers taken so far; None when the hash is gone
  marked,     \* Redis: turnRequestKey, the request ids of logged turns
  logged,     \* Redis: how often a turn is in the list of turns
  queue,      \* Redis: the repair queue; pushed at its head, popped at its end
  hot,        \* MySQL: the hot snapshot, or None
  archive,    \* MySQL: a turn's seq in the archive, 0 for none
  lastSeq,    \* MySQL: session_sequences
  pc,         \* where a call is in Execute, a worker in processBatch
  hand,       \* the item of the repair queue, or the turn, a process is appending
  kept,       \* a worker's retryItems
  todo,       \* archived turns a call has yet to restore
  at,         \* the flow a call answers (Execute's flow)
  rpc,        \* where the refresh after a call is
  latest,     \* a refresh's latestFlow
  base,       \* a refresh's snapshot as found
  seq,        \* a refresh's archiveWatermark
  attempt,    \* a refresh's attempt
  failures, losses,   \* how many so far
  shaken,     \* history: calls whose flow was lost before their refresh had read it
  missed,     \* history: turns not archived when a snapshot last took them in
  gone,       \* history: turns the log has given up, or lost with its keys
  crossed     \* history: an upsert, meant for the first snapshot, has replaced another

redis   == <<flow, marked, logged, queue>>
mysql   == <<hot, archive, lastSeq>>
process == <<hand, kept, todo, at>>
refresh == <<rpc, latest, base, seq, attempt>>
bounds  == <<failures, losses>>
history == <<shaken, missed, gone, crossed>>
vars    == <<redis, mysql, pc, process, refresh, bounds, history>>

Process == Call \cup Worker
Resting == {"idle", "done", "crashed"}
Appending == {"mark", "push", "enqueue"}

Init ==
  /\ flow = 0 /\ marked = {} /\ logged = [t \in Call |-> 0] /\ queue = << >>
  /\ hot = None /\ archive = [t \in Call |-> 0] /\ lastSeq = 0
  /\ pc = [p \in Process |-> "idle"]
  /\ hand = [p \in Process |-> None]
  /\ kept = [w \in Worker |-> << >>]
  /\ todo = [c \in Call |-> {}]
  /\ at = [c \in Call |-> 0]
  /\ rpc = [c \in Call |-> "none"]
  /\ latest = [c \in Call |-> 0] /\ base = [c \in Call |-> None]
  /\ seq = [c \in Call |-> 0] /\ attempt = [c \in Call |-> 0]
  /\ failures = 0 /\ losses = 0
  /\ shaken = {} /\ missed = {} /\ gone = {} /\ crossed = FALSE

Goto(p, label) == pc' = [pc EXCEPT ![p] = label]
RefreshGoto(c, label) == rpc' = [rpc EXCEPT ![c] = label]

\* The refresh returns; its locals are forgotten.
EndRefresh(c) ==
  /\ RefreshGoto(c, "end")
  /\ latest' = [latest EXCEPT ![c] = 0] /\ base' = [base EXCEPT ![c] = None]
  /\ seq' = [seq EXCEPT ![c] = 0] /\ attempt' = [attempt EXCEPT ![c] = 0]

Take(p, item) == hand' = [hand EXCEPT ![p] = item]
Item(t, n) == [turn |-> t, retry |-> n]

\* A command fails; the failing appends of the repair worker are not counted.
Fail == failures < MaxFailures /\ failures' = failures + 1 /\ UNCHANGED losses
Fault(p) == IF p \in Worker THEN UNCHANGED bounds ELSE Fail

-----------------------------------------------------------------------------
(* An answer: EnsureRuntime, the move, the turn log. *)

MayStart(c) ==
  /\ pc[c] = "idle"
  /\ \A d \in Call : d < c => pc[d] # "idle"
  /\ Overlap \/ \A d \in Call : pc[d] \in Resting

\* Variant: the snapshot is preferred to the flow in Redis.
Start_PrefersSnapshot(c) ==
  /\ MayStart(c)
  /\ IF flow = None \/ hot # None
     THEN Goto(c, "find") /\ UNCHANGED at
     ELSE Goto(c, "move") /\ at' = [at EXCEPT ![c] = flow]
  /\ UNCHANGED <<redis, mysql, hand, kept, todo, refresh, bounds, history>>

\* EnsureRuntime's GetFlow.
Start(c) ==
  /\ MayStart(c)
  /\ IF flow = None
     THEN Goto(c, "find") /\ UNCHANGED at
     ELSE Goto(c, "move") /\ at' = [at EXCEPT ![c] = flow]
  /\ UNCHANGED <<redis, mysql, hand, kept, todo, refresh, bounds, history>>

\* The next archived turn by seq, or the end: EnsureRuntime has no flow to return.
RestoreNext(c, rest) ==
  IF rest = {}
  THEN Goto(c, "done") /\ Take(c, None) /\ todo' = [todo EXCEPT ![c] = {}]
  ELSE \E t \in rest :
         /\ \A u \in rest : archive[t] <= archive[u]
         /\ Goto(c, "mark") /\ Take(c, Item(t, 0)) /\ todo' = [todo EXCEPT ![c] = rest \ {t}]

\* EnsureRuntime's FindHotSnapshot; without one, or when it fails, the turns are restored
\* from the archive.
FindForRebuild(c) ==
  /\ pc[c] = "find"
  /\ \/ /\ hot # None
        /\ at' = [at EXCEPT ![c] = hot.flow]
        /\ Goto(c, "save")
        /\ UNCHANGED <<hand, todo, bounds>>
     \/ /\ (hot = None /\ UNCHANGED bounds) \/ Fail
        /\ RestoreNext(c, {t \in Call : archive[t] > 0})
        /\ UNCHANGED at
  /\ UNCHANGED <<redis, mysql, kept, refresh, history>>

\* SaveFlow: no compare-and-set.
SaveFlow(c) ==
  /\ pc[c] = "save"
  /\ flow' = at[c]
  /\ Goto(c, "move")
  /\ UNCHANGED <<marked, logged, queue, mysql, process, refresh, bounds, history>>

\* Steps 4 to 8 of Execute: the flow moves on by one if it is still where the call saw it.
Move(c) ==
  /\ pc[c] = "move"
  /\ IF flow = at[c]
     THEN flow' = flow + 1 /\ Goto(c, "mark") /\ Take(c, Item(c, 0))
     ELSE Goto(c, "done") /\ UNCHANGED <<flow, hand>>
  /\ UNCHANGED <<marked, logged, queue, mysql, kept, todo, at, refresh, bounds, history>>

-----------------------------------------------------------------------------
(* AppendTurnIfAbsent, by an answer, a rebuild or the repair worker. *)

Restoring(p) == p \in Call /\ hand[p].turn # p

\* The call returns and its refresh starts.
Return(c) ==
  /\ Goto(c, "done") /\ Take(c, None) /\ RefreshGoto(c, "read")
  /\ UNCHANGED <<kept, todo, gone>>

\* The append reports no error.
Appended(p) ==
  IF p \in Worker
  THEN Goto(p, "pop") /\ Take(p, None) /\ UNCHANGED <<kept, todo, rpc, gone>>
  ELSE IF Restoring(p)
  THEN RestoreNext(p, todo[p]) /\ UNCHANGED <<kept, rpc, gone>>
  ELSE Return(p)

\* Variant: a failed attempt is not counted.
Retry_NotCounted(w) == [hand[w] EXCEPT !.retry = @]

\* item.Retry++
Retry(w) == [hand[w] EXCEPT !.retry = @ + 1]

\* Variant: a failed item is not collected for the next round.
KeepForRetry_Forgets(w) ==
  /\ Goto(w, "pop") /\ Take(w, None)
  /\ IF Retry(w).retry >= MaxRetry THEN gone' = gone \cup {hand[w].turn} ELSE UNCHANGED gone
  /\ UNCHANGED <<kept, todo, rpc>>

\* The repair worker keeps a failed item for the next round, or drops it.
KeepForRetry(w) ==
  /\ Goto(w, "pop") /\ Take(w, None)
  /\ IF Retry(w).retry >= MaxRetry
     THEN gone' = gone \cup {hand[w].turn} /\ UNCHANGED kept
     ELSE kept' = [kept EXCEPT ![w] = Append(@, Retry(w))] /\ UNCHANGED gone
  /\ UNCHANGED <<todo, rpc>>

\* The append reports an error: retried, queued, or, in a rebuild, ignored.
AppendFailed(p) ==
  IF p \in Worker
  THEN KeepForRetry(p)
  ELSE IF Restoring(p)
  THEN RestoreNext(p, todo[p]) /\ UNCHANGED <<kept, rpc, gone>>
  ELSE Goto(p, "enqueue") /\ UNCHANGED <<hand, kept, todo, rpc, gone>>

\* Variant: the request id is not looked at.
AlreadyThere_Never(t) == FALSE

\* SADD adds nothing: the turn is taken for logged.
AlreadyThere(t) == t \in marked

\* SADD turnRequestKey; one that fails may have been executed.
Mark(p) ==
  /\ pc[p] = "mark"
  /\ LET t == hand[p].turn IN
     \/ /\ AlreadyThere(t)
        /\ Appended(p) /\ UNCHANGED <<marked, bounds>>
     \/ /\ ~ AlreadyThere(t)
        /\ marked' = marked \cup {t}
        /\ Goto(p, "push") /\ UNCHANGED <<hand, kept, todo, rpc, gone, bounds>>
     \/ /\ Fault(p)
        /\ marked' \in {marked, marked \cup {t}}
        /\ AppendFailed(p)
  /\ UNCHANGED <<flow, logged, queue, mysql, at, latest, base, seq, attempt, shaken, missed, crossed>>

\* RPUSH of the turn; one that fails may have been executed.
Push(p) ==
  /\ pc[p] = "push"
  /\ LET t == hand[p].turn
         more == [logged EXCEPT ![t] = @ + 1] IN
     \/ logged' = more /\ Appended(p) /\ UNCHANGED bounds
     \/ logged' \in {logged, more} /\ Fault(p) /\ AppendFailed(p)
  /\ UNCHANGED <<flow, marked, queue, mysql, at, latest, base, seq, attempt, shaken, missed, crossed>>

-----------------------------------------------------------------------------
(* TurnRepairService *)

\* Enqueue: LPUSH.
Enqueue(c) ==
  /\ pc[c] = "enqueue"
  /\ Goto(c, "done") /\ Take(c, None) /\ RefreshGoto(c, "read")
  /\ \/ queue' = <<hand[c]>> \o queue /\ UNCHANGED <<gone, bounds>>
     \/ Fail /\ gone' = gone \cup {c} /\ UNCHANGED queue
  /\ UNCHANGED <<flow, marked, logged, mysql, kept, todo, at, latest, base, seq, attempt,
                 shaken, missed, crossed>>

\* RPOP: at a tick of the loop, and until the queue is empty.
Pop(w) ==
  /\ pc[w] = "pop" \/ (pc[w] = "idle" /\ queue # << >>)
  /\ IF queue = << >>
     THEN Goto(w, IF kept[w] = << >> THEN "idle" ELSE "requeue") /\ UNCHANGED <<queue, hand>>
     ELSE /\ Take(w, queue[Len(queue)])
          /\ queue' = SubSeq(queue, 1, Len(queue) - 1)
          /\ Goto(w, "mark")
  /\ UNCHANGED <<flow, marked, logged, mysql, kept, todo, at, refresh, bounds, history>>

\* The items of this round that failed go back, one LPUSH each.
Requeue(w) ==
  /\ pc[w] = "requeue"
  /\ kept' = [kept EXCEPT ![w] = Tail(@)]
  /\ Goto(w, IF Len(kept[w]) > 1 THEN "requeue" ELSE "idle")
  /\ \/ queue' = <<Head(kept[w])>> \o queue /\ UNCHANGED <<gone, bounds>>
     \/ Fail /\ gone' = gone \cup {Head(kept[w]).turn} /\ UNCHANGED queue
  /\ UNCHANGED <<flow, marked, logged, mysql, hand, todo, at, refresh, shaken, missed, crossed>>

-----------------------------------------------------------------------------
(* RefreshAfterAnswerCommitted *)

\* Variant: the refresh uses the flow the call had seen.
ReadLatest_Captured(c) ==
  /\ rpc[c] = "read"
  /\ latest' = [latest EXCEPT ![c] = at[c]]
  /\ RefreshGoto(c, "find")
  /\ UNCHANGED <<redis, mysql, pc, process, base, seq, attempt, bounds, history>>

\* GetFlow; when the flow is gone, the one the call had seen.
ReadLatest(c) ==
  /\ rpc[c] = "read"
  /\ latest' = [latest EXCEPT ![c] = IF flow = None THEN at[c] ELSE flow]
  /\ RefreshGoto(c, "find")
  /\ UNCHANGED <<redis, mysql, pc, process, base, seq, attempt, bounds, history>>

\* FindHotSnapshot; a failing read ends the refresh, and so does a snapshot that this
\* request wrote.
FindForRefresh(c) ==
  /\ rpc[c] = "find"
  /\ \/ /\ IF hot # None /\ hot.last = c
           THEN EndRefresh(c)
           ELSE /\ base' = [base EXCEPT ![c] = hot]
                /\ RefreshGoto(c, "archive")
                /\ UNCHANGED <<latest, seq, attempt>>
        /\ UNCHANGED bounds
     \/ Fail /\ EndRefresh(c)
  /\ UNCHANGED <<redis, mysql, pc, process, history>>

\* ArchiveTurn: the row of this request, or a new one with the next seq.  A failure may
\* leave a gap in the seqs; the snapshot is written all the same.
ArchiveTurn(c) ==
  /\ rpc[c] = "archive"
  /\ RefreshGoto(c, "write")
  /\ \/ /\ IF archive[c] > 0
           THEN UNCHANGED <<archive, lastSeq>> /\ seq' = [seq EXCEPT ![c] = archive[c]]
           ELSE /\ lastSeq' = lastSeq + 1
                /\ archive' = [archive EXCEPT ![c] = lastSeq + 1]
                /\ seq' = [seq EXCEPT ![c] = lastSeq + 1]
        /\ UNCHANGED bounds
     \/ /\ Fail
        /\ seq' = [seq EXCEPT ![c] = 0]
        /\ lastSeq' \in {lastSeq, lastSeq + 1}
        /\ UNCHANGED archive
  /\ UNCHANGED <<redis, hot, pc, process, latest, base, attempt, history>>

\* The last n elements of s.
KeepLast(s, n) == IF Len(s) > n THEN SubSeq(s, Len(s) - n + 1, Len(s)) ELSE s

\* Variant: the watermark is overwritten when archiving failed.
Watermark_Reset(c) == seq[c]

\* A failed archiving keeps the watermark there was.
Watermark(c) == IF seq[c] > 0 THEN seq[c] ELSE IF base[c] = None THEN 0 ELSE base[c].watermark

\* buildHotSnapshot
BuildHotSnapshot(c) ==
  [ version   |-> IF base[c] = None THEN 1 ELSE base[c].version + 1,
    flow      |-> latest[c],
    last      |-> c,
    turns     |-> KeepLast(Append(IF base[c] = None THEN << >> ELSE base[c].turns, c),
                           RecentTurnLimit),
    watermark |-> Watermark(c) ]

\* Variant: the version is not compared.
Writable_Always(c) == TRUE

\* The first snapshot is upserted; later ones are compared and set.
Writable(c) == IF base[c] = None THEN TRUE ELSE hot.version = base[c].version

\* A write that is refused or fails is tried again, from FindHotSnapshot on.
TryAgain(c) ==
  IF attempt[c] + 1 < CASRetries
  THEN /\ attempt' = [attempt EXCEPT ![c] = @ + 1]
       /\ RefreshGoto(c, "find")
       /\ UNCHANGED <<latest, base, seq>>
  ELSE EndRefresh(c)

\* UpsertHotSnapshot or CompareAndSetHotSnapshot; one that fails may have been executed.
WriteHotSnapshot(c) ==
  /\ rpc[c] = "write"
  /\ \/ Writable(c) /\ hot' = BuildHotSnapshot(c) /\ EndRefresh(c) /\ UNCHANGED bounds
     \/ ~ Writable(c) /\ TryAgain(c) /\ UNCHANGED <<hot, bounds>>
     \/ /\ Fail /\ TryAgain(c)
        /\ hot' \in {hot} \cup (IF Writable(c) THEN {BuildHotSnapshot(c)} ELSE {})
  /\ crossed' = (crossed \/ (base[c] = None /\ hot # None /\ hot' # hot))
  /\ missed' = IF hot' = hot THEN missed ELSE IF seq[c] > 0 THEN missed \ {c} ELSE missed \cup {c}
  /\ UNCHANGED <<redis, archive, lastSeq, pc, process, shaken, gone>>

-----------------------------------------------------------------------------
(* Crashes, and what Redis loses. *)

\* A call, or the refresh after it, stops where it is.
Crash(c) ==
  /\ Fail
  /\ \/ pc[c] \notin Resting /\ Goto(c, "crashed") /\ UNCHANGED refresh
     \/ rpc[c] \notin {"none", "end"} /\ EndRefresh(c) /\ UNCHANGED pc
  /\ UNCHANGED <<redis, mysql, process, history>>

\* The items in a worker's memory.
Held(w) ==
  {kept[w][i].turn : i \in DOMAIN kept[w]} \cup (IF hand[w] = None THEN {} ELSE {hand[w].turn})

\* A worker's instance stops and is started again: what it had popped is lost.
WorkerCrash(w) ==
  /\ pc[w] # "idle"
  /\ Fail
  /\ Goto(w, "idle") /\ Take(w, None) /\ kept' = [kept EXCEPT ![w] = << >>]
  /\ gone' = gone \cup Held(w)
  /\ UNCHANGED <<redis, mysql, todo, at, refresh, shaken, missed, crossed>>

\* Calls that have moved the flow and whose refresh has yet to read it.
Unread == {c \in Call : pc[c] \in Appending \/ rpc[c] = "read"}

\* The flow's hash expires or is evicted.
FlowLost ==
  /\ flow # None
  /\ losses < MaxLosses
  /\ losses' = losses + 1 /\ UNCHANGED failures
  /\ flow' = None
  /\ shaken' = shaken \cup Unread
  /\ UNCHANGED <<marked, logged, queue, mysql, pc, process, refresh, missed, gone, crossed>>

\* The set and the list expire, 24 h after the last append.
LogExpires ==
  /\ flow = None /\ marked # {}
  /\ \A p \in Process : pc[p] # "push"
  /\ marked' = {} /\ logged' = [t \in Call |-> 0]
  /\ gone' = gone \cup marked
  /\ UNCHANGED <<flow, queue, mysql, pc, process, refresh, bounds, shaken, missed, crossed>>

-----------------------------------------------------------------------------
CallStep(c) ==
  \/ Start(c) \/ FindForRebuild(c) \/ SaveFlow(c) \/ Move(c) \/ Mark(c) \/ Push(c)
  \/ Enqueue(c) \/ Crash(c)

RefreshStep(c) ==
  ReadLatest(c) \/ FindForRefresh(c) \/ ArchiveTurn(c) \/ WriteHotSnapshot(c)

RepairStep(w) == Pop(w) \/ Mark(w) \/ Push(w) \/ Requeue(w)

Next ==
  \/ \E c \in Call : CallStep(c) \/ RefreshStep(c)
  \/ \E w \in Worker : RepairStep(w) \/ WorkerCrash(w)
  \/ FlowLost \/ LogExpires

Spec == Init /\ [][Next]_vars

\* The ticker of every instance keeps running.
Fairness == \A w \in Worker : WF_vars(RepairStep(w))

FairSpec == Spec /\ Fairness

-----------------------------------------------------------------------------
(* Properties. *)

Label == {"idle", "find", "save", "move", "mark", "push", "enqueue", "done", "crashed",
          "pop", "requeue"}

RedisTyped ==
  /\ flow \in Nat \cup {None}
  /\ marked \subseteq Call
  /\ logged \in [Call -> Nat]
  /\ queue \in Seq(RepairItem)

MySQLTyped ==
  /\ hot \in HotSnapshot \cup {None}
  /\ archive \in [Call -> Nat] /\ lastSeq \in Nat

\* Whoever is appending a turn has one in hand, a requeueing worker has kept one.
ProcessTyped ==
  /\ pc \in [Process -> Label]
  /\ hand \in [Process -> RepairItem \cup {None}]
  /\ \A p \in Process : pc[p] \in Appending => hand[p] \in RepairItem
  /\ kept \in [Worker -> Seq(RepairItem)]
  /\ \A w \in Worker : pc[w] = "requeue" => kept[w] # << >>
  /\ todo \in [Call -> SUBSET Call]
  /\ at \in [Call -> Nat]

RefreshTyped ==
  /\ rpc \in [Call -> {"none", "read", "find", "archive", "write", "end"}]
  /\ latest \in [Call -> Nat]
  /\ base \in [Call -> HotSnapshot \cup {None}]
  /\ seq \in [Call -> Nat] /\ attempt \in [Call -> Nat]

HistoryTyped ==
  /\ failures \in Nat /\ losses \in Nat
  /\ shaken \subseteq Call /\ missed \subseteq Call /\ gone \subseteq Call
  /\ crossed \in BOOLEAN

\* Every variable keeps its type, in Redis, in MySQL, and in the memory of every process.
TypeOK == RedisTyped /\ MySQLTyped /\ ProcessTyped /\ RefreshTyped /\ HistoryTyped

\* Whoever appends a turn, and however often it is retried, restored or left half done,
\* the log holds it at most once.
LoggedOnce == \A t \in Call : logged[t] <= 1

Queued(t) == \E i \in DOMAIN queue : queue[i].turn = t

\* A turn is in the queue or in a repair worker's memory.
UnderRepair(t) == Queued(t) \/ \E w \in Worker : t \in Held(w)

\* A call has moved the flow and reached the end of its append.
Answered(c) == pc[c] = "done" /\ rpc[c] # "none"

\* An answered turn whose request id is not in the set is under repair, until the retries
\* are exhausted, a push to the queue fails or a worker dies with it: no other path
\* through the queue loses it.
UnmarkedTurnIsRepaired ==
  \A c \in Call : Answered(c) /\ c \notin marked \cup gone => UnderRepair(c)

\* "When writing the turn log fails, it goes to a queue and is retried up to 6 times"
\* (header of TurnRepairService): an answered turn is in the log, or under repair, or
\* given up for one of the reasons above.
FailedWriteIsRepaired ==
  \A c \in Call : Answered(c) /\ logged[c] = 0 /\ c \notin gone => UnderRepair(c)

\* The repair of a turn comes to an end, even if every append fails.
RepairEnds == \A t \in Call : UnderRepair(t) ~> ~ UnderRepair(t)

\* Once there is a snapshot, a compare-and-set adds a turn to the turns it finds and
\* drops none but the oldest: no refresh works on an old snapshot, as long as no two
\* refreshes have met over the first one.
NoTurnOverwritten ==
  [][hot # None /\ hot' # hot /\ ~ crossed' =>
       hot'.turns = KeepLast(Append(hot.turns, hot'.last), RecentTurnLimit)]_vars

\* The archive is ahead of the snapshot: its turns are archived, and the watermark is the seq
\* of the newest, turns left out whose archiving failed.  (A write that was executed and
\* reported failed may put a turn in twice; refreshes that met over the first snapshot may
\* have lost a turn.)
ArchiveBacksSnapshot ==
  hot # None =>
    LET known == {i \in DOMAIN hot.turns : hot.turns[i] \notin missed}
        distinct == \A i, j \in DOMAIN hot.turns : hot.turns[i] = hot.turns[j] => i = j IN
    \A i \in known :
      /\ archive[hot.turns[i]] \in 1 .. lastSeq
      /\ distinct /\ ~ crossed /\ (\A j \in known : j <= i) => hot.watermark = archive[hot.turns[i]]

\* A snapshot written after an answer holds the flow at or past that answer, unless Redis
\* lost the flow before the refresh had read it.
SnapshotCoversItsAnswer ==
  hot # None /\ hot.last \notin shaken => hot.flow > at[hot.last]

\* As long as Redis has the flow, it never goes back: a rebuild does not overwrite
\* answers taken since ("leader/follower, double check", runtime governance 3.3).
RebuildKeepsProgress ==
  [][flow # None /\ flow' # None => flow' >= flow]_vars
=============================================================================
