---------------------- MODULE InterviewRecords_proofs -----------------------
(***************************************************************************)
(* Machine-checked facts about InterviewRecords, for every number of       *)
(* answers, repair workers, failures and losses, overlapping or not.       *)
(***************************************************************************)
EXTENDS InterviewRecords, SequenceTheorems, TLAPS

-----------------------------------------------------------------------------
(* What the pieces of a step do to the process that takes it. *)

LEMMA InitTyped == Init => TypeOK
<1> SUFFICES ASSUME Init PROVE TypeOK
  OBVIOUS
<1>1. RedisTyped /\ MySQLTyped
  BY DEF Init, RedisTyped, MySQLTyped
<1>2. ProcessTyped
  <2>1. "idle" \in Label \ Appending /\ \A w \in Worker : w \in Process
    BY DEF Label, Appending, Process
  <2>2. pc \in [Process -> Label] /\ \A p \in Process : pc[p] = "idle"
    BY <2>1 DEF Init
  <2>3. hand \in [Process -> RepairItem \cup {None}]
    BY DEF Init
  <2>4. kept \in [Worker -> Seq(RepairItem)]
    BY DEF Init
  <2>5. todo \in [Call -> SUBSET Call] /\ at \in [Call -> Nat]
    BY DEF Init
  <2>6. QED BY <2>1, <2>2, <2>3, <2>4, <2>5 DEF ProcessTyped
<1>3. RefreshTyped /\ HistoryTyped
  BY DEF Init, RefreshTyped, HistoryTyped
<1>4. QED BY <1>1, <1>2, <1>3 DEF TypeOK

\* A step fails within the bounds, or leaves the counters alone.
LEMMA CountersTyped ==
  ASSUME HistoryTyped, NEW p \in Process, Fail \/ Fault(p) \/ UNCHANGED bounds
  PROVE  failures' \in Nat /\ losses' \in Nat
BY DEF HistoryTyped, Fail, Fault, bounds

\* What a process has in hand while it appends.
LEMMA HandIsItem ==
  ASSUME ProcessTyped, NEW p \in Process, pc[p] \in Appending
  PROVE  hand[p] \in RepairItem /\ hand[p].turn \in Call
BY DEF ProcessTyped, RepairItem

\* Process p has gone to one of the given places, the others stay where they are.
Moves(p, labels) ==
  /\ pc' \in [Process -> Label]
  /\ hand' \in [Process -> RepairItem \cup {None}]
  /\ \A q \in Process : pc'[q] \in Appending => hand'[q] \in RepairItem
  /\ \A q \in Process \ {p} : pc'[q] = pc[q] /\ hand'[q] = hand[q]
  /\ pc'[p] \in labels

LEMMA OwnStep ==
  ASSUME ProcessTyped, NEW p \in Process, NEW label \in Label,
         NEW item \in RepairItem \cup {None},
         label \in Appending => item \in RepairItem,
         Goto(p, label), Take(p, item)
  PROVE  Moves(p, {label}) /\ hand'[p] = item
BY DEF ProcessTyped, Goto, Take, Moves

\* A process goes on with what it has in hand.
LEMMA OwnMove ==
  ASSUME ProcessTyped, NEW p \in Process, NEW label \in Label,
         label \in Appending => hand[p] \in RepairItem,
         Goto(p, label), UNCHANGED hand
  PROVE  Moves(p, {label})
BY DEF ProcessTyped, Goto, Moves

\* After one archived turn, the next: the call is appending again, or done.
LEMMA RestoreNextStep ==
  ASSUME ProcessTyped, NEW c \in Call, NEW rest \in SUBSET Call, RestoreNext(c, rest)
  PROVE  Moves(c, {"mark", "done"}) /\ todo' \in [Call -> SUBSET Call]
<1>1. c \in Process
  BY DEF Process
<1>2. CASE rest = {}
  <2>1. Goto(c, "done") /\ Take(c, None) /\ todo' = [todo EXCEPT ![c] = {}]
    BY <1>2 DEF RestoreNext
  <2>2. "done" \in Label /\ "done" \notin Appending
    BY DEF Label, Appending
  <2>3. Moves(c, {"done"})
    BY <1>1, <2>1, <2>2, OwnStep
  <2>4. todo' \in [Call -> SUBSET Call]
    BY <2>1 DEF ProcessTyped
  <2>5. QED BY <2>3, <2>4 DEF Moves
<1>3. CASE rest # {}
  <2>1. PICK t \in rest :
          Goto(c, "mark") /\ Take(c, Item(t, 0)) /\ todo' = [todo EXCEPT ![c] = rest \ {t}]
    BY <1>3 DEF RestoreNext
  <2>2. Item(t, 0) \in RepairItem /\ "mark" \in Label
    BY DEF Item, RepairItem, Label
  <2>3. Moves(c, {"mark"})
    BY <1>1, <2>1, <2>2, OwnStep
  <2>4. todo' \in [Call -> SUBSET Call]
    BY <2>1 DEF ProcessTyped
  <2>5. QED BY <2>3, <2>4 DEF Moves
<1>4. QED BY <1>2, <1>3

\* Where an append leads, whether or not it reported an error.
After == {"mark", "done", "pop", "enqueue"}

LEMMA AppendedStep ==
  ASSUME ProcessTyped, RefreshTyped, NEW p \in Process, pc[p] \in Appending, Appended(p)
  PROVE  /\ Moves(p, After)
         /\ todo' \in [Call -> SUBSET Call] /\ kept' = kept /\ gone' = gone
         /\ rpc' \in [Call -> {"none", "read", "find", "archive", "write", "end"}]
<1>0. "pop" \in Label \ Appending /\ "done" \in Label \ Appending
  BY DEF Label, Appending
<1>1. CASE p \in Worker
  <2>1. Goto(p, "pop") /\ Take(p, None) /\ UNCHANGED <<kept, todo, rpc, gone>>
    BY <1>1 DEF Appended
  <2>2. Moves(p, {"pop"})
    BY <1>0, <2>1, OwnStep
  <2>3. QED BY <2>1, <2>2 DEF Moves, After, ProcessTyped, RefreshTyped
<1>2. CASE p \notin Worker /\ Restoring(p)
  <2>1. RestoreNext(p, todo[p]) /\ UNCHANGED <<kept, rpc, gone>> /\ p \in Call
    BY <1>2 DEF Appended, Process
  <2>2. Moves(p, {"mark", "done"}) /\ todo' \in [Call -> SUBSET Call]
    BY <2>1, RestoreNextStep DEF ProcessTyped
  <2>3. QED BY <2>1, <2>2 DEF Moves, After, RefreshTyped
<1>3. CASE p \notin Worker /\ ~ Restoring(p)
  <2>1. Return(p) /\ p \in Call
    BY <1>3 DEF Appended, Process
  <2>2. Moves(p, {"done"})
    BY <1>0, <2>1, OwnStep DEF Return
  <2>3. rpc' \in [Call -> {"none", "read", "find", "archive", "write", "end"}]
    BY <2>1 DEF Return, RefreshGoto, RefreshTyped
  <2>4. QED BY <2>1, <2>2, <2>3 DEF Return, Moves, After, ProcessTyped
<1>4. QED BY <1>1, <1>2, <1>3

LEMMA AppendFailedStep ==
  ASSUME ProcessTyped, RefreshTyped, HistoryTyped, NEW p \in Process, pc[p] \in Appending,
         AppendFailed(p)
  PROVE  /\ Moves(p, After)
         /\ todo' \in [Call -> SUBSET Call] /\ kept' \in [Worker -> Seq(RepairItem)]
         /\ \A w \in Worker \ {p} : kept'[w] = kept[w]
         /\ gone' \subseteq Call /\ rpc' = rpc
<1>0. "pop" \in Label \ Appending /\ "enqueue" \in Label
  BY DEF Label, Appending
<1>h. hand[p] \in RepairItem /\ hand[p].turn \in Call
  BY HandIsItem
<1>1. CASE p \in Worker
  <2>1. KeepForRetry(p)
    BY <1>1 DEF AppendFailed
  <2>2. Moves(p, {"pop"})
    BY <1>0, <2>1, OwnStep DEF KeepForRetry
  <2>3. Retry(p) \in RepairItem
    BY <1>h DEF Retry, RepairItem
  <2>4. /\ kept' \in [Worker -> Seq(RepairItem)]
        /\ \A w \in Worker \ {p} : kept'[w] = kept[w]
        /\ gone' \subseteq Call
    <3>1. CASE Retry(p).retry >= MaxRetry
      BY <1>h, <2>1, <3>1 DEF KeepForRetry, ProcessTyped, HistoryTyped
    <3>2. CASE ~ (Retry(p).retry >= MaxRetry)
      <4>1. kept' = [kept EXCEPT ![p] = Append(@, Retry(p))] /\ gone' = gone
        BY <2>1, <3>2 DEF KeepForRetry
      <4>2. Append(kept[p], Retry(p)) \in Seq(RepairItem)
        BY <1>1, <2>3 DEF ProcessTyped
      <4>3. QED BY <4>1, <4>2 DEF ProcessTyped, HistoryTyped
    <3>3. QED BY <3>1, <3>2
  <2>5. QED BY <2>1, <2>2, <2>4 DEF KeepForRetry, Moves, After, ProcessTyped
<1>2. CASE p \notin Worker /\ Restoring(p)
  <2>1. RestoreNext(p, todo[p]) /\ UNCHANGED <<kept, rpc, gone>> /\ p \in Call
    BY <1>2 DEF AppendFailed, Process
  <2>2. Moves(p, {"mark", "done"}) /\ todo' \in [Call -> SUBSET Call]
    BY <2>1, RestoreNextStep DEF ProcessTyped
  <2>3. QED BY <2>1, <2>2 DEF Moves, After, ProcessTyped, HistoryTyped
<1>3. CASE p \notin Worker /\ ~ Restoring(p)
  <2>1. Goto(p, "enqueue") /\ UNCHANGED <<hand, kept, todo, rpc, gone>>
    BY <1>3 DEF AppendFailed
  <2>2. Moves(p, {"enqueue"})
    BY <1>0, <1>h, <2>1, OwnMove
  <2>3. QED BY <2>1, <2>2 DEF Moves, After, ProcessTyped, HistoryTyped
<1>4. QED BY <1>1, <1>2, <1>3

\* A process that moves, and not to "requeue", keeps the types.
LEMMA MovesTyped ==
  ASSUME ProcessTyped, NEW p \in Process, NEW L, Moves(p, L), "requeue" \notin L,
         kept' \in [Worker -> Seq(RepairItem)], \A w \in Worker \ {p} : kept'[w] = kept[w],
         todo' \in [Call -> SUBSET Call], at' \in [Call -> Nat]
  PROVE  ProcessTyped'
BY DEF ProcessTyped, Moves, Process

-----------------------------------------------------------------------------
(* Type correctness, one lemma per action. *)

LEMMA StartTyped == \A c \in Call : TypeOK /\ Start(c) => TypeOK'
<1> SUFFICES ASSUME NEW c \in Call, TypeOK, Start(c) PROVE TypeOK'
  OBVIOUS
<1> USE DEF TypeOK, redis, mysql, refresh, bounds, history
<1>1. {"find", "move"} \subseteq Label \ Appending /\ c \in Process
  BY DEF Label, Appending, Process
<1>2. Moves(c, {"find"}) \/ Moves(c, {"move"})
  BY <1>1, OwnMove DEF Start
<1>3. at' \in [Call -> Nat]
  BY DEF Start, ProcessTyped, RedisTyped
<1>4. kept' = kept /\ todo' = todo
  BY DEF Start
<1>5. ProcessTyped'
  BY <1>1, <1>2, <1>3, <1>4, MovesTyped DEF ProcessTyped
<1>6. RedisTyped' /\ MySQLTyped' /\ RefreshTyped' /\ HistoryTyped'
  BY DEF Start, RedisTyped, MySQLTyped, RefreshTyped, HistoryTyped
<1>7. QED BY <1>5, <1>6

LEMMA FindForRebuildTyped == \A c \in Call : TypeOK /\ FindForRebuild(c) => TypeOK'
<1> SUFFICES ASSUME NEW c \in Call, TypeOK, FindForRebuild(c) PROVE TypeOK'
  OBVIOUS
<1> USE DEF TypeOK, redis, mysql, refresh, history
<1>1. "save" \in Label \ Appending /\ c \in Process
  BY DEF Label, Appending, Process
<1>2. CASE /\ hot # None /\ at' = [at EXCEPT ![c] = hot.flow]
           /\ Goto(c, "save") /\ UNCHANGED <<hand, todo, kept, bounds>>
  <2>1. at' \in [Call -> Nat]
    BY <1>2 DEF ProcessTyped, MySQLTyped, HotSnapshot
  <2>2. Moves(c, {"save"})
    BY <1>1, <1>2, OwnMove
  <2>3. ProcessTyped'
    BY <1>1, <1>2, <2>1, <2>2, MovesTyped DEF ProcessTyped
  <2>4. QED BY <1>2, <2>3
            DEF FindForRebuild, bounds, RedisTyped, MySQLTyped, RefreshTyped, HistoryTyped
<1>3. CASE /\ RestoreNext(c, {t \in Call : archive[t] > 0})
           /\ (UNCHANGED bounds \/ Fail) /\ UNCHANGED <<at, kept>>
  <2>1. Moves(c, {"mark", "done"}) /\ todo' \in [Call -> SUBSET Call]
    BY <1>3, RestoreNextStep
  <2>2. failures' \in Nat /\ losses' \in Nat
    BY <1>1, <1>3, CountersTyped
  <2>3. ProcessTyped'
    BY <1>1, <1>3, <2>1, MovesTyped DEF ProcessTyped
  <2>4. QED BY <2>2, <2>3 DEF FindForRebuild, RedisTyped, MySQLTyped, RefreshTyped, HistoryTyped
<1>4. QED BY <1>2, <1>3 DEF FindForRebuild

LEMMA SaveFlowTyped == \A c \in Call : TypeOK /\ SaveFlow(c) => TypeOK'
<1> SUFFICES ASSUME NEW c \in Call, TypeOK, SaveFlow(c) PROVE TypeOK'
  OBVIOUS
<1> USE DEF TypeOK, mysql, process, refresh, bounds, history
<1>1. "move" \in Label \ Appending /\ c \in Process
  BY DEF Label, Appending, Process
<1>2. Moves(c, {"move"})
  BY <1>1, OwnMove DEF SaveFlow
<1>3. ProcessTyped'
  BY <1>1, <1>2, MovesTyped DEF SaveFlow, ProcessTyped
<1>4. flow' \in Nat
  BY DEF SaveFlow, ProcessTyped
<1>5. QED BY <1>3, <1>4 DEF SaveFlow, RedisTyped, MySQLTyped, RefreshTyped, HistoryTyped

LEMMA MoveTyped == \A c \in Call : TypeOK /\ Move(c) => TypeOK'
<1> SUFFICES ASSUME NEW c \in Call, TypeOK, Move(c) PROVE TypeOK'
  OBVIOUS
<1> USE DEF TypeOK, mysql, refresh, bounds, history
<1>1. {"mark", "done"} \subseteq Label /\ "done" \notin Appending /\ c \in Process
  BY DEF Label, Appending, Process
<1>2. Moves(c, {"mark"}) \/ Moves(c, {"done"})
  <2>1. Item(c, 0) \in RepairItem
    BY DEF Item, RepairItem
  <2>2. QED BY <1>1, <2>1, OwnStep, OwnMove DEF Move
<1>3. ProcessTyped'
  BY <1>1, <1>2, MovesTyped DEF Move, ProcessTyped
<1>4. flow' \in Nat \cup {None}
  BY DEF Move, ProcessTyped, RedisTyped
<1>5. QED BY <1>3, <1>4 DEF Move, RedisTyped, MySQLTyped, RefreshTyped, HistoryTyped

LEMMA MarkTyped == \A p \in Process : TypeOK /\ Mark(p) => TypeOK'
<1> SUFFICES ASSUME NEW p \in Process, TypeOK, Mark(p) PROVE TypeOK'
  OBVIOUS
<1> USE DEF TypeOK, mysql
<1>1. "push" \in Label /\ pc[p] = "mark" /\ pc[p] \in Appending
  BY DEF Label, Appending, Mark
<1>2. hand[p] \in RepairItem /\ hand[p].turn \in Call
  BY <1>1, HandIsItem
<1>3. /\ Moves(p, After \cup {"push"})
      /\ todo' \in [Call -> SUBSET Call] /\ kept' \in [Worker -> Seq(RepairItem)]
      /\ \A w \in Worker \ {p} : kept'[w] = kept[w]
      /\ gone' \subseteq Call
      /\ rpc' \in [Call -> {"none", "read", "find", "archive", "write", "end"}]
  <2>1. CASE Appended(p)
    BY <1>1, <2>1, AppendedStep DEF Moves, ProcessTyped, HistoryTyped
  <2>2. CASE AppendFailed(p)
    BY <1>1, <2>2, AppendFailedStep DEF Moves, RefreshTyped
  <2>3. CASE Goto(p, "push") /\ UNCHANGED <<hand, kept, todo, rpc, gone>>
    <3>1. Moves(p, {"push"})
      BY <1>1, <1>2, <2>3, OwnMove
    <3>2. QED BY <2>3, <3>1 DEF Moves, ProcessTyped, RefreshTyped, HistoryTyped
  <2>4. QED BY <2>1, <2>2, <2>3 DEF Mark
<1>4. ProcessTyped'
  <2>1. "requeue" \notin After \cup {"push"} /\ at' \in [Call -> Nat]
    BY DEF After, Mark, ProcessTyped
  <2>2. QED BY <1>3, <2>1, MovesTyped
<1>5. failures' \in Nat /\ losses' \in Nat
  BY CountersTyped DEF Mark
<1>6. marked' \subseteq Call
  BY <1>2 DEF Mark, RedisTyped
<1>7. QED BY <1>3, <1>4, <1>5, <1>6 DEF Mark, RedisTyped, MySQLTyped, RefreshTyped, HistoryTyped

LEMMA PushTyped == \A p \in Process : TypeOK /\ Push(p) => TypeOK'
<1> SUFFICES ASSUME NEW p \in Process, TypeOK, Push(p) PROVE TypeOK'
  OBVIOUS
<1> USE DEF TypeOK, mysql
<1>1. pc[p] \in Appending
  BY DEF Appending, Push
<1>2. /\ Moves(p, After)
      /\ todo' \in [Call -> SUBSET Call] /\ kept' \in [Worker -> Seq(RepairItem)]
      /\ \A w \in Worker \ {p} : kept'[w] = kept[w]
      /\ gone' \subseteq Call
      /\ rpc' \in [Call -> {"none", "read", "find", "archive", "write", "end"}]
  <2>1. CASE Appended(p)
    BY <1>1, <2>1, AppendedStep DEF ProcessTyped, HistoryTyped
  <2>2. CASE AppendFailed(p)
    BY <1>1, <2>2, AppendFailedStep DEF RefreshTyped
  <2>3. QED BY <2>1, <2>2 DEF Push
<1>3. ProcessTyped'
  <2>1. "requeue" \notin After /\ at' \in [Call -> Nat]
    BY DEF After, Push, ProcessTyped
  <2>2. QED BY <1>2, <2>1, MovesTyped
<1>4. failures' \in Nat /\ losses' \in Nat
  BY CountersTyped DEF Push
<1>5. logged' \in [Call -> Nat]
  BY DEF Push, RedisTyped
<1>6. QED BY <1>2, <1>3, <1>4, <1>5 DEF Push, RedisTyped, MySQLTyped, RefreshTyped, HistoryTyped

LEMMA EnqueueTyped == \A c \in Call : TypeOK /\ Enqueue(c) => TypeOK'
<1> SUFFICES ASSUME NEW c \in Call, TypeOK, Enqueue(c) PROVE TypeOK'
  OBVIOUS
<1> USE DEF TypeOK, mysql
<1>1. "done" \in Label \ Appending /\ c \in Process /\ pc[c] \in Appending
  BY DEF Label, Appending, Process, Enqueue
<1>2. Moves(c, {"done"})
  BY <1>1, OwnStep DEF Enqueue
<1>3. ProcessTyped'
  BY <1>1, <1>2, MovesTyped DEF Enqueue, ProcessTyped
<1>4. queue' \in Seq(RepairItem)
  <2>1. <<hand[c]>> \in Seq(RepairItem)
    BY <1>1, HandIsItem
  <2>2. <<hand[c]>> \o queue \in Seq(RepairItem)
    BY <2>1, ConcatProperties DEF RedisTyped
  <2>3. QED BY <2>2 DEF Enqueue, RedisTyped
<1>5. failures' \in Nat /\ losses' \in Nat
  BY <1>1, CountersTyped DEF Enqueue
<1>6. QED
  BY <1>3, <1>4, <1>5
     DEF Enqueue, RefreshGoto, RedisTyped, MySQLTyped, RefreshTyped, HistoryTyped

\* The last item leaves the queue.
LEMMA LastItem ==
  ASSUME NEW q \in Seq(RepairItem), q # << >>
  PROVE  q[Len(q)] \in RepairItem /\ SubSeq(q, 1, Len(q) - 1) \in Seq(RepairItem)
<1>1. Len(q) \in Nat /\ Len(q) > 0
  BY EmptySeq, LenProperties
<1>2. q[Len(q)] \in RepairItem
  BY <1>1, ElementOfSeq
<1>3. \A i \in 1 .. Len(q) - 1 : q[i] \in RepairItem
  BY <1>1, ElementOfSeq
<1>4. QED BY <1>1, <1>2, <1>3, SubSeqProperties

LEMMA PopTyped == \A w \in Worker : TypeOK /\ Pop(w) => TypeOK'
<1> SUFFICES ASSUME NEW w \in Worker, TypeOK, Pop(w) PROVE TypeOK'
  OBVIOUS
<1> USE DEF TypeOK, mysql, refresh, bounds, history
<1>1. {"mark", "idle", "requeue"} \subseteq Label /\ {"idle", "requeue"} \cap Appending = {}
  BY DEF Label, Appending
<1>2. w \in Process /\ queue \in Seq(RepairItem)
  BY DEF Process, RedisTyped
<1>3. CASE queue # << >>
  <2>1. queue[Len(queue)] \in RepairItem /\ queue' \in Seq(RepairItem)
    BY <1>2, <1>3, LastItem DEF Pop
  <2>2. Moves(w, {"mark"})
    BY <1>1, <1>2, <1>3, <2>1, OwnStep DEF Pop
  <2>3. ProcessTyped'
    BY <1>2, <2>2, MovesTyped DEF Pop, ProcessTyped
  <2>4. QED BY <2>1, <2>3 DEF Pop, RedisTyped, MySQLTyped, RefreshTyped, HistoryTyped
<1>4. CASE queue = << >> /\ kept[w] = << >>
  <2>1. Moves(w, {"idle"})
    BY <1>1, <1>2, <1>4, OwnMove DEF Pop
  <2>2. ProcessTyped'
    BY <1>2, <2>1, MovesTyped DEF Pop, ProcessTyped
  <2>3. QED BY <1>4, <2>2 DEF Pop, RedisTyped, MySQLTyped, RefreshTyped, HistoryTyped
<1>5. CASE queue = << >> /\ kept[w] # << >>
  <2>1. Moves(w, {"requeue"}) /\ UNCHANGED <<kept, todo, at>>
    BY <1>1, <1>2, <1>5, OwnMove DEF Pop
  <2>2. ProcessTyped'
    BY <1>2, <1>5, <2>1 DEF Moves, ProcessTyped, Process
  <2>3. QED BY <1>5, <2>2 DEF Pop, RedisTyped, MySQLTyped, RefreshTyped, HistoryTyped
<1>6. QED BY <1>3, <1>4, <1>5

LEMMA RequeueTyped == \A w \in Worker : TypeOK /\ Requeue(w) => TypeOK'
<1> SUFFICES ASSUME NEW w \in Worker, TypeOK, Requeue(w) PROVE TypeOK'
  OBVIOUS
<1> USE DEF TypeOK, mysql, refresh
<1>1. {"idle", "requeue"} \subseteq Label \ Appending /\ w \in Process
  BY DEF Label, Appending, Process
<1>2. kept[w] \in Seq(RepairItem) /\ kept[w] # << >>
  BY <1>1 DEF Requeue, ProcessTyped
<1>3. /\ Head(kept[w]) \in RepairItem
      /\ Tail(kept[w]) \in Seq(RepairItem) /\ Len(Tail(kept[w])) = Len(kept[w]) - 1
  BY <1>2, HeadTailProperties
<1>4. kept' = [kept EXCEPT ![w] = Tail(kept[w])] /\ kept' \in [Worker -> Seq(RepairItem)]
  BY <1>3 DEF Requeue, ProcessTyped
<1>5. ProcessTyped'
  <2>1. CASE Len(kept[w]) > 1
    <3>1. Moves(w, {"requeue"})
      BY <1>1, <2>1, OwnMove DEF Requeue
    <3>2. Len(kept[w]) \in Nat
      BY <1>2, LenProperties
    <3>3. kept'[w] = Tail(kept[w])
      BY <1>4 DEF ProcessTyped
    <3>4. Len(kept'[w]) > 0
      BY <1>3, <2>1, <3>2, <3>3
    <3>5. kept'[w] # << >>
      BY <3>4, EmptySeq
    <3>6. QED BY <1>1, <1>4, <3>1, <3>5 DEF Requeue, Moves, ProcessTyped, Process
  <2>2. CASE ~ (Len(kept[w]) > 1)
    <3>1. Moves(w, {"idle"})
      BY <1>1, <2>2, OwnMove DEF Requeue
    <3>2. QED BY <1>1, <1>4, <3>1, MovesTyped DEF Requeue, ProcessTyped
  <2>3. QED BY <2>1, <2>2
<1>6. queue' \in Seq(RepairItem)
  <2>1. <<Head(kept[w])>> \o queue \in Seq(RepairItem)
    BY <1>3, ConcatProperties DEF RedisTyped
  <2>2. QED BY <2>1 DEF Requeue, RedisTyped
<1>7. failures' \in Nat /\ losses' \in Nat
  BY <1>1, CountersTyped DEF Requeue
<1>8. gone' \subseteq Call
  BY <1>3 DEF Requeue, HistoryTyped, RepairItem
<1>9. QED
  BY <1>5, <1>6, <1>7, <1>8 DEF Requeue, RedisTyped, MySQLTyped, RefreshTyped, HistoryTyped

-----------------------------------------------------------------------------
(* The refresh of the snapshot. *)

LEMMA EndRefreshTyped ==
  ASSUME RefreshTyped, NEW c \in Call, EndRefresh(c)
  PROVE  RefreshTyped'
BY DEF RefreshTyped, EndRefresh, RefreshGoto

LEMMA ReadLatestTyped == \A c \in Call : TypeOK /\ ReadLatest(c) => TypeOK'
<1> SUFFICES ASSUME NEW c \in Call, TypeOK, ReadLatest(c) PROVE TypeOK'
  OBVIOUS
<1> USE DEF TypeOK, redis, mysql, process, bounds, history
<1>1. (IF flow = None THEN at[c] ELSE flow) \in Nat
  BY DEF RedisTyped, ProcessTyped
<1>2. RefreshTyped'
  BY <1>1 DEF ReadLatest, RefreshGoto, RefreshTyped
<1>3. QED BY <1>2 DEF ReadLatest, RedisTyped, MySQLTyped, ProcessTyped, HistoryTyped

LEMMA FindForRefreshTyped == \A c \in Call : TypeOK /\ FindForRefresh(c) => TypeOK'
<1> SUFFICES ASSUME NEW c \in Call, TypeOK, FindForRefresh(c) PROVE TypeOK'
  OBVIOUS
<1> USE DEF TypeOK, redis, mysql, process, history
<1>1. RefreshTyped'
  <2>1. CASE EndRefresh(c)
    BY <2>1, EndRefreshTyped
  <2>2. CASE /\ base' = [base EXCEPT ![c] = hot] /\ RefreshGoto(c, "archive")
             /\ UNCHANGED <<latest, seq, attempt>>
    BY <2>2 DEF RefreshGoto, RefreshTyped, MySQLTyped
  <2>3. QED BY <2>1, <2>2 DEF FindForRefresh
<1>2. failures' \in Nat /\ losses' \in Nat
  BY CountersTyped DEF FindForRefresh, Process
<1>3. QED BY <1>1, <1>2 DEF FindForRefresh, RedisTyped, MySQLTyped, ProcessTyped, HistoryTyped

LEMMA ArchiveTurnTyped == \A c \in Call : TypeOK /\ ArchiveTurn(c) => TypeOK'
<1> SUFFICES ASSUME NEW c \in Call, TypeOK, ArchiveTurn(c) PROVE TypeOK'
  OBVIOUS
<1> USE DEF TypeOK, redis, process, history
<1>1. RefreshTyped'
  BY DEF ArchiveTurn, RefreshGoto, RefreshTyped, MySQLTyped
<1>2. MySQLTyped'
  BY DEF ArchiveTurn, MySQLTyped
<1>3. failures' \in Nat /\ losses' \in Nat
  BY CountersTyped DEF ArchiveTurn, Process
<1>4. QED BY <1>1, <1>2, <1>3 DEF ArchiveTurn, RedisTyped, ProcessTyped, HistoryTyped

\* A snapshot keeps the newest turns.
LEMMA KeepLastTyped ==
  ASSUME NEW s \in Seq(Call), NEW n \in Nat
  PROVE  KeepLast(s, n) \in Seq(Call)
<1>1. Len(s) \in Nat
  BY LenProperties
<1>2. CASE Len(s) > n
  <2>1. \A i \in Len(s) - n + 1 .. Len(s) : s[i] \in Call
    BY <1>1, <1>2, ElementOfSeq
  <2>2. SubSeq(s, Len(s) - n + 1, Len(s)) \in Seq(Call)
    BY <1>1, <2>1, SubSeqProperties
  <2>3. QED BY <1>2, <2>2 DEF KeepLast
<1>3. QED BY <1>2 DEF KeepLast

LEMMA BuiltSnapshot ==
  ASSUME RefreshTyped, NEW c \in Call
  PROVE  BuildHotSnapshot(c) \in HotSnapshot
<1>1. base[c] = None \/ base[c] \in HotSnapshot
  BY DEF RefreshTyped
<1>2. (IF base[c] = None THEN << >> ELSE base[c].turns) \in Seq(Call)
  BY <1>1, EmptySeq DEF HotSnapshot
<1>3. Append(IF base[c] = None THEN << >> ELSE base[c].turns, c) \in Seq(Call)
  BY <1>2, AppendProperties
<1>4. BuildHotSnapshot(c).turns \in Seq(Call)
  <2>1. RecentTurnLimit \in Nat
    BY RecordsBounds
  <2>2. QED BY <1>3, <2>1, KeepLastTyped DEF BuildHotSnapshot
<1>5. (IF base[c] = None THEN 1 ELSE base[c].version + 1) \in Nat
  BY <1>1 DEF HotSnapshot
<1>6. Watermark(c) \in Nat
  BY <1>1 DEF Watermark, RefreshTyped, HotSnapshot
<1>7. latest[c] \in Nat
  BY DEF RefreshTyped
<1>8. QED BY <1>4, <1>5, <1>6, <1>7 DEF BuildHotSnapshot, HotSnapshot

LEMMA WriteHotSnapshotTyped == \A c \in Call : TypeOK /\ WriteHotSnapshot(c) => TypeOK'
<1> SUFFICES ASSUME NEW c \in Call, TypeOK, WriteHotSnapshot(c) PROVE TypeOK'
  OBVIOUS
<1> USE DEF TypeOK, redis, process
<1>1. RefreshTyped'
  <2>1. TryAgain(c) => RefreshTyped'
    BY EndRefreshTyped DEF TryAgain, RefreshGoto, RefreshTyped
  <2>2. QED BY <2>1, EndRefreshTyped DEF WriteHotSnapshot
<1>2. hot' \in HotSnapshot \cup {None}
  BY BuiltSnapshot DEF WriteHotSnapshot, MySQLTyped
<1>3. failures' \in Nat /\ losses' \in Nat
  BY CountersTyped DEF WriteHotSnapshot, Process
<1>4. crossed' \in BOOLEAN
  BY DEF WriteHotSnapshot, HistoryTyped
<1>5. QED
  BY <1>1, <1>2, <1>3, <1>4 DEF WriteHotSnapshot, RedisTyped, MySQLTyped, ProcessTyped, HistoryTyped

-----------------------------------------------------------------------------
(* Crashes and losses. *)

LEMMA CrashTyped == \A c \in Call : TypeOK /\ Crash(c) => TypeOK'
<1> SUFFICES ASSUME NEW c \in Call, TypeOK, Crash(c) PROVE TypeOK'
  OBVIOUS
<1> USE DEF TypeOK, redis, mysql, process, history
<1>1. "crashed" \in Label \ Appending /\ c \in Process
  BY DEF Label, Appending, Process
<1>2. ProcessTyped'
  <2>1. CASE Goto(c, "crashed")
    <3>1. Moves(c, {"crashed"})
      BY <1>1, <2>1, OwnMove DEF Crash
    <3>2. QED BY <1>1, <3>1, MovesTyped DEF Crash, ProcessTyped
  <2>2. CASE UNCHANGED pc
    BY <2>2 DEF Crash, ProcessTyped
  <2>3. QED BY <2>1, <2>2 DEF Crash
<1>3. RefreshTyped'
  BY EndRefreshTyped DEF Crash, refresh, RefreshTyped
<1>4. failures' \in Nat /\ losses' \in Nat
  BY <1>1, CountersTyped DEF Crash
<1>5. QED BY <1>2, <1>3, <1>4 DEF Crash, RedisTyped, MySQLTyped, HistoryTyped

LEMMA WorkerCrashTyped == \A w \in Worker : TypeOK /\ WorkerCrash(w) => TypeOK'
<1> SUFFICES ASSUME NEW w \in Worker, TypeOK, WorkerCrash(w) PROVE TypeOK'
  OBVIOUS
<1> USE DEF TypeOK, redis, mysql, refresh
<1>1. "idle" \in Label \ Appending /\ w \in Process
  BY DEF Label, Appending, Process
<1>2. Moves(w, {"idle"})
  BY <1>1, OwnStep DEF WorkerCrash
<1>3. kept' \in [Worker -> Seq(RepairItem)] /\ \A v \in Worker \ {w} : kept'[v] = kept[v]
  <2>1. << >> \in Seq(RepairItem)
    BY EmptySeq
  <2>2. QED BY <2>1 DEF WorkerCrash, ProcessTyped
<1>4. ProcessTyped'
  BY <1>1, <1>2, <1>3, MovesTyped DEF WorkerCrash, ProcessTyped
<1>5. Held(w) \subseteq Call
  <2>1. \A i \in DOMAIN kept[w] : kept[w][i] \in RepairItem
    BY ElementOfSeq, LenProperties DEF ProcessTyped
  <2>2. hand[w] = None \/ hand[w] \in RepairItem
    BY <1>1 DEF ProcessTyped
  <2>3. QED BY <2>1, <2>2 DEF Held, RepairItem
<1>6. gone' \subseteq Call
  BY <1>5 DEF WorkerCrash, HistoryTyped
<1>7. failures' \in Nat /\ losses' \in Nat
  BY <1>1, CountersTyped DEF WorkerCrash
<1>8. QED
  BY <1>4, <1>6, <1>7 DEF WorkerCrash, RedisTyped, MySQLTyped, RefreshTyped, HistoryTyped

LEMMA FlowLostTyped == TypeOK /\ FlowLost => TypeOK'
BY DEF TypeOK, FlowLost, Unread, mysql, process, refresh, RedisTyped, MySQLTyped,
       ProcessTyped, RefreshTyped, HistoryTyped

LEMMA LogExpiresTyped == TypeOK /\ LogExpires => TypeOK'
BY DEF TypeOK, LogExpires, mysql, process, refresh, bounds, RedisTyped, MySQLTyped,
       ProcessTyped, RefreshTyped, HistoryTyped

LEMMA StutterTyped == TypeOK /\ UNCHANGED vars => TypeOK'
BY DEF TypeOK, vars, redis, mysql, process, refresh, bounds, history, RedisTyped, MySQLTyped,
       ProcessTyped, RefreshTyped, HistoryTyped

\* Every variable of every process and store keeps its type, and whoever is appending a
\* turn has one in hand.
THEOREM RecordsTypeCorrect == Spec => []TypeOK
<1>1. TypeOK /\ [Next]_vars => TypeOK'
  <2> SUFFICES ASSUME TypeOK, [Next]_vars PROVE TypeOK'
    OBVIOUS
  <2>1. ASSUME NEW c \in Call, CallStep(c) PROVE TypeOK'
    <3>1. c \in Process
      BY DEF Process
    <3>2. QED
      BY <2>1, <3>1, StartTyped, FindForRebuildTyped, SaveFlowTyped, MoveTyped, MarkTyped,
         PushTyped, EnqueueTyped, CrashTyped DEF CallStep
  <2>2. ASSUME NEW c \in Call, RefreshStep(c) PROVE TypeOK'
    BY <2>2, ReadLatestTyped, FindForRefreshTyped, ArchiveTurnTyped, WriteHotSnapshotTyped
       DEF RefreshStep
  <2>3. ASSUME NEW w \in Worker, RepairStep(w) PROVE TypeOK'
    <3>1. w \in Process
      BY DEF Process
    <3>2. QED BY <2>3, <3>1, PopTyped, MarkTyped, PushTyped, RequeueTyped DEF RepairStep
  <2>4. ASSUME NEW w \in Worker, WorkerCrash(w) PROVE TypeOK'
    BY <2>4, WorkerCrashTyped
  <2>5. QED
    BY <2>1, <2>2, <2>3, <2>4, FlowLostTyped, LogExpiresTyped, StutterTyped DEF Next
<1>2. QED BY <1>1, InitTyped, PTL DEF Spec

-----------------------------------------------------------------------------
(* A turn is logged once.  What makes LoggedOnce inductive: a turn in the    *)
(* log has its id in the set, and whoever is about to push a turn has put    *)
(* its id there itself, so nobody has pushed it yet and nobody else is       *)
(* about to.                                                                 *)

Logging == \A t \in Call : logged[t] <= 1 /\ (logged[t] > 0 => t \in marked)

Pushing ==
  \A p \in Process :
    pc[p] = "push" => hand[p].turn \in marked /\ logged[hand[p].turn] = 0

OnePusher ==
  \A p, q \in Process :
    pc[p] = "push" /\ pc[q] = "push" /\ hand[p].turn = hand[q].turn => p = q

Once == Logging /\ Pushing /\ OnePusher

\* Nobody starts to push a turn.
NoNewPusher == \A p \in Process : pc'[p] = "push" => pc[p] = "push" /\ hand'[p] = hand[p]

LEMMA StillOnce ==
  ASSUME Once, NoNewPusher, UNCHANGED <<marked, logged>>
  PROVE  Once'
BY DEF Once, Logging, Pushing, OnePusher, NoNewPusher

LEMMA MovesNoNewPusher ==
  ASSUME NEW p \in Process, NEW L, Moves(p, L), "push" \notin L
  PROVE  NoNewPusher
BY DEF Moves, NoNewPusher

\* A process goes elsewhere, and only it may take something else in hand.
LEMMA GotoNoNewPusher ==
  ASSUME ProcessTyped, NEW p \in Process, NEW label, label # "push", Goto(p, label),
         UNCHANGED hand \/ \E item : Take(p, item)
  PROVE  NoNewPusher
BY DEF ProcessTyped, Goto, Take, NoNewPusher

LEMMA MarkOnce == \A p \in Process : TypeOK /\ Once /\ Mark(p) => Once'
<1> SUFFICES ASSUME NEW p \in Process, TypeOK, Once, Mark(p) PROVE Once'
  OBVIOUS
<1>1. pc[p] \in Appending /\ logged' = logged
  BY DEF Appending, Mark
<1>2. hand[p].turn \in Call
  BY <1>1, HandIsItem DEF TypeOK
<1>3. CASE /\ hand[p].turn \notin marked /\ marked' = marked \cup {hand[p].turn}
           /\ Goto(p, "push") /\ UNCHANGED hand
  <2>1. logged[hand[p].turn] = 0
    BY <1>2, <1>3 DEF Once, Logging, TypeOK, RedisTyped
  <2>2. Logging'
    BY <1>1, <1>3 DEF Once, Logging
  <2>3. \A q \in Process \ {p} : pc'[q] = pc[q]
    BY <1>3 DEF Goto, TypeOK, ProcessTyped
  <2>4. Pushing'
    BY <1>1, <1>3, <2>1, <2>3 DEF Once, Pushing
  <2>5. OnePusher'
    BY <1>3, <2>3 DEF Once, Pushing, OnePusher
  <2>6. QED BY <2>2, <2>4, <2>5 DEF Once
<1>4. CASE Appended(p) \/ AppendFailed(p)
  <2>1. Moves(p, After)
    BY <1>1, <1>4, AppendedStep, AppendFailedStep DEF TypeOK
  <2>2. NoNewPusher
    BY <2>1, MovesNoNewPusher DEF After
  <2>3. marked \subseteq marked'
    BY DEF Mark
  <2>4. QED
    BY <1>1, <2>2, <2>3 DEF Once, Logging, Pushing, OnePusher, NoNewPusher
<1>5. QED BY <1>3, <1>4 DEF Mark, AlreadyThere

LEMMA PushOnce == \A p \in Process : TypeOK /\ Once /\ Push(p) => Once'
<1> SUFFICES ASSUME NEW p \in Process, TypeOK, Once, Push(p) PROVE Once'
  OBVIOUS
<1> DEFINE t == hand[p].turn
<1>1. pc[p] = "push" /\ pc[p] \in Appending /\ marked' = marked
  BY DEF Appending, Push
<1>2. t \in Call /\ t \in marked /\ logged[t] = 0
  BY <1>1, HandIsItem DEF TypeOK, Once, Pushing
<1>3. logged' = logged \/ logged' = [logged EXCEPT ![t] = 1]
  BY <1>2 DEF Push
<1>4. Moves(p, After)
  BY <1>1, AppendedStep, AppendFailedStep DEF TypeOK, Push
<1>5. NoNewPusher /\ pc'[p] # "push"
  BY <1>4, MovesNoNewPusher DEF Moves, After
<1>6. Logging'
  BY <1>1, <1>2, <1>3 DEF Once, Logging, TypeOK, RedisTyped
<1>7. OnePusher'
  BY <1>5 DEF Once, OnePusher, NoNewPusher
<1>8. Pushing'
  <2> SUFFICES ASSUME NEW q \in Process, pc'[q] = "push"
               PROVE  hand'[q].turn \in marked' /\ logged'[hand'[q].turn] = 0
    BY DEF Pushing
  <2>1. pc[q] = "push" /\ hand'[q] = hand[q] /\ q # p
    BY <1>5 DEF NoNewPusher
  <2>2. hand[q].turn # t
    BY <1>1, <2>1 DEF Once, OnePusher
  <2>3. hand[q].turn \in marked /\ logged[hand[q].turn] = 0
    BY <2>1 DEF Once, Pushing
  <2>4. hand[q].turn \in Call
    BY <2>1, HandIsItem DEF TypeOK, Appending
  <2>5. QED BY <1>1, <1>3, <2>1, <2>2, <2>3, <2>4 DEF TypeOK, RedisTyped
<1>9. QED BY <1>6, <1>7, <1>8 DEF Once

\* The other steps of a call move it, and not to where it pushes.
LEMMA CallOnce ==
  \A c \in Call :
    TypeOK /\ Once /\ (Start(c) \/ FindForRebuild(c) \/ SaveFlow(c) \/ Move(c) \/ Enqueue(c)
                       \/ Crash(c)) => Once'
<1> SUFFICES ASSUME NEW c \in Call, TypeOK, Once,
                    \/ Start(c) \/ FindForRebuild(c) \/ SaveFlow(c) \/ Move(c) \/ Enqueue(c)
                    \/ Crash(c)
             PROVE  Once'
  OBVIOUS
<1>1. UNCHANGED <<marked, logged>>
  BY DEF Start, FindForRebuild, SaveFlow, Move, Enqueue, Crash, redis
<1>2. c \in Process /\ ProcessTyped
  BY DEF Process, TypeOK
<1>3. CASE Start(c)
  BY <1>1, <1>2, <1>3, GotoNoNewPusher, StillOnce DEF Start
<1>4. CASE FindForRebuild(c)
  <2>1. CASE Goto(c, "save") /\ UNCHANGED hand
    BY <1>1, <1>2, <2>1, GotoNoNewPusher, StillOnce
  <2>2. CASE RestoreNext(c, {t \in Call : archive[t] > 0})
    <3>1. Moves(c, {"mark", "done"})
      BY <1>2, <2>2, RestoreNextStep
    <3>2. QED BY <1>1, <1>2, <3>1, MovesNoNewPusher, StillOnce
  <2>3. QED BY <1>4, <2>1, <2>2 DEF FindForRebuild
<1>5. CASE SaveFlow(c)
  BY <1>1, <1>2, <1>5, GotoNoNewPusher, StillOnce DEF SaveFlow, process
<1>6. CASE Move(c)
  BY <1>1, <1>2, <1>6, GotoNoNewPusher, StillOnce DEF Move
<1>7. CASE Enqueue(c)
  BY <1>1, <1>2, <1>7, GotoNoNewPusher, StillOnce DEF Enqueue
<1>8. CASE Crash(c)
  <2>1. CASE Goto(c, "crashed")
    BY <1>1, <1>2, <1>8, <2>1, GotoNoNewPusher, StillOnce DEF Crash, process
  <2>2. CASE UNCHANGED pc
    BY <1>1, <1>8, <2>2, StillOnce DEF Crash, process, NoNewPusher
  <2>3. QED BY <1>8, <2>1, <2>2 DEF Crash
<1>9. QED BY <1>3, <1>4, <1>5, <1>6, <1>7, <1>8

\* The other steps of a repair worker.
LEMMA RepairOnce ==
  \A w \in Worker : TypeOK /\ Once /\ (Pop(w) \/ Requeue(w) \/ WorkerCrash(w)) => Once'
<1> SUFFICES ASSUME NEW w \in Worker, TypeOK, Once, Pop(w) \/ Requeue(w) \/ WorkerCrash(w)
             PROVE  Once'
  OBVIOUS
<1>1. UNCHANGED <<marked, logged>>
  BY DEF Pop, Requeue, WorkerCrash, redis
<1>2. w \in Process /\ ProcessTyped
  BY DEF Process, TypeOK
<1>3. CASE Pop(w)
  <2>1. CASE Goto(w, "mark") /\ Take(w, queue[Len(queue)])
    BY <1>1, <1>2, <2>1, GotoNoNewPusher, StillOnce
  <2>2. CASE (Goto(w, "idle") \/ Goto(w, "requeue")) /\ UNCHANGED hand
    BY <1>1, <1>2, <2>2, GotoNoNewPusher, StillOnce
  <2>3. QED BY <1>3, <2>1, <2>2 DEF Pop
<1>4. CASE Requeue(w)
  BY <1>1, <1>2, <1>4, GotoNoNewPusher, StillOnce DEF Requeue
<1>5. CASE WorkerCrash(w)
  BY <1>1, <1>2, <1>5, GotoNoNewPusher, StillOnce DEF WorkerCrash
<1>6. QED BY <1>3, <1>4, <1>5

\* The refresh and the loss of the flow touch neither the log nor who appends to it; the
\* log expires only when nobody is between its two commands.
LEMMA ElsewhereOnce ==
  TypeOK /\ Once /\ (FlowLost \/ LogExpires \/ (\E c \in Call : RefreshStep(c)) \/ UNCHANGED vars)
    => Once'
<1> SUFFICES ASSUME TypeOK, Once,
                    \/ FlowLost \/ LogExpires \/ (\E c \in Call : RefreshStep(c))
                    \/ UNCHANGED vars
             PROVE  Once'
  OBVIOUS
<1>1. UNCHANGED <<pc, hand>>
  BY DEF FlowLost, LogExpires, RefreshStep, ReadLatest, FindForRefresh, ArchiveTurn,
         WriteHotSnapshot, process, vars
<1>2. NoNewPusher
  BY <1>1 DEF NoNewPusher
<1>3. CASE LogExpires
  BY <1>1, <1>3 DEF LogExpires, Once, Logging, Pushing, OnePusher
<1>4. CASE ~ LogExpires
  <2>1. UNCHANGED <<marked, logged>>
    BY <1>4 DEF FlowLost, RefreshStep, ReadLatest, FindForRefresh, ArchiveTurn,
                WriteHotSnapshot, redis, vars
  <2>2. QED BY <1>2, <2>1, StillOnce
<1>5. QED BY <1>3, <1>4

LEMMA Disjoint ==
  /\ \A c \in Call, w \in Worker : c # w
  /\ Call \subseteq Process /\ Worker \subseteq Process
BY RecordsBounds DEF Process

LEMMA OnceAlways == Spec => [](TypeOK /\ Once)
<1>1. Init => Once
  <2> SUFFICES ASSUME Init PROVE Once
    OBVIOUS
  <2>1. \A p \in Process : pc[p] # "push"
    BY DEF Init
  <2>2. Logging
    BY DEF Init, Logging
  <2>3. QED BY <2>1, <2>2 DEF Once, Pushing, OnePusher
<1>2. TypeOK /\ Once /\ [Next]_vars => Once'
  <2> SUFFICES ASSUME TypeOK, Once, [Next]_vars PROVE Once'
    OBVIOUS
  <2>1. ASSUME NEW c \in Call, CallStep(c) PROVE Once'
    BY <2>1, Disjoint, CallOnce, MarkOnce, PushOnce DEF CallStep
  <2>2. ASSUME NEW w \in Worker, RepairStep(w) \/ WorkerCrash(w) PROVE Once'
    BY <2>2, Disjoint, RepairOnce, MarkOnce, PushOnce DEF RepairStep
  <2>3. QED BY <2>1, <2>2, ElsewhereOnce DEF Next
<1>3. QED BY <1>1, <1>2, RecordsTypeCorrect, PTL DEF Spec

\* No turn is in the log twice: the set's answer decides which of the processes that
\* append a turn (the answer, a rebuild, the repair workers) pushes it.
THEOREM TurnsAreLoggedOnce == Spec => []LoggedOnce
<1>1. Once => LoggedOnce
  BY DEF Once, Logging, LoggedOnce
<1>2. QED BY <1>1, OnceAlways, PTL

-----------------------------------------------------------------------------
(* A turn whose id is not in the set is under repair.  What a worker takes   *)
(* from the queue is in its memory until the set has the id, or it is given  *)
(* up; a worker that is not appending has nothing in hand that a new item    *)
(* could push out.                                                           *)

\* A refresh starts when its call is done, and a call queues its own turn.
Returned ==
  \A c \in Call : (rpc[c] # "none" => pc[c] = "done") /\ (pc[c] = "enqueue" => hand[c].turn = c)

EmptyHanded == \A w \in Worker : pc[w] \notin Appending => hand[w] = None

Repairing == Returned /\ EmptyHanded /\ UnmarkedTurnIsRepaired

\* A step of call c, which takes nothing from the queue nor from a worker.
LEMMA CallRepairing ==
  ASSUME TypeOK, Repairing, NEW c \in Call, NEW L, Moves(c, L), UNCHANGED kept,
         \A t \in Call : Queued(t) => Queued(t)',
         marked \cup gone \subseteq marked' \cup gone',
         \A d \in Call \ {c} : rpc'[d] = rpc[d],
         rpc'[c] # "none" => pc'[c] = "done" /\ (c \in marked' \cup gone' \/ Queued(c)'),
         pc'[c] = "enqueue" => hand'[c].turn = c
  PROVE  Repairing'
<1>1. \A p \in Process \ {c} : pc'[p] = pc[p] /\ hand'[p] = hand[p]
  BY DEF Moves
<1>2. Returned'
  BY <1>1, Disjoint DEF Repairing, Returned
<1>3. EmptyHanded'
  BY <1>1, Disjoint DEF Repairing, EmptyHanded
<1>4. \A t \in Call : UnderRepair(t) => UnderRepair(t)'
  BY <1>1, Disjoint DEF UnderRepair, Held
<1>5. \A d \in Call : Answered(d)' => Answered(d) \/ d = c
  BY <1>1, Disjoint DEF Answered
<1>6. Answered(c)' => c \in marked' \cup gone' \/ UnderRepair(c)'
  BY DEF Answered, UnderRepair
<1>7. UnmarkedTurnIsRepaired'
  BY <1>4, <1>5, <1>6 DEF Repairing, UnmarkedTurnIsRepaired
<1>8. QED BY <1>2, <1>3, <1>7 DEF Repairing

\* A step of worker w, which loses nothing it holds.
LEMMA WorkerRepairing ==
  ASSUME TypeOK, Repairing, NEW w \in Worker, NEW L, Moves(w, L), UNCHANGED rpc,
         \A v \in Worker \ {w} : kept'[v] = kept[v],
         pc'[w] \notin Appending => hand'[w] = None,
         marked \cup gone \subseteq marked' \cup gone',
         \A t \in Call : Queued(t) => Queued(t)' \/ t \in Held(w)',
         \A t \in Call : t \in Held(w) => Queued(t)' \/ t \in Held(w)' \/ t \in marked' \cup gone'
  PROVE  Repairing'
<1>1. \A p \in Process \ {w} : pc'[p] = pc[p] /\ hand'[p] = hand[p]
  BY DEF Moves
<1>2. Returned'
  BY <1>1, Disjoint DEF Repairing, Returned
<1>3. EmptyHanded'
  BY <1>1, Disjoint DEF Repairing, EmptyHanded
<1>4. \A v \in Worker \ {w} : Held(v)' = Held(v)
  BY <1>1, Disjoint DEF Held
<1>5. \A t \in Call : UnderRepair(t) => UnderRepair(t)' \/ t \in marked' \cup gone'
  BY <1>4 DEF UnderRepair
<1>6. \A d \in Call : Answered(d)' => Answered(d)
  BY <1>1, Disjoint DEF Answered
<1>7. UnmarkedTurnIsRepaired'
  BY <1>5, <1>6 DEF Repairing, UnmarkedTurnIsRepaired
<1>8. QED BY <1>2, <1>3, <1>7 DEF Repairing

\* The same items, and some in front of them.
LEMMA QueuedBefore ==
  ASSUME TypeOK, NEW item \in RepairItem, queue' = <<item>> \o queue
  PROVE  /\ \A t \in Call : Queued(t) => Queued(t)'
         /\ Queued(item.turn)'
<1> DEFINE one == <<item>>
<1>1. one \in Seq(RepairItem) /\ Len(one) = 1 /\ queue \in Seq(RepairItem) /\ one[1] = item
  BY DEF TypeOK, RedisTyped
<1>2. /\ queue' \in Seq(RepairItem) /\ Len(queue') = 1 + Len(queue) /\ Len(queue) \in Nat
      /\ \A i \in 1 .. Len(queue') : queue'[i] = IF i <= 1 THEN one[i] ELSE queue[i - 1]
  BY <1>1, ConcatProperties, LenProperties
<1>3. ASSUME NEW t \in Call, Queued(t) PROVE Queued(t)'
  <2>1. PICK i \in 1 .. Len(queue) : queue[i].turn = t
    BY <1>1, <1>3, LenProperties DEF Queued
  <2>2. i + 1 \in 1 .. Len(queue') /\ queue'[i + 1] = queue[i]
    BY <1>2
  <2>3. i + 1 \in DOMAIN queue'
    BY <1>2, <2>2, LenProperties
  <2>4. QED BY <2>1, <2>2, <2>3 DEF Queued
<1>4. Queued(item.turn)'
  <2>1. 1 \in DOMAIN queue' /\ queue'[1] = item
    BY <1>1, <1>2, LenProperties
  <2>2. QED BY <2>1 DEF Queued
<1>5. QED BY <1>3, <1>4

\* The turn in a worker's hand, and the turns it keeps.
LEMMA HeldTurns ==
  ASSUME TypeOK, NEW w \in Worker
  PROVE  \A t : t \in Held(w) <=>
           \/ \E i \in 1 .. Len(kept[w]) : kept[w][i].turn = t
           \/ hand[w] # None /\ hand[w].turn = t
<1>1. kept[w] \in Seq(RepairItem)
  BY DEF TypeOK, ProcessTyped
<1>2. DOMAIN kept[w] = 1 .. Len(kept[w])
  BY <1>1, LenProperties
<1>3. QED BY <1>2 DEF Held

\* A call reaches the end of an append: its turn's id is in the set.
LEMMA CallAppended ==
  ASSUME TypeOK, Repairing, NEW c \in Call, pc[c] \in Appending, Appended(c),
         hand[c].turn \in marked', marked \subseteq marked', UNCHANGED queue
  PROVE  Repairing'
<1>1. Moves(c, After) /\ UNCHANGED <<kept, gone>>
  BY Disjoint, AppendedStep DEF TypeOK
<1>2. c \notin Worker /\ (\A t \in Call : Queued(t) => Queued(t)') /\ rpc[c] = "none"
  BY Disjoint DEF Queued, Repairing, Returned, Appending
<1>3. CASE Restoring(c)
  <2>1. RestoreNext(c, todo[c]) /\ UNCHANGED rpc
    BY <1>2, <1>3 DEF Appended
  <2>2. Moves(c, {"mark", "done"})
    BY <2>1, RestoreNextStep DEF TypeOK, ProcessTyped
  <2>3. rpc'[c] = "none" /\ pc'[c] # "enqueue"
    BY <1>2, <2>1, <2>2 DEF Moves
  <2>4. QED BY <1>1, <1>2, <2>1, <2>3, CallRepairing
<1>4. CASE ~ Restoring(c)
  <2>1. Return(c) /\ hand[c].turn = c
    BY <1>2, <1>4 DEF Appended, Restoring
  <2>2. pc'[c] = "done" /\ \A d \in Call \ {c} : rpc'[d] = rpc[d]
    BY <2>1, Disjoint DEF Return, Goto, RefreshGoto, TypeOK, ProcessTyped, RefreshTyped
  <2>3. QED BY <1>1, <1>2, <2>1, <2>2, CallRepairing
<1>5. QED BY <1>3, <1>4

LEMMA CallAppendFailed ==
  ASSUME TypeOK, Repairing, NEW c \in Call, pc[c] \in Appending, AppendFailed(c),
         marked \subseteq marked', UNCHANGED queue
  PROVE  Repairing'
<1>1. c \notin Worker /\ (\A t \in Call : Queued(t) => Queued(t)') /\ rpc[c] = "none"
  BY Disjoint DEF Queued, Repairing, Returned, Appending
<1>2. Moves(c, After) /\ UNCHANGED rpc
  BY Disjoint, AppendFailedStep DEF TypeOK
<1>3. UNCHANGED <<kept, gone>>
  BY <1>1 DEF AppendFailed
<1>4. pc'[c] = "enqueue" => hand'[c].turn = c
  <2>1. CASE Restoring(c)
    <3>1. RestoreNext(c, todo[c])
      BY <1>1, <2>1 DEF AppendFailed
    <3>2. Moves(c, {"mark", "done"})
      BY <3>1, RestoreNextStep DEF TypeOK, ProcessTyped
    <3>3. QED BY <3>2 DEF Moves
  <2>2. CASE ~ Restoring(c)
    BY <1>1, <2>2 DEF AppendFailed, Restoring
  <2>3. QED BY <2>1, <2>2
<1>5. QED BY <1>1, <1>2, <1>3, <1>4, CallRepairing

\* A worker reaches the end of an append ...
LEMMA WorkerAppended ==
  ASSUME TypeOK, Repairing, NEW w \in Worker, pc[w] \in Appending, Appended(w),
         hand[w].turn \in marked', marked \subseteq marked', UNCHANGED queue
  PROVE  Repairing'
<1>1. Moves(w, After) /\ Goto(w, "pop") /\ Take(w, None) /\ UNCHANGED <<kept, rpc, gone>>
  BY Disjoint, AppendedStep DEF Appended, TypeOK
<1>2. hand'[w] = None
  BY <1>1, Disjoint DEF Take, TypeOK, ProcessTyped
<1>3. \A t \in Call : t \in Held(w) => t \in Held(w)' \/ t \in marked'
  BY <1>1, <1>2 DEF Held
<1>4. \A t \in Call : Queued(t) => Queued(t)'
  BY DEF Queued
<1>5. QED BY <1>1, <1>2, <1>3, <1>4, WorkerRepairing

\* ... or keeps the item of an append that failed, or gives it up.
LEMMA WorkerAppendFailed ==
  ASSUME TypeOK, Repairing, NEW w \in Worker, pc[w] \in Appending, AppendFailed(w),
         marked \subseteq marked', UNCHANGED queue
  PROVE  Repairing'
<1>1. /\ Moves(w, After) /\ Goto(w, "pop") /\ Take(w, None) /\ UNCHANGED rpc
      /\ \A v \in Worker \ {w} : kept'[v] = kept[v]
  BY Disjoint, AppendFailedStep DEF AppendFailed, KeepForRetry, TypeOK
<1>2. hand'[w] = None /\ hand[w] \in RepairItem /\ kept[w] \in Seq(RepairItem)
  BY <1>1, Disjoint, HandIsItem DEF Take, TypeOK, ProcessTyped
<1>3. ASSUME NEW t \in Call, t \in Held(w) PROVE t \in Held(w)' \/ t \in gone'
  <2>1. CASE Retry(w).retry >= MaxRetry
    <3>1. gone' = gone \cup {hand[w].turn} /\ kept' = kept
      BY <2>1 DEF AppendFailed, KeepForRetry
    <3>2. QED BY <1>3, <3>1 DEF Held
  <2>2. CASE ~ (Retry(w).retry >= MaxRetry)
    <3>1. kept' = [kept EXCEPT ![w] = Append(kept[w], Retry(w))]
      BY <2>2 DEF AppendFailed, KeepForRetry
    <3>2. kept'[w] = Append(kept[w], Retry(w))
      BY <3>1 DEF TypeOK, ProcessTyped
    <3>3. Retry(w) \in RepairItem /\ Retry(w).turn = hand[w].turn
      BY <1>2 DEF Retry, RepairItem
    <3>4. /\ Len(kept'[w]) = Len(kept[w]) + 1 /\ Len(kept[w]) \in Nat
          /\ kept'[w][Len(kept[w]) + 1] = Retry(w) /\ DOMAIN kept'[w] = 1 .. Len(kept[w]) + 1
          /\ \A i \in 1 .. Len(kept[w]) : kept'[w][i] = kept[w][i]
      BY <1>2, <3>2, <3>3, AppendProperties, LenProperties
    <3>5. CASE \E i \in 1 .. Len(kept[w]) : kept[w][i].turn = t
      <4>1. PICK i \in 1 .. Len(kept[w]) : kept[w][i].turn = t
        BY <3>5
      <4>2. i \in DOMAIN kept'[w] /\ kept'[w][i].turn = t
        BY <3>4, <4>1
      <4>3. QED BY <4>2 DEF Held
    <3>6. CASE hand[w].turn = t
      <4>1. Len(kept[w]) + 1 \in DOMAIN kept'[w] /\ kept'[w][Len(kept[w]) + 1].turn = t
        BY <3>3, <3>4, <3>6
      <4>2. QED BY <4>1 DEF Held
    <3>7. QED BY <1>3, <3>5, <3>6, HeldTurns
  <2>3. QED BY <2>1, <2>2
<1>4. (\A t \in Call : Queued(t) => Queued(t)') /\ gone \subseteq gone'
  BY DEF Queued, AppendFailed, KeepForRetry
<1>5. QED BY <1>1, <1>2, <1>3, <1>4, WorkerRepairing

LEMMA AppendRepairing ==
  \A p \in Process : TypeOK /\ Once /\ Repairing /\ (Mark(p) \/ Push(p)) => Repairing'
<1> SUFFICES ASSUME NEW p \in Process, TypeOK, Once, Repairing, Mark(p) \/ Push(p) PROVE Repairing'
  OBVIOUS
<1>1. pc[p] \in Appending /\ marked \subseteq marked' /\ UNCHANGED queue
  BY DEF Mark, Push, Appending
<1>2. p \in Call \/ p \in Worker
  BY DEF Process
<1>3. CASE Appended(p) /\ hand[p].turn \in marked'
  BY <1>1, <1>2, <1>3, CallAppended, WorkerAppended
<1>4. CASE AppendFailed(p)
  BY <1>1, <1>2, <1>4, CallAppendFailed, WorkerAppendFailed
<1>5. CASE Goto(p, "push") /\ UNCHANGED <<hand, kept, rpc, gone>>
  <2>1. "push" \in Label /\ "push" \in Appending
    BY DEF Label, Appending
  <2>2. Moves(p, {"push"})
    BY <1>1, <1>5, <2>1, HandIsItem, OwnMove DEF TypeOK
  <2>3. pc'[p] = "push" /\ \A t \in Call : Queued(t) => Queued(t)'
    BY <1>1, <2>2 DEF Moves, Queued
  <2>4. CASE p \in Call
    <3>1. rpc'[p] = "none"
      BY <1>1, <1>5, <2>4 DEF Repairing, Returned, Appending
    <3>2. QED BY <1>1, <1>5, <2>2, <2>3, <2>4, <3>1, CallRepairing
  <2>5. CASE p \in Worker
    <3>1. Held(p)' = Held(p)
      BY <1>5 DEF Held
    <3>2. QED BY <1>1, <1>5, <2>1, <2>2, <2>3, <2>5, <3>1, WorkerRepairing
  <2>6. QED BY <1>2, <2>4, <2>5
<1>6. CASE Mark(p)
  <2>1. (Appended(p) /\ hand[p].turn \in marked') \/ AppendFailed(p)
        \/ (Goto(p, "push") /\ UNCHANGED <<hand, kept, rpc, gone>>)
    BY <1>6 DEF Mark, AlreadyThere
  <2>2. QED BY <1>3, <1>4, <1>5, <2>1
<1>7. CASE Push(p)
  <2>1. hand[p].turn \in marked'
    BY <1>7 DEF Push, Once, Pushing
  <2>2. Appended(p) \/ AppendFailed(p)
    BY <1>7 DEF Push
  <2>3. QED BY <1>3, <1>4, <2>1, <2>2
<1>8. QED BY <1>6, <1>7

LEMMA AnswerRepairing ==
  \A c \in Call :
    TypeOK /\ Repairing
    /\ (Start(c) \/ FindForRebuild(c) \/ SaveFlow(c) \/ Move(c) \/ Enqueue(c) \/ Crash(c))
    => Repairing'
<1> SUFFICES ASSUME NEW c \in Call, TypeOK, Repairing,
                    \/ Start(c) \/ FindForRebuild(c) \/ SaveFlow(c) \/ Move(c) \/ Enqueue(c)
                    \/ Crash(c)
             PROVE  Repairing'
  OBVIOUS
<1> USE DEF redis, process, refresh, history
<1>1. c \in Process /\ ProcessTyped /\ RefreshTyped
  BY Disjoint DEF TypeOK
<1>2. {"find", "save", "move", "done", "crashed"} \subseteq Label \ Appending /\ "mark" \in Label
  BY DEF Label, Appending
<1>3. UNCHANGED <<kept, marked>> /\ gone \subseteq gone'
  BY DEF Start, FindForRebuild, SaveFlow, Move, Enqueue, Crash
<1>4. CASE Enqueue(c)
  <2>1. Moves(c, {"done"})
    BY <1>1, <1>2, <1>4, OwnStep DEF Enqueue
  <2>2. hand[c].turn = c /\ hand[c] \in RepairItem
    BY <1>1, <1>4, HandIsItem DEF Repairing, Returned, Enqueue, Appending
  <2>3. (\A t \in Call : Queued(t) => Queued(t)') /\ (Queued(c)' \/ c \in gone')
    BY <1>4, <2>2, QueuedBefore DEF Enqueue, Queued
  <2>4. \A d \in Call \ {c} : rpc'[d] = rpc[d]
    BY <1>1, <1>4 DEF Enqueue, RefreshGoto, RefreshTyped
  <2>5. pc'[c] = "done"
    BY <2>1 DEF Moves
  <2>6. QED BY <1>3, <2>1, <2>3, <2>4, <2>5, CallRepairing
<1>5. CASE ~ Enqueue(c)
  <2>1. UNCHANGED queue /\ \A t \in Call : Queued(t) => Queued(t)'
    BY <1>5 DEF Start, FindForRebuild, SaveFlow, Move, Crash, Queued
  <2>2. CASE UNCHANGED rpc /\ pc[c] # "done" /\ \E L : Moves(c, L) /\ "enqueue" \notin L
    <3>1. rpc'[c] = "none" /\ pc'[c] # "enqueue"
      BY <2>2 DEF Moves, Repairing, Returned
    <3>2. QED BY <1>3, <2>1, <2>2, <3>1, CallRepairing
  <2>3. CASE Start(c)
    <3>1. Moves(c, {"find"}) \/ Moves(c, {"move"})
      BY <1>1, <1>2, <2>3, OwnMove DEF Start
    <3>2. QED BY <2>2, <2>3, <3>1 DEF Start, MayStart
  <2>4. CASE FindForRebuild(c)
    <3>1. Moves(c, {"save"}) \/ Moves(c, {"mark", "done"})
      BY <1>1, <1>2, <2>4, OwnMove, RestoreNextStep DEF FindForRebuild
    <3>2. QED BY <2>2, <2>4, <3>1 DEF FindForRebuild
  <2>5. CASE SaveFlow(c)
    <3>1. Moves(c, {"move"})
      BY <1>1, <1>2, <2>5, OwnMove DEF SaveFlow
    <3>2. QED BY <2>2, <2>5, <3>1 DEF SaveFlow
  <2>6. CASE Move(c)
    <3>1. Item(c, 0) \in RepairItem
      BY DEF Item, RepairItem
    <3>2. Moves(c, {"mark"}) \/ Moves(c, {"done"})
      BY <1>1, <1>2, <2>6, <3>1, OwnStep, OwnMove DEF Move
    <3>3. QED BY <2>2, <2>6, <3>2 DEF Move
  <2>7. CASE Crash(c) /\ Goto(c, "crashed") /\ pc[c] \notin Resting /\ UNCHANGED rpc
    <3>1. Moves(c, {"crashed"})
      BY <1>1, <1>2, <2>7, OwnMove DEF Crash
    <3>2. QED BY <2>2, <2>7, <3>1 DEF Resting
  <2>8. CASE Crash(c) /\ rpc[c] # "none" /\ EndRefresh(c) /\ UNCHANGED pc
    <3>1. /\ \A d \in Call : rpc'[d] # "none" => rpc[d] # "none"
          /\ UNCHANGED <<hand, kept, queue, marked, gone>>
      BY <1>1, <2>1, <2>8 DEF Crash, EndRefresh, RefreshGoto, RefreshTyped
    <3>2. QED
      BY <2>8, <3>1 DEF Repairing, Returned, EmptyHanded, UnmarkedTurnIsRepaired, Answered,
        UnderRepair, Queued, Held
  <2>9. QED BY <1>5, <2>3, <2>4, <2>5, <2>6, <2>7, <2>8 DEF Crash
<1>6. QED BY <1>4, <1>5

\* A sequence without its last element.
LEMMA FrontItems ==
  ASSUME NEW S, NEW s \in Seq(S), s # << >>
  PROVE  /\ SubSeq(s, 1, Len(s) - 1) \in Seq(S) /\ Len(SubSeq(s, 1, Len(s) - 1)) = Len(s) - 1
         /\ \A j \in 1 .. Len(s) - 1 : SubSeq(s, 1, Len(s) - 1)[j] = s[j]
<1> DEFINE n == Len(s) - 1
<1>1. Len(s) \in Nat /\ Len(s) > 0 /\ n \in Int /\ 1 \in Int /\ n >= 0
  BY EmptySeq, LenProperties
<1>2. \A j \in 1 .. n : s[j] \in S
  BY <1>1, ElementOfSeq
<1>3. SubSeq(s, 1, n) \in Seq(S)
  <2> HIDE DEF n
  <2> QED BY <1>1, <1>2, SubSeqProperties
<1>4. Len(SubSeq(s, 1, n)) = n
  <2> HIDE DEF n
  <2> QED BY <1>1
<1>5. ASSUME NEW j \in 1 .. n PROVE SubSeq(s, 1, n)[j] = s[j]
  <2>1. n <= Len(s)
    BY <1>1
  <2> HIDE DEF n
  <2> QED BY <1>1, <1>5, <2>1
<1>6. QED BY <1>3, <1>4, <1>5

\* The worker pops an item, or finds the queue empty.
LEMMA PopRepairing == \A w \in Worker : TypeOK /\ Repairing /\ Pop(w) => Repairing'
<1> SUFFICES ASSUME NEW w \in Worker, TypeOK, Repairing, Pop(w) PROVE Repairing'
  OBVIOUS
<1>1. w \in Process /\ queue \in Seq(RepairItem) /\ ProcessTyped
  BY Disjoint DEF TypeOK, RedisTyped
<1>2. {"mark", "idle", "requeue"} \subseteq Label /\ {"idle", "requeue"} \cap Appending = {}
      /\ "mark" \in Appending
  BY DEF Label, Appending
<1>3. hand[w] = None /\ UNCHANGED <<rpc, kept, marked, gone>>
  BY DEF Pop, Repairing, EmptyHanded, Appending, refresh, history
<1>4. CASE queue # << >>
  <2>1. queue[Len(queue)] \in RepairItem
    BY <1>1, <1>4, LastItem
  <2>2. Moves(w, {"mark"}) /\ hand'[w] = queue[Len(queue)]
    BY <1>1, <1>2, <1>4, <2>1, OwnStep DEF Pop
  <2>3. \A t \in Call : t \in Held(w) => t \in Held(w)'
    BY <1>3 DEF Held
  <2>4. ASSUME NEW t \in Call, Queued(t) PROVE Queued(t)' \/ t \in Held(w)'
    <3>1. Len(queue) \in Nat /\ Len(queue) > 0
      BY <1>1, <1>4, EmptySeq, LenProperties
    <3>2. PICK i \in 1 .. Len(queue) : queue[i].turn = t
      BY <1>1, <2>4, LenProperties DEF Queued
    <3>3. CASE i = Len(queue)
      <4>1. hand'[w].turn = t /\ hand'[w] # None
        BY <2>1, <2>2, <3>2, <3>3, NoneIsFresh
      <4>2. QED BY <4>1 DEF Held
    <3>4. CASE i # Len(queue)
      <4>1. queue' = SubSeq(queue, 1, Len(queue) - 1)
        BY <1>4 DEF Pop
      <4>3. /\ queue' \in Seq(RepairItem) /\ Len(queue') = Len(queue) - 1
            /\ \A j \in 1 .. Len(queue) - 1 : queue'[j] = queue[j]
        BY <1>1, <1>4, <4>1, FrontItems
      <4>4. i \in DOMAIN queue' /\ queue'[i].turn = t
        BY <3>1, <3>2, <3>4, <4>3, LenProperties
      <4>5. QED BY <4>4 DEF Queued
    <3>5. QED BY <3>3, <3>4
  <2>5. pc'[w] \in Appending
    BY <1>2, <2>2 DEF Moves
  <2>6. QED BY <1>3, <2>2, <2>3, <2>4, <2>5, WorkerRepairing
<1>5. CASE queue = << >>
  <2>1. Moves(w, {"idle"}) \/ Moves(w, {"requeue"})
    BY <1>1, <1>2, <1>5, OwnMove DEF Pop
  <2>2. UNCHANGED <<queue, hand>> /\ hand'[w] = None
    BY <1>3, <1>5 DEF Pop
  <2>3. \A t \in Call : (t \in Held(w) => t \in Held(w)') /\ (Queued(t) => Queued(t)')
    BY <1>3, <2>2 DEF Held, Queued
  <2>4. QED BY <1>3, <2>1, <2>2, <2>3, WorkerRepairing
<1>6. QED BY <1>4, <1>5

LEMMA RequeueRepairing == \A w \in Worker : TypeOK /\ Repairing /\ Requeue(w) => Repairing'
<1> SUFFICES ASSUME NEW w \in Worker, TypeOK, Repairing, Requeue(w) PROVE Repairing'
  OBVIOUS
<1>1. {"idle", "requeue"} \subseteq Label \ Appending /\ w \in Process /\ ProcessTyped
  BY Disjoint DEF Label, Appending, TypeOK
<1>2. Moves(w, {"idle"}) \/ Moves(w, {"requeue"})
  BY <1>1, OwnMove DEF Requeue
<1>3. hand[w] = None /\ UNCHANGED <<rpc, hand, marked>>
  BY <1>1 DEF Requeue, Repairing, EmptyHanded, refresh
<1>4. kept[w] \in Seq(RepairItem) /\ kept[w] # << >>
  BY <1>1 DEF Requeue, ProcessTyped
<1>5. /\ Head(kept[w]) \in RepairItem /\ Tail(kept[w]) \in Seq(RepairItem)
      /\ Len(Tail(kept[w])) = Len(kept[w]) - 1 /\ Head(kept[w]) = kept[w][1]
      /\ \A i \in 1 .. Len(Tail(kept[w])) : Tail(kept[w])[i] = kept[w][i + 1]
      /\ Len(kept[w]) \in Nat
  BY <1>4, HeadTailProperties, LenProperties
<1>6. kept'[w] = Tail(kept[w]) /\ \A v \in Worker \ {w} : kept'[v] = kept[v]
  BY <1>1 DEF Requeue, ProcessTyped
<1>7. gone \subseteq gone' /\ \A t \in Call : Queued(t) => Queued(t)'
  BY <1>5, QueuedBefore DEF Requeue, Queued
<1>8. ASSUME NEW item \in RepairItem, item = Head(kept[w])
      PROVE  Queued(item.turn)' \/ item.turn \in gone'
  <2>1. CASE queue' = <<item>> \o queue
    BY <2>1, QueuedBefore
  <2>2. CASE gone' = gone \cup {item.turn}
    BY <2>2
  <2>3. QED BY <1>8, <2>1, <2>2 DEF Requeue
<1>9. ASSUME NEW t \in Call, t \in Held(w) PROVE t \in Held(w)' \/ Queued(t)' \/ t \in gone'
  <2>1. PICK i \in 1 .. Len(kept[w]) : kept[w][i].turn = t
    BY <1>3, <1>9, HeldTurns
  <2>2. CASE i = 1
    <3>1. PICK item \in RepairItem : item = Head(kept[w]) /\ item.turn = t
      BY <1>5, <2>1, <2>2
    <3>2. Queued(item.turn)' \/ item.turn \in gone'
      BY <1>8, <3>1
    <3>3. QED BY <3>1, <3>2 DEF Queued
  <2>3. CASE i # 1
    <3>1. i - 1 \in 1 .. Len(kept'[w]) /\ kept'[w][i - 1].turn = t
      BY <1>5, <1>6, <2>1, <2>3
    <3>2. i - 1 \in DOMAIN kept'[w]
      BY <1>5, <1>6, <3>1, LenProperties
    <3>3. QED BY <3>1, <3>2 DEF Held
  <2>4. QED BY <2>2, <2>3
<1>10. QED BY <1>2, <1>3, <1>6, <1>7, <1>9, WorkerRepairing

\* What a crash of the worker's instance takes from its memory is given up.
LEMMA WorkerCrashRepairing ==
  \A w \in Worker : TypeOK /\ Repairing /\ WorkerCrash(w) => Repairing'
<1> SUFFICES ASSUME NEW w \in Worker, TypeOK, Repairing, WorkerCrash(w) PROVE Repairing'
  OBVIOUS
<1>1. "idle" \in Label \ Appending /\ w \in Process /\ ProcessTyped
  BY Disjoint DEF Label, Appending, TypeOK
<1>2. Moves(w, {"idle"}) /\ hand'[w] = None
  BY <1>1, OwnStep DEF WorkerCrash
<1>3. UNCHANGED <<rpc, queue, marked>> /\ gone' = gone \cup Held(w)
  BY DEF WorkerCrash, redis, refresh
<1>4. \A v \in Worker \ {w} : kept'[v] = kept[v]
  BY <1>1 DEF WorkerCrash, ProcessTyped
<1>5. \A t \in Call : Queued(t) => Queued(t)'
  BY <1>3 DEF Queued
<1>6. QED BY <1>2, <1>3, <1>4, <1>5, WorkerRepairing

\* The refresh and the losses: no call returns, and no turn leaves the queue or a worker.
LEMMA ElsewhereRepairing ==
  TypeOK /\ Repairing
  /\ (FlowLost \/ LogExpires \/ (\E c \in Call : RefreshStep(c)) \/ UNCHANGED vars) => Repairing'
<1> SUFFICES ASSUME TypeOK, Repairing,
                    \/ FlowLost \/ LogExpires \/ (\E c \in Call : RefreshStep(c))
                    \/ UNCHANGED vars
             PROVE  Repairing'
  OBVIOUS
<1> USE DEF redis, process, refresh, history
<1>1. UNCHANGED <<pc, hand, kept, queue>> /\ marked \cup gone \subseteq marked' \cup gone'
  BY DEF FlowLost, LogExpires, RefreshStep, ReadLatest, FindForRefresh, ArchiveTurn,
    WriteHotSnapshot, vars
<1>2. \A d \in Call : rpc'[d] # "none" => rpc[d] # "none"
  <2>1. ASSUME NEW c \in Call, RefreshStep(c), NEW d \in Call, rpc'[d] # "none"
        PROVE  rpc[d] # "none"
    <3>1. rpc[c] # "none"
      BY <2>1 DEF RefreshStep, ReadLatest, FindForRefresh, ArchiveTurn, WriteHotSnapshot
    <3>2. d # c => rpc'[d] = rpc[d]
      BY <2>1 DEF RefreshStep, ReadLatest, FindForRefresh, ArchiveTurn, WriteHotSnapshot,
        TryAgain, EndRefresh, RefreshGoto, TypeOK, RefreshTyped
    <3>3. QED BY <2>1, <3>1, <3>2
  <2>2. (FlowLost \/ LogExpires \/ UNCHANGED vars) => UNCHANGED rpc
    BY DEF FlowLost, LogExpires, vars
  <2>3. QED BY <2>1, <2>2
<1>3. QED
  BY <1>1, <1>2 DEF Repairing, Returned, EmptyHanded, UnmarkedTurnIsRepaired, Answered,
    UnderRepair, Queued, Held

LEMMA RepairingAlways == Spec => [](TypeOK /\ Repairing)
<1>1. Init => Repairing
  BY Disjoint DEF Init, Repairing, Returned, EmptyHanded, UnmarkedTurnIsRepaired, Answered
<1>2. TypeOK /\ Once /\ Repairing /\ [Next]_vars => Repairing'
  <2> SUFFICES ASSUME TypeOK, Once, Repairing, [Next]_vars PROVE Repairing'
    OBVIOUS
  <2>1. ASSUME NEW c \in Call, CallStep(c) PROVE Repairing'
    BY <2>1, Disjoint, AnswerRepairing, AppendRepairing DEF CallStep
  <2>2. ASSUME NEW w \in Worker, RepairStep(w) \/ WorkerCrash(w) PROVE Repairing'
    BY <2>2, Disjoint, PopRepairing, RequeueRepairing, WorkerCrashRepairing, AppendRepairing
      DEF RepairStep
  <2>3. QED BY <2>1, <2>2, ElsewhereRepairing DEF Next
<1>3. QED BY <1>1, <1>2, OnceAlways, PTL DEF Spec

\* An answered turn whose id is not in the set is in the queue or in a worker's memory, unless it
\* was given up (turn_repair_service.go): no path through the queue, its workers and their retries
\* loses it, whatever fails and however many workers there are.
THEOREM TurnsAreRepaired == Spec => []UnmarkedTurnIsRepaired
<1>1. Repairing => UnmarkedTurnIsRepaired
  BY DEF Repairing
<1>2. QED BY <1>1, RepairingAlways, PTL

-----------------------------------------------------------------------------
(* No refresh works on an old snapshot.  What makes it inductive: a snapshot *)
(* that a refresh has found is the one there is, or has a smaller version.   *)

\* Only a refresh takes up a snapshot or the archive's seq; a crash may drop them.
RefreshesOnly ==
  /\ UNCHANGED <<hot, archive, lastSeq, missed, crossed>>
  /\ \A d \in Call : \/ base'[d] = base[d] /\ seq'[d] = seq[d]
                     \/ base'[d] = None /\ seq'[d] = 0

LEMMA EndsClean ==
  ASSUME RefreshTyped, NEW c \in Call, EndRefresh(c)
  PROVE  /\ base'[c] = None /\ seq'[c] = 0 /\ latest'[c] = 0 /\ rpc'[c] = "end"
         /\ \A d \in Call \ {c} : /\ base'[d] = base[d] /\ seq'[d] = seq[d]
                                  /\ latest'[d] = latest[d] /\ rpc'[d] = rpc[d]
BY DEF RefreshTyped, EndRefresh, RefreshGoto

LEMMA StepOfRefresh ==
  ASSUME TypeOK, [Next]_vars
  PROVE  \/ \E c \in Call : FindForRefresh(c) \/ ArchiveTurn(c) \/ WriteHotSnapshot(c)
         \/ RefreshesOnly
<1> USE DEF RefreshesOnly, redis, mysql, process, refresh, bounds, history
<1>1. ASSUME NEW c \in Call, CallStep(c) PROVE RefreshesOnly
  <2>1. CASE Start(c) \/ FindForRebuild(c) \/ SaveFlow(c) \/ Move(c)
    BY <2>1 DEF Start, FindForRebuild, SaveFlow, Move
  <2>2. CASE Mark(c) \/ Push(c) \/ Enqueue(c)
    BY <2>2 DEF Mark, Push, Enqueue
  <2>3. CASE Crash(c)
    <3>1. UNCHANGED <<hot, archive, lastSeq, missed, crossed>>
      BY <2>3 DEF Crash
    <3>2. CASE UNCHANGED refresh
      BY <3>1, <3>2
    <3>3. CASE EndRefresh(c)
      BY <3>1, <3>3, EndsClean DEF TypeOK
    <3>4. QED BY <2>3, <3>2, <3>3 DEF Crash
  <2>4. QED BY <1>1, <2>1, <2>2, <2>3 DEF CallStep
<1>2. ASSUME NEW c \in Call, ReadLatest(c) PROVE RefreshesOnly
  BY <1>2 DEF ReadLatest
<1>3. ASSUME NEW w \in Worker, RepairStep(w) \/ WorkerCrash(w) PROVE RefreshesOnly
  BY <1>3 DEF RepairStep, Pop, Mark, Push, Requeue, WorkerCrash
<1>4. FlowLost \/ LogExpires \/ UNCHANGED vars => RefreshesOnly
  BY DEF FlowLost, LogExpires, vars
<1>5. QED BY <1>1, <1>2, <1>3, <1>4 DEF Next, RefreshStep

\* What a write does to the snapshot and to the refresh.
LEMMA SnapshotWritten ==
  ASSUME TypeOK, NEW c \in Call, WriteHotSnapshot(c)
  PROVE  /\ hot' = hot \/ (hot' = BuildHotSnapshot(c) /\ Writable(c))
         /\ \A d \in Call : \/ base'[d] = base[d] /\ seq'[d] = seq[d]
                            \/ base'[d] = None /\ seq'[d] = 0
<1>1. TryAgain(c) => EndRefresh(c) \/ UNCHANGED <<base, seq>>
  BY DEF TryAgain
<1>2. EndRefresh(c) \/ UNCHANGED <<base, seq>>
  BY <1>1 DEF WriteHotSnapshot
<1>3. QED BY <1>2, EndsClean DEF TypeOK, WriteHotSnapshot

Found(s) == hot # None /\ s.version <= hot.version /\ (s.version = hot.version => s = hot)

Versions == ~ crossed => \A c \in Call : base[c] # None => Found(base[c])

LEMMA VersionsStep ==
  ASSUME TypeOK, Versions, [Next]_vars
  PROVE  Versions'
<1> SUFFICES ASSUME ~ crossed', NEW d \in Call, base'[d] # None PROVE Found(base[d])'
  BY DEF Versions
<1>0. RefreshTyped /\ MySQLTyped
  BY DEF TypeOK
<1>1. CASE RefreshesOnly
  BY <1>1 DEF RefreshesOnly, Versions, Found
<1>2. ASSUME NEW c \in Call, FindForRefresh(c) PROVE Found(base[d])'
  <2>1. base'[d] = base[d] \/ base'[d] = hot
    BY <1>0, <1>2, EndsClean DEF FindForRefresh, RefreshTyped, TypeOK
  <2>2. hot # None => hot.version <= hot.version
    BY <1>0 DEF MySQLTyped, HotSnapshot
  <2>3. UNCHANGED <<hot, crossed>>
    BY <1>2 DEF FindForRefresh, mysql, history
  <2>4. QED BY <2>1, <2>2, <2>3 DEF Versions, Found
<1>3. ASSUME NEW c \in Call, ArchiveTurn(c) PROVE Found(base[d])'
  BY <1>3 DEF ArchiveTurn, history, Versions, Found
<1>4. ASSUME NEW c \in Call, WriteHotSnapshot(c) PROVE Found(base[d])'
  <2>1. base'[d] = base[d] /\ ~ crossed
    BY <1>4, SnapshotWritten DEF WriteHotSnapshot
  <2>2. Found(base[d])
    BY <2>1 DEF Versions
  <2>3. CASE hot' = hot
    BY <2>1, <2>2, <2>3 DEF Found
  <2>4. CASE hot' # hot
    <3>1. hot' = BuildHotSnapshot(c) /\ Writable(c) /\ hot # None
      BY <1>4, <2>2, <2>4, SnapshotWritten DEF Found
    <3>2. base[c] # None
      BY <1>4, <2>4, <3>1 DEF WriteHotSnapshot
    <3>3. hot.version = base[c].version /\ hot'.version = base[c].version + 1
      BY <3>1, <3>2 DEF Writable, BuildHotSnapshot
    <3>4. hot' # None
      BY <1>0, <3>1, BuiltSnapshot, NoneIsFresh
    <3>5. base[d] \in HotSnapshot /\ base[c] \in HotSnapshot
      BY <1>0, <2>1, <3>2 DEF RefreshTyped
    <3>6. base[d].version \in Nat /\ base[c].version \in Nat
      BY <3>5 DEF HotSnapshot
    <3>7. base[d].version < hot'.version
      BY <2>2, <3>3, <3>6 DEF Found
    <3>8. hot'.version \in Nat
      BY <3>3, <3>6
    <3>9. QED BY <2>1, <3>4, <3>6, <3>7, <3>8 DEF Found
  <2>5. QED BY <2>3, <2>4
<1>5. QED BY <1>1, <1>2, <1>3, <1>4, StepOfRefresh

LEMMA VersionsAlways == Spec => [](TypeOK /\ Versions)
<1>1. Init => Versions
  BY DEF Init, Versions
<1>2. TypeOK /\ Versions /\ [Next]_vars => Versions'
  BY VersionsStep
<1>3. QED BY <1>1, <1>2, RecordsTypeCorrect, PTL DEF Spec

\* Once there is a snapshot, no refresh writes over what another has written (snapshot_service.go):
\* the turns of the next one are those of the last and the new turn, whatever fails, as long as
\* no two refreshes have met over the first snapshot.
THEOREM TurnsAreKept == Spec => NoTurnOverwritten
<1>1. ASSUME TypeOK, Versions, [Next]_vars, hot # None, hot' # hot, ~ crossed'
      PROVE  hot'.turns = KeepLast(Append(hot.turns, hot'.last), RecentTurnLimit)
  <2>1. PICK c \in Call : WriteHotSnapshot(c)
    BY <1>1, StepOfRefresh DEF RefreshesOnly, FindForRefresh, ArchiveTurn, mysql
  <2>2. hot' = BuildHotSnapshot(c) /\ Writable(c)
    BY <1>1, <2>1, SnapshotWritten
  <2>3. base[c] # None /\ ~ crossed
    BY <1>1, <2>1 DEF WriteHotSnapshot
  <2>4. base[c] = hot
    BY <1>1, <2>2, <2>3 DEF Writable, Versions, Found
  <2>5. QED BY <2>2, <2>3, <2>4 DEF BuildHotSnapshot
<1>2. QED BY <1>1, VersionsAlways, PTL DEF Spec, NoTurnOverwritten

-----------------------------------------------------------------------------
(* Calls that do not overlap.  What makes the flow's progress inductive: only *)
(* one call is under way, and a rebuild goes on only while Redis has no flow. *)

\* The other calls and the workers stay where they are.
OthersStay(c) ==
  /\ \A p \in Process \ {c} : pc'[p] = pc[p] /\ hand'[p] = hand[p]
  /\ \A d \in Call \ {c} : /\ at'[d] = at[d] /\ todo'[d] = todo[d]
                           /\ rpc'[d] = rpc[d] /\ latest'[d] = latest[d]

LEMMA AppendStays ==
  ASSUME TypeOK, NEW c \in Call, Appended(c) \/ AppendFailed(c)
  PROVE  /\ \A p \in Process \ {c} : pc'[p] = pc[p] /\ hand'[p] = hand[p]
         /\ \A d \in Call \ {c} : todo'[d] = todo[d] /\ rpc'[d] = rpc[d]
<1>1. c \notin Worker
  BY Disjoint
<1>2. ASSUME RestoreNext(c, todo[c]), UNCHANGED rpc
      PROVE  /\ \A p \in Process \ {c} : pc'[p] = pc[p] /\ hand'[p] = hand[p]
             /\ \A d \in Call \ {c} : todo'[d] = todo[d] /\ rpc'[d] = rpc[d]
  BY <1>2, SMTT(30) DEF RestoreNext, Goto, Take, TypeOK, ProcessTyped, RefreshTyped
<1>3. ASSUME Return(c)
      PROVE  /\ \A p \in Process \ {c} : pc'[p] = pc[p] /\ hand'[p] = hand[p]
             /\ \A d \in Call \ {c} : todo'[d] = todo[d] /\ rpc'[d] = rpc[d]
  BY <1>3 DEF Return, RefreshGoto, Goto, Take, TypeOK, ProcessTyped, RefreshTyped
<1>4. ASSUME Goto(c, "enqueue"), UNCHANGED <<hand, todo, rpc>>
      PROVE  /\ \A p \in Process \ {c} : pc'[p] = pc[p] /\ hand'[p] = hand[p]
             /\ \A d \in Call \ {c} : todo'[d] = todo[d] /\ rpc'[d] = rpc[d]
  BY <1>4 DEF Goto, TypeOK, ProcessTyped
<1>5. QED BY <1>1, <1>2, <1>3, <1>4 DEF Appended, AppendFailed

LEMMA CallStays ==
  ASSUME TypeOK, NEW c \in Call, CallStep(c)
  PROVE  OthersStay(c) /\ UNCHANGED <<hot, archive>> /\ shaken \subseteq shaken'
<1> USE DEF OthersStay, redis, mysql, process, refresh, history
<1>0. ProcessTyped /\ RefreshTyped
  BY DEF TypeOK
<1>1. CASE Start(c)
  BY <1>0, <1>1 DEF Start, Goto, ProcessTyped
<1>2. CASE FindForRebuild(c)
  BY <1>0, <1>2 DEF FindForRebuild, RestoreNext, Goto, Take, ProcessTyped
<1>3. CASE SaveFlow(c) \/ Move(c)
  BY <1>0, <1>3 DEF SaveFlow, Move, Goto, Take, ProcessTyped
<1>4. CASE Mark(c) \/ Push(c)
  <2>1. Appended(c) \/ AppendFailed(c) \/ (Goto(c, "push") /\ UNCHANGED <<hand, todo, rpc>>)
    BY <1>4 DEF Mark, Push
  <2>2. /\ \A p \in Process \ {c} : pc'[p] = pc[p] /\ hand'[p] = hand[p]
        /\ \A d \in Call \ {c} : todo'[d] = todo[d] /\ rpc'[d] = rpc[d]
    BY <1>0, <2>1, AppendStays DEF Goto, ProcessTyped
  <2>3. QED BY <1>4, <2>2 DEF Mark, Push
<1>5. CASE Enqueue(c)
  BY <1>0, <1>5 DEF Enqueue, RefreshGoto, Goto, Take, ProcessTyped, RefreshTyped
<1>6. CASE Crash(c)
  BY <1>0, <1>6, EndsClean DEF Crash, Goto, ProcessTyped
<1>7. QED BY <1>1, <1>2, <1>3, <1>4, <1>5, <1>6 DEF CallStep

\* What the steps of others than the calls leave alone.
LEMMA RestStays ==
  ASSUME TypeOK, [Next]_vars, \A c \in Call : ~ CallStep(c)
  PROVE  /\ \A c \in Call : pc'[c] = pc[c] /\ hand'[c] = hand[c]
         /\ UNCHANGED <<at, todo>> /\ (UNCHANGED flow \/ FlowLost) /\ shaken \subseteq shaken'
<1> USE DEF redis, mysql, process, refresh, history
<1>0. ProcessTyped
  BY DEF TypeOK
<1>1. ASSUME NEW c \in Call, RefreshStep(c)
      PROVE  UNCHANGED <<pc, hand, at, todo, flow, shaken>>
  BY <1>1 DEF RefreshStep, ReadLatest, FindForRefresh, ArchiveTurn, WriteHotSnapshot
<1>2. ASSUME NEW w \in Worker, RepairStep(w) \/ WorkerCrash(w)
      PROVE  /\ \A c \in Call : pc'[c] = pc[c] /\ hand'[c] = hand[c]
             /\ UNCHANGED <<at, todo, flow, shaken>>
  <2>1. \A c \in Call : c # w
    BY Disjoint
  <2>2. CASE Mark(w) \/ Push(w)
    <3>1. /\ UNCHANGED todo
          /\ \/ Goto(w, "pop") /\ Take(w, None)
             \/ Goto(w, "push") /\ UNCHANGED hand
      BY <2>2 DEF Mark, Push, Appended, AppendFailed, KeepForRetry
    <3>2. QED BY <1>0, <2>1, <2>2, <3>1, Disjoint DEF Mark, Push, Goto, Take, ProcessTyped
  <2>3. CASE Pop(w) \/ Requeue(w) \/ WorkerCrash(w)
    BY <1>0, <2>1, <2>3, Disjoint DEF Pop, Requeue, WorkerCrash, Goto, Take, ProcessTyped
  <2>4. QED BY <1>2, <2>2, <2>3 DEF RepairStep
<1>3. FlowLost => UNCHANGED <<pc, hand, at, todo>> /\ shaken \subseteq shaken'
  BY DEF FlowLost
<1>4. LogExpires \/ UNCHANGED vars => UNCHANGED <<pc, hand, at, todo, flow, shaken>>
  BY DEF LogExpires, vars
<1>5. QED BY <1>1, <1>2, <1>3, <1>4 DEF Next

Alone == \A c, d \in Call : pc[c] \notin Resting /\ pc[d] \notin Resting => c = d

Rebuilds == \A c \in Call : pc[c] \in {"find", "save"} => flow = None

InTurn == Alone /\ Rebuilds

\* Who moves the flow, and how.
LEMMA FlowMoves ==
  ASSUME TypeOK, InTurn, [Next]_vars
  PROVE  \/ UNCHANGED flow
         \/ FlowLost /\ flow' = None
         \/ \E c \in Call : SaveFlow(c) /\ flow = None
         \/ \E c \in Call : Move(c) /\ flow = at[c] /\ flow' = flow + 1
<1>1. ASSUME NEW c \in Call, CallStep(c)
      PROVE  \/ UNCHANGED flow
             \/ SaveFlow(c)
             \/ Move(c) /\ flow = at[c] /\ flow' = flow + 1
  BY <1>1 DEF CallStep, Start, FindForRebuild, Move, Mark, Push, Enqueue, Crash, redis
<1>2. \A c \in Call : SaveFlow(c) => flow = None
  BY DEF SaveFlow, InTurn, Rebuilds
<1>3. FlowLost => flow' = None
  BY DEF FlowLost
<1>4. QED BY <1>1, <1>2, <1>3, RestStays

LEMMA InTurnStep ==
  ASSUME Overlap = FALSE, TypeOK, InTurn, [Next]_vars
  PROVE  InTurn'
<1> USE DEF InTurn
<1>1. ASSUME NEW c \in Call, CallStep(c) PROVE InTurn'
  <2>1. \A d \in Call \ {c} : pc'[d] = pc[d]
    BY <1>1, CallStays, Disjoint DEF OthersStay
  <2>2. CASE Start(c)
    <3>1. \A d \in Call : pc[d] \in Resting
      BY <2>2 DEF Start, MayStart
    <3>2. pc'[c] = "find" => flow = None
      BY <2>2, Disjoint DEF Start, Goto, TypeOK, ProcessTyped
    <3>3. pc'[c] \in {"find", "move"} /\ UNCHANGED flow
      BY <2>2, Disjoint DEF Start, Goto, redis, TypeOK, ProcessTyped
    <3>4. QED BY <2>1, <3>1, <3>2, <3>3 DEF Alone, Rebuilds, Resting
  <2>3. CASE ~ Start(c)
    <3>1. \/ pc[c] \notin Resting
          \/ pc'[c] = pc[c]
      BY <1>1, <2>3 DEF CallStep, FindForRebuild, SaveFlow, Move, Mark, Push, Enqueue, Crash,
        Resting
    <3>2. Alone'
      BY <2>1, <3>1 DEF Alone
    <3>3. CASE FindForRebuild(c)
      <4>1. UNCHANGED flow /\ flow = None
        BY <3>3 DEF FindForRebuild, redis, Rebuilds
      <4>2. QED BY <3>2, <4>1 DEF Rebuilds
    <3>4. CASE ~ FindForRebuild(c)
      <4>1. pc'[c] \in {"find", "save"} => pc'[c] = pc[c] /\ UNCHANGED flow
        <5>1. CASE SaveFlow(c) \/ Move(c)
          BY <5>1, Disjoint DEF SaveFlow, Move, Goto, TypeOK, ProcessTyped
        <5>2. CASE Mark(c) \/ Push(c)
          <6>1. Moves(c, After \cup {"push"})
            <7>1. pc[c] \in Appending /\ "push" \in Label
              BY <5>2 DEF Mark, Push, Appending, Label
            <7>2. Appended(c) \/ AppendFailed(c) \/ (Goto(c, "push") /\ UNCHANGED hand)
              BY <5>2 DEF Mark, Push
            <7>3. Moves(c, After) \/ Moves(c, {"push"})
              BY <7>1, <7>2, Disjoint, AppendedStep, AppendFailedStep, OwnMove, HandIsItem
                DEF TypeOK
            <7>4. QED BY <7>3 DEF Moves
          <6>2. QED BY <6>1 DEF Moves, After
        <5>3. CASE Enqueue(c) \/ Crash(c)
          BY <5>3, Disjoint DEF Enqueue, Crash, Goto, redis, TypeOK, ProcessTyped
        <5>4. QED BY <1>1, <2>3, <3>4, <5>1, <5>2, <5>3 DEF CallStep
      <4>2. CASE pc[c] \in Resting
        <5>1. pc'[c] = pc[c] /\ UNCHANGED flow
          BY <1>1, <2>3, <4>2 DEF CallStep, FindForRebuild, SaveFlow, Move, Mark, Push, Enqueue,
            Crash, Resting, redis
        <5>2. QED BY <2>1, <3>2, <5>1 DEF Rebuilds
      <4>3. CASE pc[c] \notin Resting
        <5>1. \A d \in Call \ {c} : pc'[d] \notin {"find", "save"}
          BY <2>1, <4>3 DEF Alone, Resting
        <5>2. QED BY <3>2, <4>1, <5>1 DEF Rebuilds
      <4>4. QED BY <4>2, <4>3
    <3>5. QED BY <3>3, <3>4
  <2>4. QED BY <2>2, <2>3
<1>2. CASE \A c \in Call : ~ CallStep(c)
  <2>1. (\A c \in Call : pc'[c] = pc[c]) /\ (UNCHANGED flow \/ flow' = None)
    BY <1>2, RestStays DEF FlowLost
  <2>2. QED BY <2>1 DEF Alone, Rebuilds
<1>3. QED BY <1>1, <1>2

LEMMA InTurnAlways == ASSUME Overlap = FALSE PROVE Spec => [](TypeOK /\ InTurn)
<1>1. Init => InTurn
  BY Disjoint DEF Init, InTurn, Alone, Rebuilds, Resting
<1>2. TypeOK /\ InTurn /\ [Next]_vars => InTurn'
  BY InTurnStep
<1>3. QED BY <1>1, <1>2, RecordsTypeCorrect, PTL DEF Spec

\* When a call starts only after the one before it has ended, a flow in Redis never goes back:
\* EnsureRuntime's rebuild saves a flow only where there is none (recovery_service.go).
THEOREM FlowGoesOn == ASSUME Overlap = FALSE PROVE Spec => RebuildKeepsProgress
<1>1. ASSUME TypeOK, InTurn, [Next]_vars, flow # None, flow' # None
      PROVE  flow' >= flow
  <2>1. flow \in Nat
    BY <1>1 DEF TypeOK, RedisTyped
  <2>2. QED BY <1>1, <2>1, FlowMoves
<1>2. QED BY <1>1, InTurnAlways, PTL DEF Spec, RebuildKeepsProgress

-----------------------------------------------------------------------------
(* A snapshot covers the answer it was written after.  From the move until   *)
(* the refresh has read it, the flow is past the answer unless Redis loses   *)
(* it; from then on what was read is.  A rebuild never appends the turn of   *)
(* the call that rebuilds, which is not archived yet.                        *)

Unrestored == \A c \in Call : rpc[c] = "none" => archive[c] = 0 /\ c \notin todo[c]

MovedOn(c) == (pc[c] \in Appending /\ hand[c].turn = c) \/ rpc[c] = "read"

Ahead(c) ==
  /\ MovedOn(c) => flow # None /\ flow > at[c]
  /\ rpc[c] \in {"find", "archive", "write"} => latest[c] > at[c]
  /\ hot # None /\ hot.last = c => hot.flow > at[c] /\ rpc[c] # "none"

Covers == Unrestored /\ \A c \in Call \ shaken : Ahead(c)

\* A call that restores an archived turn goes on with another, or is done.
LEMMA RestoresOthers ==
  ASSUME TypeOK, NEW c \in Call, NEW rest \in SUBSET Call, c \notin rest, RestoreNext(c, rest)
  PROVE  /\ pc'[c] \in Appending => hand'[c].turn # c
         /\ pc'[c] \in {"mark", "done"} /\ c \notin todo'[c]
<1>0. c \in Process /\ ProcessTyped
  BY Disjoint DEF TypeOK
<1>1. CASE rest = {}
  BY <1>0, <1>1 DEF RestoreNext, Goto, Take, ProcessTyped, Appending
<1>2. CASE rest # {}
  <2>1. PICK t \in rest :
          Goto(c, "mark") /\ Take(c, Item(t, 0)) /\ todo' = [todo EXCEPT ![c] = rest \ {t}]
    BY <1>2 DEF RestoreNext
  <2>2. hand'[c].turn = t /\ pc'[c] = "mark" /\ todo'[c] = rest \ {t}
    BY <1>0, <2>1 DEF Goto, Take, Item, ProcessTyped
  <2>3. QED BY <2>1, <2>2
<1>3. QED BY <1>1, <1>2

\* A step of call c that appends: one of its own turn, or one that restores another.
LEMMA AppendAhead ==
  ASSUME TypeOK, Repairing, Unrestored, NEW c \in Call, Mark(c) \/ Push(c) \/ Enqueue(c)
  PROVE  /\ MovedOn(c)' => MovedOn(c)
         /\ rpc'[c] \in {rpc[c], "read"} /\ rpc[c] = "none"
         /\ rpc'[c] = "none" => c \notin todo'[c]
         /\ UNCHANGED <<flow, at, hot, latest>>
<1>0. c \in Process /\ c \notin Worker /\ ProcessTyped /\ RefreshTyped
  BY Disjoint DEF TypeOK
<1>1. UNCHANGED <<flow, at, hot, latest>>
  BY DEF Mark, Push, Enqueue, mysql
<1>2. pc[c] \in Appending /\ rpc[c] = "none" /\ c \notin todo[c]
  BY DEF Mark, Push, Enqueue, Appending, Repairing, Returned, Unrestored
<1>3. CASE hand[c].turn = c
  <2>1. MovedOn(c)
    BY <1>2, <1>3 DEF MovedOn
  <2>2. Return(c) \/ UNCHANGED <<rpc, todo>> \/ Enqueue(c)
    BY <1>0, <1>3 DEF Mark, Push, Appended, AppendFailed, Restoring
  <2>3. rpc'[c] \in {rpc[c], "read"} /\ (rpc'[c] = "none" => UNCHANGED todo)
    BY <1>0, <2>2 DEF Return, Enqueue, RefreshGoto, RefreshTyped
  <2>4. QED BY <1>1, <1>2, <2>1, <2>3
<1>4. CASE hand[c].turn # c
  <2>1. ~ Enqueue(c)
    BY <1>4 DEF Enqueue, Repairing, Returned
  <2>2. \/ RestoreNext(c, todo[c]) /\ UNCHANGED rpc
        \/ Goto(c, "push") /\ UNCHANGED <<hand, todo, rpc>>
    BY <1>0, <1>4, <2>1 DEF Mark, Push, Appended, AppendFailed, Restoring
  <2>3. todo[c] \in SUBSET Call
    BY <1>0 DEF ProcessTyped
  <2>4. /\ pc'[c] \in Appending => hand'[c].turn # c
        /\ UNCHANGED rpc /\ c \notin todo'[c]
    BY <1>2, <1>4, <2>2, <2>3, RestoresOthers
  <2>5. QED BY <1>1, <1>2, <2>4 DEF MovedOn
<1>5. QED BY <1>3, <1>4

\* A flow that is past an answer stays past it.
LEMMA StaysPast ==
  ASSUME TypeOK, InTurn, [Next]_vars, ~ FlowLost, flow # None
  PROVE  flow' # None /\ \A c \in Call : flow > at[c] => flow' > at[c]
<1>1. flow \in Nat /\ \A c \in Call : at[c] \in Nat
  BY DEF TypeOK, RedisTyped, ProcessTyped
<1>2. flow' = flow \/ flow' = flow + 1
  BY FlowMoves
<1>3. QED BY <1>1, <1>2, NoneIsFresh

LEMMA UnrestoredStep ==
  ASSUME TypeOK, Repairing, Unrestored, [Next]_vars
  PROVE  Unrestored'
<1> SUFFICES ASSUME NEW c \in Call, rpc'[c] = "none" PROVE archive'[c] = 0 /\ c \notin todo'[c]
  BY DEF Unrestored
<1>0. c \in Process /\ ProcessTyped /\ RefreshTyped /\ MySQLTyped
  BY Disjoint DEF TypeOK
<1>1. CASE CallStep(c)
  <2>1. UNCHANGED archive
    BY <1>1, CallStays
  <2>2. CASE Mark(c) \/ Push(c) \/ Enqueue(c)
    BY <2>1, <2>2, AppendAhead DEF Unrestored
  <2>3. CASE FindForRebuild(c)
    <3>1. UNCHANGED rpc
      BY <2>3 DEF FindForRebuild, refresh
    <3>2. c \notin todo[c] /\ c \notin {t \in Call : archive[t] > 0} /\ archive[c] = 0
      BY <3>1 DEF Unrestored
    <3>3. c \notin todo'[c]
      BY <2>3, <3>2, RestoresOthers DEF FindForRebuild
    <3>4. QED BY <2>1, <3>2, <3>3
  <2>4. CASE Start(c) \/ SaveFlow(c) \/ Move(c)
    BY <2>1, <2>4 DEF Start, SaveFlow, Move, refresh, process, Unrestored
  <2>5. CASE Crash(c)
    BY <1>0, <2>1, <2>5, EndsClean DEF Crash, refresh, process, Unrestored
  <2>6. QED BY <1>1, <2>2, <2>3, <2>4, <2>5 DEF CallStep
<1>2. ASSUME NEW d \in Call, d # c, CallStep(d) PROVE archive'[c] = 0 /\ c \notin todo'[c]
  BY <1>2, CallStays DEF OthersStay, Unrestored
<1>3. ASSUME NEW d \in Call, RefreshStep(d) PROVE archive'[c] = 0 /\ c \notin todo'[c]
  <2>1. UNCHANGED todo
    BY <1>3 DEF RefreshStep, ReadLatest, FindForRefresh, ArchiveTurn, WriteHotSnapshot, process
  <2>2. rpc[c] = "none"
    <3>1. rpc[d] # "none"
      BY <1>3 DEF RefreshStep, ReadLatest, FindForRefresh, ArchiveTurn, WriteHotSnapshot
    <3>2. \A x \in Call \ {d} : rpc'[x] = rpc[x]
      BY <1>0, <1>3, EndsClean DEF RefreshStep, ReadLatest, FindForRefresh, ArchiveTurn,
        WriteHotSnapshot, TryAgain, RefreshGoto, RefreshTyped
    <3>3. rpc'[d] # "none"
      BY <1>0, <1>3, EndsClean DEF RefreshStep, ReadLatest, FindForRefresh, ArchiveTurn,
        WriteHotSnapshot, TryAgain, RefreshGoto, RefreshTyped
    <3>4. QED BY <3>1, <3>2, <3>3
  <2>3. archive'[c] = archive[c]
    BY <1>0, <1>3, <2>2 DEF RefreshStep, ReadLatest, FindForRefresh, ArchiveTurn,
      WriteHotSnapshot, mysql, MySQLTyped
  <2>4. QED BY <2>1, <2>2, <2>3 DEF Unrestored
<1>4. CASE ~ (\E d \in Call : CallStep(d) \/ RefreshStep(d))
  <2>1. UNCHANGED <<rpc, archive>>
    <3>1. ASSUME NEW w \in Worker, RepairStep(w) \/ WorkerCrash(w) PROVE UNCHANGED <<rpc, archive>>
      BY <3>1 DEF RepairStep, Pop, Mark, Push, Requeue, WorkerCrash, Appended, AppendFailed,
        KeepForRetry, mysql, refresh
    <3>2. FlowLost \/ LogExpires \/ UNCHANGED vars => UNCHANGED <<rpc, archive>>
      BY DEF FlowLost, LogExpires, vars, mysql, refresh
    <3>3. QED BY <1>4, <3>1, <3>2 DEF Next
  <2>2. UNCHANGED todo
    BY <1>4, RestStays
  <2>3. QED BY <2>1, <2>2 DEF Unrestored
<1>5. QED BY <1>1, <1>2, <1>3, <1>4

LEMMA OwnCallAhead ==
  ASSUME TypeOK, Repairing, Unrestored, NEW c \in Call, CallStep(c), Ahead(c)
  PROVE  Ahead(c)'
<1>0. c \in Process /\ ProcessTyped /\ RefreshTyped
  BY Disjoint DEF TypeOK
<1>1. CASE Mark(c) \/ Push(c) \/ Enqueue(c)
  BY <1>1, AppendAhead DEF Ahead
<1>2. CASE Start(c) \/ FindForRebuild(c) \/ SaveFlow(c) \/ Move(c)
  <2>1. UNCHANGED <<rpc, hot>> /\ rpc[c] = "none"
    <3>1. pc[c] # "done"
      BY <1>2 DEF Start, MayStart, FindForRebuild, SaveFlow, Move
    <3>2. QED BY <1>2, <3>1 DEF Start, FindForRebuild, SaveFlow, Move, refresh, mysql, Repairing,
      Returned
  <2>2. ASSUME MovedOn(c)' PROVE flow' # None /\ flow' > at'[c]
    <3>1. CASE Move(c)
      <4>1. flow = at[c] /\ flow' = flow + 1 /\ UNCHANGED at
        BY <1>0, <2>1, <2>2, <3>1 DEF MovedOn, Move, Goto, Appending, ProcessTyped
      <4>2. at[c] \in Nat
        BY <1>0 DEF ProcessTyped
      <4>3. QED BY <4>1, <4>2, NoneIsFresh
    <3>2. CASE Start(c) \/ SaveFlow(c)
      BY <1>0, <2>1, <2>2, <3>2 DEF MovedOn, Start, SaveFlow, Goto, Appending, ProcessTyped
    <3>3. CASE FindForRebuild(c)
      <4>1. c \notin {t \in Call : archive[t] > 0}
        BY <2>1 DEF Unrestored
      <4>2. pc'[c] = "save" \/ (pc'[c] \in Appending => hand'[c].turn # c)
        BY <1>0, <3>3, <4>1, RestoresOthers DEF FindForRebuild, Goto, ProcessTyped
      <4>3. QED BY <2>1, <2>2, <4>2 DEF MovedOn, Appending
    <3>4. QED BY <1>2, <3>1, <3>2, <3>3
  <2>3. QED BY <2>1, <2>2 DEF Ahead
<1>3. CASE Crash(c)
  <2>1. UNCHANGED <<flow, hot, at, hand>>
    BY <1>3 DEF Crash, redis, mysql, process
  <2>2. CASE Goto(c, "crashed") /\ UNCHANGED refresh
    <3>1. pc'[c] = "crashed" /\ UNCHANGED <<rpc, latest>>
      BY <1>0, <2>2 DEF Goto, ProcessTyped, refresh
    <3>2. QED BY <2>1, <3>1 DEF Ahead, MovedOn, Appending
  <2>3. CASE EndRefresh(c) /\ UNCHANGED pc
    <3>1. rpc'[c] = "end"
      BY <1>0, <2>3, EndsClean
    <3>2. QED BY <2>1, <2>3, <3>1 DEF Ahead, MovedOn
  <2>4. QED BY <1>3, <2>2, <2>3 DEF Crash
<1>4. QED BY <1>1, <1>2, <1>3 DEF CallStep

LEMMA OwnRefreshAhead ==
  ASSUME TypeOK, NEW c \in Call, RefreshStep(c), Ahead(c), Repairing
  PROVE  Ahead(c)'
<1>0. RefreshTyped
  BY DEF TypeOK
<1>1. UNCHANGED <<flow, at, pc, hand>> /\ rpc[c] # "none" /\ ~ (pc[c] \in Appending)
  BY DEF RefreshStep, ReadLatest, FindForRefresh, ArchiveTurn, WriteHotSnapshot, redis, process,
    Repairing, Returned, Appending
<1>2. CASE ReadLatest(c)
  <2>1. flow # None /\ flow > at[c]
    BY <1>2 DEF ReadLatest, Ahead, MovedOn
  <2>2. rpc'[c] = "find" /\ latest'[c] = flow /\ UNCHANGED hot
    BY <1>0, <1>2, <2>1 DEF ReadLatest, RefreshGoto, RefreshTyped, mysql
  <2>3. QED BY <1>1, <2>1, <2>2 DEF Ahead, MovedOn
<1>3. CASE FindForRefresh(c) \/ ArchiveTurn(c)
  <2>1. rpc[c] \in {"find", "archive"} /\ UNCHANGED hot
    BY <1>3 DEF FindForRefresh, ArchiveTurn, mysql
  <2>2. EndRefresh(c) \/ (rpc'[c] \in {"archive", "write"} /\ UNCHANGED latest)
    BY <1>0, <1>3 DEF FindForRefresh, ArchiveTurn, RefreshGoto, RefreshTyped
  <2>3. rpc'[c] = "end" \/ (rpc'[c] \in {"archive", "write"} /\ latest'[c] = latest[c])
    BY <1>0, <2>2, EndsClean
  <2>4. QED BY <1>1, <2>1, <2>3 DEF Ahead, MovedOn
<1>4. CASE WriteHotSnapshot(c)
  <2>1. rpc[c] = "write" /\ latest[c] > at[c]
    BY <1>4 DEF WriteHotSnapshot, Ahead
  <2>2. EndRefresh(c) \/ (RefreshGoto(c, "find") /\ UNCHANGED latest)
    BY <1>4 DEF WriteHotSnapshot, TryAgain
  <2>3. rpc'[c] = "end" \/ (rpc'[c] = "find" /\ latest'[c] = latest[c])
    BY <1>0, <2>2, EndsClean DEF RefreshGoto, RefreshTyped
  <2>4. hot' = hot \/ hot'.flow = latest[c]
    BY <1>4, SnapshotWritten DEF BuildHotSnapshot
  <2>5. QED BY <1>1, <2>1, <2>3, <2>4 DEF Ahead, MovedOn
<1>5. QED BY <1>2, <1>3, <1>4 DEF RefreshStep

LEMMA OtherAhead ==
  ASSUME TypeOK, InTurn, [Next]_vars, NEW c \in Call, ~ CallStep(c), ~ RefreshStep(c),
         c \notin shaken', Ahead(c)
  PROVE  Ahead(c)'
<1>0. RefreshTyped /\ c \in Process
  BY Disjoint DEF TypeOK
<1>1. pc'[c] = pc[c] /\ hand'[c] = hand[c] /\ at'[c] = at[c]
  <2>1. ASSUME NEW d \in Call, CallStep(d) PROVE pc'[c] = pc[c] /\ hand'[c] = hand[c] /\ at'[c] = at[c]
    BY <1>0, <2>1, CallStays DEF OthersStay
  <2>2. QED BY <2>1, RestStays
<1>2. /\ rpc'[c] = rpc[c] /\ latest'[c] = latest[c]
      /\ hot' = hot \/ hot'.last # c
  <2>1. ASSUME NEW d \in Call, CallStep(d)
        PROVE  rpc'[c] = rpc[c] /\ latest'[c] = latest[c] /\ hot' = hot
    BY <2>1, CallStays DEF OthersStay
  <2>2. ASSUME NEW d \in Call, RefreshStep(d)
        PROVE  rpc'[c] = rpc[c] /\ latest'[c] = latest[c] /\ (hot' = hot \/ hot'.last # c)
    <3>1. d # c
      BY <2>2
    <3>2. CASE ReadLatest(d) \/ FindForRefresh(d) \/ ArchiveTurn(d)
      BY <1>0, <3>1, <3>2, EndsClean DEF ReadLatest, FindForRefresh, ArchiveTurn, RefreshGoto,
        RefreshTyped, mysql
    <3>3. CASE WriteHotSnapshot(d)
      <4>1. EndRefresh(d) \/ (RefreshGoto(d, "find") /\ UNCHANGED latest)
        BY <3>3 DEF WriteHotSnapshot, TryAgain
      <4>2. rpc'[c] = rpc[c] /\ latest'[c] = latest[c]
        BY <1>0, <3>1, <4>1, EndsClean DEF RefreshGoto, RefreshTyped
      <4>3. hot' = hot \/ hot'.last = d
        BY <3>3, SnapshotWritten DEF BuildHotSnapshot
      <4>4. QED BY <3>1, <4>2, <4>3
    <3>4. QED BY <2>2, <3>2, <3>3 DEF RefreshStep
  <2>3. ASSUME NEW w \in Worker, RepairStep(w) \/ WorkerCrash(w) PROVE UNCHANGED <<rpc, latest, hot>>
    BY <2>3 DEF RepairStep, Pop, Mark, Push, Requeue, WorkerCrash, Appended, AppendFailed,
      KeepForRetry, mysql, refresh
  <2>4. FlowLost \/ LogExpires \/ UNCHANGED vars => UNCHANGED <<rpc, latest, hot>>
    BY DEF FlowLost, LogExpires, vars, mysql, refresh
  <2>5. QED BY <2>1, <2>2, <2>3, <2>4 DEF Next
<1>3. MovedOn(c)' <=> MovedOn(c)
  BY <1>1, <1>2 DEF MovedOn
<1>4. CASE FlowLost
  <2>1. ~ MovedOn(c)
    BY <1>4 DEF FlowLost, Unread, MovedOn
  <2>2. QED BY <1>1, <1>2, <1>3, <2>1 DEF Ahead
<1>5. CASE ~ FlowLost
  BY <1>1, <1>2, <1>3, <1>5, StaysPast DEF Ahead
<1>6. QED BY <1>4, <1>5

LEMMA CoversStep ==
  ASSUME TypeOK, Repairing, InTurn, Covers, [Next]_vars
  PROVE  Covers'
<1>1. Unrestored'
  BY UnrestoredStep DEF Covers
<1>2. shaken \subseteq shaken'
  BY CallStays, RestStays
<1>3. ASSUME NEW c \in Call, c \notin shaken' PROVE Ahead(c)'
  <2>1. Ahead(c) /\ Unrestored
    BY <1>2, <1>3 DEF Covers
  <2>2. QED BY <1>3, <2>1, OwnCallAhead, OwnRefreshAhead, OtherAhead
<1>4. QED BY <1>1, <1>3 DEF Covers

\* When a call starts only after the one before it has ended, the snapshot that its refresh writes
\* (snapshot_service.go) holds its answer, unless Redis lost the flow before the refresh read it:
\* through every rebuild, failed write, retry and refresh that is late.
THEOREM SnapshotsCoverAnswers == ASSUME Overlap = FALSE PROVE Spec => []SnapshotCoversItsAnswer
<1>1. Init => Covers
  BY Disjoint DEF Init, Covers, Unrestored, Ahead, MovedOn, Appending
<1>2. TypeOK /\ Repairing /\ InTurn /\ Covers /\ [Next]_vars => Covers'
  BY CoversStep
<1>3. TypeOK /\ Covers => SnapshotCoversItsAnswer
  BY DEF Covers, Ahead, SnapshotCoversItsAnswer, TypeOK, MySQLTyped, HotSnapshot
<1>4. QED BY <1>1, <1>2, <1>3, RepairingAlways, InTurnAlways, PTL DEF Spec

-----------------------------------------------------------------------------
(* The archive is ahead of the snapshot.  A refresh archives its turn before *)
(* it writes it into the snapshot, so every turn of a snapshot, or of one a  *)
(* refresh has found, is archived or known as missed.  The watermark is the  *)
(* seq of the newest of the turns that were archived when they were taken    *)
(* in; where a turn is in the snapshot twice, what is known of it is what    *)
(* was true of its last occurrence.                                          *)

Archived(s) == \A i \in DOMAIN s.turns : s.turns[i] \in missed \/ archive[s.turns[i]] > 0

Backed ==
  /\ \A t \in Call : archive[t] <= lastSeq
  /\ \A c \in Call : seq[c] > 0 => archive[c] = seq[c]
  /\ hot # None => Archived(hot)
  /\ \A c \in Call : base[c] # None => Archived(base[c])

LastOf(turns, i) == \A j \in DOMAIN turns : j > i => turns[j] # turns[i]

\* G are the turns that were archived when they were taken in.
Marks(G) ==
  /\ G \subseteq DOMAIN hot.turns
  /\ \A i \in G : archive[hot.turns[i]] > 0
  /\ \A i \in G : (\A j \in G : j <= i) => hot.watermark = archive[hot.turns[i]]
  /\ \A i \in DOMAIN hot.turns :
       LastOf(hot.turns, i) => (i \in G <=> hot.turns[i] \notin missed)

Marked == ~ crossed /\ hot # None => \E G : Marks(G)

\* r are the turns s without the k oldest, and c.
TakesIn(r, s, c, k) ==
  /\ r \in Seq(Call) /\ k \in Nat /\ k <= Len(s) /\ Len(r) = Len(s) + 1 - k
  /\ r[Len(r)] = c /\ \A i \in 1 .. Len(r) - 1 : r[i] = s[i + k]

LEMMA KeptTurns ==
  ASSUME NEW s \in Seq(Call), NEW c \in Call
  PROVE  \E k : TakesIn(KeepLast(Append(s, c), RecentTurnLimit), s, c, k)
<1> DEFINE a == Append(s, c)
           n == RecentTurnLimit
<1>1. /\ a \in Seq(Call) /\ Len(s) \in Nat /\ Len(a) = Len(s) + 1 /\ a[Len(s) + 1] = c
      /\ \A i \in 1 .. Len(s) : a[i] = s[i]
  BY AppendProperties, LenProperties
<1>2. n \in Nat /\ n > 0
  BY RecordsBounds
<1> HIDE DEF a, n
<1>3. KeepLast(a, n) \in Seq(Call)
  BY <1>1, <1>2, KeepLastTyped
<1>4. CASE Len(a) > n
  <2> DEFINE m == Len(a) - n + 1
  <2>1. KeepLast(a, n) = SubSeq(a, m, Len(a))
    BY <1>4 DEF KeepLast
  <2>2. m \in Nat /\ m >= 1 /\ m <= Len(a) /\ Len(a) \in Nat
    BY <1>1, <1>2, <1>4
  <2>3. Len(KeepLast(a, n)) = n
    <3>1. Len(SubSeq(a, m, Len(a))) = Len(a) - m + 1
      <4> HIDE DEF m
      <4> QED BY <1>1, <2>2
    <3>2. QED BY <1>1, <1>2, <2>1, <3>1
  <2>4. ASSUME NEW i \in 1 .. n PROVE KeepLast(a, n)[i] = a[i + (m - 1)]
    <3>1. i \in 1 .. Len(a) - m + 1
      BY <1>1, <1>2
    <3>2. SubSeq(a, m, Len(a))[i] = a[m + i - 1]
      <4> HIDE DEF m
      <4> QED BY <1>1, <2>2, <3>1
    <3>3. m + i - 1 = i + (m - 1)
      BY <1>1, <1>2
    <3>4. QED BY <2>1, <3>2, <3>3
  <2>5. KeepLast(a, n)[n] = c
    BY <1>1, <1>2, <2>4
  <2>6. \A i \in 1 .. n - 1 : KeepLast(a, n)[i] = s[i + (m - 1)]
    <3> SUFFICES ASSUME NEW i \in 1 .. n - 1 PROVE KeepLast(a, n)[i] = s[i + (m - 1)]
      OBVIOUS
    <3>1. i + (m - 1) \in 1 .. Len(s) /\ i \in 1 .. n
      BY <1>1, <1>2, <1>4
    <3>2. QED BY <1>1, <2>4, <3>1
  <2>7. m - 1 \in Nat /\ m - 1 <= Len(s) /\ n = Len(s) + 1 - (m - 1)
    BY <1>1, <1>2, <1>4
  <2>8. TakesIn(KeepLast(a, n), s, c, m - 1)
    BY <1>3, <2>3, <2>5, <2>6, <2>7 DEF TakesIn
  <2>9. QED BY <2>8 DEF a, n
<1>5. CASE ~ (Len(a) > n)
  <2>1. KeepLast(a, n) = a
    BY <1>5 DEF KeepLast
  <2>2. TakesIn(a, s, c, 0)
    BY <1>1 DEF TakesIn
  <2>3. QED BY <2>1, <2>2 DEF a, n
<1>6. QED BY <1>4, <1>5

Known(t) == t \in missed \/ archive[t] > 0

KnownAfter(t) == t \in missed' \/ archive'[t] > 0

\* The turns a refresh starts from: those of the snapshot it has found.
FoundTurns(c) == IF base[c] = None THEN << >> ELSE base[c].turns

LEMMA FoundTyped ==
  ASSUME TypeOK, NEW c \in Call
  PROVE  FoundTurns(c) \in Seq(Call) /\ Len(FoundTurns(c)) \in Nat
<1>1. base[c] = None \/ base[c].turns \in Seq(Call)
  BY DEF TypeOK, RefreshTyped, HotSnapshot
<1>2. FoundTurns(c) \in Seq(Call)
  BY <1>1, EmptySeq DEF FoundTurns
<1>3. QED BY <1>2, LenProperties

LEMMA BuiltTurns ==
  ASSUME TypeOK, NEW c \in Call
  PROVE  \E k : TakesIn(BuildHotSnapshot(c).turns, FoundTurns(c), c, k)
BY FoundTyped, KeptTurns DEF BuildHotSnapshot, FoundTurns

LEMMA BackedStep ==
  ASSUME TypeOK, Backed, [Next]_vars
  PROVE  Backed'
<1>0. RefreshTyped /\ MySQLTyped
  BY DEF TypeOK
<1>1. CASE RefreshesOnly
  BY <1>1 DEF RefreshesOnly, Backed, Archived
<1>2. ASSUME NEW c \in Call, FindForRefresh(c) PROVE Backed'
  <2>1. UNCHANGED <<hot, archive, lastSeq, missed>>
    BY <1>2 DEF FindForRefresh, mysql, history
  <2>2. \A d \in Call : base'[d] \in {base[d], None, hot} /\ seq'[d] \in {seq[d], 0}
    BY <1>0, <1>2, EndsClean DEF FindForRefresh, RefreshTyped
  <2>3. QED BY <2>1, <2>2 DEF Backed, Archived
<1>3. ASSUME NEW c \in Call, ArchiveTurn(c) PROVE Backed'
  <2>0. UNCHANGED <<hot, base, missed>>
    BY <1>3 DEF ArchiveTurn, history
  <2>1. /\ \A d \in Call \ {c} : archive'[d] = archive[d] /\ seq'[d] = seq[d]
        /\ lastSeq' \in {lastSeq, lastSeq + 1}
        /\ \/ archive'[c] = archive[c] /\ seq'[c] \in {0, archive[c]}
           \/ archive'[c] = lastSeq + 1 /\ seq'[c] = lastSeq + 1 /\ lastSeq' = lastSeq + 1
    BY <1>0, <1>3 DEF ArchiveTurn, RefreshTyped, MySQLTyped
  <2>2. lastSeq \in Nat /\ \A t \in Call : archive[t] \in Nat
    BY <1>0 DEF MySQLTyped
  <2>3. \A t \in Call : Known(t) => KnownAfter(t)
    BY <2>0, <2>1, <2>2 DEF Known, KnownAfter
  <2>4. (\A t \in Call : archive'[t] <= lastSeq')
    BY <2>1, <2>2 DEF Backed
  <2>5. \A d \in Call : seq'[d] > 0 => archive'[d] = seq'[d]
    BY <2>1, <2>2 DEF Backed
  <2>6. \A x : (\A j \in DOMAIN x.turns : x.turns[j] \in Call) /\ Archived(x) => Archived(x)'
    BY <2>3 DEF Archived, Known, KnownAfter
  <2>7. /\ hot # None => \A j \in DOMAIN hot.turns : hot.turns[j] \in Call
        /\ \A d \in Call : base[d] # None => \A j \in DOMAIN base[d].turns : base[d].turns[j] \in Call
    <3>1. /\ hot # None => hot.turns \in Seq(Call)
          /\ \A d \in Call : base[d] # None => base[d].turns \in Seq(Call)
      BY <1>0 DEF MySQLTyped, RefreshTyped, HotSnapshot
    <3>2. \A x \in Seq(Call) : \A j \in DOMAIN x : x[j] \in Call
      BY ElementOfSeq, LenProperties
    <3>3. QED BY <3>1, <3>2
  <2>8. /\ hot' # None => Archived(hot)'
        /\ \A d \in Call : base'[d] # None => Archived(base[d])'
    BY <2>0, <2>6, <2>7 DEF Backed, Archived
  <2>9. QED BY <2>4, <2>5, <2>8 DEF Backed
<1>4. ASSUME NEW c \in Call, WriteHotSnapshot(c) PROVE Backed'
  <2>1. UNCHANGED <<archive, lastSeq>>
    BY <1>4 DEF WriteHotSnapshot
  <2>2. \A d \in Call : \/ base'[d] = base[d] /\ seq'[d] = seq[d]
                        \/ base'[d] = None /\ seq'[d] = 0
    BY <1>4, SnapshotWritten
  <2>3. \A t : Known(t) => KnownAfter(t)
    BY <1>4, <2>1 DEF WriteHotSnapshot, Known, KnownAfter, Backed
  <2>4. \A x : Archived(x) => \A j \in DOMAIN x.turns : KnownAfter(x.turns[j])
    BY <2>3 DEF Archived, Known, KnownAfter
  <2>5. \A d \in Call : base'[d] # None => Archived(base[d])'
    BY <2>2, <2>4 DEF Backed, Archived, Known, KnownAfter
  <2>6. hot' # None => Archived(hot)'
    <3>1. CASE hot' = hot
      BY <2>4, <3>1 DEF Backed, Archived, Known, KnownAfter
    <3>2. CASE hot' # hot
      <4>1. hot' = BuildHotSnapshot(c)
        BY <1>4, <3>2, SnapshotWritten
      <4>2. PICK k : TakesIn(hot'.turns, FoundTurns(c), c, k)
        BY <4>1, BuiltTurns
      <4>3. KnownAfter(c)
        BY <1>4, <2>1, <3>2 DEF WriteHotSnapshot, Known, KnownAfter, Backed
      <4>4. \A j \in 1 .. Len(FoundTurns(c)) : KnownAfter(FoundTurns(c)[j])
        <5>1. CASE base[c] = None
          BY <5>1 DEF FoundTurns
        <5>2. CASE base[c] # None
          <6>1. DOMAIN base[c].turns = 1 .. Len(FoundTurns(c)) /\ FoundTurns(c) = base[c].turns
            BY <5>2, FoundTyped, LenProperties DEF FoundTurns
          <6>2. \A j \in DOMAIN base[c].turns : Known(base[c].turns[j])
            BY <5>2 DEF Backed, Archived, Known, KnownAfter
          <6>3. QED BY <2>3, <6>1, <6>2
        <5>3. QED BY <5>1, <5>2
      <4>5. ASSUME NEW j \in DOMAIN hot'.turns PROVE KnownAfter(hot'.turns[j])
        <5>1. Len(hot'.turns) \in Nat /\ j \in 1 .. Len(hot'.turns) /\ Len(FoundTurns(c)) \in Nat
          BY <4>2, FoundTyped, LenProperties DEF TakesIn
        <5>2. CASE j = Len(hot'.turns)
          BY <4>2, <4>3, <5>2 DEF TakesIn, Known, KnownAfter
        <5>3. CASE j # Len(hot'.turns)
          <6>1. j + k \in 1 .. Len(FoundTurns(c)) /\ hot'.turns[j] = FoundTurns(c)[j + k]
            BY <4>2, <5>1, <5>3, SMTT(30) DEF TakesIn
          <6>2. QED BY <4>4, <6>1 DEF Known, KnownAfter
        <5>4. QED BY <5>2, <5>3
      <4>6. QED BY <4>5 DEF Archived, Known, KnownAfter
    <3>3. QED BY <3>1, <3>2
  <2>7. QED BY <2>1, <2>2, <2>5, <2>6 DEF Backed
<1>5. QED BY <1>1, <1>2, <1>3, <1>4, StepOfRefresh

\* A write takes the new turn in: what is known of the turns it keeps stays, and of the new turn
\* it is known whether it was archived.
LEMMA MarksWritten ==
  ASSUME TypeOK, Backed, NEW c \in Call, WriteHotSnapshot(c), hot' # hot, ~ crossed',
         NEW G, hot # None => Marks(G) /\ base[c] = hot, hot = None => G = {} /\ base[c] = None
  PROVE  \E H : Marks(H)'
<1> DEFINE s == FoundTurns(c)
           r == hot'.turns
           n == Len(r)
<1>0. hot' = BuildHotSnapshot(c)
  BY SnapshotWritten
<1>1. PICK k : TakesIn(r, s, c, k)
  BY <1>0, BuiltTurns
<1>2. /\ Len(s) \in Nat /\ DOMAIN s = 1 .. Len(s) /\ n \in Nat /\ DOMAIN r = 1 .. n
      /\ n = Len(s) + 1 - k /\ k \in Nat /\ k <= Len(s)
      /\ r[n] = c /\ \A i \in 1 .. n - 1 : r[i] = s[i + k]
  <2>1. s \in Seq(Call) /\ Len(s) \in Nat /\ DOMAIN s = 1 .. Len(s)
    BY FoundTyped, LenProperties
  <2>2. r \in Seq(Call)
    BY <1>1 DEF TakesIn
  <2>3. n \in Nat /\ DOMAIN r = 1 .. n
    BY <2>2, LenProperties
  <2>4. QED BY <1>1, <2>1, <2>3 DEF TakesIn
<1>3. s = IF hot = None THEN << >> ELSE hot.turns
  BY DEF FoundTurns
<1>4. /\ G \subseteq 1 .. Len(s)
      /\ \A i \in G : archive[s[i]] > 0
      /\ \A i \in G : (\A j \in G : j <= i) => hot.watermark = archive[s[i]]
      /\ \A i \in 1 .. Len(s) : LastOf(s, i) => (i \in G <=> s[i] \notin missed)
  <2>1. CASE hot = None
    BY <1>2, <1>3, <2>1
  <2>2. CASE hot # None
    <3>1. Marks(G) /\ s = hot.turns
      BY <1>3, <2>2
    <3>2. QED BY <1>2, <3>1 DEF Marks
  <2>3. QED BY <2>1, <2>2
<1>5. UNCHANGED archive
  BY DEF WriteHotSnapshot
<1> DEFINE old == {i \in 1 .. n - 1 : i + k \in G}
<1>6. ASSUME NEW i \in 1 .. n - 1, LastOf(r, i)
      PROVE  r[i] # c /\ (i \in old <=> r[i] \notin missed)
  <2> HIDE DEF s, r, n
  <2>1. r[i] # c
    BY <1>2, <1>6 DEF LastOf
  <2>2. i + k \in 1 .. Len(s)
    BY <1>2
  <2>3. ASSUME NEW j \in 1 .. Len(s), j > i + k PROVE s[j] # s[i + k]
    <3>1. j - k \in 1 .. n - 1 /\ j - k > i /\ j - k \in DOMAIN r
      BY <1>2, <2>3
    <3>2. r[j - k] # r[i]
      BY <1>6, <3>1 DEF LastOf
    <3>3. r[j - k] = s[(j - k) + k]
      BY <1>2, <3>1, SMTT(30)
    <3>4. (j - k) + k = j
      BY <1>2
    <3>5. r[i] = s[i + k]
      BY <1>2
    <3>6. QED BY <3>2, <3>3, <3>4, <3>5
  <2>4. LastOf(s, i + k)
    BY <1>2, <2>3 DEF LastOf
  <2>5. QED BY <1>2, <1>4, <2>1, <2>2, <2>4
<1>7. ASSUME NEW i \in old PROVE i \in 1 .. n - 1 /\ i + k \in G /\ r[i] = s[i + k] /\ archive[r[i]] > 0
  BY <1>2, <1>4
<1>8. hot'.watermark = Watermark(c)
  BY <1>0 DEF BuildHotSnapshot
<1> HIDE DEF s, r, n
<1>9. CASE seq[c] > 0
  <2> DEFINE H == old \cup {n}
  <2>1. missed' = missed \ {c} /\ archive[c] = seq[c] /\ hot'.watermark = seq[c]
    BY <1>8, <1>9 DEF WriteHotSnapshot, Backed, Watermark
  <2>2. n \in 1 .. n
    BY <1>2
  <2>3. H \subseteq 1 .. n /\ \A i \in H : archive[r[i]] > 0
    BY <1>2, <1>7, <1>9, <2>1, <2>2
  <2>4. ASSUME NEW i \in H, \A j \in H : j <= i PROVE hot'.watermark = archive[r[i]]
    <3>1. n \in Nat /\ i \in 1 .. n
      BY <1>2, <2>3
    <3>2. n <= i
      BY <2>4
    <3>3. i = n
      BY <3>1, <3>2
    <3>4. QED BY <1>2, <2>1, <3>3
  <2>5. ASSUME NEW i \in 1 .. n, LastOf(r, i) PROVE i \in H <=> r[i] \notin missed'
    <3>1. CASE i = n
      BY <1>2, <2>1, <3>1
    <3>2. CASE i # n
      <4>1. i \in 1 .. n - 1
        BY <1>2, <3>2
      <4>2. QED BY <1>6, <2>1, <2>5, <3>2, <4>1
    <3>3. QED BY <3>1, <3>2
  <2> HIDE DEF H
  <2>6. PICK X : X = H
    OBVIOUS
  <2>7. Marks(X)'
    BY <1>2, <1>5, <2>3, <2>4, <2>5, <2>6 DEF Marks, LastOf, r
  <2>8. QED BY <2>7
<1>10. CASE ~ (seq[c] > 0)
  <2>1. missed' = missed \cup {c}
    BY <1>10 DEF WriteHotSnapshot
  <2>2. ASSUME NEW i \in old, \A j \in old : j <= i PROVE hot'.watermark = archive[r[i]]
    <3>1. hot # None /\ hot'.watermark = hot.watermark
      BY <1>7, <1>8, <1>10 DEF Watermark
    <3>2. \A j \in G : j <= i + k
      <4> SUFFICES ASSUME NEW j \in G, j > i + k PROVE FALSE
        BY <1>2, <1>4, <1>7
      <4>1. j - k \in 1 .. n - 1 /\ (j - k) + k = j /\ j - k > i
        BY <1>2, <1>4, <1>7
      <4>2. j - k \in old
        BY <4>1
      <4>3. QED BY <1>7, <2>2, <4>1, <4>2
    <3>3. QED BY <1>4, <1>7, <3>1, <3>2
  <2>3. ASSUME NEW i \in 1 .. n, LastOf(r, i) PROVE i \in old <=> r[i] \notin missed'
    <3>1. CASE i = n
      BY <1>2, <1>7, <2>1, <3>1
    <3>2. CASE i # n
      <4>1. i \in 1 .. n - 1
        BY <1>2, <3>2
      <4>2. QED BY <1>6, <2>1, <2>3, <4>1
    <3>3. QED BY <3>1, <3>2
  <2>4. old \subseteq 1 .. n /\ \A i \in old : archive[r[i]] > 0
    BY <1>2, <1>7
  <2> HIDE DEF old
  <2>5. PICK X : X = old
    OBVIOUS
  <2>6. Marks(X)'
    BY <1>2, <1>5, <2>2, <2>3, <2>4, <2>5 DEF Marks, LastOf, r
  <2>7. QED BY <2>6
<1>11. QED BY <1>9, <1>10

LEMMA MarkedStep ==
  ASSUME TypeOK, Backed, Versions, Marked, [Next]_vars
  PROVE  Marked'
<1> SUFFICES ASSUME ~ crossed', hot' # None PROVE \E G : Marks(G)'
  BY DEF Marked
<1>0. MySQLTyped
  BY DEF TypeOK
<1>1. ASSUME UNCHANGED <<hot, missed, crossed>>, \A t \in Call : archive[t] > 0 => archive'[t] = archive[t]
      PROVE  \E G : Marks(G)'
  <2>1. PICK G : Marks(G)
    BY <1>1 DEF Marked
  <2>2. \A i \in DOMAIN hot.turns : hot.turns[i] \in Call
    <3>1. hot.turns \in Seq(Call)
      BY <1>0, <1>1 DEF MySQLTyped, HotSnapshot
    <3>2. QED BY <3>1, ElementOfSeq, LenProperties
  <2>3. \A i \in G : archive'[hot.turns[i]] = archive[hot.turns[i]]
    BY <1>1, <2>1, <2>2 DEF Marks
  <2>4. Marks(G)'
    BY <1>1, <2>1, <2>3 DEF Marks, LastOf
  <2>5. QED BY <2>4
<1>2. CASE RefreshesOnly
  BY <1>1, <1>2 DEF RefreshesOnly
<1>3. ASSUME NEW c \in Call, FindForRefresh(c) PROVE \E G : Marks(G)'
  BY <1>1, <1>3 DEF FindForRefresh, mysql, history
<1>4. ASSUME NEW c \in Call, ArchiveTurn(c) PROVE \E G : Marks(G)'
  <2>1. \A t \in Call : archive[t] > 0 => archive'[t] = archive[t]
    BY <1>0, <1>4 DEF ArchiveTurn, MySQLTyped
  <2>2. QED BY <1>1, <1>4, <2>1 DEF ArchiveTurn, history
<1>5. ASSUME NEW c \in Call, WriteHotSnapshot(c) PROVE \E G : Marks(G)'
  <2>1. ~ crossed /\ UNCHANGED archive
    BY <1>5 DEF WriteHotSnapshot
  <2>2. CASE hot' = hot
    <3>1. UNCHANGED <<missed, crossed>>
      BY <1>5, <2>1, <2>2 DEF WriteHotSnapshot, TypeOK, HistoryTyped
    <3>2. QED BY <1>1, <2>1, <2>2, <3>1
  <2>3. CASE hot' # hot
    <3>1. Writable(c)
      BY <1>5, <2>3, SnapshotWritten
    <3>2. base[c] = hot
      <4>1. CASE base[c] = None
        BY <1>5, <2>3, <4>1 DEF WriteHotSnapshot
      <4>2. CASE base[c] # None
        BY <2>1, <3>1, <4>2 DEF Writable, Versions, Found
      <4>3. QED BY <4>1, <4>2
    <3>3. CASE hot = None
      BY <1>5, <2>3, <3>2, <3>3, MarksWritten
    <3>4. CASE hot # None
      <4>1. PICK G : Marks(G)
        BY <2>1, <3>4 DEF Marked
      <4>2. QED BY <1>5, <2>3, <3>2, <3>4, <4>1, MarksWritten
    <3>5. QED BY <3>3, <3>4
  <2>4. QED BY <2>2, <2>3
<1>6. QED BY <1>2, <1>3, <1>4, <1>5, StepOfRefresh

\* A snapshot never runs ahead of the archive (snapshot_service.go): its turns are in the archive,
\* and its watermark is the seq of the newest of them, but for turns whose archiving failed.
THEOREM ArchiveIsAhead == Spec => []ArchiveBacksSnapshot
<1>1. Init => Backed /\ Marked
  BY DEF Init, Backed, Marked
<1>2. TypeOK /\ Versions /\ Backed /\ Marked /\ [Next]_vars => Backed' /\ Marked'
  BY BackedStep, MarkedStep
<1>3. TypeOK /\ Backed /\ Marked => ArchiveBacksSnapshot
  <2> SUFFICES ASSUME TypeOK, Backed, Marked, hot # None PROVE ArchiveBacksSnapshot
    BY DEF ArchiveBacksSnapshot
  <2> DEFINE known == {i \in DOMAIN hot.turns : hot.turns[i] \notin missed}
             distinct == \A i, j \in DOMAIN hot.turns : hot.turns[i] = hot.turns[j] => i = j
  <2>1. /\ \A i \in DOMAIN hot.turns : hot.turns[i] \in Call
        /\ \A i \in DOMAIN hot.turns : i \in Nat
    <3>1. hot.turns \in Seq(Call)
      BY DEF TypeOK, MySQLTyped, HotSnapshot
    <3>2. QED BY <3>1, ElementOfSeq, LenProperties
  <2>2. ASSUME NEW i \in known PROVE archive[hot.turns[i]] \in 1 .. lastSeq
    BY <2>1, <2>2 DEF Backed, Archived, TypeOK, MySQLTyped
  <2>3. ASSUME NEW i \in known, distinct, ~ crossed, \A j \in known : j <= i
        PROVE  hot.watermark = archive[hot.turns[i]]
    <3>1. PICK G : Marks(G)
      BY <2>3 DEF Marked
    <3>2. \A j \in DOMAIN hot.turns : LastOf(hot.turns, j)
      BY <2>1, <2>3 DEF LastOf
    <3>3. G = known
      BY <3>1, <3>2 DEF Marks
    <3>4. QED BY <2>3, <3>1, <3>3 DEF Marks
  <2>4. QED BY <2>2, <2>3 DEF ArchiveBacksSnapshot
<1>4. QED BY <1>1, <1>2, <1>3, VersionsAlways, PTL DEF Spec
=============================================================================
