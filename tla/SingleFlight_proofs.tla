------------------------ MODULE SingleFlight_proofs ------------------------
(***************************************************************************)
(* Machine-checked facts about SingleFlight, for every set of callers and  *)
(* every value of the bounds.  None of them needs fairness.                *)
(***************************************************************************)
EXTENDS SingleFlight, TLAPS

-----------------------------------------------------------------------------
(* Type correctness. *)

LEMMA InitTyped == Init => TypeOK
<1>1. 0 \in 0 .. MaxAttempts /\ 0 \in 0 .. MaxChunks /\ 0 \in 0 .. MaxCrashes
  BY BoundsAreNaturals
<1>2. QED BY <1>1 DEF Init, TypeOK

LEMMA IdTyped ==
  ASSUME TypeOK, NEW c \in Caller
  PROVE  Id(c) \in NodeId
BY BoundsAreNaturals DEF TypeOK, Id, NodeId

LEMMA CachedTyped == TypeOK /\ Cached => result.from \in NodeId
BY DEF TypeOK, Cached, Answer

\* The two variables that Return changes.
PcReturnedTyped ==
  /\ pc \in [Caller -> {"start", "local"} \cup Leading \cup Following \cup Finished]
  /\ returned \in [Caller -> [ok : BOOLEAN, from : NodeId \cup {None}] \cup {None}]

LEMMA ReturnTyped ==
  ASSUME TypeOK, NEW c \in Caller, NEW ok \in BOOLEAN, NEW from \in NodeId \cup {None},
         Return(c, ok, from)
  PROVE  PcReturnedTyped'
<1>1. [ok |-> ok, from |-> from] \in [ok : BOOLEAN, from : NodeId \cup {None}]
  OBVIOUS
<1>2. QED BY <1>1 DEF TypeOK, PcReturnedTyped, Return, Goto, Finished

LEMMA StepTyped == TypeOK /\ [Next]_vars => TypeOK'
<1> SUFFICES ASSUME TypeOK, [Next]_vars PROVE TypeOK'
  OBVIOUS
<1> USE DEF redis, leader, follow, ghost
<1>1. ASSUME NEW c \in Caller, TryAcquire(c) PROVE TypeOK'
  <2>1. attempt[c] + 1 \in 0 .. MaxAttempts /\ <<c, attempt[c] + 1>> \in NodeId
    BY <1>1, BoundsAreNaturals DEF TypeOK, TryAcquire, Goto, NodeId
  <2>2. QED BY <1>1, <2>1 DEF TypeOK, TryAcquire, Goto, Leading, StartUp, Following
<1>2. ASSUME NEW c \in Caller, Degrade(c) PROVE TypeOK'
  BY <1>2 DEF TypeOK, Degrade, Goto
<1>3. ASSUME NEW c \in Caller, LocalReturn(c) PROVE TypeOK'
  <2>1. <<c, 0>> \in NodeId BY BoundsAreNaturals DEF NodeId
  <2>2. PcReturnedTyped'
    BY <1>3, <2>1, ReturnTyped DEF LocalReturn
  <2>3. QED BY <1>3, <2>1, <2>2 DEF TypeOK, PcReturnedTyped, LocalReturn
<1>4. ASSUME NEW c \in Caller, LeaderStep(c) PROVE TypeOK'
  <2>1. Id(c) \in NodeId BY IdTyped
  <2>2. CASE ClearMarks(c)
    BY <2>2 DEF TypeOK, ClearMarks, Goto, Leading, StartUp
  <2>3. CASE Placeholder(c)
    <3>1. [owner |-> Id(c), chunk |-> 0] \in Heartbeats
      BY <2>1, BoundsAreNaturals DEF Heartbeats
    <3>2. QED BY <2>3, <3>1 DEF TypeOK, Placeholder, Goto, Beat, Leading
  <2>4. CASE WriteChunk(c)
    <3>1. chunks[c] + 1 \in 0 .. MaxChunks
      BY <2>4, BoundsAreNaturals DEF TypeOK, WriteChunk, Goto
    <3>2. [owner |-> Id(c), chunk |-> chunks[c] + 1] \in Heartbeats
      BY <2>1, <3>1 DEF Heartbeats
    <3>3. QED BY <2>4, <3>1, <3>2 DEF TypeOK, WriteChunk, Goto, Beat
  <2>5. CASE FnReturn(c)
    BY <2>1, <2>5 DEF TypeOK, FnReturn, Goto, Leading
  <2>6. CASE Publish(c)
    <3>1. [ok |-> outcome[c] = "ok", from |-> Id(c)] \in Answer
      BY <2>1 DEF Answer
    <3>2. QED BY <2>6, <3>1 DEF TypeOK, Publish, Goto, Leading
  <2>7. CASE DropProgress(c)
    BY <2>7 DEF TypeOK, DropProgress, Goto, Leading
  <2>8. CASE Release(c)
    <3>1. PcReturnedTyped'
      BY <2>1, <2>8, ReturnTyped DEF Release
    <3>2. QED BY <2>1, <2>8, <3>1 DEF TypeOK, PcReturnedTyped, Release
  <2>9. CASE WatchCancel(c)
    BY <2>9 DEF TypeOK, WatchCancel
  <2>10. CASE ExecTimeout(c)
    BY <2>10 DEF TypeOK, ExecTimeout
  <2>11. QED
    BY <1>4, <2>2, <2>3, <2>4, <2>5, <2>6, <2>7, <2>8, <2>9, <2>10 DEF LeaderStep
<1>5. ASSUME NEW c \in Caller, FollowerStep(c) PROVE TypeOK'
  <2> USE DEF Leave
  <2>1. CASE Subscribe(c)
    BY <2>1 DEF TypeOK, Subscribe, Goto, Following
  <2>2. CASE OnMessage(c)
    <3>1. inbox[c] \in Answer /\ inbox[c].from \in NodeId
      BY <2>2 DEF TypeOK, OnMessage, Answer
    <3>2. PcReturnedTyped'
      <4>1. CASE inbox[c].ok /\ Cached /\ Return(c, TRUE, result.from)
        BY <4>1, CachedTyped, ReturnTyped
      <4>2. CASE inbox[c].ok /\ ~Cached /\ Goto(c, "start") /\ UNCHANGED returned
        BY <4>2 DEF TypeOK, PcReturnedTyped, Goto
      <4>3. CASE ~inbox[c].ok /\ Return(c, FALSE, inbox[c].from)
        BY <4>3, <3>1, ReturnTyped
      <4>4. QED BY <2>2, <4>1, <4>2, <4>3 DEF OnMessage
    <3>3. QED BY <2>2, <3>2 DEF TypeOK, PcReturnedTyped, OnMessage
  <2>3. CASE FollowerCtxDone(c)
    <3>1. PcReturnedTyped'
      BY <2>3, ReturnTyped DEF FollowerCtxDone
    <3>2. QED BY <2>3, <3>1 DEF TypeOK, PcReturnedTyped, FollowerCtxDone
  <2>4. CASE CheckLock(c)
    BY <2>4 DEF TypeOK, CheckLock, Goto, Following
  <2>5. CASE CheckResult(c)
    BY <2>5 DEF TypeOK, CheckResult, Goto, Following
  <2>6. CASE CheckOwner(c)
    BY <2>6 DEF TypeOK, CheckOwner, Goto, Following
  <2>7. CASE CheckProgress(c)
    BY <2>7 DEF TypeOK, CheckProgress, Goto, Following
  <2>8. CASE Notify(c)
    BY <2>8 DEF TypeOK, Notify, Goto
  <2>9. QED
    BY <1>5, <2>1, <2>2, <2>3, <2>4, <2>5, <2>6, <2>7, <2>8 DEF FollowerStep
<1>6. CASE LockExpires
  BY <1>6 DEF TypeOK, LockExpires
<1>7. CASE ProgressAges
  BY <1>7 DEF TypeOK, ProgressAges
<1>8. CASE CancelKeyExpires
  BY <1>8 DEF TypeOK, CancelKeyExpires
<1>9. CASE ResultExpires
  BY <1>9 DEF TypeOK, ResultExpires
<1>10. ASSUME NEW c \in Caller, Crash(c) PROVE TypeOK'
  BY <1>10, BoundsAreNaturals DEF TypeOK, Crash, Goto, Finished
<1>11. CASE UNCHANGED vars
  BY <1>11 DEF TypeOK, vars
<1>12. QED
  BY <1>1, <1>2, <1>3, <1>4, <1>5, <1>6, <1>7, <1>8, <1>9, <1>10, <1>11
     DEF Next, CallerStep, Environment

\* Every reachable state is well typed (property TypeOK of run single_flight).
THEOREM TypeCorrect == Spec => []TypeOK
BY InitTyped, StepTyped, PTL DEF Spec

-----------------------------------------------------------------------------
(* The leader lock.  With TypeOK, LeaderHoldsLock is inductive: a lock is   *)
(* granted only when it is None, and a leader that has not lost its lock    *)
(* makes it differ from None.                                               *)

LEMMA LockStep == TypeOK /\ LeaderHoldsLock /\ [Next]_vars => LeaderHoldsLock'
<1> SUFFICES ASSUME TypeOK, LeaderHoldsLock, [Next]_vars,
                    NEW d \in Caller, (pc[d] \in Leading)', (Id(d) \notin expired)'
             PROVE  (lock = Id(d))'
  BY DEF LeaderHoldsLock
<1> USE DEF redis, leader, follow, ghost
<1>0. Id(d) \in NodeId /\ Id(d) # None
  BY IdTyped, MarksAreFresh
<1>1. ASSUME NEW c \in Caller, TryAcquire(c) PROVE (lock = Id(d))'
  <2>1. CASE lock = None
    <3>1. d = c
      BY <1>0, <1>1, <2>1 DEF TypeOK, LeaderHoldsLock, TryAcquire, Goto, Id, Leading, StartUp
    <3>2. QED BY <1>1, <2>1, <3>1 DEF TypeOK, TryAcquire, Id
  <2>2. CASE lock # None
    BY <1>1, <2>2 DEF TypeOK, LeaderHoldsLock, TryAcquire, Goto, Id, Leading, StartUp
  <2>3. QED BY <2>1, <2>2
<1>2. ASSUME NEW c \in Caller, Degrade(c) \/ LocalReturn(c) PROVE (lock = Id(d))'
  BY <1>2 DEF TypeOK, LeaderHoldsLock, Degrade, LocalReturn, Return, Goto, Id, Leading, StartUp
<1>3. ASSUME NEW c \in Caller, LeaderStep(c) PROVE (lock = Id(d))'
  <2>1. CASE Release(c)
    <3>1. d # c /\ pc[d] \in Leading /\ Id(d) \notin expired /\ Id(d)' = Id(d)
      BY <2>1 DEF TypeOK, Release, Return, Goto, Id, Leading, StartUp
    <3>2. lock = Id(d) /\ Id(d) # Id(c)
      BY <3>1 DEF LeaderHoldsLock, Id
    <3>3. QED BY <2>1, <3>1, <3>2 DEF Release
  <2>2. CASE ~Release(c)
    <3>1. UNCHANGED <<lock, attempt, expired>> /\ pc[d] \in Leading
      BY <1>3, <2>2 DEF TypeOK, LeaderStep, ClearMarks, Placeholder, WriteChunk, FnReturn,
        Publish, DropProgress, WatchCancel, ExecTimeout, Beat, Goto, Leading, StartUp
    <3>2. QED BY <3>1 DEF LeaderHoldsLock, Id
  <2>3. QED BY <2>1, <2>2
<1>4. ASSUME NEW c \in Caller, FollowerStep(c) PROVE (lock = Id(d))'
  <2>1. UNCHANGED <<lock, attempt, expired>> /\ pc[d] \in Leading
    BY <1>4 DEF TypeOK, FollowerStep, Subscribe, OnMessage, FollowerCtxDone, CheckLock,
      CheckResult, CheckOwner, CheckProgress, Notify, Return, Goto, Leading, StartUp
  <2>2. QED BY <2>1 DEF LeaderHoldsLock, Id
<1>5. CASE LockExpires
  <2>1. pc[d] \in Leading /\ Id(d) \notin expired /\ lock = Id(d)
    BY <1>5 DEF LockExpires, LeaderHoldsLock, Id
  <2>2. LiveLeader(lock)
    BY <2>1 DEF LiveLeader, Id
  <2>3. Id(d)' \in expired'
    BY <1>5, <2>1, <2>2 DEF LockExpires, Id
  <2>4. QED BY <2>3
<1>6. CASE ProgressAges \/ CancelKeyExpires \/ ResultExpires
  BY <1>6 DEF LeaderHoldsLock, ProgressAges, CancelKeyExpires, ResultExpires, Id
<1>7. ASSUME NEW c \in Caller, Crash(c) PROVE (lock = Id(d))'
  BY <1>7 DEF TypeOK, LeaderHoldsLock, Crash, Goto, Id, Leading, StartUp
<1>8. CASE UNCHANGED vars
  BY <1>8 DEF LeaderHoldsLock, vars, Id
<1>9. QED
  BY <1>1, <1>2, <1>3, <1>4, <1>5, <1>6, <1>7, <1>8 DEF Next, CallerStep, Environment

\* A leader that did not lose its lock to the TTL holds it, in every reachable
\* state (property LeaderHoldsLock of run single_flight).
THEOREM LockHeld == Spec => []LeaderHoldsLock
<1>1. Init => LeaderHoldsLock
  BY DEF Init, LeaderHoldsLock, Leading, StartUp
<1>2. QED BY <1>1, LockStep, TypeCorrect, PTL DEF Spec

\* Two leaders at work at the same time: one of them lost its lock to the TTL.
THEOREM AtMostOneLeader ==
  Spec => [](\A c, d \in Caller :
               /\ pc[c] \in Leading /\ pc[d] \in Leading
               /\ Id(c) \notin expired /\ Id(d) \notin expired
               => c = d)
<1>1. LeaderHoldsLock =>
        \A c, d \in Caller :
          /\ pc[c] \in Leading /\ pc[d] \in Leading
          /\ Id(c) \notin expired /\ Id(d) \notin expired
          => c = d
  BY DEF LeaderHoldsLock, Id
<1>2. QED BY <1>1, LockHeld, PTL

-----------------------------------------------------------------------------
(* The leader lock implements the lease of module Lease.  A winner's nodeID *)
(* is new: those in expired belong to the caller's earlier iterations.      *)

AtWork == {n \in NodeId : LiveLeader(n)}

ExpiredAreOld == \A n \in expired : n[2] <= attempt[n[1]]

LEMMA AtWorkUnchanged ==
  ASSUME TypeOK, UNCHANGED attempt,
         \A c \in Caller : pc[c] \in Leading <=> (pc[c] \in Leading)'
  PROVE  UNCHANGED AtWork
BY DEF AtWork, LiveLeader, Id, NodeId

LEMMA OldStep == TypeOK /\ ExpiredAreOld /\ [Next]_vars => ExpiredAreOld'
<1> SUFFICES ASSUME TypeOK, ExpiredAreOld, [Next]_vars, NEW n \in expired' PROVE (n[2] <= attempt[n[1]])'
  BY DEF ExpiredAreOld
<1> USE DEF redis, leader, follow, ghost
<1>1. ASSUME NEW c \in Caller, TryAcquire(c) PROVE (n[2] <= attempt[n[1]])'
  <2>1. n \in expired /\ n \in NodeId /\ n[1] \in Caller /\ n[2] \in 0 .. MaxAttempts
    BY <1>1 DEF TypeOK, TryAcquire, NodeId
  <2>2. attempt[n[1]] \in Nat /\ attempt'[n[1]] \in Nat /\ attempt[n[1]] <= attempt'[n[1]]
    BY <1>1, <2>1, BoundsAreNaturals DEF TypeOK, TryAcquire
  <2>3. QED BY <2>1, <2>2, BoundsAreNaturals DEF ExpiredAreOld
<1>2. CASE LockExpires
  <2>1. CASE n \in expired
    BY <1>2, <2>1 DEF LockExpires, ExpiredAreOld
  <2>2. CASE n \notin expired
    <3>1. n = lock /\ LiveLeader(lock) /\ n \in NodeId
      BY <1>2, <2>2 DEF LockExpires, TypeOK
    <3>2. n[1] \in Caller /\ n[2] = attempt[n[1]]
      BY <3>1 DEF LiveLeader, Id, NodeId
    <3>3. attempt[n[1]] \in Nat
      BY <3>2, BoundsAreNaturals DEF TypeOK
    <3>4. QED BY <1>2, <3>2, <3>3 DEF LockExpires
  <2>3. QED BY <2>1, <2>2
<1>3. CASE ~LockExpires /\ ~\E c \in Caller : TryAcquire(c)
  <2>1. UNCHANGED <<attempt, expired>>
    BY <1>3 DEF Next, CallerStep, LeaderStep, FollowerStep, Environment, Degrade, LocalReturn,
      ClearMarks, Placeholder, WriteChunk, FnReturn, Publish, DropProgress, Release, WatchCancel,
      ExecTimeout, Subscribe, OnMessage, FollowerCtxDone, CheckLock, CheckResult, CheckOwner,
      CheckProgress, Notify, ProgressAges, CancelKeyExpires, ResultExpires, Crash, vars
  <2>2. QED BY <2>1 DEF ExpiredAreOld
<1>4. QED BY <1>1, <1>2, <1>3

LEMMA LeaseStepMapped ==
  ASSUME TypeOK, ExpiredAreOld, [Next]_vars
  PROVE  [TheLease!LeaseNext]_(TheLease!leaseVars)
<1> USE DEF redis, leader, follow, ghost, TheLease!leaseVars, AtWork
<1>1. ASSUME NEW c \in Caller, TryAcquire(c), lock = None PROVE TheLease!LeaseNext
  <2>0. PICK n \in NodeId : n = <<c, attempt[c] + 1>>
    BY <1>1, BoundsAreNaturals DEF TypeOK, TryAcquire, NodeId
  <2>1. n[1] = c /\ lock' = n /\ Id(c)' = n /\ (pc[c] \in Leading)' /\ pc[c] \notin Leading
    BY <1>1, <2>0 DEF TypeOK, TryAcquire, Goto, Id, Leading, StartUp
  <2>2. n \notin expired
    BY <2>0, BoundsAreNaturals DEF ExpiredAreOld, TypeOK
  <2>3. n \notin AtWork
    BY <2>1 DEF LiveLeader
  <2>4. AtWork' = AtWork \cup {n}
    <3>1. ASSUME NEW m \in NodeId, m # n PROVE LiveLeader(m)' <=> LiveLeader(m)
      <4>1. PICK d \in Caller, k \in 0 .. MaxAttempts : m = <<d, k>>
        BY DEF NodeId
      <4>2. CASE d = c
        <5>1. m[1] = c BY <4>1, <4>2
        <5>2. QED BY <2>1, <5>1, <3>1 DEF LiveLeader
      <4>3. CASE d # c
        BY <1>1, <4>1, <4>3 DEF TypeOK, TryAcquire, Goto, LiveLeader, Id
      <4>4. QED BY <4>2, <4>3
    <3>2. LiveLeader(n)'
      BY <2>1 DEF LiveLeader
    <3>3. QED BY <2>1, <3>1, <3>2
  <2>5. TheLease!Acquire(n)
    BY <1>1, <2>1, <2>2, <2>3, <2>4 DEF TheLease!Acquire, TryAcquire
  <2>6. QED BY <2>1, <2>5 DEF TheLease!LeaseNext
<1>2. ASSUME NEW c \in Caller, Release(c) PROVE TheLease!LeaseNext
  <2>1. Id(c) \in NodeId /\ pc[c] \in Leading /\ (pc[c] \notin Leading)' /\ UNCHANGED attempt
    BY <1>2, IdTyped DEF TypeOK, Release, Return, Goto, Leading, StartUp
  <2>2. \A d \in Caller : d # c => UNCHANGED pc[d]
    BY <1>2 DEF TypeOK, Release, Return, Goto
  <2>3. Id(c) \in AtWork /\ AtWork' = AtWork \ {Id(c)}
    BY <2>1, <2>2 DEF LiveLeader, Id, NodeId
  <2>4. TheLease!Surrender(Id(c))
    BY <1>2, <2>3 DEF TheLease!Surrender, Release
  <2>5. QED BY <2>1, <2>4 DEF TheLease!LeaseNext
<1>3. ASSUME NEW c \in Caller, Crash(c), pc[c] \in Leading PROVE TheLease!LeaseNext
  <2>1. Id(c) \in NodeId /\ (pc[c] \notin Leading)' /\ UNCHANGED <<attempt, lock, expired>>
    BY <1>3, IdTyped DEF TypeOK, Crash, Goto, Leading, StartUp
  <2>2. \A d \in Caller : d # c => UNCHANGED pc[d]
    BY <1>3 DEF TypeOK, Crash, Goto
  <2>3. Id(c) \in AtWork /\ AtWork' = AtWork \ {Id(c)}
    BY <1>3, <2>1, <2>2 DEF LiveLeader, Id, NodeId
  <2>4. TheLease!Abandon(Id(c))
    BY <2>1, <2>3 DEF TheLease!Abandon
  <2>5. QED BY <2>1, <2>4 DEF TheLease!LeaseNext
<1>4. CASE LockExpires
  <2>1. UNCHANGED AtWork
    BY <1>4, AtWorkUnchanged DEF LockExpires
  <2>2. expired' = expired \cup (AtWork \cap {lock})
    BY <1>4 DEF LockExpires, TypeOK
  <2>3. TheLease!Lapse
    BY <1>4, <2>1, <2>2 DEF LockExpires, TheLease!Lapse
  <2>4. QED BY <2>3 DEF TheLease!LeaseNext
<1>5. ASSUME NEW c \in Caller,
             \/ TryAcquire(c) /\ lock # None
             \/ Degrade(c) \/ LocalReturn(c)
             \/ LeaderStep(c) /\ ~Release(c)
             \/ FollowerStep(c)
             \/ Crash(c) /\ pc[c] \notin Leading
      PROVE  UNCHANGED TheLease!leaseVars
  <2>1. CASE TryAcquire(c) /\ lock # None
    <3>1. UNCHANGED <<lock, expired>> /\ pc[c] \notin Leading /\ (pc[c] \notin Leading)'
      BY <2>1 DEF TypeOK, TryAcquire, Goto, Leading, StartUp
    <3>2. \A d \in Caller : d # c => UNCHANGED <<pc[d], attempt[d]>>
      BY <2>1 DEF TypeOK, TryAcquire, Goto
    <3>3. \A m \in NodeId : LiveLeader(m)' <=> LiveLeader(m)
      BY <3>1, <3>2 DEF LiveLeader, Id, NodeId
    <3>4. QED BY <3>1, <3>3
  <2>2. CASE \/ Degrade(c) \/ LocalReturn(c)
             \/ LeaderStep(c) /\ ~Release(c)
             \/ FollowerStep(c)
             \/ Crash(c) /\ pc[c] \notin Leading
    <3>1. UNCHANGED <<attempt, lock, expired>>
      BY <2>2 DEF LeaderStep, FollowerStep, Degrade, LocalReturn,
        ClearMarks, Placeholder, WriteChunk, FnReturn, Publish, DropProgress, WatchCancel,
        ExecTimeout, Subscribe, OnMessage, FollowerCtxDone, CheckLock, CheckResult, CheckOwner,
        CheckProgress, Notify, Crash
    <3>2. \A d \in Caller : pc[d] \in Leading <=> (pc[d] \in Leading)'
      BY <2>2 DEF TypeOK, LeaderStep, FollowerStep, Degrade, LocalReturn,
        ClearMarks, Placeholder, WriteChunk, FnReturn, Publish, DropProgress, WatchCancel,
        ExecTimeout, Subscribe, OnMessage, FollowerCtxDone, CheckLock, CheckResult, CheckOwner,
        CheckProgress, Notify, Crash, Return, Goto, Leading, StartUp
    <3>3. QED BY <3>1, <3>2, AtWorkUnchanged
  <2>3. QED BY <1>5, <2>1, <2>2
<1>6. CASE ProgressAges \/ CancelKeyExpires \/ ResultExpires \/ UNCHANGED vars
  <2>1. UNCHANGED <<pc, attempt, lock, expired>>
    BY <1>6 DEF ProgressAges, CancelKeyExpires, ResultExpires, vars
  <2>2. QED BY <2>1, AtWorkUnchanged
<1>7. QED
  BY <1>1, <1>2, <1>3, <1>4, <1>5, <1>6 DEF Next, CallerStep, Environment

\* The leader lock of Do behaves as a lease (property ImplementsLease of run
\* single_flight): granted when free, deleted by its holder only.
THEOREM LockIsALease == Spec => ImplementsLease
<1>1. Init => TheLease!LeaseInit
  BY DEF Init, TheLease!LeaseInit, LiveLeader, NodeId, Leading, StartUp
<1>2. Init => ExpiredAreOld
  BY DEF Init, ExpiredAreOld
<1>3. QED
  BY <1>1, <1>2, OldStep, LeaseStepMapped, TypeCorrect, PTL
     DEF Spec, ImplementsLease, TheLease!LeaseSpec

\* The promise of that lease: a node at work that has not lapsed holds it.
THEOREM LeaseHolds == Spec => []TheLease!OnlyHolderWorks
<1>1. TypeOK /\ LeaderHoldsLock => TheLease!OnlyHolderWorks
  BY DEF TheLease!OnlyHolderWorks, LeaderHoldsLock, LiveLeader, NodeId
<1>2. QED BY <1>1, TypeCorrect, LockHeld, PTL

-----------------------------------------------------------------------------
(* What Do returns.  A value travels from an execution of fn to a caller as *)
(* outcome, as result, and as returned: each stage only holds what the      *)
(* stage before it held.                                                    *)

OutcomeExecuted ==
  \A c \in Caller :
    outcome[c] = "ok" => Id(c) \in succeeded /\ pc[c] \in Leading \cup Finished

ResultExecuted == result # None /\ result.ok => result.from \in succeeded

ExecutedInv == OutcomeExecuted /\ ResultExecuted /\ ReturnedWasExecuted

\* The executions known to have succeeded are never forgotten.
LEMMA SucceededGrows == [Next]_vars => succeeded \subseteq succeeded'
BY ZenonT(60) DEF Next, CallerStep, LeaderStep, FollowerStep, Environment, TryAcquire, Degrade, LocalReturn,
  ClearMarks, Placeholder, WriteChunk, FnReturn, Publish, DropProgress, Release, WatchCancel,
  ExecTimeout, Subscribe, OnMessage, FollowerCtxDone, CheckLock, CheckResult, CheckOwner,
  CheckProgress, Notify, LockExpires, ProgressAges, CancelKeyExpires, ResultExpires, Crash,
  redis, leader, follow, ghost, vars

\* A nodeID is only ever renewed by TryAcquire.
LEMMA AttemptChange == [Next]_vars => UNCHANGED attempt \/ \E c \in Caller : TryAcquire(c)
BY ZenonT(60) DEF Next, CallerStep, LeaderStep, FollowerStep, Environment, Degrade, LocalReturn,
  ClearMarks, Placeholder, WriteChunk, FnReturn, Publish, DropProgress, Release, WatchCancel,
  ExecTimeout, Subscribe, OnMessage, FollowerCtxDone, CheckLock, CheckResult, CheckOwner,
  CheckProgress, Notify, LockExpires, ProgressAges, CancelKeyExpires, ResultExpires, Crash,
  redis, leader, follow, ghost, vars

LEMMA OutcomeStep == TypeOK /\ OutcomeExecuted /\ [Next]_vars => OutcomeExecuted'
<1> SUFFICES ASSUME TypeOK, OutcomeExecuted, [Next]_vars,
                    NEW d \in Caller, (outcome[d] = "ok")'
             PROVE  (Id(d) \in succeeded /\ pc[d] \in Leading \cup Finished)'
  BY DEF OutcomeExecuted
<1> USE DEF redis, leader, follow, ghost, Goto
<1>1. ASSUME NEW c \in Caller, FnReturn(c) PROVE (Id(d) \in succeeded /\ pc[d] \in Leading \cup Finished)'
  <2>1. CASE d = c
    BY <1>1, <2>1 DEF TypeOK, FnReturn, Id, Leading
  <2>2. CASE d # c
    BY <1>1, <2>2 DEF TypeOK, OutcomeExecuted, FnReturn, Id
  <2>3. QED BY <2>1, <2>2
<1>2. ASSUME ~\E c \in Caller : FnReturn(c)
      PROVE (Id(d) \in succeeded /\ pc[d] \in Leading \cup Finished)'
  <2>1. outcome[d] = "ok" /\ Id(d) \in succeeded /\ pc[d] \in Leading \cup Finished
    BY <1>2, ZenonT(60) DEF OutcomeExecuted, Next, CallerStep, LeaderStep, FollowerStep, Environment,
      TryAcquire, Degrade, LocalReturn, ClearMarks, Placeholder, WriteChunk, Publish, DropProgress,
      Release, WatchCancel, ExecTimeout, Subscribe, OnMessage, FollowerCtxDone, CheckLock,
      CheckResult, CheckOwner, CheckProgress, Notify, LockExpires, ProgressAges, CancelKeyExpires,
      ResultExpires, Crash, vars
  <2>2. Id(d)' = Id(d)
    <3>1. CASE UNCHANGED attempt
      BY <3>1 DEF Id
    <3>2. ASSUME NEW c \in Caller, TryAcquire(c) PROVE Id(d)' = Id(d)
      BY <2>1, <3>2 DEF TypeOK, TryAcquire, Id, Leading, StartUp, Finished
    <3>3. QED BY <3>1, <3>2, AttemptChange
  <2>3. (pc[d] \in Leading \cup Finished)'
    BY <1>2, <2>1 DEF TypeOK, Next, CallerStep, LeaderStep, FollowerStep, Environment,
      TryAcquire, Degrade, LocalReturn, ClearMarks, Placeholder, WriteChunk, Publish, DropProgress,
      Release, WatchCancel, ExecTimeout, Subscribe, OnMessage, FollowerCtxDone, CheckLock,
      CheckResult, CheckOwner, CheckProgress, Notify, LockExpires, ProgressAges, CancelKeyExpires,
      ResultExpires, Crash, Return, vars, Leading, StartUp, Finished
  <2>4. QED BY <2>1, <2>2, <2>3, SucceededGrows
<1>3. QED BY <1>1, <1>2

LEMMA ResultStep ==
  TypeOK /\ OutcomeExecuted /\ ResultExecuted /\ [Next]_vars => ResultExecuted'
<1> SUFFICES ASSUME TypeOK, OutcomeExecuted, ResultExecuted, [Next]_vars PROVE ResultExecuted'
  OBVIOUS
<1> USE DEF redis, leader, follow, ghost
<1>1. ASSUME NEW c \in Caller, Publish(c) PROVE ResultExecuted'
  <2>1. CASE canceled[c] # None
    BY <1>1, <2>1, SucceededGrows DEF ResultExecuted, Publish
  <2>2. CASE canceled[c] = None
    <3>1. result' = [ok |-> outcome[c] = "ok", from |-> Id(c)]
      BY <1>1, <2>2 DEF Publish
    <3>2. outcome[c] = "ok" => Id(c) \in succeeded
      BY DEF OutcomeExecuted
    <3>3. QED BY <3>1, <3>2, SucceededGrows DEF ResultExecuted
  <2>3. QED BY <2>1, <2>2
<1>2. CASE ResultExpires
  BY <1>2 DEF ResultExpires, ResultExecuted
<1>3. CASE ~ResultExpires /\ ~\E c \in Caller : Publish(c)
  <2>1. UNCHANGED result
    BY <1>3 DEF Next, CallerStep, LeaderStep, FollowerStep, Environment, TryAcquire, Degrade,
      LocalReturn, ClearMarks, Placeholder, WriteChunk, FnReturn, DropProgress, Release,
      WatchCancel, ExecTimeout, Subscribe, OnMessage, FollowerCtxDone, CheckLock, CheckResult,
      CheckOwner, CheckProgress, Notify, LockExpires, ProgressAges, CancelKeyExpires, Crash, vars
  <2>2. QED BY <2>1, SucceededGrows DEF ResultExecuted
<1>4. QED BY <1>1, <1>2, <1>3

LEMMA ReturnedStep ==
  TypeOK /\ ExecutedInv /\ [Next]_vars => ReturnedWasExecuted'
<1> SUFFICES ASSUME TypeOK, ExecutedInv, [Next]_vars,
                    NEW d \in Caller, (returned[d] # None /\ returned[d].ok)'
             PROVE  (returned[d].from \in succeeded)'
  BY DEF ReturnedWasExecuted
<1> USE DEF redis, leader, follow, ghost, ExecutedInv
<1>1. CASE UNCHANGED returned[d]
  BY <1>1, SucceededGrows DEF ReturnedWasExecuted
<1>2. ASSUME NEW c \in Caller, LocalReturn(c) PROVE (returned[d].from \in succeeded)'
  BY <1>1, <1>2 DEF TypeOK, LocalReturn, Return
<1>3. ASSUME NEW c \in Caller, Release(c) PROVE (returned[d].from \in succeeded)'
  BY <1>1, <1>3 DEF TypeOK, OutcomeExecuted, Release, Return
<1>4. ASSUME NEW c \in Caller, OnMessage(c) PROVE (returned[d].from \in succeeded)'
  BY <1>1, <1>4 DEF TypeOK, ResultExecuted, OnMessage, Cached, Return
<1>5. ASSUME NEW c \in Caller, FollowerCtxDone(c) PROVE (returned[d].from \in succeeded)'
  BY <1>1, <1>5 DEF TypeOK, FollowerCtxDone, Return
<1>6. ASSUME ~\E c \in Caller : \/ LocalReturn(c) \/ Release(c) \/ OnMessage(c)
                                \/ FollowerCtxDone(c)
      PROVE  UNCHANGED returned
  BY <1>6 DEF Next, CallerStep, LeaderStep, FollowerStep, Environment, TryAcquire, Degrade,
    ClearMarks, Placeholder, WriteChunk, FnReturn, Publish, DropProgress, WatchCancel, ExecTimeout,
    Subscribe, CheckLock, CheckResult, CheckOwner, CheckProgress, Notify, LockExpires, ProgressAges,
    CancelKeyExpires, ResultExpires, Crash, vars
<1>7. QED BY <1>1, <1>2, <1>3, <1>4, <1>5, <1>6

\* A value returned without error comes from an execution of fn that succeeded,
\* whichever way it came (property ReturnedWasExecuted of run single_flight).
THEOREM ReturnedExecuted == Spec => []ReturnedWasExecuted
<1>1. Init => ExecutedInv
  BY MarksAreFresh DEF Init, ExecutedInv, OutcomeExecuted, ResultExecuted, ReturnedWasExecuted
<1>2. TypeOK /\ ExecutedInv /\ [Next]_vars => ExecutedInv'
  BY OutcomeStep, ResultStep, ReturnedStep DEF ExecutedInv
<1>3. ExecutedInv => ReturnedWasExecuted
  BY DEF ExecutedInv
<1>4. QED BY <1>1, <1>2, <1>3, TypeCorrect, PTL DEF Spec

-----------------------------------------------------------------------------
(* Cancellation.  The cancel key and the pushed messages only name leaders  *)
(* that were judged lost; a caller that does not lead has no signal and is   *)
(* not cancelled, so a new nodeID starts without any.                        *)

NotLeading(c) == pc[c] \notin Leading \cup Finished

CancelInv ==
  /\ cancelKey # None => cancelKey \in judged
  /\ \A c \in Caller :
       /\ NotLeading(c) => canceled[c] = None /\ ~cancelPushed[c]
       /\ cancelPushed[c] => Id(c) \in judged
       /\ canceled[c] = "peer" => Id(c) \in judged

LEMMA CancelStep == TypeOK /\ CancelInv /\ [Next]_vars => CancelInv'
<1> SUFFICES ASSUME TypeOK, CancelInv, [Next]_vars PROVE CancelInv'
  OBVIOUS
<1> USE DEF redis, leader, follow, ghost
<1>1. ASSUME NEW c \in Caller, TryAcquire(c) PROVE CancelInv'
  <2>1. NotLeading(c) /\ canceled[c] = None /\ ~cancelPushed[c]
    BY <1>1 DEF TryAcquire, CancelInv, NotLeading, Leading, StartUp, Finished
  <2>2. UNCHANGED <<cancelKey, canceled, cancelPushed, judged>>
    BY <1>1 DEF TryAcquire
  <2>3. \A d \in Caller : d # c => UNCHANGED <<pc[d], attempt[d]>>
    BY <1>1 DEF TypeOK, TryAcquire, Goto
  <2>4. QED BY <2>1, <2>2, <2>3, MarksAreFresh DEF CancelInv, NotLeading, Id
<1>2. ASSUME NEW c \in Caller, WatchCancel(c) PROVE CancelInv'
  <2>1. Id(c) \in judged /\ ~NotLeading(c)
    BY <1>2, IdTyped, MarksAreFresh DEF WatchCancel, CancelInv, NotLeading
  <2>2. UNCHANGED <<pc, attempt, cancelKey, judged>>
    BY <1>2 DEF WatchCancel
  <2>3. /\ canceled' = [canceled EXCEPT ![c] = "peer"]
        /\ cancelPushed' = [cancelPushed EXCEPT ![c] = FALSE]
    BY <1>2 DEF WatchCancel
  <2>4. QED BY <2>1, <2>2, <2>3 DEF TypeOK, CancelInv, NotLeading, Id
<1>3. ASSUME NEW c \in Caller, ExecTimeout(c) PROVE CancelInv'
  <2>1. ~NotLeading(c)
    BY <1>3 DEF ExecTimeout, NotLeading, Leading
  <2>2. QED BY <1>3, <2>1 DEF TypeOK, ExecTimeout, CancelInv, NotLeading, Id
<1>4. ASSUME NEW c \in Caller, Notify(c) PROVE CancelInv'
  <2>1. seenOwner[c] # None => seenOwner[c] \in judged'
    BY <1>4 DEF Notify
  <2>2. UNCHANGED <<attempt, canceled>> /\ cancelKey' = seenOwner[c] /\ judged \subseteq judged'
    BY <1>4 DEF Notify
  <2>3. ASSUME NEW d \in Caller
        PROVE  /\ NotLeading(d)' => canceled'[d] = None /\ ~cancelPushed'[d]
               /\ cancelPushed'[d] => Id(d) \in judged'
    <3>1. NotLeading(d)' => NotLeading(d)
      BY <1>4 DEF TypeOK, Notify, Goto, NotLeading, Leading, StartUp, Finished
    <3>2. cancelPushed'[d] => cancelPushed[d] \/ (pc[d] \in Leading /\ Id(d) = seenOwner[c])
      BY <1>4 DEF Notify
    <3>3. pc[d] \in Leading => ~NotLeading(d)' /\ Id(d) # None
      BY <1>4, IdTyped, MarksAreFresh DEF TypeOK, Notify, Goto, NotLeading, Leading, StartUp
    <3>4. QED BY <2>1, <2>2, <3>1, <3>2, <3>3 DEF CancelInv
  <2>4. QED BY <2>1, <2>2, <2>3 DEF CancelInv, Id
<1>5. CASE CancelKeyExpires
  BY <1>5 DEF CancelKeyExpires, CancelInv, NotLeading, Id
<1>6. ASSUME NEW c \in Caller, ClearMarks(c) PROVE CancelInv'
  <2>1. UNCHANGED <<attempt, leader, judged>> /\ cancelKey' \in {None, cancelKey}
    BY <1>6 DEF ClearMarks
  <2>2. \A d \in Caller : NotLeading(d)' => NotLeading(d)
    BY <1>6 DEF TypeOK, ClearMarks, Goto, NotLeading, Leading, StartUp, Finished
  <2>3. QED BY <2>1, <2>2 DEF CancelInv, Id
<1>7. CASE /\ ~CancelKeyExpires
           /\ ~\E c \in Caller : \/ TryAcquire(c) \/ WatchCancel(c) \/ ExecTimeout(c)
                                 \/ Notify(c) \/ ClearMarks(c)
  <2>1. UNCHANGED <<attempt, cancelKey, cancelPushed, canceled, judged>>
    BY <1>7 DEF Next, CallerStep, LeaderStep, FollowerStep, Environment, Degrade, LocalReturn,
      Placeholder, WriteChunk, FnReturn, Publish, DropProgress, Release, Subscribe, OnMessage,
      FollowerCtxDone, CheckLock, CheckResult, CheckOwner, CheckProgress, LockExpires,
      ProgressAges, ResultExpires, Crash, vars
  <2>2. \A d \in Caller : NotLeading(d)' => NotLeading(d)
    BY <1>7 DEF TypeOK, Next, CallerStep, LeaderStep, FollowerStep, Environment, Degrade,
      LocalReturn, Placeholder, WriteChunk, FnReturn, Publish, DropProgress, Release, Subscribe,
      OnMessage, FollowerCtxDone, CheckLock, CheckResult, CheckOwner, CheckProgress, LockExpires,
      ProgressAges, ResultExpires, Crash, vars, Goto, Return, NotLeading, Leading, StartUp, Finished
  <2>3. QED BY <2>1, <2>2 DEF CancelInv, Id
<1>8. QED BY <1>1, <1>2, <1>3, <1>4, <1>5, <1>6, <1>7

\* A leader is only cancelled by a takeover that judged that very leader lost
\* (property CanceledWasAddressed of run single_flight).
THEOREM CancelAddressed == Spec => []CanceledWasAddressed
<1>1. Init => CancelInv
  BY MarksAreFresh DEF Init, CancelInv
<1>2. CancelInv => CanceledWasAddressed
  BY DEF CancelInv, CanceledWasAddressed
<1>3. QED BY <1>1, <1>2, CancelStep, TypeCorrect, PTL DEF Spec
=============================================================================
