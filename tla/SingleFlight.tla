---------------------------- MODULE SingleFlight ----------------------------
(***************************************************************************)
(* pkg/singleflight: DistributedGroup.Do for ONE key.  Callers run on      *)
(* different instances and share five Redis entries: the leader lock, the  *)
(* leader's streaming progress, the cancel mark, the cached result and the *)
(* result channel.  Every Redis command after which another caller may run *)
(* is a step of its own; a paused process is one that takes no step while  *)
(* its lock expires or its progress ages.                                  *)
(*                                                                         *)
(* Bounds: MaxAttempts loop iterations of a Do (its context is finite, and *)
(* a Do whose context is spent degrades), MaxChunks writes of one fn,      *)
(* MaxExpiries expirations of the lock of a live leader, MaxCrashes.       *)
(***************************************************************************)
EXTENDS Integers, FiniteSets

CONSTANTS Caller, MaxAttempts, MaxChunks, MaxExpiries, MaxCrashes, None, Waited

ASSUME BoundsAreNaturals ==
  /\ MaxAttempts \in Nat \ {0}
  /\ MaxChunks \in Nat
  /\ MaxExpiries \in Nat
  /\ MaxCrashes \in Nat

(***************************************************************************)
(* A leader is identified by a uuid drawn in each iteration of Do: here    *)
(* the caller and the number of the iteration.  Number 0 is the execution  *)
(* of the degraded path, which never touches the lock.                     *)
(***************************************************************************)
NodeId == Caller \X (0 .. MaxAttempts)

Heartbeats == [owner : NodeId, chunk : 0 .. MaxChunks]

\* None stands for a missing entry, Waited for the follower's mark "init".
ASSUME MarksAreFresh == None \notin NodeId \cup {"ok", "peer"} /\ Waited # None

VARIABLES
  pc,           \* where each caller is inside Do
  attempt,      \* iterations of Do's loop so far: names the current nodeID
  lock,         \* sf:lock, the nodeID of the leader
  progress,     \* sf:progress, the leader's last heartbeat
  stale,        \* that heartbeat is older than StallThreshold
  cancelKey,    \* sf:cancel, the nodeID the last takeover addressed
  result,       \* sf:result, the last published outcome
  cancelPushed, \* a cancel message for this leader waits in its subscription
  canceled,     \* why the leader's execCtx is done: a "peer", a "timeout" or None
  chunks,       \* writes of the leader's StreamWriter
  outcome,      \* what the leader's fn returned: "ok", "error" or None
  inbox,        \* first done / error message in a follower's subscription
  lastProgress, \* the follower's lastProgress
  seenOwner,    \* the follower's leaderNodeID
  returned,     \* what Do returned
  expired,      \* history: nodeIDs whose lock ran out under them
  succeeded,    \* history: executions of fn that returned no error
  judged,       \* history: nodeIDs a follower declared lost
  crashes       \* crashes so far

redis  == <<lock, progress, stale, cancelKey, result>>
leader == <<cancelPushed, canceled, chunks, outcome>>
follow == <<inbox, lastProgress, seenOwner>>
ghost  == <<expired, succeeded, judged, crashes>>
vars   == <<pc, attempt, redis, leader, follow, returned, ghost>>

Id(c) == <<c, attempt[c]>>

StartUp   == {"elected", "cleared"}
Leading   == StartUp \cup {"exec", "publish", "cleanup", "release"}
Following == {"joining", "follow", "checkResult", "checkOwner", "checkProgress", "notify"}
Finished  == {"done", "crashed"}

\* A follower is subscribed to the result channel from Subscribe until it leaves.
Subscribed(c) == pc[c] \in Following \ {"joining"}

Init ==
  /\ pc = [c \in Caller |-> "start"]
  /\ attempt = [c \in Caller |-> 0]
  /\ lock = None /\ progress = None /\ stale = FALSE /\ cancelKey = None /\ result = None
  /\ cancelPushed = [c \in Caller |-> FALSE]
  /\ canceled = [c \in Caller |-> None]
  /\ chunks = [c \in Caller |-> 0]
  /\ outcome = [c \in Caller |-> None]
  /\ inbox = [c \in Caller |-> None]
  /\ lastProgress = [c \in Caller |-> None]
  /\ seenOwner = [c \in Caller |-> None]
  /\ returned = [c \in Caller |-> None]
  /\ expired = {} /\ succeeded = {} /\ judged = {} /\ crashes = 0

Goto(c, label) == pc' = [pc EXCEPT ![c] = label]

Return(c, ok, from) ==
  /\ Goto(c, "done")
  /\ returned' = [returned EXCEPT ![c] = [ok |-> ok, from |-> from]]

-----------------------------------------------------------------------------
(* Do: election and the degraded path. *)

\* Variant: SET instead of SETNX takes a lock that is held.
TryAcquire_Overwrites(c) ==
  /\ pc[c] = "start"
  /\ attempt[c] < MaxAttempts
  /\ attempt' = [attempt EXCEPT ![c] = @ + 1]
  /\ lock' = <<c, attempt[c] + 1>>
  /\ Goto(c, "elected")
  /\ UNCHANGED <<progress, stale, cancelKey, result, leader, follow, returned, ghost>>

\* SETNX sf:lock with a new nodeID.
TryAcquire(c) ==
  /\ pc[c] = "start"
  /\ attempt[c] < MaxAttempts
  /\ attempt' = [attempt EXCEPT ![c] = @ + 1]
  /\ IF lock = None
     THEN /\ lock' = <<c, attempt[c] + 1>>
          /\ Goto(c, "elected")
     ELSE /\ Goto(c, "joining")
          /\ UNCHANGED lock
  /\ UNCHANGED <<progress, stale, cancelKey, result, leader, follow, returned, ghost>>

\* Ping or SETNX fails (a Redis outage, or a context already spent): fn runs here.
Degrade(c) ==
  /\ pc[c] = "start"
  /\ Goto(c, "local")
  /\ UNCHANGED <<attempt, redis, leader, follow, returned, ghost>>

LocalReturn(c) ==
  /\ pc[c] = "local"
  /\ \E ok \in BOOLEAN :
       /\ Return(c, ok, <<c, 0>>)
       /\ succeeded' = IF ok THEN succeeded \cup {<<c, 0>>} ELSE succeeded
  /\ UNCHANGED <<attempt, redis, leader, follow, expired, judged, crashes>>

-----------------------------------------------------------------------------
(* runAsLeader. Commands sent with execCtx do nothing once it is done. *)

\* Del(execCtx, progressKey, cancelKey)
ClearMarks(c) ==
  /\ pc[c] = "elected"
  /\ Goto(c, "cleared")
  /\ IF canceled[c] # None
     THEN UNCHANGED <<progress, stale, cancelKey>>
     ELSE progress' = None /\ stale' = FALSE /\ cancelKey' = None
  /\ UNCHANGED <<attempt, lock, result, leader, follow, returned, ghost>>

Beat(n, chunk) ==
  /\ progress' = [owner |-> n, chunk |-> chunk]
  /\ stale' = FALSE

\* The placeholder "0:<now>", then fn starts.
Placeholder(c) ==
  /\ pc[c] = "cleared"
  /\ Goto(c, "exec")
  /\ IF canceled[c] # None THEN UNCHANGED <<progress, stale>> ELSE Beat(Id(c), 0)
  /\ UNCHANGED <<attempt, lock, cancelKey, result, leader, follow, returned, ghost>>

\* StreamWriter.Write: one chunk of output refreshes the progress.
WriteChunk(c) ==
  /\ pc[c] = "exec"
  /\ chunks[c] < MaxChunks
  /\ chunks' = [chunks EXCEPT ![c] = @ + 1]
  /\ IF canceled[c] # None THEN UNCHANGED <<progress, stale>> ELSE Beat(Id(c), chunks[c] + 1)
  /\ UNCHANGED <<pc, attempt, lock, cancelKey, result, cancelPushed, canceled, outcome,
                 follow, returned, ghost>>

\* fn returns; a cancelled fn may still have a value (a local fallback).
FnReturn(c) ==
  /\ pc[c] = "exec"
  /\ Goto(c, "publish")
  /\ \E o \in {"ok", "error"} :
       /\ outcome' = [outcome EXCEPT ![c] = o]
       /\ succeeded' = IF o = "ok" THEN succeeded \cup {Id(c)} ELSE succeeded
  /\ UNCHANGED <<attempt, redis, cancelPushed, canceled, chunks, follow, returned, expired, judged,
                 crashes>>

\* Variant: fn's error does not make it into callResult.Err, nor into the message.
Publish_DropsError(c) ==
  /\ pc[c] = "publish"
  /\ Goto(c, "cleanup")
  /\ IF canceled[c] # None
     THEN UNCHANGED <<result, inbox>>
     ELSE LET msg == [ok |-> TRUE, from |-> Id(c)]
          IN  /\ result' = msg
              /\ inbox' = [f \in Caller |->
                             IF Subscribed(f) /\ inbox[f] = None THEN msg ELSE inbox[f]]
  /\ UNCHANGED <<attempt, lock, progress, stale, cancelKey, leader, lastProgress, seenOwner,
                 returned, ghost>>

\* SET result and PUBLISH in one pipeline, with execCtx: lost when it is done.
Publish(c) ==
  /\ pc[c] = "publish"
  /\ Goto(c, "cleanup")
  /\ IF canceled[c] # None
     THEN UNCHANGED <<result, inbox>>
     ELSE LET msg == [ok |-> outcome[c] = "ok", from |-> Id(c)]
          IN  /\ result' = msg
              /\ inbox' = [f \in Caller |->
                             IF Subscribed(f) /\ inbox[f] = None THEN msg ELSE inbox[f]]
  /\ UNCHANGED <<attempt, lock, progress, stale, cancelKey, leader, lastProgress, seenOwner,
                 returned, ghost>>

\* Del(context.Background(), progressKey): whoever wrote it.
DropProgress(c) ==
  /\ pc[c] = "cleanup"
  /\ Goto(c, "release")
  /\ progress' = None /\ stale' = FALSE
  /\ UNCHANGED <<attempt, lock, cancelKey, result, leader, follow, returned, ghost>>

\* Variant: DEL without the comparison.
Release_Anybodys(c) ==
  /\ pc[c] = "release"
  /\ lock' = None
  /\ Return(c, outcome[c] = "ok", Id(c))
  /\ UNCHANGED <<attempt, progress, stale, cancelKey, result, leader, follow, ghost>>

\* releaseLock: compare-and-delete, then Do returns fn's own outcome.
Release(c) ==
  /\ pc[c] = "release"
  /\ lock' = IF lock = Id(c) THEN None ELSE lock
  /\ Return(c, outcome[c] = "ok", Id(c))
  /\ UNCHANGED <<attempt, progress, stale, cancelKey, result, leader, follow, ghost>>

\* Variant: any cancel mark stops the leader.
WatchCancel_Anybodys(c) ==
  /\ pc[c] \in Leading
  /\ canceled[c] = None
  /\ cancelPushed[c] \/ cancelKey # None
  /\ canceled' = [canceled EXCEPT ![c] = "peer"]
  /\ cancelPushed' = [cancelPushed EXCEPT ![c] = FALSE]
  /\ UNCHANGED <<pc, attempt, redis, chunks, outcome, follow, returned, ghost>>

\* watchCancel: a message or the polled cancel key that names this leader.
WatchCancel(c) ==
  /\ pc[c] \in Leading
  /\ canceled[c] = None
  /\ cancelPushed[c] \/ cancelKey = Id(c)
  /\ canceled' = [canceled EXCEPT ![c] = "peer"]
  /\ cancelPushed' = [cancelPushed EXCEPT ![c] = FALSE]
  /\ UNCHANGED <<pc, attempt, redis, chunks, outcome, follow, returned, ghost>>

\* maxExec, or the deadline of the caller's context.
ExecTimeout(c) ==
  /\ pc[c] \in StartUp \cup {"exec", "publish"}
  /\ canceled[c] = None
  /\ canceled' = [canceled EXCEPT ![c] = "timeout"]
  /\ UNCHANGED <<pc, attempt, redis, cancelPushed, chunks, outcome, follow, returned, ghost>>

-----------------------------------------------------------------------------
(* runAsFollower and checkLeaderResult. *)

\* The follower leaves: its subscription and its local variables go.
Leave(c) ==
  /\ inbox' = [inbox EXCEPT ![c] = None]
  /\ lastProgress' = [lastProgress EXCEPT ![c] = None]
  /\ seenOwner' = [seenOwner EXCEPT ![c] = None]

\* readResult: a cached error counts as no result.
Cached == result # None /\ result.ok

Subscribe(c) ==
  /\ pc[c] = "joining"
  /\ Goto(c, "follow")
  /\ UNCHANGED <<attempt, redis, leader, follow, returned, ghost>>

\* "done" makes it read the cached result; "error:..." is Do's error.
OnMessage(c) ==
  /\ pc[c] = "follow"
  /\ inbox[c] # None
  /\ Leave(c)
  /\ \/ inbox[c].ok /\ Cached /\ Return(c, TRUE, result.from)
     \/ inbox[c].ok /\ ~Cached /\ Goto(c, "start") /\ UNCHANGED returned
     \/ ~inbox[c].ok /\ Return(c, FALSE, inbox[c].from)
  /\ UNCHANGED <<attempt, redis, leader, ghost>>

FollowerCtxDone(c) ==
  /\ pc[c] = "follow"
  /\ Leave(c)
  /\ Return(c, FALSE, None)
  /\ UNCHANGED <<attempt, redis, leader, ghost>>

\* Ticker: EXISTS sf:lock.
CheckLock(c) ==
  /\ pc[c] = "follow"
  /\ Goto(c, IF lock = None THEN "checkResult" ELSE "checkOwner")
  /\ UNCHANGED <<attempt, redis, leader, follow, returned, ghost>>

\* Variant: without a result the follower goes on waiting, too.
CheckResult_KeepsWaiting(c) ==
  /\ pc[c] = "checkResult"
  /\ Goto(c, "follow")
  /\ UNCHANGED <<attempt, redis, leader, follow, returned, ghost>>

\* The lock is gone. Without a result the takeover addresses nobody. With one the
\* follower waits on: followerGotResult is 0, and runAsFollower takes 0 for "the
\* leader is fine".
CheckResult(c) ==
  /\ pc[c] = "checkResult"
  /\ Goto(c, IF Cached THEN "follow" ELSE "notify")
  /\ seenOwner' = [seenOwner EXCEPT ![c] = IF Cached THEN @ ELSE None]
  /\ UNCHANGED <<attempt, redis, leader, inbox, lastProgress, returned, ghost>>

\* GET sf:lock: the leader a takeover would address; it may be gone by now.
CheckOwner(c) ==
  /\ pc[c] = "checkOwner"
  /\ seenOwner' = [seenOwner EXCEPT ![c] = lock]
  /\ Goto(c, "checkProgress")
  /\ UNCHANGED <<attempt, redis, leader, inbox, lastProgress, returned, ghost>>

\* The leader is lost when its heartbeat is missing for the second time in a row,
\* or unchanged and older than StallThreshold.
JudgedLost(c) ==
  \/ progress = None /\ lastProgress[c] # None
  \/ progress # None /\ progress = lastProgress[c] /\ stale

CheckProgress(c) ==
  /\ pc[c] = "checkProgress"
  /\ lastProgress' = [lastProgress EXCEPT ![c] =
                         IF progress # None THEN progress
                         ELSE IF @ = None THEN Waited ELSE @]
  /\ Goto(c, IF JudgedLost(c) THEN "notify" ELSE "follow")
  /\ UNCHANGED <<attempt, redis, leader, inbox, seenOwner, returned, ghost>>

\* notifyCancel, then back to Do's loop. The pushed message may be lost; it
\* reaches nobody but the leader it names.
Notify(c) ==
  /\ pc[c] = "notify"
  /\ cancelKey' = seenOwner[c]
  /\ judged' = judged \cup ({seenOwner[c]} \ {None})
  /\ \E pushed \in BOOLEAN :
       cancelPushed' = [d \in Caller |->
                          \/ cancelPushed[d]
                          \/ pushed /\ pc[d] \in Leading /\ Id(d) = seenOwner[c]]
  /\ Leave(c)
  /\ Goto(c, "start")
  /\ UNCHANGED <<attempt, lock, progress, stale, result, canceled, chunks, outcome, returned,
                 expired, succeeded, crashes>>

-----------------------------------------------------------------------------
(* The environment: time and crashes. *)

LiveLeader(n) == pc[n[1]] \in Leading /\ Id(n[1]) = n

\* LockTTL passes without a renewal: the leader crashed, or was paused.
LockExpires ==
  /\ lock # None
  /\ LiveLeader(lock) => Cardinality(expired) < MaxExpiries
  /\ lock' = None
  /\ expired' = IF LiveLeader(lock) THEN expired \cup {lock} ELSE expired
  /\ UNCHANGED <<pc, attempt, progress, stale, cancelKey, result, leader, follow, returned,
                 succeeded, judged, crashes>>

\* StallThreshold passes without a heartbeat; LockTTL*2 removes the entry.
ProgressAges ==
  /\ progress # None
  /\ IF stale THEN progress' = None /\ stale' = FALSE
     ELSE stale' = TRUE /\ UNCHANGED progress
  /\ UNCHANGED <<pc, attempt, lock, cancelKey, result, leader, follow, returned, ghost>>

CancelKeyExpires ==
  /\ cancelKey # None
  /\ cancelKey' = None
  /\ UNCHANGED <<pc, attempt, lock, progress, stale, result, leader, follow, returned, ghost>>

ResultExpires ==
  /\ result # None
  /\ result' = None
  /\ UNCHANGED <<pc, attempt, lock, progress, stale, cancelKey, leader, follow, returned, ghost>>

Crash(c) ==
  /\ pc[c] \notin Finished \cup {"start"}
  /\ crashes < MaxCrashes
  /\ crashes' = crashes + 1
  /\ Goto(c, "crashed")
  /\ UNCHANGED <<attempt, redis, leader, follow, returned, expired, succeeded, judged>>

-----------------------------------------------------------------------------
LeaderStep(c) ==
  \/ ClearMarks(c) \/ Placeholder(c) \/ WriteChunk(c) \/ FnReturn(c) \/ Publish(c)
  \/ DropProgress(c) \/ Release(c) \/ WatchCancel(c) \/ ExecTimeout(c)

FollowerStep(c) ==
  \/ Subscribe(c) \/ OnMessage(c) \/ FollowerCtxDone(c) \/ CheckLock(c) \/ CheckResult(c)
  \/ CheckOwner(c) \/ CheckProgress(c) \/ Notify(c)

CallerStep(c) == TryAcquire(c) \/ Degrade(c) \/ LocalReturn(c) \/ LeaderStep(c) \/ FollowerStep(c)

Environment ==
  LockExpires \/ ProgressAges \/ CancelKeyExpires \/ ResultExpires \/ \E c \in Caller : Crash(c)

Next == (\E c \in Caller : CallerStep(c)) \/ Environment

Spec == Init /\ [][Next]_vars

(***************************************************************************)
(* Scheduling: goroutines run, tickers tick, fn ends (maxExec cancels it), *)
(* and the TTLs of a cached result and of a dead leader's lock run out.    *)
(* Nothing forces a deadline, a timeout, an outage, or the lock of a live  *)
(* leader to run out.                                                      *)
(***************************************************************************)
Fairness ==
  /\ \A c \in Caller :
       /\ WF_vars(TryAcquire(c) \/ Degrade(c))
       /\ WF_vars(LocalReturn(c))
       /\ WF_vars(ClearMarks(c) \/ Placeholder(c) \/ FnReturn(c) \/ Publish(c)
                  \/ DropProgress(c) \/ Release(c))
       /\ WF_vars(Subscribe(c) \/ OnMessage(c) \/ CheckLock(c) \/ CheckResult(c)
                  \/ CheckOwner(c) \/ CheckProgress(c) \/ Notify(c))
  /\ WF_vars(LockExpires /\ ~LiveLeader(lock))
  /\ WF_vars(ResultExpires)

FairSpec == Spec /\ Fairness

-----------------------------------------------------------------------------
(* Properties. *)

Answer == [ok : BOOLEAN, from : NodeId]

\* Every variable keeps its type; in particular the lock, the cancel key and a
\* follower's leaderNodeID only ever hold nodeIDs.
TypeOK ==
  /\ pc \in [Caller -> {"start", "local"} \cup Leading \cup Following \cup Finished]
  /\ attempt \in [Caller -> 0 .. MaxAttempts]
  /\ lock \in NodeId \cup {None}
  /\ progress \in Heartbeats \cup {None}
  /\ stale \in BOOLEAN
  /\ cancelKey \in NodeId \cup {None}
  /\ result \in Answer \cup {None}
  /\ cancelPushed \in [Caller -> BOOLEAN]
  /\ canceled \in [Caller -> {"peer", "timeout", None}]
  /\ chunks \in [Caller -> 0 .. MaxChunks]
  /\ outcome \in [Caller -> {"ok", "error", None}]
  /\ inbox \in [Caller -> Answer \cup {None}]
  /\ lastProgress \in [Caller -> Heartbeats \cup {None, Waited}]
  /\ seenOwner \in [Caller -> NodeId \cup {None}]
  /\ returned \in [Caller -> [ok : BOOLEAN, from : NodeId \cup {None}] \cup {None}]
  /\ expired \subseteq NodeId
  /\ succeeded \subseteq NodeId
  /\ judged \subseteq NodeId
  /\ crashes \in 0 .. MaxCrashes

\* A leader whose lock did not run out under it holds the lock, so at most one
\* such leader runs fn (tryAcquireLock, heartbeatLoop, releaseLock).
LeaderHoldsLock ==
  \A c \in Caller : pc[c] \in Leading /\ Id(c) \notin expired => lock = Id(c)

\* The leader lock is a lease: granted when free, deleted by its holder only.
TheLease == INSTANCE Lease WITH
  Node <- NodeId, holder <- lock, lapsed <- expired,
  working <- {n \in NodeId : LiveLeader(n)}
ImplementsLease == TheLease!LeaseSpec

\* A leader is only cancelled by a signal that names it, never by the one sent
\* to its predecessor (watchCancel's cancelIfMatches).
CanceledWasAddressed ==
  \A c \in Caller : canceled[c] = "peer" => Id(c) \in judged

\* A value returned without error is one that some execution of fn returned
\* without error, whichever way it came: own run, message, poll or fallback.
ReturnedWasExecuted ==
  \A c \in Caller : returned[c] # None /\ returned[c].ok => returned[c].from \in succeeded

\* Every Do returns, whatever crashes, expires or is judged lost: a follower
\* never waits forever for a leader that is gone.
EveryCallReturns ==
  \A c \in Caller : pc[c] = "start" ~> pc[c] \in Finished

\* The claim of checkLeaderResult's comments: a follower that finds the lock gone
\* and a result in the cache has missed the message, and returns that result.
MissedMessageIsMadeUpFor ==
  [][\A c \in Caller : pc[c] = "checkResult" /\ Cached => pc'[c] \in {"checkResult"} \cup Finished]_vars

\* The claim of runAsLeader's comment: a late follower, whose last heartbeat is a
\* predecessor's, does not judge lost (and so cancel) the leader just elected,
\* before that leader begins to run fn.
LateFollowerSparesNewLeader ==
  \A f, c \in Caller :
    /\ pc[f] = "notify" /\ seenOwner[f] = Id(c)
    /\ lastProgress[f] \in Heartbeats /\ lastProgress[f].owner # Id(c)
    => pc[c] \notin StartUp
=============================================================================
