------------------------------- MODULE AgentRun -------------------------------
(***************************************************************************)
(* Runs of one user's agent, from the request to the answer: merging of    *)
(* equal requests (plain ones through the single-flight, streams through a *)
(* lock), the quota of runs and of tokens kept in Redis, the run's record  *)
(* in MySQL, the background tasks a run leaves behind, and the process     *)
(* that serves it all: orderly shutdown, crash, restart.                   *)
(*                                                                         *)
(* Messages and context are ContextMemory's business, a plan is            *)
(* PlanScheduler's and the loop is AgentLoop's; here the work is one step, *)
(* the way Router chooses, that ends with a result or an error.  Of the    *)
(* single-flight there is what SingleFlight grants: a leader per key,      *)
(* replaced when its lock is lost.                                         *)
(*                                                                         *)
(* Bounds: MaxTokens (of one run), Faults (failing commands and expiring   *)
(* keys), Crashes (crashes and shutdowns).                                 *)
(***************************************************************************)
EXTENDS Integers, FiniteSets, Router

CONSTANTS
  Requests, Streams,    \* the requests, and those that ask for a stream
  Key, None,            \* dedupKey of a request
  Input,                \* what its input shows the router
  MaxConcurrentRuns, DailyTokenLimit, MaxTokens,
  Faults, Crashes

ASSUME RunBounds ==
  /\ Streams \subseteq Requests
  /\ {MaxConcurrentRuns, DailyTokenLimit} \subseteq Nat \ {0}
  /\ {MaxTokens, Faults, Crashes} \subseteq Nat
  /\ \A r \in Requests : Key[r] # None
  /\ None \notin Requests
  /\ \A r \in Requests : Input[r] \in Query

Keys == {Key[r] : r \in Requests}

VARIABLES
  pc,
  flight, follows,   \* the single-flight: the leader of a key, whom a request waits for
  lock,              \* Redis: the stream that holds the lock of a key
  slots, holds,      \* Redis: the counter of runs; requests that took a slot
  used,              \* Redis: tokens of the day
  outcome, tokens,   \* of a request's work
  record,            \* MySQL: a request's run, running or finished
  tasks,             \* runs whose compression and consolidation are running
  process,           \* serving, or how far the shutdown has come
  late,              \* the shutdown did not wait for the background tasks any longer
  faults, crashes,
  outlived,          \* history: streams whose lock expired while they ran
  overlooked,        \* history: slots in use when their counter expired
  leaked,            \* history: slots counted that nobody will give back
  waved              \* history: requests let pass because Redis failed

merging == <<flight, follows, lock, outlived>>
quota   == <<slots, holds, used, overlooked, leaked, waved>>
work    == <<outcome, tokens>>
host    == <<tasks, process, late, crashes>>
vars    == <<pc, merging, quota, record, work, host, faults>>

Init ==
  /\ pc = [r \in Requests |-> "idle"]
  /\ flight = [k \in Keys |-> None] /\ follows = [r \in Requests |-> None]
  /\ lock = [k \in Keys |-> None]
  /\ slots = 0 /\ holds = {} /\ used = 0
  /\ outcome = [r \in Requests |-> None] /\ tokens = [r \in Requests |-> 0]
  /\ record = [r \in Requests |-> None]
  /\ tasks = 0 /\ process = "serving" /\ late = FALSE
  /\ faults = 0 /\ crashes = 0
  /\ outlived = {} /\ overlooked = 0 /\ leaked = 0 /\ waved = {}

Goto(r, label) == pc' = [pc EXCEPT ![r] = label]

\* A command reaches its store, or fails: for a passing reason, or because main has closed
\* the connections.
Works == process # "closed" /\ UNCHANGED faults
Fails ==
  \/ process = "closed" /\ UNCHANGED faults
  \/ faults < Faults /\ faults' = faults + 1

-----------------------------------------------------------------------------
(* Equal requests: Start and StartStream. *)

\* The handler calls Start or StartStream; once the server shuts down it takes no requests.
Request(r) ==
  /\ pc[r] = "idle" /\ process = "serving"
  /\ Goto(r, IF r \in Streams THEN "lock" ELSE "join")
  /\ UNCHANGED <<merging, quota, record, work, host, faults>>

\* acquireRunLock: SETNX; a failing command may have set the key.
Lock(r) ==
  /\ pc[r] = "lock"
  /\ LET free  == lock[Key[r]] = None
         taken == [lock EXCEPT ![Key[r]] = r]
     IN \/ /\ Works
           /\ Goto(r, IF free THEN "slot" ELSE "end")
           /\ lock' = IF free THEN taken ELSE lock
        \/ /\ Fails
           /\ Goto(r, "end")
           /\ lock' \in {lock} \cup IF free /\ process # "closed" THEN {taken} ELSE {}
  /\ UNCHANGED <<flight, follows, outlived, quota, record, work, host>>

\* The single-flight makes the request the leader of its key, or lets it wait for the leader.
Join(r) ==
  /\ pc[r] = "join"
  /\ LET leader == flight[Key[r]] IN
     IF leader = None
     THEN /\ flight' = [flight EXCEPT ![Key[r]] = r]
          /\ Goto(r, "slot") /\ UNCHANGED follows
     ELSE /\ follows' = [follows EXCEPT ![r] = leader]
          /\ Goto(r, "follow") /\ UNCHANGED flight
  /\ UNCHANGED <<lock, outlived, quota, record, work, host, faults>>

\* The leader has ended: its result, or its error, is the follower's.
Share(r) ==
  /\ pc[r] = "follow" /\ pc[follows[r]] = "end"
  /\ Goto(r, "end")
  /\ follows' = [follows EXCEPT ![r] = None]
  /\ UNCHANGED <<flight, lock, outlived, quota, record, work, host, faults>>

\* The leader's lock is lost: followers elect a new one while it may still be at work.
LoseLead(k) ==
  /\ flight[k] # None /\ faults < Faults /\ faults' = faults + 1
  /\ flight' = [flight EXCEPT ![k] = None]
  /\ \E F \in SUBSET {r \in Requests : pc[r] = "follow" /\ follows[r] = flight[k]} :
       /\ pc' = [r \in Requests |-> IF r \in F THEN "join" ELSE pc[r]]
       /\ follows' = [r \in Requests |-> IF r \in F THEN None ELSE follows[r]]
  /\ UNCHANGED <<lock, outlived, quota, record, work, host>>

\* Two minutes have passed: the lock of a stream expires, whether or not it still runs.
LockExpires(k) ==
  /\ lock[k] # None /\ faults < Faults /\ faults' = faults + 1
  /\ lock' = [lock EXCEPT ![k] = None]
  /\ outlived' = IF pc[lock[k]] = "end" THEN outlived ELSE outlived \cup {lock[k]}
  /\ UNCHANGED <<pc, flight, follows, quota, record, work, host>>

\* Variant: the key is deleted whoever has it.
Released_Any(r) == None

\* releaseRunLockScript: the lock is deleted if it is still the stream's own.
Released(r) == IF lock[Key[r]] = r THEN None ELSE lock[Key[r]]

\* The deferred release of the lock, or the end of the leader's flight.
Leave(r) ==
  /\ pc[r] = "leave"
  /\ Goto(r, "end")
  /\ outlived' = outlived \ {r}
  /\ IF r \in Streams
     THEN /\ \/ Works /\ lock' = [lock EXCEPT ![Key[r]] = Released(r)]
             \/ Fails /\ UNCHANGED lock
          /\ UNCHANGED flight
     ELSE /\ flight' = [flight EXCEPT ![Key[r]] = IF @ = r THEN None ELSE @]
          /\ UNCHANGED <<lock, faults>>
  /\ UNCHANGED <<follows, quota, record, work, host>>

-----------------------------------------------------------------------------
(* The quota: runWithQuota. *)

\* acquireRunSlot: refused at the limit, let pass without a slot when Redis fails.
Slot(r) ==
  /\ pc[r] = "slot"
  /\ \/ /\ Works /\ slots < MaxConcurrentRuns
        /\ slots' = slots + 1 /\ holds' = holds \cup {r}
        /\ Goto(r, "budget") /\ UNCHANGED waved
     \/ /\ Works /\ slots >= MaxConcurrentRuns
        /\ Goto(r, "leave") /\ UNCHANGED <<slots, holds, waved>>
     \/ /\ Fails
        /\ waved' = waved \cup {r}
        /\ Goto(r, "budget") /\ UNCHANGED <<slots, holds>>
  /\ UNCHANGED <<merging, used, overlooked, leaked, record, work, host>>

\* Variant: the last token may be spent twice.
WithinBudget_Closed == used <= DailyTokenLimit

WithinBudget == used < DailyTokenLimit

\* Variant: a refused request has nothing to give back.
OnRefusal_Leave == "leave"

\* A request over budget gives its slot back, as every other does.
OnRefusal == "release"

\* checkDailyTokenQuota.
Budget(r) ==
  /\ pc[r] = "budget"
  /\ \/ Works /\ WithinBudget /\ Goto(r, "ask") /\ UNCHANGED waved
     \/ Works /\ ~ WithinBudget /\ Goto(r, OnRefusal) /\ UNCHANGED waved
     \/ Fails /\ Goto(r, "ask") /\ waved' = waved \cup {r}
  /\ UNCHANGED <<merging, slots, holds, used, overlooked, leaked, record, work, host>>

\* addDailyTokens, when there is a result.
Charge(r) ==
  /\ pc[r] = "charge"
  /\ \/ Works /\ used' = used + tokens[r]
     \/ Fails /\ UNCHANGED used
  /\ Goto(r, "release")
  /\ tokens' = [tokens EXCEPT ![r] = 0]
  /\ UNCHANGED <<merging, slots, holds, overlooked, leaked, waved, record, outcome, host>>

\* releaseSlotScript, deferred: counts down to zero and no further.
Release(r) ==
  /\ pc[r] = "release"
  /\ Goto(r, "leave")
  /\ holds' = holds \ {r}
  /\ \/ /\ r \in holds /\ Works
        /\ slots' = IF slots > 0 THEN slots - 1 ELSE 0
        /\ UNCHANGED leaked
     \/ r \in holds /\ Fails /\ leaked' = leaked + 1 /\ UNCHANGED slots
     \/ r \notin holds /\ UNCHANGED <<slots, leaked, faults>>
  /\ UNCHANGED <<merging, used, overlooked, waved, record, work, host>>

\* The counter's time is up, ten minutes after it last left zero.
SlotsExpire ==
  /\ slots > 0 /\ faults < Faults /\ faults' = faults + 1
  /\ slots' = 0 /\ leaked' = 0
  /\ overlooked' = overlooked + Cardinality(holds)
  /\ UNCHANGED <<pc, merging, holds, used, waved, record, work, host>>

\* The budget is kept per day.
NewDay ==
  /\ used > 0
  /\ used' = 0
  /\ UNCHANGED <<pc, merging, slots, holds, overlooked, leaked, waved, record, work, host, faults>>

-----------------------------------------------------------------------------
(* The run: execute. *)

\* ensureConversation and the user's message; an error ends the request.
Ask(r) ==
  /\ pc[r] = "ask"
  /\ \/ Works /\ Goto(r, "open")
     \/ Fails /\ Goto(r, "release")
  /\ UNCHANGED <<merging, quota, record, work, host>>

\* The context is built and the run's record created; an error ends the request, its
\* message stays.
Open(r) ==
  /\ pc[r] = "open"
  /\ \/ Works /\ record' = [record EXCEPT ![r] = "running"] /\ Goto(r, "work")
     \/ Fails /\ UNCHANGED record /\ Goto(r, "release")
  /\ UNCHANGED <<merging, quota, work, host>>

Spent(r) == \E n \in 0 .. MaxTokens : tokens' = [tokens EXCEPT ![r] = n]

\* A plan is drafted and carried out: whatever becomes of it is a result.
WorkByPlan(r) ==
  /\ pc[r] = "work" /\ UsePlan(Input[r])
  /\ outcome' = [outcome EXCEPT ![r] = "result"]
  /\ Spent(r)
  /\ Goto(r, "reply")
  /\ UNCHANGED <<merging, quota, record, host, faults>>

\* The linear loop: for the router, or because the planner has failed or drafted no plan.
WorkByLoop(r) ==
  /\ pc[r] = "work"
  /\ \/ outcome' = [outcome EXCEPT ![r] = "result"] /\ Spent(r) /\ Goto(r, "reply")
     \/ outcome' = [outcome EXCEPT ![r] = "error"] /\ UNCHANGED tokens /\ Goto(r, "finish")
  /\ UNCHANGED <<merging, quota, record, host, faults>>

\* The assistant's message; an error is only logged.
Reply(r) ==
  /\ pc[r] = "reply"
  /\ Works \/ Fails
  /\ Goto(r, "finish")
  /\ UNCHANGED <<merging, quota, record, work, host>>

\* FinishAgentRun; an error is dropped.
Finish(r) ==
  /\ pc[r] = "finish"
  /\ \/ Works /\ record' = [record EXCEPT ![r] = "finished"]
     \/ Fails /\ UNCHANGED record
  /\ Goto(r, IF outcome[r] = "error" THEN "release" ELSE "handOver")
  /\ outcome' = [outcome EXCEPT ![r] = None]
  /\ UNCHANGED <<merging, quota, tokens, host>>

\* Variant: the pool takes tasks while main waits for it.
PoolTakes_Always == TRUE

\* asyncPool.Go: under the pool's mutex, a closed pool takes no more tasks.
PoolTakes == process \in {"serving", "draining"}

\* CompressAsync and ConsolidateAsync.
HandOver(r) ==
  /\ pc[r] = "handOver"
  /\ tasks' = IF PoolTakes THEN tasks + 1 ELSE tasks
  /\ Goto(r, "charge")
  /\ UNCHANGED <<merging, quota, record, work, process, late, crashes, faults>>

TaskEnds ==
  /\ tasks > 0
  /\ tasks' = tasks - 1
  /\ UNCHANGED <<pc, merging, quota, record, work, process, late, crashes, faults>>

-----------------------------------------------------------------------------
(* The process: main. *)

Active == {r \in Requests : pc[r] \notin {"idle", "end"}}

\* A signal: the server takes no more requests.
Shutdown ==
  /\ process = "serving" /\ crashes < Crashes
  /\ process' = "draining"
  /\ UNCHANGED <<pc, merging, quota, record, work, tasks, late, crashes, faults>>

\* The requests under way have ended, or the wait was too long: the pool is closed.
StopWorkers ==
  /\ process = "draining"
  /\ process' = "stopping"
  /\ UNCHANGED <<pc, merging, quota, record, work, tasks, late, crashes, faults>>

\* The tasks have ended, or the wait was too long; the connections are closed.
CloseConnections ==
  /\ process = "stopping"
  /\ process' = "closed"
  /\ late' = (tasks > 0)
  /\ UNCHANGED <<pc, merging, quota, record, work, tasks, crashes, faults>>

\* The process ends, at the end of main or by a crash, and another one takes over: whatever
\* was under way is lost, whatever Redis holds stays.
Restart ==
  /\ crashes < Crashes /\ crashes' = crashes + 1
  /\ process' = "serving" /\ tasks' = 0 /\ late' = FALSE
  /\ pc' = [r \in Requests |-> IF r \in Active THEN "end" ELSE pc[r]]
  /\ leaked' = leaked + Cardinality(holds) /\ holds' = {}
  /\ flight' = [k \in Keys |-> None] /\ follows' = [r \in Requests |-> None]
  /\ outlived' = {}
  /\ outcome' = [r \in Requests |-> None] /\ tokens' = [r \in Requests |-> 0]
  /\ UNCHANGED <<lock, slots, used, overlooked, waved, record, faults>>

-----------------------------------------------------------------------------
Run(r) ==
  \/ Request(r) \/ Lock(r) \/ Join(r) \/ Share(r)
  \/ Slot(r) \/ Budget(r) \/ Ask(r) \/ Open(r)
  \/ WorkByPlan(r) \/ WorkByLoop(r) \/ Reply(r) \/ Finish(r)
  \/ HandOver(r) \/ Charge(r) \/ Release(r) \/ Leave(r)

Expiry ==
  \/ \E k \in Keys : LoseLead(k) \/ LockExpires(k)
  \/ SlotsExpire \/ NewDay

Process == Shutdown \/ StopWorkers \/ CloseConnections \/ Restart

Next == (\E r \in Requests : Run(r)) \/ TaskEnds \/ Expiry \/ Process

Spec == Init /\ [][Next]_vars

-----------------------------------------------------------------------------
(* Properties. *)

\* The counter of runs and the runs agree, whatever path a request leaves by: a run is
\* uncounted only if the counter expired under it, and a slot is counted for nobody only
\* if its release failed or its process ended (acquireRunSlot, runWithQuota).
SlotsMatchRuns ==
  LET inUse == Cardinality(holds \cap Active) IN
  /\ slots <= MaxConcurrentRuns
  /\ inUse <= slots + overlooked /\ slots <= inUse + leaked

\* The budget is read before a run and charged after it, so runs side by side overdraw it,
\* but by no more than the runs the slots admit, and those that passed while Redis failed,
\* can spend.
BudgetIsOverdrawnByRunsUnderWay ==
  used <= DailyTokenLimit - 1
            + MaxTokens * (MaxConcurrentRuns + overlooked + Cardinality(waved))

Streaming(r) == r \in Streams /\ pc[r] \notin {"idle", "lock", "end"}

\* Equal streams are refused while one runs (README.md, "Redis 幂等锁拒绝重复提交"): a stream
\* keeps its lock until it ends or the lock expires, so two run side by side only after that.
StreamKeepsItsLock ==
  \A r \in Requests : Streaming(r) /\ r \notin outlived => lock[Key[r]] = r

\* "Stop the background tasks, and close the stores when they have left" (main.go): once
\* the connections are closed no background task runs, unless main gave up waiting for it,
\* even if a request outlives the server and hands over its tasks late.
NoTaskAfterClose == process = "closed" /\ tasks > 0 => late
=============================================================================
