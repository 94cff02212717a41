# TLA+ verification of ai-meeting

This directory holds TLA+ models of the concurrent and failure-prone parts of
ai-meeting, the TLC runs that check them on small instances, and TLAPS proofs
of what matters most for every value of the constants.  `PROJECT.json` is the
index: components, runs, mutants, the map from every definition to the source
lines it stands for, findings, hazards and theorems.

    tlc -config <run>.cfg <module>.tla     # one run (see the table below)
    tlapm <module>_proofs.tla              # the proofs of one module

## 1. The system

ai-meeting is a Go service (Gin, Redis, MySQL) that offers an AI chat, a
simulated interview and an agent with planning, tools and memory.  Several
instances run side by side; what they share is in Redis and MySQL.  Handlers
run concurrently, start background goroutines, and use Redis commands, mostly
one at a time and without transactions, for locks, caches and state.

| Component | State it keeps | Operations | What is hard |
|---|---|---|---|
| Distributed single-flight `pkg/singleflight` | Redis: leader lock, progress (heartbeat), cancel mark, result, two Pub/Sub channels | `Do`: election, leader run, follower wait, takeover | leases that expire under a paused leader, lost messages, takeovers that race with a new leader, crashes |
| Local single-flight (`localGroup`) | in-memory map of calls | `Do` when Redis fails | a panic in `fn` |
| Redis lock `pkg/lock` | a key with a TTL | `Acquire`, `Release` | ownership, TTL against the time of work |
| Answer pipeline `services/interview/flow` | flow hash, question lock, idempotency keys, score | `Execute` (11 steps) | double submission, retries, partial failure with rollback, crashes |
| Flow state machine, flow cache | flow hash with a version | `MoveToEvaluating`, `StartFollowUpQuestion`, `AdvanceMainQuestion`, `RestoreFlow` over a compare-and-set | lost updates, ABA, retries that run out |
| Turn log and turn repair | set of request ids, list of turns, repair queue | `AppendTurnIfAbsent`, `Enqueue`, `processBatch` | half-done append, crash between pop and push |
| Snapshots and recovery | MySQL hot and cold snapshot, archive | `RefreshAfterAnswerCommitted`, `EnsureRuntime` | refreshes out of order, rebuild racing with answers |
| Score cache | sum and count in Redis | `AddScore`, `ResetScore` | a reply lost after the script ran, a reset during answers |
| Sessions and questions `services/interview` | question hash, follow-ups, material, session rows, report | extraction, current question, report | a second extraction in a running interview, two first ones |
| Question extraction, evaluation, follow-up | none (Redis through single-flight) | model calls, lenient parsing | the result a follower gets, scores out of range |
| Plan-and-execute `services/agent/plan` | task graph, results, idempotency ledger | rounds, retries, replans | parallel tasks, reuse of results, replans that touch finished work |
| Agent loop, tool batches | steps, counters | ReAct loop with stop rules | termination, parallel tools |
| Agent runs and quota | slot counter, token counter, run lock, run rows | `Start`, `StartStream` | counter with a TTL, check-then-add |
| Context memory `services/agent/context` | recent messages in Redis, summary in Redis and MySQL, messages in MySQL | append, load, compress | messages saved during a compression, boundary between summary and messages |
| User profile | profile row with version, cached copy, candidates | capture, confirm, reject, consolidate | compare-and-set against stale caches, cursors |
| AI chat and memory, model settings cache | messages, compressed context, 60 s cache | chat, compress, delete, invalidate | fills that race with invalidation |
| Planner and router | none | a rule score, a validated draft | the fallback when a plan cannot be drafted |
| Background workers, shutdown | a pool that is open or closed | `Go`, `Shutdown`, the order in `main` | work handed over after the pool was closed |
| Metrics | bounded channel | `Record`, `Stop` | lost records |
| Users, agents, handlers, tools, clients, repositories | single rows, none | CRUD, I/O | nothing a model checker would find |

How they interact.  Handlers call services.  Extraction, compression and agent
runs go through `DistributedGroup.Do`, so that one instance does the model call
and the others wait.  The answer pipeline takes a `pkg/lock` per question, uses
the flow state machine for every move, the score cache for every main question
and, when a turn cannot be logged, the repair queue; it refreshes the MySQL
snapshot in a goroutine of its own, from which `EnsureRuntime` rebuilds when
Redis has lost the flow.  An agent run takes a quota slot, assembles its
context from the memory (possibly compressing it first), and executes either
one ReAct loop or a plan whose tasks are ReAct loops; when it has answered it
hands a compression and a consolidation of the profile to the pool of background
workers, which `main` closes before it closes the stores.  An AI chat does the
same with a memory of its own.  An upload goes through the extraction to the
question cache, the cold snapshot, the score and the flow that the answers then
move.

What makes each part correct:

- single-flight: one leader as long as no lease ran out under a live one; a
  cancel reaches the leader it names and no other; an answer comes from an
  execution; every caller gets an answer or an error;
- answer pipeline: one call per question, a request moves the interview at most
  once, a main question passed is scored once, a failed call leaves no trace,
  the flow's fields agree with each other;
- turn log: a turn of a successful answer is logged once and not lost;
- snapshots: the snapshot never goes back, a rebuild never undoes progress;
- plan: a task runs after its dependencies, work with one idempotency key is
  done once, every task ends with a result, finished work is never redone;
- agent loop: what a tool has written is not written again by a retry, a tool
  that writes runs alone, steps of parallel tasks do not collide;
- agent runs: every way out of a run gives its slot back, the budget is overdrawn
  by no more than what is under way, equal streams exclude each other, nothing
  runs in the background once the stores are closed;
- context memory: a message is in the summary or among the recent ones, and a
  summary holds what its boundary says;
- AI chat: nothing falls between summary and index, changed settings are used;
- profile: a write builds on the profile it replaces, what the user confirmed
  stands, no candidate is done with unread;
- sessions: a session shows its own resume's questions, each question asked has a
  text, report and live score agree.

## 2. Modules

| Module | Models | Built from |
|---|---|---|
| `Lease` | what a Redis lock with a TTL promises (abstract specification) | |
| `SingleFlight` | `DistributedGroup.Do` for one key | refines `Lease` |
| `SingleFlight_proofs` | theorems about it | `SingleFlight`, TLAPS |
| `AnswerPipeline` | `AnswerPipeline.Execute` for one interview, with flow state machine, flow cache, idempotency, lock and score | |
| `AnswerPipeline_proofs` | theorems about it | `AnswerPipeline`, TLAPS |
| `PlanScheduler` | one plan run: rounds, workers, ledger, replans, verdict | |
| `PlanScheduler_proofs` | theorems about it | `PlanScheduler`, TLAPS |
| `InterviewRecords` | what remains of the answers of one interview: turn log, repair queue, archive, hot snapshot, rebuild | |
| `InterviewRecords_proofs` | theorems about it | `InterviewRecords`, TLAPS |
| `ContextMemory` | the memory of one agent session: messages, summary, recent list, compression, the consolidation's use of the list | |
| `ContextMemory_proofs` | theorems about it | `ContextMemory`, TLAPS |
| `AgentLoop` | the tasks of one plan as they are carried out: ReAct loops, batches of tool calls, attempts, recorded steps | |
| `Router` | the rule score that chooses between plan and loop (no state) | |
| `AgentRun` | one user's runs and streams: merging, quota, run record, background tasks, shutdown and restart | `Router` |
| `Agent_proofs` | theorems about `AgentLoop` and `AgentRun` | `AgentLoop`, `AgentRun`, TLAPS |
| `UserProfile` | the profile of one user: candidates, consolidation, questions, confirmations | |
| `AiChat` | one AI conversation: chats, compression, deletion, model settings | |
| `UserMemory_proofs` | theorems about `UserProfile` and `AiChat` | `UserProfile`, `AiChat`, TLAPS |
| `ReplyParser` | what is read out of a model's answer (no state) | |
| `InterviewSessions` | sessions from the resume to the report: extraction, flow, score, archive | |
| `InterviewSessions_proofs` | theorems about it | `InterviewSessions`, TLAPS |
| `MC...` | symmetry sets, constant functions and bounds for TLC | the module of that name |
| `MCInterviewSessions` | the same, and what the parser makes of the answers a model may give | `InterviewSessions`, `ReplyParser` |

Two modules of proofs serve two modules each, which share no state: the agent's
loop and its runs, the profile and the memory of chats.  The definitions of
`AgentLoop` and `AiChat` that would have a namesake carry the module in their name
(`LoopInit`, `ChatNext`).

The modules meet where one takes what another grants for a step: `ContextMemory`,
`AgentRun`, `UserProfile`, `AiChat` and `InterviewSessions` use the single-flight
as `SingleFlight` shows it (one leader of a key, replaced when its lock is lost,
followers that wait for its end); `AgentRun` has one step for the work that
`PlanScheduler` and `AgentLoop` spell out; `PlanScheduler` decides which tasks
run, `AgentLoop` what they do; `InterviewSessions` has one answer at a time where
`AnswerPipeline` has them overlap, and one step for the archiving that
`InterviewRecords` takes apart.

An operator named `X_Something` with the comment "Variant" is a mutated form of
`X`, kept for mutation testing of the properties; no specification uses it.

### SingleFlight

`pc[c]` is where caller `c` is inside `Do`; every Redis command after which
another caller may act is a step of its own, and commands in one pipeline are
one step.  A leader is the caller and the number of its iteration of `Do`'s
loop, which stands for the uuid drawn there.  Number 0 is an execution on the
degraded path.

- Time is what can expire: `LockExpires`, `ProgressAges` (first older than
  `StallThreshold`, then gone), `CancelKeyExpires`, `ResultExpires`.  A paused
  process is one that takes no step meanwhile.
- The follower's poll is four steps (EXISTS lock, GET result or GET lock, GET
  progress, SET cancel key), so that the leader may change between them.
- A follower keeps the first message it received; the cancel message may be
  lost, the polled cancel key may have expired.
- `expired`, `succeeded` and `judged` are history variables for the properties.

Left out: the payloads (an outcome is who produced it and whether it was an
error), metrics, the parsing of the progress string, Redis errors in the middle
of a run (a command that fails is one whose effect is missing: a cancelled
context, a lost message, a crash), and the joining of callers inside one process
on the degraded path.

### AnswerPipeline

One action per Redis command of `Execute` that other calls can see.  A request
id carries one question, the one the client was shown; sending it again is a
retry.  The evaluation's verdict is nondeterministic: a follow-up (only below
the limit, judged by the snapshot the code uses) or the next question.
`MutateFlow` is a read and a compare-and-set with its retries.

A call whose 120 s are over can no longer reach Redis, not even in its deferred
clean-up, so for the shared state it has crashed.  The TTLs of 300 s are longer
than that, which is why `LockExpires` and `ProcessingExpires` only fire for
calls that stopped; the mutant `LockExpires_Early` drops exactly this.

`crossed` is a history variable: the calls whose `AddScore` failed while another
call was under way, or whose rollback was not done when another one began.  Such
a rollback may take the cursor back under a call that has gone on to the next
question (finding 3), and most properties speak of behaviours in which that has
not happened.  A failing score and its rollback with nobody else under way, and
any other failure with others under way, are covered.

Left out: scores as numbers (how often a main question was counted is what the
properties need; the sums are in `InterviewSessions`), the turn log and the
snapshot refresh, which touch none of this state, and Redis losing the flow;
these are in `InterviewRecords`.  The code's
limit of follow-ups is 2; the runs use 1, since the number only enters through
"below the limit" and the proofs hold for any limit.

### PlanScheduler

A task is its id, ids are numbered in plan order, and `plan` maps the ids in use
to their content (type, tool, goal, parameters) and dependencies.  `Keys` is
`EnsureIdempotencyKeys`: the key is the content with the bag of the keys of the
dependencies.  `Plans` is what `Validate` accepts, `Drafts` what the planner may
hand in, `Proposals` the diffs of the replanner and `AppliedTo` the plan that
`ApplyDiff` makes of one, or none if it refuses.

- The service's goroutine is `pc`: a pass over the pending tasks (`StartBatch`,
  `EndRound`), the wait for a batch (`EndBatch`), the replan (`Replan`, or
  `Drain` when there is none), the verdict.  `indeg` is not kept: a counter is
  zero exactly when no dependency is pending.
- Each task of a batch has a goroutine, `wpc`: slot, attempt, ledger, run or
  wait, the result in hand, backoff.  The steps between a result and
  `setResult` matter, because a twin's late result is stored under another id.
- `Expire` is the run's context or the task's own timeout.  The timeout needs no
  clock: it may strike at any of the points where the code looks.
- A replan is any diff: the tasks it touches may be updated, also without a
  change, or removed, and tasks may be added at the end.
- Two tasks may have the same key ("twins").  `Twins = FALSE` leaves them out of
  the plans, before and after a replan.  With twins the reuse of results goes
  wrong (finding 4), and most properties with it; so the run of the result
  properties is without twins, and the run of the ledger's is with them.

Left out: replan hints, which no runner sets, the texts of results, the
synthesis of the answer (it can only change the stop reason), events and the
persisted plan.  A run whose context ends just when a batch has failed leaves
the rest of the plan without results; `EveryTaskIsAccountedFor` speaks of runs
that end by themselves.

### InterviewRecords

The calls are numbered in the order in which they start; a call is also its
request id and its turn.  The flow is the number of answers it has taken: what
`AnswerPipeline` spells out in steps 4 to 8 is here the one step `Move`, which
succeeds if the flow is still where the call saw it.

- `AppendTurnIfAbsent` is its two commands, `Mark` (SADD of the request id) and
  `Push` (RPUSH of the turn), each of which may fail before or after Redis has
  executed it.  An answer, a rebuild (`todo` holds the archived turns still to
  restore) and the repair workers all use these two actions; `Appended` and
  `AppendFailed` say what each of them does next.
- A repair worker pops until the queue is empty, keeps the items that failed
  (`kept`) and pushes them back at the end of the round.  `WorkerCrash` loses
  what is in its hands.  There may be several workers, one per instance.
- The refresh after an answer is a goroutine with a program counter of its own,
  `rpc`: it reads the flow, reads the snapshot, archives the turn, and writes the
  snapshot (an upsert for the first one, else compare-and-set on the version),
  trying again when that fails.  It may overlap with later answers and their
  refreshes; a crash may stop it anywhere.
- `FlowLost` is the loss of the flow hash in Redis, `LogExpires` the end of the
  24 h of set and list; with it the log may lose turns that only the archive has.
- `shaken`, `missed`, `gone` and `crossed` are history variables: they name the
  reasons the code accepts for losing something, and the properties say that
  nothing is lost for another reason.  `missed` are the turns that were not
  archived when a snapshot last took them in.  `crossed` marks finding 6.

Left out: the cold snapshot and the question cache (copies of material where the
last writer wins), scores and follow-up texts (the hot snapshot never receives
them), the windows of 200 turns and 50 items (not reached in the bounds), an
RPOP that fails (it ends the round like an empty queue), and a lost reply of
`ArchiveTurn` (its transaction is taken to fail as a whole, up to the sequence
number).

### ContextMemory

A message is its sequence number and costs one token; a summary is the set of
messages it was made from together with the boundary stored beside it, which is
exactly what the properties need to tell apart.  A run is `execute`: message
saved (MySQL, then the push to the Redis list), summary loaded, recent messages
loaded, context assembled, answer saved; when the context had to drop messages
it compresses once before it answers (`Preflight`) and builds the context again.

- `GetSummary` and `GetIndex` are two commands, between which a compression may
  replace both keys; a miss or an error of either goes to MySQL and fills Redis.
- `GetRecentMessages` takes the list if anything in it is past the boundary,
  `ListRecentMessagesAfter` and `RebuildRecentMessages` are the way over MySQL.
  Compression and consolidation use the same steps.
- `SaveSummary` is the model's merge, or the fallback that cuts the text
  (`CutOff`); `InputText` is the cut before the model, `CoveredThrough` the
  boundary that is stored.
- `Room` is what `PromptBudgetTokens` leaves after the prefix and the summary.
- The history variables name what the code is known to lose: `hidden` (a push
  that failed, a list that was evicted or overwritten), `missed` (what was hidden or
  on its way when a run read the list), `cut` (text cut off before it was
  summarised) and `torn` (a summary read together with another one's boundary).
  Findings 9 to 11 are about them.

Left out: the 500 messages of a reload, the wording of prompts, tokens of
different size.

### AgentLoop

One process per task of a plan, and one for the synthesis at the end.  An
attempt is the loop `ModelCalls`, `StartCall`/`EndCall` for each call of the
batch, `EndBatch`, until the model answers, a stop rule strikes or time is up.

- A batch runs side by side only if all its tools are safe to
  (`AllConcurrencySafe`), and never wider than `MaxParallel`; otherwise in order.
- `sideEffects` is `transcriptUsedSideEffects`; with `Retryable` it decides
  whether a passing error leads to another attempt.
- `Number` and `RecordStep` are the recorder: the run's counter is drawn first
  and the row inserted afterwards, with other tasks in between.  `rejected`
  records that the unique key has refused one.
- `Expire` may strike at any time, `MaxExpired` bounds how many tasks are out of
  time at once.

What the model says and what tools return is open at every step.  Left out:
argument validation and truncation (one outcome of a call), the texts.

### AgentRun and Router

`Router` is the rule score of `router.go` as an operator over what a query shows
of signals; `MCAgentRun` asserts it on the queries of the repository's own tests.
`AgentRun` follows a request through its commands: `Lock` (streams) or `Join`
(plain requests), `Slot`, `Budget`, `Ask`, `Open`, the work, `Reply`, `Finish`,
`HandOver` of the background tasks, `Charge`, `Release`, `Leave`.  The last two
are the deferred calls of `runWithQuota` and `StartStream`, so every error path
leads through them.

- A command works or fails (`Fails`: a passing fault, or the stores are closed).
  A failing SETNX may have set the key.  Where the code lets a request pass when
  Redis fails, `waved` remembers it.
- `LockExpires`, `SlotsExpire` and `NewDay` are the TTLs; `outlived`,
  `overlooked` and `leaked` remember what they and crashes did to the accounts.
- `process` is `main`: serving, draining (no new requests), stopping (the pool is
  closed), closed (the stores are), each wait bounded by a timeout, so that
  requests and tasks may outlive it.  `Restart` is another process, after a crash
  at any point or after the end.

Left out: the messages and the context (`ContextMemory`), the work itself
(`PlanScheduler`, `AgentLoop`), reading runs.

### UserProfile

One topic whose values compete.  `GetUserProfile`, `FindUserProfile` and `Fill`
are `LoadProfile`: the copy in Redis, else the row, which is then copied, however
old it is by then.  `Persist` is the compare-and-set (or the unconditional upsert
of a first profile), `Publish` the copy that follows.  `Add`, `Update`,
`Supersede` and `Normalize` are `ApplyProfileDiff` and `NormalizeProfile`: the
values in the order in which they first occur (`Firsts`, `Place`), each with the best
of its facts (`Best`).

- The consolidation lists the pending candidates, gets a diff from the model
  (any diff within the bounds: add, update, supersede, ask, nothing), writes the
  profile and then marks candidates and asks questions, each a command that may
  fail.  The single-flight lets one run at a time.
- The user's confirmations run beside it and beside one another.
- Any load may miss the copy, because it is gone, evicted or cannot be read, and
  then goes on to the row; no profile at all is version 0.
- `blind` marks a first profile written over another one (finding 17).

Left out: which messages a consolidation reads and its cursor (finding 19), other
topics, preferences and goals, which are merged by the same functions.

### AiChat

A message is its number, a text the number up to which it tells the
conversation.  A chat reads the summary's two keys one after the other, or the
row (and then copies it to Redis in the background), lists the messages that fit
the window, stores the question, finds the model's settings, calls the model and
stores the answer.  `Compress`, `SaveText`, `SaveIndex` and `UpsertRow` are the
compression and its writes; `DeleteConversation`, `ClearKeys` and `ClearRow` the
deletion.  `Lookup`, `FindSettings` and `CacheSettings` are one look at the
settings cache, `ChangeSettings` and `InvalidateCache` the administrator's side;
one process and so one cache is modelled.  `torn`, `crossed` and `late` mark
findings 21 and 22.

Left out: titles, counts, pages, changes of the threshold; messages of different
length.

### InterviewSessions and ReplyParser

Two sessions with their caches, flow, score and archive, and the extractions that
fill them.  An extraction is `Enter`, then leader or follower in the Redis group
or, when Redis does not answer, in the process's own (`Join`, `End`); one outage
sends everybody there who enters while a call of the process's own group is under
way (`Outage`).  Only there can a follower use the result (`Takes`, finding 32);
otherwise it tries once more.  Then come the stores one by one: questions,
material, cold snapshot, score, flow.  A resume is the part `hashContent` keeps
(`Opening`) and the rest, so two resumes may share a key (finding 25).
`StartInterview` is the agent's tool, for a session of its own.

An answer is the path through `AnswerPipeline` with nobody else answering, but
with extractions at any point of it.  `Assessments` is what the evaluation may make
of an answer: a constant of the module, and in the run what `Accepted` of
`ReplyParser` makes of the answers a model may give.  `NeedFollowUp` is the rule for a
follow-up, `Report` and `LiveScore` the two averages, `Counted` the sum and number of
the archived turns a report is made of.  `Shorter` tells whether an extraction leaves
fewer questions than a flow, or the answer that may restore one, counts on.
`shared`, `shortened`, `textLost`, `zeroed` and `diverged` name the exceptions.

`ReplyParser` is how an assessment is found in an answer.  A JSON value carries its
kind, and a text is what it shows to the parser: the value it is, the object
between its braces, the number it spells.  `Content` unwraps the envelopes of the
providers, `ParseObject` reads a text, `Found` searches objects and lists for one
with a score; it is a set, because Go goes through a map in any order.
`ExtractStructuredResult` puts them together and `Assessed` reads the fields.

Left out: creating, finishing and paging sessions, the file and the preview,
prompts, and the clean-up of a follow-up's wording.

## 3. Runs

| Run | Module, config | Question | Bounds |
|---|---|---|---|
| `single_flight` | `MCSingleFlight`, `MCSingleFlight.cfg` | is the leader lock a lease, do cancels and results reach whom they should, does every `Do` return? | 2 callers, 2 iterations each, 1 chunk, 1 lease lost by a live leader, 1 crash; 499,438 states |
| `answers` | `MCAnswerPipeline`, `AnswerPipeline.cfg` | concurrent, repeated and failing answers: one call per question, answered once, scored once, no trace of a failure? | 3 calls, 3 requests, 2 questions, 1 follow-up, 2 CAS tries, 1 failing evaluation, 1 failing score, 1 crash; 542,595 states |
| `plan_distinct_work` | `MCPlanScheduler`, `PlanDistinctWork.cfg` | are results current, finished work frozen, skips justified, across replans? | 3 tasks (2 in the first plan), 3 contents, 2 slots, 1 attempt, 2 replans that touch 1 task each, no twins; 2,042,114 states |
| `plan_shared_work` | same, `PlanSharedWork.cfg` | does the ledger run each key alone and once, and does the run end? | 3 tasks (2 first), 1 content, 2 slots, 2 attempts, 1 replan; 71,556 states |
| `records_in_turn` | `InterviewRecords`, `RecordsInTurn.cfg` | are log, archive, snapshot and flow consistent when the refreshes of successive answers overlap, and does a rebuild keep the progress? | 3 answers one after the other, 1 worker, 2 CAS tries, 2 recent turns, 1 failure, 1 loss; 3,651,443 states |
| `records_repair` | same, `RecordsRepair.cfg` | is a turn logged once and does its repair end? | 2 answers that may overlap, 1 worker that may always fail, 2 retries, 2 other failures, 1 loss; 432,511 states |
| `context_memory` | `ContextMemory`, `ContextMemory.cfg` | does a summary hold what its boundary says, and does a run miss a message only in the known ways? | 2 overlapping runs, threshold and windows of 2 messages, prompt of 3, 1 failure, 1 eviction; 799,752 states |
| `agent_loop` | `AgentLoop`, `AgentLoop.cfg` | are writes not repeated, do writers run alone, do steps of parallel tasks collide? | an agent task, a tool task, a text task and the synthesis, 2 steps, 2 calls per answer, 2 attempts, 1 task out of time at once; 2,578,955 states |
| `agent_run` | `MCAgentRun`, `AgentRun.cfg` | do slots match runs, how far can the budget be overdrawn, does a stream keep its lock, does background work end before the stores? | 2 streams and 2 plain requests of one input, 1 slot, 1 token a day and per run, 1 fault or expiry, 1 shutdown or crash; 1,549,912 states |
| `user_profile` | `MCUserProfile`, `UserProfile.cfg` | does each write build on the profile it replaces, does a confirmed value stand, is no candidate done with unread? | 2 rival values, 2 degrees of confidence, 1 candidate, 2 confirmers, 1 reader, 2 consolidations, 1 fault; 3,754,415 states |
| `ai_chat` | `MCAiChat`, `AiChat.cfg` | does a message fall between summary and index, are changed settings used? | 2 chats at a time, window 2, summary 1, 1 fault, 4 messages and changes of settings together, 2 of them changes at most; 2,772,092 states |
| `interview_sessions` | `MCInterviewSessions`, `InterviewSessions.cfg` | does a session ask its own resume's questions, has each a text, do report and live score agree? | 2 sessions, 2 extractions, 2 questions, 1 follow-up, 4 kinds of model answers (scores 55 and 180), 3 answers, 1 failure; 1,980,976 states |

Besides its properties, `agent_run` evaluates the router on the queries of the
repository's own tests (`RouterAsTested`), and `interview_sessions` the parser of
model answers: on the cases of its tests (`ContentAsTested`, `ObjectAsTested`,
`FieldsAsTested`, `AssessmentAsTested`), and on an assessment wrapped up to three
times in envelopes, objects, lists, fences and prose, which it must find again
(`WrappingIsUndone`).

### Bounds

Why they are enough for the interesting cases:

- `single_flight`: two callers with two iterations give every pair of leader and
  follower, old leader and new leader, and a follower that takes over and becomes
  the leader itself; with one chunk a heartbeat can change and stay unchanged;
  one expiry under a live leader gives two executors.
- `answers`: three calls give two that collide and one that overtakes; two
  questions and one follow-up give a move to a follow-up, from it, to the next
  question and to the end; two tries are the fewest with a retry.
- `plan_distinct_work`: a stale skip needs two replans and three contents: a
  failed task that the first replan leaves alone, its dependant skipped in the
  next round, and a second replan that repairs the cause.  `MaxTouched` only
  bounds the size of a diff, since two small diffs compose.
- `plan_shared_work`: three tasks with two slots give twins of which one runs,
  one waits and one is queued.
- `records_*`: three answers give a refresh overtaken by two later ones, so that
  its compare-and-set loses to one and its retry meets the other; two recent
  turns make the window of the snapshot slide.  One failure and one loss put a
  failed archiving, a half-done append or a crash anywhere, before or after the
  loss of the flow.  Two retries are the fewest with one that is not the last.
- `context_memory`: each run saves two messages, so two runs make the threshold
  and the minimum to keep leave something to compress twice, before an answer and
  after it, with the other run and the consolidation in between; a cut of two and
  a prompt of three are the smallest with something cut off and something not.
- `agent_loop`: one task of each kind; two calls are a batch with a neighbour, two
  steps and two attempts one that follows another, `MaxParallel` two the fewest
  that run side by side.
- `agent_run`: two streams and two plain requests with equal keys give each kind
  of merging and of refusal; one slot and one token are a limit that is full after
  one run; one fault may be any command, expiry or lost reply, and one crash may
  hit any step, with a restart after it.
- `user_profile`: two values compete, two degrees of confidence make one surer
  than the other; two confirmers, a consolidation and a reader are a writer that
  is overtaken, one that overtakes, and one that fills the cache meanwhile.
- `ai_chat`: two messages fill the window, so that a third needs a summary and four
  have two compressions, the second over the first; two chats give one that reads
  while the other compresses, deletes or fills the settings cache; two changes make
  settings that are old, newer and newest.  Memory and settings meet only in the chats
  that use both, so `ShortOrSettled` explores four messages with the settings
  unchanged, three with one change, two with two.  A kept fifth of more than one
  message needs ten; the theorem covers it.
- `interview_sessions`: two extractions are a leader and a follower, a first and a
  second extraction of one session, or extractions of two sessions with keys that
  may be equal; two questions make a list that gets shorter; a score of 55 is low
  and one of 180 out of range.

Deadlock is not checked: calls, runs and extractions end and the system may then
stop.  Symmetry is used where processes are interchangeable and no liveness is
checked: calls and requests (`answers`), contents (`plan_distinct_work`), streams and
plain requests (`agent_run`), values and confirmers (`user_profile`), chats
(`ai_chat`), sessions, extractions and the remainders of resumes
(`interview_sessions`).

### Fairness

Three specifications state fairness; the others have safety properties only.

`FairSpec` of `SingleFlight` is for `EveryCallReturns`:

- weak fairness of each caller's own steps: goroutines are scheduled, tickers
  tick, and `fn` returns because `maxExec` cancels its context;
- weak fairness of `LockExpires` for the lock of a leader that is no longer
  alive: nobody renews it, so its TTL ends (`LockTTL`);
- weak fairness of `ResultExpires`: Redis removes the cached result after its
  TTL.  Without it a follower that missed the message waits forever (see the
  findings); the code only guarantees that it waits for that long.

`FairSpec` of `PlanScheduler` is for `RunConcludes`: weak fairness of the
service's goroutine and of each task's.  The latter includes the return of the
task's runner, which the task's timeout ends, and the end of a backoff, which is
a timer.  Nothing is assumed of cancellations.

`FairSpec` of `InterviewRecords` is for `RepairEnds`: weak fairness of each
repair worker's steps.  `loop` ticks every 5 s for as long as its instance
lives, and an instance that crashed is started again (`WorkerCrash` leads to
"idle"); crashes are finitely many.  That an append succeeds is not assumed, and
neither answers nor refreshes need to go on.

No fairness is assumed for deadlines, timeouts, outages, crashes or the loss of
a live leader's lock.

### Findings

Where the code does not do what it, a comment or a document says; the full texts,
with the lines that say otherwise, are in `PROJECT.json`.  The properties of the
runs except these cases by name (a history variable), so that they hold for the
rest.  The last column says how TLC shows the case: the property to put into a
config, or the exception to drop.

| # | At | What | Shown by |
|---|---|---|---|
| 1 | `singleflight.go:185` | the placeholder narrows the window in which a late follower cancels a new leader, and does not remove it | `LateFollowerSparesNewLeader` with 3 callers, no expiry, no crash |
| 2 | `singleflight.go:346` | the result found by polling is dropped, since its code is 0 | `MissedMessageIsMadeUpFor` with 2 callers, no expiry, no crash |
| 3 | `answer_pipeline.go:311` | the rollback of a failing score takes the cursor back under a call that is past its check | `crossed = {}` dropped from the properties of `answers` |
| 4 | `scheduler.go:296` | a reused result keeps the id of the task that ran; the reusing task has none | `EveryTaskIsAccountedFor` with `Twins = TRUE` in `PlanDistinctWork.cfg` |
| 5 | `turn_log_cache.go:35` | a failed push leaves the request id in the set, so the repair takes the turn for logged | `FailedWriteIsRepaired` in `RecordsRepair.cfg`, 1 failure, `Spec` |
| 6 | `snapshot_service.go:99` | two refreshes that found no snapshot both write version 1 | `crossed` dropped from `NoTurnOverwritten` |
| 7 | `snapshot_service.go:155` | a rebuild has no lock and no second look | `RebuildKeepsProgress` with `Overlap = TRUE` in `RecordsInTurn.cfg` |
| 8 | `snapshot_service.go:218` | a refresh that goes back is not rejected | read in the code |
| 9 | `store.go:30` | after an eviction one new message hides the older ones of MySQL | `missed` dropped from `ContextIsComplete` |
| 10 | `compress.go:128` | a compression overwrites what was pushed while the model ran | same |
| 11 | `compress.go:111` | the boundary covers messages that were cut off before the model read them | `cut` dropped from `SummaryCoversPrefix` |
| 12 | `plan/service.go:344` | the sentence for "could not finish" counts as a result | read in the code |
| 13 | `run/service.go:622` | a stream's lock ends after two minutes, whatever runs | `outlived` dropped from `StreamKeepsItsLock` |
| 14 | `quota.go:30` | the slot counter expires under running runs | `overlooked` dropped from `SlotsMatchRuns` |
| 15 | `run/service.go:371` | a run whose model call fails is charged nothing | read in the code |
| 16 | `types.go:96` | a confirmed value is dropped for its superseded twin | the exception dropped from `ConfirmedValueStands` |
| 17 | `store.go:103` | one failing read replaces the whole profile | `blind` dropped from `WriteBuildsOnCurrent` |
| 18 | `profile_consolidate.go:126` | candidates the prompt had no room for are rejected as checked | read in the code |
| 19 | `profile_consolidate.go:97` | the cursor is kept per user, sequences count per session | read in the code |
| 20 | `ai_chat_service.go:112` | an unknown conversation is a nil pointer | read in the code |
| 21 | `ai_memory_service.go:183` | summary and index are two keys, written and read one by one | `torn` dropped from `NothingForgotten` |
| 22 | `ai_model_cache.go:56` | a look-up may store old settings after the invalidation | `late` dropped from `SettingsTakeEffect` |
| 23 | `ai_service.go:87` | writes under way survive a deletion | read in the code |
| 24 | `ai_memory_service.go:113` | the kept fifth may be more than the window shows | hypothesis `FifthFits` of `NothingIsForgotten` |
| 25 | `evaluation_service.go:130` | the key of a resume is its first 64 bytes | `shared` dropped from `OwnQuestions` |
| 26 | `interview_service.go:181` | a second extraction resets the score and keeps the flow | `shortened` or `zeroed` dropped from `QuestionHasText`, `ReportAgrees` |
| 27 | `flow_state_machine.go:64` | two first extractions both start the flow | same |
| 28 | `interview_service.go:505` | the report leaves out zeros, the live score does not | the condition on zeros dropped from `ReportAgrees`, with a score of 0 among `MCReplies` |
| 29 | `interview_service.go:405` | the preview of an unknown session is a nil pointer | read in the code |
| 30 | `followup_service.go:126` | the clip may remove the question mark just added, and half a character | read in the code |
| 31 | `evaluation_service.go:87` | a score out of range is clamped before it is checked; one that is no number is 0 | `Assessed` in `ReplyParser` |
| 32 | `extraction_service.go:84` | a follower never gets the result of an extraction | `Takes` in `InterviewSessions` |

In the single-flight code, but claimed otherwise by no comment: a follower may
judge a leader lost between its DEL of the progress and its release of the lock,
and run `fn` again.  The model contains this behaviour.

## 4. Proofs

Every theorem holds for all values of the constants under the named
assumptions of the modules, which only say that bounds are numbers, that the parts
of a set do not overlap, that marks differ from data and that an assessment has a
score from 0 to 100: `BoundsAreNaturals` and
`MarksAreFresh` (`SingleFlight`), `InterviewBounds` and `NoneIsFresh`
(`AnswerPipeline`), `PlanBounds`, `RecordsBounds` and `NoneIsFresh`
(`InterviewRecords`), `MemoryBounds` (`ContextMemory`), `LoopBounds` (`AgentLoop`),
`RunBounds` and `RouterConfig` (`AgentRun`, `Router`), `ProfileBounds`
(`UserProfile`), `ChatBounds` and `ChatMarks` (`AiChat`), `SessionBounds` and
`NoneIsNew` (`InterviewSessions`).  That assessments have such scores is what
`Accepted` of `ReplyParser` lets through, as TLC evaluates it for the answers of the run.

Six theorems have a hypothesis besides, because the code fails the property without
it: `FlowGoesOn` and `SnapshotsCoverAnswers` speak of answers that do not overlap
(`Overlap = FALSE`; a rebuild has no lock, finding 7), the three about results of
plans speak of tasks with different keys (`Twins = FALSE`; a reused result carries
another task's id, finding 4), and `NothingIsForgotten` of conversations whose kept
fifth fits into the window beside the summary (`FifthFits`; nothing in the code sees to
it, finding 24).  The runs of these properties set such values.

The library's induction theorems cannot be used here, since they take a predicate
as a parameter.  Where a proof goes by induction over numbers (the rounds of
`skipBlocked`, the rank of a task in its graph, the messages up to a boundary), it
forms the set of numbers for which the claim fails and takes its least element
(`WFMin`); lemma `StepByStep` of `PlanScheduler_proofs`, `ContextMemory_proofs` and
`InterviewSessions_proofs` says this once for each.

**SingleFlight.**  `TypeCorrect` is the type invariant strengthened by the
relation between `pc` and `returned`.  `LockHeld` needs that a nodeID is fresh
when it is drawn: iterations of a caller are numbered upwards, and `lock` and
`expired` only hold numbers already drawn.  With it a `SETNX` cannot hand a
live, unexpired leader's lock to somebody else, since such a leader holds it,
and `Release` only deletes its own.  `AtMostOneLeader` follows at once.
`LockIsALease` maps each action to an action of `Lease` or a stutter: election
to `Acquire`, expiry to `Lapse`, release to `Surrender`, a leader's crash to
`Abandon`; `LeaseHolds` carries the lease's promise back along this mapping.
`ReturnedExecuted` needs that a published result, a message in an inbox and the
outcome of a leader that passed `FnReturn` all name an execution in
`succeeded`.  `CancelAddressed` needs that a cancel key names a judged leader
and that a pushed cancel only waits with the leader it was addressed to.

**AnswerPipeline.**  `TypeCorrect` needs two more conjuncts: a call under way
carries a request with a question (`Carries`), and a planned follow-up's number
is within the limit (`FollowUpPlanned`).  `QuestionsAnsweredAlone` follows from
`LockHeld`: a call past the lock holds the lock of its question; the expiry of a
lock cannot break it because it only hits calls that stopped, and no step
changes which question a request answers.

The other five speak of behaviours in which no rollback has crossed another call
(`crossed = {}`, finding 3).  Their common invariant, `InStep`, is about the time
between two commands of a call.  A call at work, from the second look at the flow
until it gives up or moves on, has the flow to itself: what it read is still there,
or what it wrote (`HasFlow`).  So the compare-and-set that moves the flow answers the
flow's question (`CallsAnswerCurrentQuestion`) and the counters move together
(`FlowIsCoherent`).  A call past the move may find the flow further on, but never
further back (`HasMoved`), and takes the cursor back only while nobody else is there
(`RollsBackAlone`).  `RequestsMoveOnce` needs `Accounted`: for a request that has
moved the flow some call still answers, or its replay is stored, and a rollback of a
call would take back that call's move alone (`Pending`).  `ScoredOnce` adds `Scores`:
a score belongs to a request that has moved the flow past the question, and where it
is missing, a call is about to add it, to take the move back, or has died in between.
`ErrorsLeaveNoTrace` follows from the same facts and `Silent`, a call says something
only at its end.

**PlanScheduler.**  `PlanTypeCorrect` needs that
goroutines live only inside a batch (`Batches`), that results in hand and in the
ledger carry ids of tasks (`ResultsHaveIds`) and that a backoff has attempts
left (`AttemptsLeft`).  `PlanWorkIsDoneOnce` uses the type invariant's equation
between finished entries and successful keys: a task starts to run only when its
key has neither a finished nor a running entry, and the plan, and so every key,
is fixed while a batch is under way.  For this, keys may be any function of the plan.

The theorems about results need to know what keys are.  Lemma `KeysDefined` shows
that the recursive function `Keys` has the value its equation says, along the rank of
the tasks; `CommonKeys` that two plans give the same keys to a part they share and
that contains its own dependencies.  That is what a replan keeps: it may neither touch
finished tasks nor what they depend on, and lemma `Downstream` shows that it throws
away the result of everything that depends on a touched task.  The invariant,
`Accounted`, says what has a result and what a round has still to do (`Settled`), that
a skipped task has a dependency that failed (`Caused`; for one call of `skipBlocked`,
lemma `SkippedHaveCauses`), that a result in hand is the task's own (`Own`), that the
ledger remembers only the work of tasks that are done or about to be (`Entries`), and
that what is under way is built on finished work (`BuiltOnDone`).  `Own` and `Entries`
are where twins would break it.

**InterviewRecords.**  `RecordsTypeCorrect` needs
that whoever is appending a turn has one in hand, and that a worker about to
requeue has kept something.  `TurnsAreLoggedOnce` holds for any number of
answers and workers, overlapping or not, with any number of failures.  Its
invariant, `Once`, says that a turn in the log has its id in the set (`Logging`),
that a process about to push has put the id there and the turn is not in the log
yet (`Pushing`), and that no two processes are about to push the same turn
(`OnePusher`).  A process gets to the push only by adding an id that was not
there, and only `Mark` and `Push` touch these facts; the expiry of the log fires
only when nobody is between the two.

`TurnsAreRepaired` follows every way a turn takes whose id is not in the set: with the
call that failed to append it, in the queue, in a worker's hand, among what the worker
kept.  Its invariant `Repairing` adds that a call queues its own turn (`Returned`)
and that a worker takes an item only with empty hands (`EmptyHanded`).
`TurnsAreKept` needs `Versions`: a snapshot found by a refresh is no newer than the
stored one, and with its version it is the stored one, so that a compare-and-set
extends exactly what it replaces.  `ArchiveIsAhead` needs that every turn of every
snapshot, stored or in the hands of a refresh, is archived or known as missed
(`Backed`), and that the watermark is the seq of the newest of those positions that
were archived when they were taken in (`Marked`).  The positions are chosen by the
invariant, since a repeated refresh may put a turn into a snapshot twice.

For answers that do not overlap, `InTurn` says that one call is under way and that a
call which rebuilds has found no flow, from which `FlowGoesOn` follows.
`SnapshotsCoverAnswers` follows a single answer: from its move until its refresh has
read the flow, the flow is past the answer, or Redis has lost it in between; from then
on what was read is (`Ahead`).  A rebuild in between cannot bring an older flow, since
it would need the archive to hold the turn of a call whose refresh has not begun
(`Unrestored`).

**ContextMemory.**  `SummaryIsCovered` holds for any number of runs, overlapping or
not, and any thresholds.  Its invariant, `Covered`, says of every copy of the
summary, in MySQL, in Redis or in the hands of a reader, that it holds the
messages up to its boundary, apart from those cut off before a model read them
(`cut`, which only grows), unless the boundary was once read apart from the text
(`torn`).  A compression replaces text and boundary; lemma `OldMessages` shows that
what it compresses are exactly the numbers from the old boundary to the new one, so
nothing is left out in between.

`ContextsAreComplete` joins the summary and the list.  Its invariant, `Complete`, adds
to `Covered` that every message is in the cached list, on its way there, or known to
be missing (`Listed`), and what a run that has read both, or has built its context,
knows of the messages before its own (`Informed`): they are in its summary, in its list,
dropped, missing, or cut.  The list is read after the summary and so may have been
shortened in between to what a newer summary leaves over: then what it lacks is
recorded as missing when it is read.  Only a torn summary is excepted.

**AgentLoop.**  `LoopTypeCorrect` says that each call of a batch has its outcome.
`EffectsInOneAttempt` needs `Marked`: a task that has run a tool that writes is in
the attempt in which it did, has the mark and so no further attempt, and the mark
is set before a tool of the batch runs.  `StepsAreNotRejected` needs `Numbered`:
a number drawn and not yet recorded is in no row and in no other hand.
`WritersRunAlone` is inductive together with the types.

**AgentRun.**  `StreamsKeepTheirLocks` needs that streams never enter the
single-flight.  `NoTasksAfterClose` follows step by step, since a pool that is
closed takes nothing.  `SlotsAndRunsMatch` needs `Counted`: who holds a slot is
between taking and giving it back, and counter and holders differ by no more than
the expiries and failing releases seen so far (`overlooked`, `leaked`).
`OverdraftIsBounded` needs `Budgeted`: what is spent never exceeds the limit by more
than the runs that may still pass the check (`Room`) leave; a run that passes the
check turns a place of `Room` into a spender, and a charge takes no more than what
its spender was counted for.

**UserProfile.**  `CandidatesAreRead` needs `ReadBefore`: a consolidation decides
only on what it has listed.  `WritesBuildOnCurrent` needs `Ordered`: what is
loaded or cached is no newer than the row, and with the row's version it is the
row; so a compare-and-set that succeeds was made from the row it replaces.  A first
profile written over another one breaks this and is excepted (`blind`).
`ConfirmedValuesStand` is about what `ApplyProfileDiff` and `NormalizeProfile` make of
any list of facts.  Lemmas `BestFact`, `FirstFact` and `Places` say which facts remain
and where, `Normalized` that each value occurs once in the result; with
`AddCases` follows `ForcedStands`: a value added by the user's word is the one active
value, or was there before, given up and just as certain.  The invariant, `Answering`,
says that every list of facts, stored, cached or in hand, has at most one active fact
(`SoundProfiles`), and that what a confirmer is about to write is the answer worked
into what it has loaded (`AnswerIsNext`).

**AiChat.**  `ChatTypeCorrect` adds to the types that whatever is saved as a summary
tells all up to its index (`Whole`): lemma `CompressedIsWhole` shows that the message
`Compress` chooses exists, for any messages that are long enough.  `SettingsAreCurrent`
needs `SettingsKnown`: unless a chat was about to cache what it had read when the cache
was cleared (`late`), what is cached, and what a chat is about to cache, is no older
than what was announced.  `NothingIsForgotten` needs `SavesApart`.  As long as no saves
have overlapped (`crossed`), one saver at a time is between its two writes, the text in
Redis is its own, and the index is never ahead of the text (`OneSave`).  A chat between
its two reads meets an index beyond the text it has read only if a whole save falls in
between, which is `torn` (`Reading`).  What is left is about one step: lemma `AllTold`
says that the messages after the index, when they are no more than the kept fifth, are
all in the window, which is where `FifthFits` is used; when they are more, the summary
lags and the property makes no claim about them.

**InterviewSessions.**  `SessionsTypeCorrect` includes that leader and followers of a
group carry the group's key, and that an answer under way has a flow to go back to.
`QuestionsAreOwn` needs `OwnJobs`: an extraction carries a resume given for its session,
and a result taken over comes from a group with the same key (lemma `OwnResultEnds`),
which is what `shared` excepts and no more.  `QuestionsHaveText` needs that an
extraction saves before it starts a flow (`SavesFirst`), and of each flow, stored or
about to be restored by an answer that fails, that it counts on no more questions than
are saved, asks one of them, and has its follow-up saved (`Shown`); the one moment in
between is an answer that has moved the flow and not yet saved the text.
`ReportsAgree` needs that the live score is what the archive holds together with the
answer that has been scored and not yet archived (`ScoreMatches`).  `Counted` is a
recursive function along the archive; lemma `CountedMore` says what one more turn adds
to it.  Lemma `Rounded` says that an average to the nearest number and the same rounded
down differ by one at most.

**Only model-checked.**

- Liveness (`EveryCallReturns`, `RunConcludes`, `RepairEnds`) and `ENABLED` are out
  of the prover's reach.
- So is what the `RECURSIVE` operator `Found` of `ReplyParser` computes.  The
  assumptions of `MCInterviewSessions` evaluate it on bounded inputs, and the proofs
  about `InterviewSessions` hold for whatever assessments come out of it.

Every safety property of a run, invariant or action property, is a theorem.

## 5. Plan

Every module of the first plan is written and every safety property of the runs
proved.  What is left, in this order:

1. A panic in `localGroup.Do`, which leaves its key blocked, as an outcome of an
   extraction in `InterviewSessions`.
2. `ReplyParser` with a recursive function over the depth of a value in place of its
   operator, so that what one level of wrapping does can be a theorem.
3. Larger instances: three extractions, two candidates, three overlapping runs.

## 6. Not modelled

Handlers, middleware, DTOs, configuration, commands (`cmd/`), evaluation
harness (`internal/eval`), model clients, tools and repositories are I/O and
single-row CRUD: each is one atomic effect for the models that meet it.  Users,
metrics, and the management of agents, identities and scenes keep no state that
two steps could bring apart.  Prompts and wording are left to their unit tests: a
model call is an outcome chosen freely, which `ReplyParser` then reads.
`EnsureInitialized` is the initial state of `AnswerPipeline` and two steps of
`InterviewSessions`; `MarkCompleted` has no caller.

What can go wrong and no property speaks of: a panic inside `localGroup.Do`
(`singleflight.go:530`); the reuse of results by equal tasks (`scheduler.go:296`,
finding 4), where the code fails the property; and, too small to be listed as
hazards, a nil flow when the entry vanishes between two look-ups
(`answer_pipeline.go:134`), a message count updated by read and write
(`run/service.go:515`), and metrics recorded while their service drains and stops
(`metric_service.go:103`).
