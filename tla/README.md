# FlexiQ: a TLA+ model of the core

FlexiQ is a task queue: callers enqueue jobs into a shared store (SQLite,
Postgres or Redis), schedulers on any number of hosts take them out and hand
them to worker pools, and what the workers report is settled in the store. This
directory models the parts of `crates/flexiq-core`, and of the workflow layer
above it, in which several threads, processes and hosts share one row. TLC
checks the modules on small instances, and TLAPS proves the central facts for
instances of any size.

Paths below are relative to `src/crates/flexiq-core/src/` unless they start
with `src/`.

## 1. Inventory

### Parts, state, operations

| part | state it keeps | operations | source | module |
|---|---|---|---|---|
| job store | tables `jobs`, `archived_jobs`, `execution_claims`, `dead_letter` | enqueue, dequeue, claim, reclaim, complete, retry, reschedule, requeue, cancel, dead-letter, claim sweep; each one transaction | `storage/diesel_common/{jobs,locks,dead_letter}.rs`, `storage/sqlite/locks.rs` | `JobStore` |
| unique and debounced enqueue | `jobs`: the unique key, the debounce key and deadline | look up and insert; slide or insert | `storage/diesel_common/jobs.rs` | `UniqueEnqueue`, `Debounce` |
| dependencies | `job_dependencies` | validate, insert, gate at dequeue, cascade, purge | `storage/diesel_common/jobs.rs` | `Dependencies` |
| scheduler, poll loop | the position of its pass; the in-flight book (`InFlight`: live and retired dispatch records) | dequeue, gates, claim, track, send, roll back; then maintenance: reap stale jobs, recover orphans | `scheduler/{poller,maintenance,mod}.rs` | `Dispatch` |
| scheduler, gates | per batch: cached counts of Running rows | count, admit, give back | `scheduler/poller.rs` | `ConcurrencyCaps` |
| scheduler, drain thread | the same book | fence a result against the dispatch it comes from, then write the transition | `scheduler/result_handler.rs`, `lease.rs` | `Dispatch` |
| periodic tasks | one schedule row per task | check, fire, advance; declare, enable | `scheduler/maintenance.rs`, `storage/diesel_common/periodic.rs` | `Periodic` |
| dead-letter retries | dead letters; a count in their metadata | list, retry, purge | `scheduler/maintenance.rs`, `storage/diesel_common/dead_letter.rs` | `DeadLetterRetry` |
| remote executor pool | registry of connections, slots, leases per job; on the other side the executor's own threads | place, send, read frames, commit sleeps, abandon a connection, drain, detach; run, report, beat | `worker/{remote,executor,step_pump}.rs` | `RemotePool` |
| HTTP push target | registry of accepted (202) dispatches; the settle marker on the claim | push, wait, `Settle`, `ExtendLease`, cancel, drain, time out | `worker/http_target/` | `PushSettle` |
| circuit breaker | one row per task | `allow`, `record_success`, `record_failure` | `resilience/circuit_breaker.rs` | `CircuitBreaker` |
| distributed locks, election | one row per lock | acquire, extend, release, `try_lead`, sweep | `storage/sqlite/locks.rs`, `storage/diesel_common/locks.rs` | `DistributedLock` |
| durable steps | `job_steps` rows; one session per dispatch | load, replay, run, commit, sleep, all fenced | `step/`, `storage/diesel_common/steps.rs` | `DurableSteps` |
| log topics | messages, cursors, deliveries | publish, read, ack, lease, nack, compact | `storage/diesel_common/pubsub.rs` | `TopicLog` |
| workflows | a row per run and per node; the tracker's maps | submit, mark a node's result, cascade, finalize, cancel; expand a fan-out, finish it | `src/crates/flexiq-workflows`, `src/crates/flexiq-python/src/py_queue/workflow_ops`, `src/sdks/python` | `WorkflowRun`, `FanOut` |
| rate limits, quotas, CoDel, retention | token rows, counters, sojourn times | admission, sweeps | `resilience/rate_limiter.rs`, `quota/`, `scheduler/{codel,retention}.rs` | none |
| mesh | membership, ring, local deque | SWIM, stealing | `src/crates/flexiq-mesh` | none |
| server, CLI, TUI, bindings, SDKs, dashboard | none of their own | front ends | the other crates, `src/sdks`, `src/dashboard` | none |

### How they interact

Everything durable goes through the `Storage` trait. One call is one
transaction; no two calls of a caller are. A scheduler is two threads that share
the in-flight book under a mutex: the poll loop, which dispatches and then does
maintenance, and the drain thread, which settles results from a channel.
Schedulers know of each other only through rows: claims, heartbeats, locks. An
attempt is identified by a fencing token of three parts, the owner, the retry
count and the claim epoch; each part exists because the others do not move in
some case (`scheduler/poller.rs`, `finish_dispatch`).

A claimed job leaves the process in one of two ways, by a push to an HTTP target
or in a frame to an attached executor. Both answer through the same result
channel. The workflow tracker lives above the queue: it learns of a job's end
from an event, on a pool of threads, and writes the workflow tables by calls of
its own, which no transaction ties to the job's.

### What is hard

* The dequeue, the claim and the send are three steps; so are the scan, the
  fence and the transition of the reaper; a crash or another scheduler fits
  between any two.
* Nothing tells a superseded attempt that it is superseded. Only the fence on
  its next write does.
* Timeouts and heartbeats are guesses: a reaped job may still be running.
* The settle marker of a pushed job is contended by five parties on three
  threads and two machines, and the registry beside it is keyed by job id, not
  by dispatch.
* Of a remote job, the result, the end of its connection and the placement task
  each may be the one to answer for it; heartbeats, results and sleeps of one
  executor come from different threads.
* The breaker's calls read a row and later write a whole row. The unique
  enqueue, the dependency check, the periodic check, the cascade, the lease of a
  message and the compaction of a topic each read first and write later too.
* Caps are counted after the batch has been moved to Running, once per batch.
* A job's event can overtake the row that it is about: of the workflow's node, of
  the child of a fan-out, of the tracker's registration.
* Clocks are read before a transaction is waited for, on hosts that disagree.

`PROJECT.json` lists these hazards at their lines, with the properties that
would notice each going wrong.

### What makes each part correct

* Store: a job id is in one table at a time, an outcome is final, an accepted
  job does not vanish, two claims never share an epoch.
* Scheduler: no job runs twice at once, a result settles the attempt it comes
  from, retries stay within budget, every slot comes back, every job ends.
* Enqueue: a unique call answers with a job that was really active during the
  call; a debounced call is served by a run that starts after it, and no later
  than the cap.
* Dependencies: a job starts after what it depends on, and is cancelled when it
  no longer can.
* Caps: never more dispatches in flight than the limit, whoever counts, as long
  as the reaper takes no row that a dispatch is still admitting.
* Periodic: no slot skipped. Dead letters: one life at a time, brought back no
  more often than configured.
* Push: one party decides a dispatch, one result is sent, a target is refused
  only when somebody else decided, a silent target blocks nothing.
* Pool: each dispatch answered for once and by itself, no job left with a
  connection that is gone, every dispatch ends.
* Breaker: a trip stands, probes are bounded, a task is never gated for good.
* Locks: one holder by every clock, freed after a crash.
* Steps: one history per job that only grows, no committed step run again, no
  sleep cut short.
* Topics: a cursor skips nothing, nothing is compacted that somebody is still owed.
* Workflows: a run that says Completed is, nothing starts after it has ended, a
  fan-in waits for all children, every run ends.

## 2. Modules and the code

| module | what it is |
|---|---|
| `JobLifecycle` | abstract specification: one state and an attempt counter per job |
| `JobStore` | the tables and one operator per storage transaction; `StoreSpec` lets anybody call anything at any time |
| `Dispatch` | EXTENDS `JobStore`: schedulers, pools, results, crashes |
| `ConcurrencyCaps` | the in-flight budget and the concurrency gates of several schedulers |
| `Periodic` | one periodic task and the schedulers that fire it |
| `DeadLetterRetry` | the lineage of one piece of work through the dead-letter queue |
| `UniqueEnqueue` | callers of one unique key |
| `Debounce` | the rows of one debounce key |
| `Dependencies` | jobs, their edges, the cascade and the purge |
| `RemotePool` | dispatcher, connections and executors |
| `PushSettle` | one job pushed to a target, across dispatches |
| `CircuitBreaker` | the breaker row of one task |
| `DistributedLock` | one lock row, and elections on it |
| `DurableSteps` | step rows and sessions of one job |
| `TopicLog` | one log topic with its subscriptions |
| `WorkflowRun` | one run of a static workflow |
| `FanOut` | one run with a fan-out and a fan-in, managed by the tracker |
| `MCGates`, `MCContention`, `MCDeliveries`, `MCPools`, `MCWorkflows` | several of these side by side |
| `MCJobStore`, `MCDispatch`, `MCDurableSteps`, `MCWorkflowRun` | constants for TLC |
| `JobStoreProofs`, `DispatchProofs`, `DurableStepsProofs`, `RemotePoolProofs` | theorems and proofs about the module of that name |
| `GatesProofs` | the same for `CircuitBreaker`, `Debounce`, `Dependencies` |
| `ContentionProofs` | for `DistributedLock`, `UniqueEnqueue`, `DeadLetterRetry`, `Periodic`, `ConcurrencyCaps` |
| `DeliveryProofs` | for `TopicLog`, `PushSettle` |
| `WorkflowProofs` | for `WorkflowRun`, `FanOut` |

Definitions keep the names of the code: `claim_execution`, `await_settle`,
`resolve_attempt_fence`. `PROJECT.json` ("map") gives each its lines. An
operator whose name ends in `_Something` and whose comment starts with "Mutant"
is a plausible bug in the definition that follows it; no specification uses it.

`MCGates`, `MCContention`, `MCDeliveries`, `MCPools` and `MCWorkflows` put parts
side by side that answer one question (what holds a job back, what processes
compete for, and so on) and that share no variable. A variable `part` (`kind` for workflows), fixed
initially, says whose steps a behaviour takes; the other parts stay in an initial
state. A behaviour is therefore a behaviour of one part, an invariant of the sum
holds exactly if it holds of that part alone, and the fairness conditions carry
the same guard.

**JobStore.** A table is a function from job ids to rows, with an explicit
absent row. Kept of a row: status, retry count, cancel flag. A claim has an owner
and an epoch; `minted` is the sequence that epochs come from. `retry`,
`dead_letter`, `mark_cancelled` are as unguarded as the code's: whether the
caller is entitled is the scheduler's business. The code's namespaces, payloads
and timestamps are left out.

**Dispatch.** `poll[s]` is where the poll loop is, `drain[s]` the result the
drain thread has authorized, `book` and `retired` the two maps of `InFlight`,
`runs` the attempts a pool is executing, `results` the channel. One action is
one storage call with the in-memory work up to the next one. The gates (rate,
quota, concurrency, breaker, CoDel) are free choices, `Defer`, `Reject` and
`Shed`. There is no clock: `LooksStale` holds of any Running job, or, with
`AccurateDetection`, of those nobody is working on. Whatever can fail is an
action guarded by `Fault(kind)`; `Faults` selects the kinds and `MaxFaults` how
many a behaviour has. The drain's batch of successes is modelled as its elements,
one after another: `complete_batch` applies the same guard per row.

**ConcurrencyCaps.** What the gates of `Dispatch` decide for real: a scheduler
moves a batch to Running, then takes job after job through its scopes (namespace,
queue, task), counting each scope from the table at most once per batch and
from `GateCounts` after that. A refused job gives back what it occupied. The
stale reaper takes any Running row past its timeout: one that a pool still
executes, whose record the other scheduler's book keeps (`overrun`), and one in a
batch or at a gate (`crossed`). Neither is counted any more; a job of the second
kind that is refused gives back a place that was never counted, and one too many
may go. The caps are best-effort there, as `poller.rs` says.

**Periodic.** A check is three statements: read the due row, enqueue under a
unique key, advance the row. `check[s]` is where scheduler `s` is; a crash or an
error at any of them leaves the rest undone. A cron expression is its period.

**DeadLetterRetry.** An id is a job and the entry it leaves. `auto_retry_dlq`
lists once and works the list off; an operator picks its own entries; the row is
read outside the transaction that deletes it and inserts the new job.

**UniqueEnqueue.** Lookup, insert and re-read are separate, as they are on
Postgres; the partial unique index decides at the insert. `met` collects the
jobs a call could truthfully answer with.

**Debounce.** Times are relative to the present, so that the clock never stops:
`age` since creation, `wait` until the deadline. A call's clock reading is up to
`MaxLag` old when its transaction starts. The claim is an insert that does not
look at the row: `takers` counts the schedulers that dequeued it and have still
to claim, and their claim may land on a row that was put back and slid meanwhile
(`crossed`).

**Dependencies.** Every graph that can be enqueued is one: `wanted` is chosen at
the enqueue. The cascade is the search it is in the code, one query per job, and
then one transaction; the crash between them is an action.

**RemotePool.** Both ends of the wire. On the dispatcher: placement with its
fallback on a lost executor, the reader of each connection, the step pump,
draining, detaching, and a stalled connection that is dropped from the registry.
On the executor: the job threads, the reply
with its lease check, the heartbeat, which loads the free count and later writes
it. `claim` and `book` are the lease in storage and in memory. What may go wrong
is in `due`, each once per behaviour; `PoolModes` lists the combinations.

**PushSettle.** `task[d]` is the attempt task of dispatch `d`, `held` the
registry entry, `marker` the deadline on the claim, `call[d]` and `extend[d]` the
target's RPCs. Dispatch 1's task may still be alive while dispatch 2 runs.

**CircuitBreaker.** A call is two actions: the read with the decision, and
`Commit`, the upsert of the whole row. Instants are ages, which stop growing
where no comparison can tell any more. `probed` and `overlap` are history
variables.

**DistributedLock.** `Begin` reads the caller's clock, anywhere in
`now..now + MaxSkew`; the operation itself happens later. `until[o]` is the
expiry that `o` was told; it relies on the lock while that is ahead of every
clock.

**DurableSteps.** A session is one dispatch's walk through its code; `view` is
its snapshot plus what it committed. Codes differ between versions, so that
replays may diverge. `EpochFenced` is FALSE for an in-process session, which the
code fences on owner and attempt only.

**TopicLog.** A message's id is minted before its row is inserted, so rows appear
in another order than ids. A subscription reads past a cursor or leases message
by message; a lease selects and then upserts. Compaction is a series of queries
with no transaction around them.

**WorkflowRun.** The run's row, the nodes' rows and their jobs, over every graph
of the nodes. `submit_workflow` inserts job and row one after the other while
the jobs already run. Each event has a handler, whose statements interleave with
those of the other handlers and with `cancel_workflow_run`. A job that fails
tells the tracker (`JobDies`); one that the reaper dead-letters does not
(`JobReaped`), because `maintenance.rs` drops the outcome and only the result
drain dispatches events. A failing `cancel_job`, and a failing write of the
skipped row, are logged and the cascade goes on (`CancelJobFails`,
`SkipNodeFails`).

**FanOut.** The same for a run the tracker manages: the source ends, its handler
creates the children, each child's handler reads the others' rows and may finish
the fan-out and create the fan-in. Here too the reaper ends a job unheard
(`StepReaped`).

Several properties of the last three, of `Dependencies`, `Debounce` and
`ConcurrencyCaps` hold but for named
accidents, which auxiliary variables record when they happen and which the
property lists: a job stranded because its parent's ending does not cascade, the
cascade was lost, or it came late (`Dependencies`); a message whose row came
after a later one was read, and a sweep under which a subscription came or went
(`TopicLog`: `overtaken`, `excusedMsgs`); a claim written over a row that is
Pending again (`Debounce`: `crossed`); a row taken from a batch or a gate by the
reaper (`ConcurrencyCaps`: `crossed`); an event handled before its node's row
was there (`unborn`) or lost, a job ended by the reaper, of which there is no
event (`unheard`), Running written over an outcome (`regressed`), the
rows read before all were there (`partial`), a node's job cancelled behind the
run's back (`meddled`), a completion reported by an attempt that is then retried
(`repeated`), a node skipped by a cascade that had read it as Pending
(`overwritten`), a job or a row that the cascade failed to cancel or to skip
(`uncancelled`, `unskipped`), a submission given up half way (`aborted`), in
`WorkflowRun`; a
run handled before it was registered (`unmanaged`), a child that failed before
the tracker knew its job (`cascaded`), a fan-out set to Running after its
children had finished it (`reopened`), or again `unheard`, in `FanOut`. Each
property lists only the accidents that break it, and nothing else in the model
does. Each accident is a behaviour of the code worth knowing. The gravest is `unheard`: a node that
times out or loses its worker on its last attempt leaves its run Running for
good.

## 3. Runs

| run | expected | shows |
|---|---|---|
| `store` | pass | any order of any transactions keeps `LiveXorArchived`, `ClaimEpochsDistinct`, and is a behaviour of `JobLifecycle` |
| `timely` | pass | with accurate detection and up to three faults: `ExclusiveExecution`, `SettlesOwnDispatch`, `RetriesWithinBudget`, `BookAgrees`; and `SlotsFreed`, `SettledUnlessWedged` under fairness |
| `races` | pass | with detection that may err, lost executors and all storage errors: `EpochNamesOneDispatch` |
| `double_run` | violation | `ExclusiveExecution` once an executor is lost and two schedulers reap its job |
| `deliveries` | pass | two dispatches of a pushed job, with a cancel and a shutdown: `DecidedOnce`, `FencedMeansDecided`; a topic read by cursors and by leases: `NothingSkipped`, `CompactedOnlyIfDone` |
| `pools` | pass | executors whose connections are lost, stalled, rotated or draining, whose jobs are reaped or requeued: `AnsweredOnce`, `NothingStranded`; and for executors and push targets alike `EveryDispatchEnds` |
| `capacity` | violation | `FreeIsExact` once a heartbeat is overtaken by a result |
| `steps` | pass | sessions of two dispatches and changed code: `OneHistory`, `NoEarlyWake` |
| `steps_live` | pass | `CommittedNotRerun`, `Completes` |
| `gates` | pass | breaker: `SamplesPending` with overlapping calls, `TripStandsAlone` without; debounce: `NeverPutOffPastCeiling`, `CallServedLater`; dependencies: `RunsAfterDependencies`, `StrandedOnlyByFault`; breaker and debounce: `NothingHeldForGood` |
| `contention` | pass | locks: `MutualExclusion`, `FreedAfterCrash`; `AnswersAreTrue` of a unique enqueue; `OneLife` of a dead letter; `NoSlotSkipped` of a periodic task; `LimitsHold` of the caps |
| `workflows` | pass | static runs: `CompletedMeansDone`, `NodesTellTheTruth`, `NothingStartsAfterEnd`; fan-outs: `FanInAwaitsAll`; both: `EveryRunSettles` |

`TerminalIsFinal` and `NeverVanishes` of the store follow from
`ImplementsLifecycle` and are theorems; they need no run of their own.

### Where the code and its documents disagree

The two violation runs each refute a sentence of the documents or comments;
`PROJECT.json` ("findings") quotes it.

* `double_run`: "`claim_execution` ensures two workers never run the same job at
  once". The reaper does not reclaim; `retry` checks neither owner nor attempt;
  two reapers of one stale row are enough.
* `capacity`: "Local accounting is exact, so a heartbeat may only *shrink*
  capacity". The executor loads its free count, then waits for the writer; a
  result written in between makes the dispatcher add the slot and take it away
  again. Nothing gives it back while the executor stays attached.

Other disagreements were met on the way. Each has a configuration that makes TLC
print the behaviour; run it on the module given, and with `-continue` where it
names several properties. TLC then prints a trace for every state that violates
one; the first of each property is the one to read.

| configuration | module | what happens |
|---|---|---|
| `MCDispatchLateSettle` | `MCDispatch` | two properties. A result passes the fence, another scheduler's reaper retries the job, and the result then moves the row (`result_handler.rs`, `settle_result`: two transactions). A dispatch rolled back on a full channel forgets the retired record of an older attempt that still runs here; its report is then unfenced (`scheduler/mod.rs`, `untrack_in_flight`) |
| `MCDispatchSlotLeak` | `MCDispatch` | a lost executor reports nothing; if another scheduler reaps the job, the slot is never freed and `in_flight_settled` stays false (`worker/remote.rs`, `abandon`) |
| `MCDispatchStuck` | `MCDispatch` | the only scheduler left remembers an earlier attempt of a job that lost its scheduler between dequeue and claim, and drops its own timeout as superseded on every sweep: the state `Wedged` that `SettledUnlessWedged` excepts. It lasts until the retired record is evicted |
| `MCPushSettleExtended` | `PushSettle` | three properties. `await_settle` takes a consumed marker for one never written and arms it again: two parties are told `Granted`. And the waiting attempt keeps the original deadline after an extension, and takes the refusal of its claim for a settle that won (`attempt.rs`). And a granted `Settle` finds its registry entry retired, answers Ok and sends nothing (`emit_settled`) |
| `MCDeliveriesOvertaken` | `MCDeliveries` | two properties. An old request's 202 replaces the registry entry of the current dispatch (`register_accepted`). Log topics are at-least-once (`src/docs`, `pubsub.mdx`); a row inserted with a lower id than the one a cursor has read is never returned to it |
| `MCCircuitBreakerDocumented` | `CircuitBreaker` | three properties. The job that turns open into half-open is not counted: one probe more than configured. A failure counted from a row read before the trip writes that row back. A success that comes in after the trip closes the breaker at once |
| `MCDurableStepsResurrect` | `MCDurableSteps` | the guards "keep it from resurrecting a claim on a job that has moved on"; a requeue keeps `retry_count`, so that between the next dequeue and its claim both guards pass for the old session |
| `MCPeriodicTwice` | `Periodic` | the unique key makes two firings of a slot one job, says `fire_periodic`; the key holds the scheduler's own now, and two of them enqueue two |
| `MCDependenciesForgotten` | `Dependencies` | a dependency is satisfied once it is Complete (`canvas.mdx`); one that was cancelled or died, and was then purged, no longer holds anybody back |
| `MCFanOutTwice` | `FanOut` | a fan-out is finalized "exactly once, even across concurrent callers"; if its children end before `expand_fan_out` writes Running over it, it is finalized again |
| `MCWorkflowRunDocumented` | `MCWorkflowRun` | two properties. Cancelled has no outgoing edge (`saga.mdx`), but a handler that decided earlier writes its verdict over it. A run of cache hits only has no event that would end it |
| `MCRemotePoolDocumented` | `RemotePool` | two comments. "`abandon` can still report the attempt that ended": not a sleep committed while the connection is being abandoned. A frame hands back the lease "that came with the dispatch": the executor keys leases by job, and the end of an older dispatch removes that of the newer |

One more, seen in `RemotePool`: after a write that timed out, a connection is
taken out of the registry and not closed, so its executor goes on believing that
it is attached (`NothingStranded` names the case).

### What the proofs found

Attempts to prove what a run showed turned up instances, larger than the run's,
in which it does not hold. The theorems state the condition that is missing.

* `ExclusiveExecution` and `RetriesWithinBudget` hold in `timely` because two
  schedulers and one crash leave one survivor. With three, a crash leaves a
  Running job that both survivors reap; the second one has no record of it, so
  its timeout passes the fence, and its retry puts a job that runs again back to
  Pending (`Owners` of three, `Faults = {"crash"}`, `MaxRetries = 2`). It is the
  mechanism of `double_run` without a lost executor. It is also the only one:
  the theorems hold through every fault, for any number of schedulers, as long as
  no two reapers have one job in hand (`SoleReaper`) and nobody requeues a job
  that a reaper has (`RequeueApart`).
* `CommittedNotRerun` fails once an operator requeues a running job: the retry
  count does not move, and two sessions serve one attempt.
* `DecidedOnce` and `FencedMeansDecided` hold in `deliveries` because a job is
  dispatched twice. With three dispatches, a result of the first that the reaper
  has let go of settles the job while the second is still in its request; the
  third is dispatched, the 202 of request 2 replaces its registry entry, and
  target 3 is told `Fenced` while nobody has decided. What is missing is that a
  request ends before the job is dispatched again, which the code does not
  enforce; it follows where the request's budget is at most the job's timeout and
  the reaper is the only way back.

### Bounds, and why they are enough

* `store`: two jobs and two owners, so that claims of two jobs meet; three
  epochs, one retry, two dead letters, by a state constraint that cuts only what
  repeats. The theorems remove the bounds.
* `timely`: one job, as jobs interact only through capacity; two schedulers; one
  retry, so that an old and a new attempt coexist; three faults. `MaxClaims = 9`
  is never reached. `races`: two faults and two claims with every kind of fault
  and no restriction on timeouts, 2 million states.
* `deliveries`: for the push, two dispatches, the least with a straggler; the
  clock runs to 5 with a timeout of 1, so that all deadlines of both lie inside
  (6 adds nothing; checked apart, 5.4 million states). Extensions and overtaking
  requests are left out: the configurations above show what they break. For the
  topic, two publishers and two messages, which is what it takes for one to
  overtake the other, and rosters of two subscriptions that cover cursor and
  cursor, cursor and lease, lease and lease. 2.6 million states.
* `pools`: for the pool, two connections and two executor ids, so that a
  reconnection meets the old connection or another executor; one slot, at which
  every count is at its limit; one job dispatched twice; each mishap alone with
  one that could hide it. Two jobs and three dispatches were checked apart for the
  safety properties (14 million states). For the push, one dispatch with an
  extension, a requeue and storage errors, to time 5.
* `capacity`: the smallest pool that has the behaviour; 13 steps.
* `gates`: breaker: two callers are enough to overwrite; threshold, probes and
  cooldown are 2, so that each count has a value strictly inside. Debounce: two
  rows of the key and two callers' options, of which one's cap is the other's
  window; two schedulers with a row in hand, so that one's claim can come after
  the other put the row back; ages count to the largest cap, 3, and the clock
  does not stop.
  Dependencies: every graph of three jobs, the least with a chain and a diamond's
  half, one cascade at a time.
* `contention`: locks: two owners, skew 1, time to live 2, time up to 5: an
  expiry, a takeover and an expiry of that. Unique: five jobs, so that three
  attempts can each lose to another. Dead letters: two schedulers, an operator,
  four jobs with a limit of two automatic retries. Periodic: two schedulers, two
  schedules, time up to 3. Caps: three jobs, two schedulers, a queue's limit of 2,
  a task's of 1, batches of 2 of which one overshoots, one row that the reaper
  takes from a dispatch that has it. 0.6 million states.
* `steps`: two dispatches, three steps, two events of any kind, three versions of
  the code. `steps_live`: one scheduler, a keyed step and a keyed sleep in either
  order, two events; four retries, because an overlap can cost two.
* `workflows`: both graphs of two nodes with every set of cache hits; the first
  node has a retry; a lost worker or event with a cascade whose writes fail, or a
  cancellation with one, or a job cancelled behind the run's back; three
  children. Three nodes without retries were checked apart
  with a cancellation (8.9 million states).

Deadlock checking is off wherever the system may rightly stop: all jobs are
done, or a bound is spent. The store never stops.

### Fairness

* `Dispatch`: weak fairness of a poll loop inside a pass, of the pool (a task
  ends, or is timed out by its runner), of the drain thread and of heartbeats,
  all of which are loops that never block for good; strong fairness of the three
  scans, because the loop runs dispatch and each sweep in turn and takes what it
  finds. Faults and callers are not fair.
* `PushSettle`: time, the reaper, the drain, the attempt task and a call that has
  begun. The target is not fair: it may never call.
* `RemotePool`: the placement task, the pump, each connection's reader, and each
  executor's threads, whose tasks end. Attaching, losing and detaching
  connections are not fair: there may never be an executor, and placement gives
  up by itself.
* `CircuitBreaker`: time, a call's own write, and jobs of the task that keep
  being polled; jobs end, perhaps without a report. Success is not assumed.
* `Debounce`: time, and the dequeue of a row that is due and stays so.
* `DistributedLock`: time, calls, and the sweep, which a surviving scheduler
  repeats.
* `DurableSteps`: time, polls, the reaper, and sessions that have not crashed.
* `WorkflowRun`, `FanOut`: the submission, jobs, and handlers that have begun go
  on. Cancelling, losing an event and meddling are not fair.

## 4. Proofs

Checked by TLAPS for every value of the constants that satisfies the module's
`ASSUME`s: any number of jobs, schedulers, connections, dispatches, nodes, and any
bound. Where a theorem needs more, its statement says so. Each inductive
invariant was a TLC invariant of a small instance before it was proved. Every
safety property that a passing run checks is a theorem, the action properties and
the refinement included.

* **`JobStoreProofs`.** `StoreInv` is `StoreTypeOK`, `LiveXorArchived`,
  `CleanDeletes` and `ClaimEpochsDistinct`. The second and the last are not
  inductive alone: that no id is in two tables needs that an absent row carries
  nothing over (`CleanDeletes`), and that a new epoch is new needs that all are
  at most `minted`. Three lemmas cover the three shapes of a transaction (rewrite
  a live row, archive it, drop a claim), and every transaction is an instance of
  one. From `StoreInv` follow the action properties `TerminalIsFinal` and
  `NeverVanishes`, and `StoreImplementsLifecycle`: each transaction maps to a
  step of `JobLifecycle` or to a stutter. The only assumption is that `None` is
  neither a job nor an owner.
* **`DispatchProofs`.** `SchedInv` is type correctness, in parts that match the
  threads. With it, `DispatchImplementsStore`: whatever schedulers, pools, drains
  and callers do to the tables is a transaction of `JobStore` or nothing. So the
  store's theorems carry over (`OutcomesAreFinal`). `EpochNamesOneDispatch` is
  inductive once every epoch that anybody remembers is at most `minted`
  (`EpochInv`); it holds with every fault and with timeouts that lie. The other
  four (`ExclusiveUnlessTwoReap`, `SettlesOwnUnlessTwoReap`,
  `RetriesUnlessTwoReap`, `BookAgreesUnlessLost`) hold with `AccurateDetection`,
  as in `timely`, for any number of schedulers and through every fault: crashes,
  lost executors, stale jobs reaped, orphans recovered, swept claims, failed
  writes, fences that err open. They need `SoleReaper` and `RequeueApart`, which
  the code does not see to; Section 3 says what happens without. `BookAgrees`
  also needs that no executor is lost, since that leaves its slot taken
  (`MCDispatchSlotLeak`). `OneHand` is the inductive invariant: a job is in one
  pair of hands from its dequeue to its settle, those of a poll loop, a pool, a
  result channel, a drain thread or a reaper, at the attempt of the row and under
  its claim; or, after a fault, in nobody's, and the reaper that finds it is the
  only one to have it. `DownIdle` says that a scheduler that is down has nothing
  in hand, so that what was in its hands is nobody's. The theorems do not reach a
  timeout that fires on a result already past its fence: that case is outside
  `AccurateDetection`, and `MCDispatchLateSettle` shows what it does.
* **`RemotePoolProofs`.** `AnsweredOnce` counts replies and says nothing of who
  may still reply. `PoolInv` does: a dispatch without an answer is in exactly one
  place, the queue, placement or one entry of one connection (`OnePlace`), and
  only such a dispatch can be answered for (`AnswersLeft`); whatever is on the
  wire or at an executor about a job belongs to the dispatch that its entry
  stands for, and a result is the last thing said of it, which is what lets
  frames that name only the job be attributed (`Tidy`); a dispatch that was lost
  stays lost; free slots, held jobs and the one being matched are at most the
  slots (`Slotted`). Jobs are finite in number and connections are numbered from
  1; no other condition, and every mishap of the model is allowed.
* **`DurableStepsProofs`.** `StepsInv`: a session's view is a prefix of the rows
  until the job is over, and of each sleep it passed the deadline lies behind it.
  This gives `OneHistory` and `NoEarlyWake` for any mixture of owners, versions
  of the code, replays and requeues. `SoleInv` is about who may write: an attempt
  is being claimed by one scheduler or served by one session, and that one knows
  the whole history but for a commit it has not heard back about. It needs
  `NoRequeue`, and gives `CommittedNotRerun`. Nothing is proved or checked of
  `NoClaimResurrected` beyond the behaviour that refutes it. Assumed of the codes:
  there is one.
* **`GatesProofs`.** Breaker: `SamplesPending` must hold of every row still on
  its way to the store, as any of them may be written later (`RowOK` of the
  stored row and of each call's). `TripStandsAlone` needs of a call under way
  that it is about to write an open breaker or a success (`Alone`). Debounce:
  the two properties support each other, through the type: what is owed a run is
  Pending, and ages stop at the ceiling; whoever has a
  Pending row in hand saw it put back (`OldHands`), which keeps blind claims off
  the other rows. Dependencies: `EdgeInv` says of each
  running or waiting job which of its wishes the edges still stand for;
  `CascadeInv` that what a cascade visited is closed under edges, so that a
  stranded job is ahead of it or named.
* **`ContentionProofs`.** Locks: mutual exclusion alone is not inductive, as a
  takeover compares the stored expiry with a stale reading; that readings are not
  ahead of the fastest clock and that whoever relies on the lock is in the row
  with the expiry it was told (`LockInv`) make it so, for any skew and delay.
  Unique: a call at its n-th attempt has met n jobs that ended. Dead letters: the
  automatic retries so far are counted in the one life there is, and a listed
  entry had retries left. Periodic: a check about to advance has a job under its
  own stamp. Caps: the limit alone is far from inductive, since schedulers count
  at different times and each admits on its own cached count. `CountsCover` says
  that of any schedulers that have counted a scope there is one, the last to
  count, whose count covers everything admitted and all their batches together;
  it is stated for every set of schedulers, since giving a job back takes one
  out. It holds until the reaper takes a row that is being admitted; that no book
  exceeds its budget (`BookInv`) holds after that too. Assumed: finitely many jobs.
* **`DeliveryProofs`.** Topics: `TopicInv` says of each query of a sweep what its
  results imply if the subscriptions were not disturbed, and of a cursor that
  what lies below it was seen, in order. Assumed: finitely many leasing
  subscriptions. Push: `MarkerInv` gives one winner of the marker per dispatch
  (`SingleWinner`), without extensions and with every other event. `AnswerInv`
  adds the registry and the result each winner sends, and needs
  `RequestEndsFirst` and no overtaking request; `FenceInv` adds that the marker
  and the attempt's timer agree, and needs that recording and claiming do not
  err. The conditions are those whose failure Section 3 shows.
* **`WorkflowProofs`.** The properties speak of a run at rest or at its end, and
  the handlers write it in several statements, so `WfInv` has to say of every
  handler, between any two statements, what it has read and that it is still true
  or that one of the named accidents has happened. `FoInv` does the same for the
  tracker: who created which child, what each child's handler read, and that the
  fan-in was made once. Any graph, any number of children.

Only model-checked, because the prover does neither fairness nor ENABLED:
`SlotsFreed`, `SettledUnlessWedged`, `EveryDispatchEnds`, `Completes`,
`NothingHeldForGood`, `FreedAfterCrash`, `EveryRunSettles`.

## 5. What is not modelled

`PROJECT.json` gives the reason for each part. In short:

* the Postgres and Redis backends implement the same trait (Postgres shares the
  transactions; where its isolation lets more in between than SQLite's, the
  module takes Postgres's);
* rate limits, quotas and CoDel decide admission by one transaction or by a
  heuristic, and what they do to a job is a free choice in `Dispatch`;
* events, audit, wire formats and front ends keep no protocol state, and make up
  most of the repository's lines; so do the SDKs, of which only the parts of the
  workflow tracker are modelled that write the workflow tables;
* retention deletes what is finished, except where a module says that it
  matters (claims, finished parents, topic messages);
* workflow gates, sub-workflows, conditions and saga compensation; fan-out
  topics; the remote pool's handshake and its shutdown as a whole; the mesh.

The size of caches (retired records, ended dispatches) is taken as unbounded,
except where a comment says otherwise.

## 6. Plan

1. Proofs: that two schedulers of which one crashes satisfy `SoleReaper`;
   `DecidedOnce` with the requests that outlive their dispatch but are answered
   before the next one is accepted; `FreeIsExact` for an executor without
   heartbeats.
2. Saga compensation, gates and sub-workflows, on top of `FanOut`.
3. Mesh membership and stealing.
4. The remote pool's shutdown, and the pool in place of `runs` in `Dispatch`.
5. Rate limiter and quota rows; CoDel's control law as a pure operator.
