------------------------------ MODULE Dispatch ------------------------------
(***************************************************************************)
(* Schedulers sharing one job store: dequeue, claim and hand a job to the  *)
(* worker pool; fence and settle what the pool reports; recover what stalls*)
(* (stale reaper) or loses its worker (orphan recovery).                   *)
(*                                                                         *)
(* A scheduler is two threads.  The poll loop runs dispatch and then       *)
(* maintenance (Scheduler::run), so poll[s] is one position in either.  The*)
(* drain thread settles results.  Storage calls are single transactions,   *)
(* and everything else interleaves between them.                           *)
(*                                                                         *)
(* Timeouts and heartbeats are not clocks here.  A Running job may look    *)
(* stale at any moment, unless AccurateDetection restricts the reaper, the *)
(* heartbeat cutoff and the operator to jobs nobody is working on.  What   *)
(* goes wrong, and how often, is set by Faults and MaxFaults.              *)
(***************************************************************************)
EXTENDS JobStore, FiniteSets

CONSTANTS
    MaxRetries,        \* max_retries of every job
    MaxInFlight,       \* SchedulerConfig::max_in_flight
    LeasedPool,        \* TRUE: a remote pool, which checks leases (CAP_LEASE)
    AccurateDetection, \* TRUE: a timeout never fires on work still under way
    Faults,            \* which of FaultKinds may happen
    MaxFaults,         \* how many faults a behaviour may contain
    MaxClaims          \* bound on the claims won in a behaviour

FaultKinds == {"crash", "pause", "lost", "requeue", "defer", "shed", "close",
               "full", "claim", "unclaim", "fence", "settle", "purge", "budget"}

ASSUME BoundsAssumption ==
    /\ MaxRetries \in Nat /\ MaxInFlight \in Nat \ {0} /\ MaxFaults \in Nat
    /\ MaxClaims \in Nat
    /\ LeasedPool \in BOOLEAN /\ AccurateDetection \in BOOLEAN
    /\ Faults \subseteq FaultKinds

VARIABLES
    poll,       \* per scheduler: where its poll loop is
    drain,      \* per scheduler: the authorized result it is about to settle
    book,       \* InFlight::by_job, the live dispatch records
    retired,    \* InFlight::retired, the records of freed slots
    runs,       \* dispatches handed to a pool and not yet reported
    results,    \* JobResults in a scheduler's result channel
    up,         \* per scheduler: "up", "closing" (pool closed) or "down"
    fresh,      \* per scheduler: its worker row is inside the heartbeat cutoff
    faults      \* faults so far

schedVars == <<poll, drain, book, retired, runs, results, up, fresh, faults>>
vars == <<storeVars, schedVars>>

(* A dispatch record: the attempt and claim epoch it was made under; the   *)
(* owner is the scheduler itself.  Epoch 0 is no record.                   *)
Record == [attempt : Nat, epoch : Nat]
NoRecord == [attempt |-> 0, epoch |-> 0]

DispatchSteps == {"dequeued", "claimed", "tracked", "unclaim", "unclaimShed",
                  "reschedule", "shed"}
ReapSteps == {"orphan", "rescued", "reap", "settle"}
Position == [step : {"idle"} \cup DispatchSteps \cup ReapSteps,
             job : Jobs \cup {None}, attempt : Nat, epoch : Nat,
             owner : Owners \cup {None}]
Idle == [step |-> "idle", job |-> None, attempt |-> 0, epoch |-> 0, owner |-> None]

Kinds == {"Success", "Failure", "Fatal", "Cancelled"}
Run == [sched : Owners, job : Jobs, attempt : Nat, epoch : Nat]
(* A JobResult names a job and an attempt.  Its epoch, the dispatch it     *)
(* really comes from, is not in the code's message: only properties use it.*)
Result == [sched : Owners, job : Jobs, attempt : Nat, epoch : Nat, kind : Kinds]
Settling == [job : Jobs \cup {None}, attempt : Nat, epoch : Nat,
             kind : Kinds \cup {"none"}]
NotSettling == [job |-> None, attempt |-> 0, epoch |-> 0, kind |-> "none"]

SchedTypeOK ==
    /\ poll \in [Owners -> Position]
    /\ drain \in [Owners -> Settling]
    /\ book \in [Owners -> [Jobs -> Record]]
    /\ retired \in [Owners -> [Jobs -> Record]]
    /\ runs \in SUBSET Run
    /\ results \in SUBSET Result
    /\ up \in [Owners -> {"up", "closing", "down"}]
    /\ fresh \in [Owners -> BOOLEAN]
    /\ faults \in Nat

(* One type invariant for the tables and the schedulers.                   *)
TypeOK == StoreTypeOK /\ SchedTypeOK

Init ==
    /\ StoreInit
    /\ poll = [s \in Owners |-> Idle]
    /\ drain = [s \in Owners |-> NotSettling]
    /\ book = [s \in Owners |-> [j \in Jobs |-> NoRecord]]
    /\ retired = [s \in Owners |-> [j \in Jobs |-> NoRecord]]
    /\ runs = {} /\ results = {}
    /\ up = [s \in Owners |-> "up"]
    /\ fresh = [s \in Owners |-> TRUE]
    /\ faults = 0

-----------------------------------------------------------------------------
(* Faults are spent from a budget; an ordinary step leaves it alone.       *)
Fault(kind) ==
    /\ kind \in Faults
    /\ faults < MaxFaults
    /\ faults' = faults + 1

Alive(s) == up[s] # "down"

InFlightJobs(s) == {j \in Jobs : book[s][j] # NoRecord}

(* Somebody is still working on the job: a poll loop between its dequeue   *)
(* and its hand-off, a pool, or a result on its way to the store.          *)
InHands(j) ==
    \/ \E s \in Owners : \/ poll[s].job = j /\ poll[s].step \in DispatchSteps
                         \/ drain[s].job = j
    \/ \E r \in runs \cup results : r.job = j

(* Mutant: the deadline filter is dropped from the reaper's query.         *)
LooksStale_AnyRunning(j) == jobs[j].status = "Running"

(* started_at + timeout_ms < now, as the reaper reads it.                  *)
LooksStale(j) ==
    /\ jobs[j].status = "Running"
    /\ AccurateDetection => ~InHands(j)

Goto(s, step) == poll' = [poll EXCEPT ![s].step = step]
Finish(s) == poll' = [poll EXCEPT ![s] = Idle]

-----------------------------------------------------------------------------
(* Callers of the queue.                                                   *)

Enqueue(j) ==
    /\ enqueue(j)
    /\ UNCHANGED schedVars

CancelPending(j) ==
    /\ cancel_pending(j)
    /\ UNCHANGED schedVars

RequestCancel(j) ==
    /\ ~jobs[j].cancel
    /\ request_cancel(j)
    /\ UNCHANGED schedVars

(* The dashboard's requeue button.                                         *)
RequeueStuck(j) ==
    /\ LooksStale(j)
    /\ Fault("requeue")
    /\ requeue_stuck(j)
    /\ UNCHANGED <<poll, drain, book, retired, runs, results, up, fresh>>

PurgeClaim(j) ==
    /\ Fault("purge")
    /\ purge_execution_claims(j)
    /\ UNCHANGED <<poll, drain, book, retired, runs, results, up, fresh>>

-----------------------------------------------------------------------------
(* The dispatch pipeline of the poll loop.                                 *)

PollOnly == UNCHANGED <<drain, book, retired, runs, results, up, fresh>>

(* The in-flight cap is read before the dequeue, never again after it.     *)
Dequeue(s, j) ==
    /\ up[s] = "up" /\ poll[s] = Idle
    /\ Cardinality(InFlightJobs(s)) < MaxInFlight
    /\ dequeue(j)
    /\ poll' = [poll EXCEPT ![s] =
                   [Idle EXCEPT !.step = "dequeued", !.job = j, !.attempt = jobs[j].retry]]
    /\ PollOnly /\ UNCHANGED faults

(* A pre-claim gate (rate limit, circuit breaker) defers the job.  On a job*)
(* that is gone the reschedule reports JobNotFound.                        *)
Defer(s) ==
    LET j == poll[s].job IN
    /\ poll[s].step = "dequeued"
    /\ Fault("defer")
    /\ IF IsLive(j) THEN reschedule(j) ELSE UNCHANGED storeVars
    /\ Finish(s) /\ PollOnly

ClaimForDispatch(s) ==
    LET j == poll[s].job IN
    /\ poll[s].step = "dequeued" /\ minted < MaxClaims
    /\ claim_execution(s, j)
    /\ poll' = [poll EXCEPT ![s].step = "claimed", ![s].epoch = minted']
    /\ PollOnly /\ UNCHANGED faults

AlreadyClaimed(s) ==
    /\ poll[s].step = "dequeued"
    /\ claims[poll[s].job] # NoClaim
    /\ Finish(s) /\ PollOnly /\ UNCHANGED <<storeVars, faults>>

(* The claim errors: unwind as if it had been written.                     *)
ClaimError(s) ==
    /\ poll[s].step = "dequeued"
    /\ Fault("claim")
    /\ Goto(s, "unclaim") /\ PollOnly /\ UNCHANGED storeVars

(* A hard cap, or a gate of the batch path, rejects a claimed job.         *)
Reject(s) ==
    /\ poll[s].step = "claimed"
    /\ Fault("defer")
    /\ Goto(s, "unclaim") /\ PollOnly /\ UNCHANGED storeVars

(* CoDel or a rate limit with on_excess = shed: before the claim straight  *)
(* to the dead-letter queue, after it through complete_execution.          *)
Shed(s) ==
    /\ Fault("shed")
    /\ \/ poll[s].step = "dequeued" /\ Goto(s, "shed")
       \/ poll[s].step = "claimed" /\ Goto(s, "unclaimShed")
    /\ PollOnly /\ UNCHANGED storeVars

ShedToDlq(s) ==
    /\ poll[s].step = "shed"
    /\ dead_letter(poll[s].job)
    /\ Finish(s) /\ PollOnly /\ UNCHANGED faults

(* Mutant: the record is kept only for a scheduler that has a cap to feed. *)
Track_NoRecord(s) ==
    /\ poll[s].step = "claimed"
    /\ Goto(s, "tracked")
    /\ PollOnly /\ UNCHANGED <<storeVars, faults>>

(* track_in_flight: the new record replaces what the scheduler remembered. *)
Track(s) ==
    LET p == poll[s] IN
    /\ p.step = "claimed"
    /\ book' = [book EXCEPT ![s][p.job] = [attempt |-> p.attempt, epoch |-> p.epoch]]
    /\ retired' = [retired EXCEPT ![s][p.job] = NoRecord]
    /\ Goto(s, "tracked")
    /\ UNCHANGED <<storeVars, drain, runs, results, up, fresh, faults>>

Send(s) ==
    LET p == poll[s] IN
    /\ p.step = "tracked" /\ up[s] = "up"
    /\ runs' = runs \cup {[sched |-> s, job |-> p.job, attempt |-> p.attempt, epoch |-> p.epoch]}
    /\ Finish(s)
    /\ UNCHANGED <<storeVars, drain, book, retired, results, up, fresh, faults>>

(* The channel is closed, or full: untrack_in_flight forgets the job       *)
(* outright, and the claim is rolled back.                                 *)
SendRefused(s) ==
    LET j == poll[s].job IN
    /\ poll[s].step = "tracked"
    /\ book' = [book EXCEPT ![s][j] = NoRecord]
    /\ retired' = [retired EXCEPT ![s][j] = NoRecord]
    /\ Goto(s, "unclaim")
    /\ UNCHANGED <<storeVars, drain, runs, results, up, fresh>>

SendClosed(s) == up[s] = "closing" /\ SendRefused(s) /\ UNCHANGED faults

SendFull(s) == up[s] = "up" /\ Fault("full") /\ SendRefused(s)

(* rollback_claim_and_reschedule: two separate writes.                     *)
RollbackClaim(s) ==
    /\ poll[s].step \in {"unclaim", "unclaimShed"}
    /\ complete_execution(poll[s].job)
    /\ Goto(s, IF poll[s].step = "unclaim" THEN "reschedule" ELSE "shed")
    /\ PollOnly /\ UNCHANGED faults

(* The revocation errors, and the dispatch is abandoned where it stands.   *)
RollbackError(s) ==
    /\ poll[s].step = "unclaim"
    /\ Fault("unclaim")
    /\ Finish(s) /\ PollOnly /\ UNCHANGED storeVars

RollbackReschedule(s) ==
    LET j == poll[s].job IN
    /\ poll[s].step = "reschedule"
    /\ IF IsLive(j) THEN reschedule(j) ELSE UNCHANGED storeVars
    /\ Finish(s) /\ PollOnly /\ UNCHANGED faults

-----------------------------------------------------------------------------
(* The worker pool.                                                        *)

(* The lease book names the epoch of the live record, if there is one: it  *)
(* is issued, retired and forgotten with it.  Only a disagreement refuses. *)
frame_is_current(r) ==
    \/ ~LeasedPool
    \/ book[r.sched][r.job] = NoRecord
    \/ book[r.sched][r.job].epoch = r.epoch

(* An attempt ends and reports.  A refused frame frees the executor's slot *)
(* and is dropped.                                                         *)
Report(r, kind) ==
    /\ kind = "Cancelled" => jobs[r.job].cancel
    /\ runs' = runs \ {r}
    /\ results' = IF frame_is_current(r)
                  THEN results \cup {[sched |-> r.sched, job |-> r.job, attempt |-> r.attempt,
                                      epoch |-> r.epoch, kind |-> kind]}
                  ELSE results
    /\ UNCHANGED <<storeVars, poll, drain, book, retired, up, fresh, faults>>

(* The executor's connection ends: abandon() drops its entry and says      *)
(* nothing to the scheduler.                                               *)
ExecutorLost(r) ==
    /\ Fault("lost")
    /\ runs' = runs \ {r}
    /\ UNCHANGED <<storeVars, poll, drain, book, retired, results, up, fresh>>

-----------------------------------------------------------------------------
(* The fence.                                                              *)

(* release_dispatch: free the slot and take the record, live or retired.   *)
TakenRecord(s, j) == IF book[s][j] # NoRecord THEN book[s][j] ELSE retired[s][j]

(* Mutant: the record is looked up and never taken.                        *)
ReleaseDispatch_KeepsSlot(s, j) ==
    /\ retired' = [retired EXCEPT ![s][j] = TakenRecord(s, j)]
    /\ UNCHANGED book

ReleaseDispatch(s, j) ==
    /\ book' = [book EXCEPT ![s][j] = NoRecord]
    /\ retired' = [retired EXCEPT ![s][j] = TakenRecord(s, j)]

(* resolve_attempt_fence, read-only: the job is Running at this attempt    *)
(* and the claim is ours, under our epoch, or absent.                      *)
authorize_attempt(s, j, rec) ==
    /\ jobs[j].status = "Running" /\ jobs[j].retry = rec.attempt
    /\ claims[j] = NoClaim \/ claims[j] = [owner |-> s, epoch |-> rec.epoch]

(* A scheduler with no memory of the job has nothing to check it against.  *)
Current(s, j) ==
    LET rec == TakenRecord(s, j) IN rec = NoRecord \/ authorize_attempt(s, j, rec)

(* Mutant: one retry too many.                                             *)
FailureTransition_OneMore(j, attempt) ==
    IF attempt <= MaxRetries
    THEN IF IsLive(j) THEN retry(j) ELSE UNCHANGED storeVars
    ELSE dead_letter(j)

(* The settle of an authorized result, whatever happened since the fence.  *)
(* A transition that finds no row to move reports JobNotFound.             *)
FailureTransition(j, attempt) ==
    IF attempt < MaxRetries
    THEN IF IsLive(j) THEN retry(j) ELSE UNCHANGED storeVars
    ELSE dead_letter(j)

Transition(j, attempt, kind) ==
    CASE kind = "Success" ->
            IF jobs[j].status = "Running" THEN complete(j) ELSE UNCHANGED storeVars
      [] kind = "Failure" -> FailureTransition(j, attempt)
      [] kind = "Fatal" -> dead_letter(j)
      [] kind = "Cancelled" ->
            IF IsLive(j) THEN mark_cancelled(j) ELSE UNCHANGED storeVars

-----------------------------------------------------------------------------
(* The drain thread.                                                       *)

Take(r) == [job |-> r.job, attempt |-> r.attempt, epoch |-> r.epoch, kind |-> r.kind]

Authorize(r) ==
    /\ Alive(r.sched) /\ drain[r.sched] = NotSettling
    /\ results' = results \ {r}
    /\ ReleaseDispatch(r.sched, r.job)
    /\ drain' = [drain EXCEPT ![r.sched] =
                    IF Current(r.sched, r.job) THEN Take(r) ELSE NotSettling]
    /\ UNCHANGED <<storeVars, poll, runs, up, fresh, faults>>

(* The fence fails open on a storage error.                                *)
FenceError(r) ==
    /\ Alive(r.sched) /\ drain[r.sched] = NotSettling
    /\ Fault("fence")
    /\ results' = results \ {r}
    /\ ReleaseDispatch(r.sched, r.job)
    /\ drain' = [drain EXCEPT ![r.sched] = Take(r)]
    /\ UNCHANGED <<storeVars, poll, runs, up, fresh>>

SettledDrain(s) == drain' = [drain EXCEPT ![s] = NotSettling]

Settle(s) ==
    /\ drain[s] # NotSettling
    /\ Transition(drain[s].job, drain[s].attempt, drain[s].kind)
    /\ SettledDrain(s)
    /\ UNCHANGED <<poll, book, retired, runs, results, up, fresh, faults>>

(* The task's retry budget is spent: a failure that could retry is buried. *)
SettleOverBudget(s) ==
    /\ drain[s].kind = "Failure" /\ drain[s].attempt < MaxRetries
    /\ Fault("budget")
    /\ dead_letter(drain[s].job)
    /\ SettledDrain(s)
    /\ UNCHANGED <<poll, book, retired, runs, results, up, fresh>>

(* The transition's write fails; the result is gone with it.               *)
SettleError(s) ==
    /\ drain[s] # NotSettling
    /\ Fault("settle")
    /\ SettledDrain(s)
    /\ UNCHANGED <<storeVars, poll, book, retired, runs, results, up, fresh>>

-----------------------------------------------------------------------------
(* Maintenance, on the poll loop of every scheduler: no election.          *)

(* Mutant: the sweep joins on the claim, so a job that lost its scheduler  *)
(* before the claim was written is never seen.                             *)
ReapScan_ClaimedOnly(s, j) ==
    /\ up[s] = "up" /\ poll[s] = Idle
    /\ LooksStale(j) /\ claims[j] # NoClaim
    /\ poll' = [poll EXCEPT ![s] =
                   [Idle EXCEPT !.step = "reap", !.job = j, !.attempt = jobs[j].retry]]
    /\ PollOnly /\ UNCHANGED <<storeVars, faults>>

(* reap_stale_jobs reads the row; the failure is settled from that copy.   *)
ReapScan(s, j) ==
    /\ up[s] = "up" /\ poll[s] = Idle
    /\ LooksStale(j)
    /\ poll' = [poll EXCEPT ![s] =
                   [Idle EXCEPT !.step = "reap", !.job = j, !.attempt = jobs[j].retry]]
    /\ PollOnly /\ UNCHANGED <<storeVars, faults>>

(* Mutant: every other scheduler counts as dead.                           *)
OrphanScan_AnyOwner(s, j) ==
    LET o == claims[j].owner IN
    /\ up[s] = "up" /\ poll[s] = Idle
    /\ jobs[j].status = "Running" /\ o \in Owners \ {s}
    /\ poll' = [poll EXCEPT ![s] =
                   [Idle EXCEPT !.step = "orphan", !.job = j,
                                !.attempt = jobs[j].retry, !.owner = o]]
    /\ PollOnly /\ UNCHANGED <<storeVars, faults>>

(* A Running job whose claim names a worker outside the heartbeat cutoff,  *)
(* other than the scheduler itself.                                        *)
OrphanScan(s, j) ==
    LET o == claims[j].owner IN
    /\ up[s] = "up" /\ poll[s] = Idle
    /\ jobs[j].status = "Running" /\ o \in Owners \ {s} /\ ~fresh[o]
    /\ poll' = [poll EXCEPT ![s] =
                   [Idle EXCEPT !.step = "orphan", !.job = j,
                                !.attempt = jobs[j].retry, !.owner = o]]
    /\ PollOnly /\ UNCHANGED <<storeVars, faults>>

Reclaim(s) ==
    LET p == poll[s] IN
    /\ p.step = "orphan"
    /\ \/ /\ minted < MaxClaims /\ reclaim_execution(p.job, p.owner, s)
          /\ poll' = [poll EXCEPT ![s].step = "rescued", ![s].epoch = minted']
       \/ /\ claims[p.job].owner # p.owner
          /\ Finish(s) /\ UNCHANGED storeVars
    /\ PollOnly /\ UNCHANGED faults

(* The rescue is recorded like a dispatch, so that its own failure passes  *)
(* the fence.                                                              *)
TrackRescue(s) ==
    LET p == poll[s] IN
    /\ p.step = "rescued"
    /\ book' = [book EXCEPT ![s][p.job] = [attempt |-> p.attempt, epoch |-> p.epoch]]
    /\ retired' = [retired EXCEPT ![s][p.job] = NoRecord]
    /\ Goto(s, "reap")
    /\ UNCHANGED <<storeVars, drain, runs, results, up, fresh, faults>>

ReapAuthorize(s) ==
    LET j == poll[s].job IN
    /\ poll[s].step = "reap"
    /\ ReleaseDispatch(s, j)
    /\ IF Current(s, j) THEN Goto(s, "settle") ELSE Finish(s)
    /\ UNCHANGED <<storeVars, drain, runs, results, up, fresh, faults>>

ReapFenceError(s) ==
    /\ poll[s].step = "reap"
    /\ Fault("fence")
    /\ ReleaseDispatch(s, poll[s].job)
    /\ Goto(s, "settle")
    /\ UNCHANGED <<storeVars, drain, runs, results, up, fresh>>

ReapSettle(s) ==
    /\ poll[s].step = "settle"
    /\ FailureTransition(poll[s].job, poll[s].attempt)
    /\ Finish(s) /\ PollOnly /\ UNCHANGED faults

ReapOverBudget(s) ==
    /\ poll[s].step = "settle" /\ poll[s].attempt < MaxRetries
    /\ Fault("budget")
    /\ dead_letter(poll[s].job)
    /\ Finish(s) /\ PollOnly

(* The write fails; the row is as the sweep found it.                      *)
ReapError(s) ==
    /\ poll[s].step = "settle"
    /\ Fault("settle")
    /\ Finish(s) /\ PollOnly /\ UNCHANGED storeVars

-----------------------------------------------------------------------------
(* Processes come and go.                                                  *)

(* The process dies with everything it held in memory.  Its claims and its *)
(* heartbeat row stay in the store.  Some scheduler always survives.       *)
Crash(s) ==
    /\ Alive(s) /\ \E t \in Owners \ {s} : up[t] = "up"
    /\ Fault("crash")
    /\ up' = [up EXCEPT ![s] = "down"]
    /\ poll' = [poll EXCEPT ![s] = Idle]
    /\ drain' = [drain EXCEPT ![s] = NotSettling]
    /\ book' = [book EXCEPT ![s] = [j \in Jobs |-> NoRecord]]
    /\ retired' = [retired EXCEPT ![s] = [j \in Jobs |-> NoRecord]]
    /\ runs' = {r \in runs : r.sched # s}
    /\ results' = {r \in results : r.sched # s}
    /\ UNCHANGED <<storeVars, fresh>>

(* Shutdown begins: the pool takes no more jobs and drains what it has, and*)
(* the poll loop starts no new pass.                                       *)
ClosePool(s) ==
    /\ up[s] = "up" /\ \E t \in Owners \ {s} : up[t] = "up"
    /\ Fault("close")
    /\ up' = [up EXCEPT ![s] = "closing"]
    /\ UNCHANGED <<storeVars, poll, drain, book, retired, runs, results, fresh>>

HeartbeatExpires(s) ==
    /\ fresh[s]
    /\ \/ up[s] = "down" /\ UNCHANGED faults
       \/ Alive(s) /\ ~AccurateDetection /\ Fault("pause")
    /\ fresh' = [fresh EXCEPT ![s] = FALSE]
    /\ UNCHANGED <<storeVars, poll, drain, book, retired, runs, results, up>>

Heartbeat(s) ==
    /\ Alive(s) /\ ~fresh[s]
    /\ fresh' = [fresh EXCEPT ![s] = TRUE]
    /\ UNCHANGED <<storeVars, poll, drain, book, retired, runs, results, up, faults>>

-----------------------------------------------------------------------------
(* What a poll loop in the middle of a pass does next.                     *)
PollStep(s) ==
    \/ ClaimForDispatch(s) \/ AlreadyClaimed(s) \/ ShedToDlq(s) \/ Track(s) \/ Send(s) \/ SendClosed(s)
    \/ RollbackClaim(s) \/ RollbackReschedule(s)
    \/ Reclaim(s) \/ TrackRescue(s) \/ ReapAuthorize(s) \/ ReapSettle(s)

PollFault(s) ==
    \/ Defer(s) \/ ClaimError(s) \/ Reject(s) \/ Shed(s) \/ SendFull(s) \/ RollbackError(s)
    \/ ReapFenceError(s) \/ ReapOverBudget(s) \/ ReapError(s)

PoolStep(s) ==
    \E r \in runs : r.sched = s /\ \E kind \in Kinds : Report(r, kind)

DrainStep(s) == Settle(s) \/ \E r \in results : r.sched = s /\ Authorize(r)

DrainFault(s) ==
    \/ SettleOverBudget(s) \/ SettleError(s)
    \/ \E r \in results : r.sched = s /\ FenceError(r)

CallerStep(j) ==
    Enqueue(j) \/ CancelPending(j) \/ RequestCancel(j) \/ RequeueStuck(j) \/ PurgeClaim(j)

Next ==
    \/ \E j \in Jobs : CallerStep(j)
    \/ \E s \in Owners :
          \/ \E j \in Jobs : Dequeue(s, j) \/ ReapScan(s, j) \/ OrphanScan(s, j)
          \/ PollStep(s) \/ PollFault(s) \/ PoolStep(s) \/ DrainStep(s) \/ DrainFault(s)
          \/ Crash(s) \/ ClosePool(s) \/ HeartbeatExpires(s) \/ Heartbeat(s)
    \/ \E r \in runs : ExecutorLost(r)

Spec == Init /\ [][Next]_vars

(* A pass that started is finished, results are drained as they come, tasks*)
(* end.  The loop alternates dispatch and maintenance on every wake, so a  *)
(* job that is ready, stale or orphaned again and again gets its turn:     *)
(* strong fairness for the three scans.                                    *)
Fairness ==
    \A s \in Owners :
        /\ WF_vars(PollStep(s)) /\ WF_vars(PoolStep(s)) /\ WF_vars(DrainStep(s))
        /\ WF_vars(HeartbeatExpires(s) /\ up[s] = "down") /\ WF_vars(Heartbeat(s))
        /\ \A j \in Jobs : /\ SF_vars(Dequeue(s, j)) /\ SF_vars(ReapScan(s, j))
                          /\ SF_vars(OrphanScan(s, j))

FairSpec == Spec /\ Fairness

-----------------------------------------------------------------------------
(* Everything that remembers a dispatch: records, runs, results, and the   *)
(* threads that carry one.                                                 *)
DispatchOf(s, j, x) == [sched |-> s, job |-> j, attempt |-> x.attempt, epoch |-> x.epoch]

Holders ==
    {h \in UNION { {DispatchOf(s, j, book[s][j]) : s \in Owners, j \in Jobs},
                   {DispatchOf(s, j, retired[s][j]) : s \in Owners, j \in Jobs},
                   {DispatchOf(s, poll[s].job, poll[s]) : s \in Owners},
                   {DispatchOf(s, drain[s].job, drain[s]) : s \in Owners},
                   {DispatchOf(r.sched, r.job, r) : r \in runs \cup results} } :
       h.epoch # 0}

(* A claim epoch names one dispatch: whatever remembers it agrees on the   *)
(* scheduler, the job and the attempt, and a claim row under that epoch is *)
(* that scheduler's claim on that job.  This is what lets an equality test *)
(* on the epoch, in the lease book and in the fence, stand for "this very  *)
(* dispatch", across requeues, reclaims, swept claims and crashes.         *)
EpochNamesOneDispatch ==
    /\ \A g, h \in Holders : g.epoch = h.epoch => g = h
    /\ \A h \in Holders, j \in Jobs :
          claims[j].epoch = h.epoch => j = h.job /\ claims[j].owner = h.sched

(* In-flight accounting: a slot the scheduler counts as taken belongs to a *)
(* dispatch that is about to be sent, still running, or reported and not   *)
(* yet drained; a slot nothing will free is capacity lost for good.        *)
SlotsBacked ==
    \A s \in Owners, j \in Jobs :
        book[s][j] # NoRecord =>
            \/ poll[s].job = j /\ poll[s].step \in {"tracked", "reap"}
            \/ \E r \in runs \cup results : r.sched = s /\ r.job = j

(* Every attempt that can still report has a record, live or retired, for  *)
(* the fence to check its result against.                                  *)
ReportsCanBeFenced ==
    \A r \in runs \cup results : TakenRecord(r.sched, r.job) # NoRecord

(* The in-flight book agrees with what is under way, both ways round.      *)
BookAgrees == SlotsBacked /\ ReportsCanBeFenced

(* Two workers never run the same job at once.                             *)
ExclusiveExecution ==
    \A q, r \in runs : q.job = r.job => q = r

(* A job is retried at most max_retries times, and then the dead-letter    *)
(* queue holds it once, whoever reports its last failure; it ended Dead.   *)
RetriesWithinBudget ==
    \A j \in Jobs :
        /\ jobs[j].retry <= MaxRetries
        /\ dead[j] <= 1
        /\ dead[j] = 1 => archive[j].status = "Dead"

(* A settled result moves the job only if the job is still running the     *)
(* attempt, under the claim, that the result comes from.                   *)
SettlesOwnDispatch ==
    [][\A s \in Owners :
          LET d == drain[s] IN
          (d # NotSettling /\ drain'[s] = NotSettling /\ Alive(s)' /\ jobs'[d.job] # jobs[d.job]) =>
              /\ jobs[d.job].status = "Running" /\ jobs[d.job].retry = d.attempt
              /\ claims[d.job].epoch \in {0, d.epoch}]_vars

(* Every accepted job reaches an outcome, whatever faults it meets.        *)
EventuallySettled == \A j \in Jobs : IsLive(j) ~> IsArchived(j)

(* The job is Running with no claim and in nobody's hands, and what every  *)
(* scheduler remembers of it is an earlier attempt: each drops the timeout *)
(* it reaps as superseded.                                                 *)
Wedged(j) ==
    /\ jobs[j].status = "Running" /\ claims[j] = NoClaim /\ ~InHands(j)
    /\ \A s \in Owners : up[s] = "up" =>
          TakenRecord(s, j) # NoRecord /\ TakenRecord(s, j).attempt # jobs[j].retry

(* Every accepted job reaches an outcome, crashes of schedulers included;  *)
(* the one way to miss it is to stay Wedged.                               *)
SettledUnlessWedged == \A j \in Jobs : IsLive(j) ~> (IsArchived(j) \/ []Wedged(j))

(* Every slot taken is given back.                                         *)
SlotsFreed ==
    \A s \in Owners, j \in Jobs : book[s][j] # NoRecord ~> book[s][j] = NoRecord
=============================================================================
