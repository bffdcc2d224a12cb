--------------------------- MODULE DispatchProofs ---------------------------
(***************************************************************************)
(* The schedulers over the store, for any number of jobs and schedulers:   *)
(* they use it only through its transactions; the epoch of a claim names   *)
(* one dispatch whatever fails; and a job is in one pair of hands, crashes *)
(* and recoveries included, while no two reapers have it together.         *)
(***************************************************************************)
EXTENDS Dispatch, JobStoreProofs

(* A position in a pass, and an authorized result, name a job.             *)
PollsNameJobs ==
    \A s \in Owners :
        /\ poll[s].step # "idle" => poll[s].job \in Jobs
        /\ poll[s].step = "orphan" => poll[s].owner \in Owners
DrainsNameJobs ==
    \A s \in Owners : drain[s] = NotSettling \/ (drain[s].job \in Jobs /\ drain[s].kind \in Kinds)

(* The type of the schedulers, by what it is about.                        *)
PollPart == poll \in [Owners -> Position] /\ PollsNameJobs
DrainPart == drain \in [Owners -> Settling] /\ DrainsNameJobs
BookPart ==
    /\ book \in [Owners -> [Jobs -> Record]]
    /\ retired \in [Owners -> [Jobs -> Record]]
RestPart ==
    /\ runs \in SUBSET Run /\ results \in SUBSET Result
    /\ up \in [Owners -> {"up", "closing", "down"}] /\ fresh \in [Owners -> BOOLEAN]
    /\ faults \in Nat
SchedInv == PollPart /\ DrainPart /\ BookPart /\ RestPart

(* Whatever a scheduler, its pool or a caller does to the tables is one    *)
(* transaction of the store, or nothing.                                   *)
LEMMA TransitionIsStore ==
    ASSUME NEW j \in Jobs, NEW attempt, NEW kind \in Kinds, Transition(j, attempt, kind)
    PROVE  [StoreNext]_storeVars
<1>1. CASE kind = "Success"
  BY <1>1 DEF Transition, StoreNext
<1>2. CASE kind = "Failure"
  BY <1>2 DEF Transition, FailureTransition, StoreNext
<1>3. CASE kind = "Fatal"
  BY <1>3 DEF Transition, StoreNext
<1>4. CASE kind = "Cancelled"
  BY <1>4 DEF Transition, StoreNext
<1> QED BY <1>1, <1>2, <1>3, <1>4 DEF Kinds

(* Every action of the schedulers is a transaction of the store or leaves  *)
(* it alone, so that StoreNextInv applies.                                 *)
LEMMA DispatchUsesStore == SchedInv /\ [Next]_vars => [StoreNext]_storeVars
<1> SUFFICES ASSUME SchedInv, [Next]_vars PROVE [StoreNext]_storeVars
  OBVIOUS
<1>1. ASSUME NEW j \in Jobs, CallerStep(j) PROVE [StoreNext]_storeVars
  BY <1>1 DEF CallerStep, Enqueue, CancelPending, RequestCancel, RequeueStuck, PurgeClaim,
    StoreNext
<1>2. ASSUME NEW s \in Owners, NEW j \in Jobs,
     Dequeue(s, j) \/ ReapScan(s, j) \/ OrphanScan(s, j)
      PROVE  [StoreNext]_storeVars
  BY <1>2 DEF Dequeue, ReapScan, OrphanScan, StoreNext
<1>3. ASSUME NEW s \in Owners, PollStep(s) PROVE [StoreNext]_storeVars
  <2>0. /\ poll[s].step # "idle" => poll[s].job \in Jobs
        /\ poll[s].step = "orphan" => poll[s].owner \in Owners
    BY DEF SchedInv, PollPart, PollsNameJobs
  <2>1. CASE ClaimForDispatch(s)
    <3>1. poll[s].job \in Jobs /\ claim_execution(s, poll[s].job)
      BY <2>0, <2>1 DEF ClaimForDispatch
    <3> QED BY <3>1 DEF StoreNext
  <2>2. CASE AlreadyClaimed(s) \/ Track(s) \/ Send(s) \/ SendClosed(s) \/ TrackRescue(s) \/ ReapAuthorize(s)
    BY <2>2 DEF AlreadyClaimed, Track, Send, SendClosed, SendRefused, TrackRescue, ReapAuthorize
  <2>3. CASE ShedToDlq(s)
    <3>1. poll[s].job \in Jobs /\ dead_letter(poll[s].job)
      BY <2>0, <2>3 DEF ShedToDlq
    <3> QED BY <3>1 DEF StoreNext
  <2>4. CASE RollbackClaim(s)
    <3>1. poll[s].job \in Jobs /\ complete_execution(poll[s].job)
      BY <2>0, <2>4 DEF RollbackClaim
    <3> QED BY <3>1 DEF StoreNext
  <2>5. CASE RollbackReschedule(s)
    <3>1. poll[s].job \in Jobs /\ (reschedule(poll[s].job) \/ UNCHANGED storeVars)
      BY <2>0, <2>5 DEF RollbackReschedule
    <3> QED BY <3>1 DEF StoreNext
  <2>6. CASE Reclaim(s)
    <3>1. /\ poll[s].job \in Jobs /\ poll[s].owner \in Owners
          /\ reclaim_execution(poll[s].job, poll[s].owner, s) \/ UNCHANGED storeVars
      BY <2>0, <2>6 DEF Reclaim
    <3> QED BY <3>1 DEF StoreNext
  <2>7. CASE ReapSettle(s)
    <3>1. poll[s].job \in Jobs /\ FailureTransition(poll[s].job, poll[s].attempt)
      BY <2>0, <2>7 DEF ReapSettle
    <3> QED BY <3>1, TransitionIsStore DEF Transition, Kinds
  <2> QED BY <1>3, <2>1, <2>2, <2>3, <2>4, <2>5, <2>6, <2>7 DEF PollStep
<1>4. ASSUME NEW s \in Owners, PollFault(s) PROVE [StoreNext]_storeVars
  <2>0. poll[s].step # "idle" => poll[s].job \in Jobs
    BY DEF SchedInv, PollPart, PollsNameJobs
  <2>1. CASE Defer(s)
    <3>1. poll[s].job \in Jobs /\ (reschedule(poll[s].job) \/ UNCHANGED storeVars)
      BY <2>0, <2>1 DEF Defer
    <3> QED BY <3>1 DEF StoreNext
  <2>2. CASE ClaimError(s) \/ Reject(s) \/ Shed(s) \/ SendFull(s) \/ RollbackError(s) \/ ReapFenceError(s) \/ ReapError(s)
    BY <2>2 DEF ClaimError, Reject, Shed, SendFull, SendRefused, RollbackError, ReapFenceError,
      ReapError
  <2>3. CASE ReapOverBudget(s)
    <3>1. poll[s].job \in Jobs /\ dead_letter(poll[s].job)
      BY <2>0, <2>3 DEF ReapOverBudget
    <3> QED BY <3>1 DEF StoreNext
  <2> QED BY <1>4, <2>1, <2>2, <2>3 DEF PollFault
<1>5. ASSUME NEW s \in Owners, PoolStep(s) PROVE [StoreNext]_storeVars
  BY <1>5 DEF PoolStep, Report
<1>6. ASSUME NEW s \in Owners, DrainStep(s) \/ DrainFault(s) PROVE [StoreNext]_storeVars
  <2>1. CASE Settle(s)
    <3>1. drain[s].job \in Jobs /\ drain[s].kind \in Kinds /\ Transition(drain[s].job, drain[s].attempt, drain[s].kind)
      BY <2>1 DEF Settle, SchedInv, DrainPart, DrainsNameJobs
    <3> QED BY <3>1, TransitionIsStore
  <2>2. CASE SettleOverBudget(s)
    <3>1. drain[s].job \in Jobs /\ dead_letter(drain[s].job)
      BY <2>2 DEF SettleOverBudget, SchedInv, DrainPart, DrainsNameJobs, NotSettling
    <3> QED BY <3>1 DEF StoreNext
  <2>3. CASE SettleError(s) \/ \E r \in results : Authorize(r) \/ FenceError(r)
    BY <2>3 DEF SettleError, Authorize, FenceError
  <2> QED BY <1>6, <2>1, <2>2, <2>3 DEF DrainStep, DrainFault
<1>7. ASSUME NEW s \in Owners, Crash(s) \/ ClosePool(s) \/ HeartbeatExpires(s) \/ Heartbeat(s)
      PROVE  [StoreNext]_storeVars
  BY <1>7 DEF Crash, ClosePool, HeartbeatExpires, Heartbeat
<1>8. ASSUME NEW r \in runs, ExecutorLost(r) PROVE [StoreNext]_storeVars
  BY <1>8 DEF ExecutorLost
<1>9. CASE UNCHANGED vars
  BY <1>9 DEF vars
<1> QED BY <1>1, <1>2, <1>3, <1>4, <1>5, <1>6, <1>7, <1>8, <1>9 DEF Next

(* The dispatch steps of the poll loop move on, or end the pass.           *)
LEMMA GotoKeeps ==
    ASSUME PollPart, NEW s \in Owners, NEW step \in (DispatchSteps \cup ReapSteps) \ {"orphan"},
           poll[s].step # "idle", Goto(s, step)
    PROVE  PollPart'
BY DEF PollPart, PollsNameJobs, Goto, Position

(* The pass ends.                                                          *)
LEMMA FinishKeeps ==
    ASSUME PollPart, NEW s \in Owners, Finish(s)
    PROVE  PollPart'
BY DEF PollPart, PollsNameJobs, Finish, Position, Idle

(* A claim is won: the position takes its epoch.                           *)
LEMMA ClaimKeeps ==
    ASSUME PollPart, NEW s \in Owners, NEW step \in {"claimed", "rescued"}, NEW e \in Nat,
           poll[s].step # "idle", poll' = [poll EXCEPT ![s].step = step, ![s].epoch = e]
    PROVE  PollPart'
<1> DEFINE p == [poll[s] EXCEPT !.step = step, !.epoch = e]
<1>1. /\ p \in Position /\ p.job = poll[s].job /\ p.step = step /\ step # "orphan"
      /\ poll' = [poll EXCEPT ![s] = p]
  BY DEF PollPart, Position, DispatchSteps, ReapSteps
<1> HIDE DEF p
<1> QED BY ZenonT(60), <1>1 DEF PollPart, PollsNameJobs

(* A pass begins: a dequeue, a stale job or an orphan found.               *)
LEMMA StartKeeps ==
    ASSUME PollPart, NEW s \in Owners, NEW j \in Jobs, NEW a \in Nat,
           \/ \E step \in {"dequeued", "reap"} :
                  poll' = [poll EXCEPT ![s] = [Idle EXCEPT !.step = step, !.job = j, !.attempt = a]]
           \/ \E o \in Owners :
                  poll' = [poll EXCEPT ![s] = [Idle EXCEPT !.step = "orphan", !.job = j,
                                                           !.attempt = a, !.owner = o]]
    PROVE  PollPart'
<1>1. ASSUME NEW p \in Position, p.job \in Jobs, p.step = "orphan" => p.owner \in Owners,
             poll' = [poll EXCEPT ![s] = p]
      PROVE  PollPart'
  BY <1>1 DEF PollPart, PollsNameJobs
<1>2. ASSUME NEW step \in {"dequeued", "reap"},
             poll' = [poll EXCEPT ![s] = [Idle EXCEPT !.step = step, !.job = j, !.attempt = a]]
      PROVE  PollPart'
  <2> DEFINE p == [Idle EXCEPT !.step = step, !.job = j, !.attempt = a]
  <2>1. p \in Position /\ p.job = j /\ p.step # "orphan"
    BY DEF Position, Idle, DispatchSteps, ReapSteps
  <2> QED BY <1>1, <1>2, <2>1
<1>3. ASSUME NEW o \in Owners,
             poll' = [poll EXCEPT ![s] = [Idle EXCEPT !.step = "orphan", !.job = j,
                                                      !.attempt = a, !.owner = o]]
      PROVE  PollPart'
  <2> DEFINE p == [Idle EXCEPT !.step = "orphan", !.job = j, !.attempt = a, !.owner = o]
  <2>1. p \in Position /\ p.job = j /\ p.owner = o
    BY DEF Position, Idle, DispatchSteps, ReapSteps
  <2> QED BY <1>1, <1>3, <2>1
<1> QED BY <1>2, <1>3

(* Most steps of the poll loop touch no other scheduler state.             *)
LEMMA PollOnlyKeeps ==
    ASSUME SchedInv, PollOnly, PollPart', faults' \in {faults, faults + 1}
    PROVE  SchedInv'
BY DEF SchedInv, PollOnly, DrainPart, DrainsNameJobs, BookPart, RestPart

(* release_dispatch only moves a record.                                   *)
LEMMA ReleaseKeeps ==
    ASSUME BookPart, NEW s \in Owners, NEW j \in Jobs, ReleaseDispatch(s, j)
    PROVE  BookPart'
BY DEF BookPart, ReleaseDispatch, TakenRecord, Record, NoRecord

(* Every action keeps the types of the schedulers.                         *)
LEMMA SchedStep == StoreInv /\ SchedInv /\ [Next]_vars => SchedInv'
<1> SUFFICES ASSUME StoreInv, SchedInv, [Next]_vars PROVE SchedInv'
  OBVIOUS
<1> USE DEF SchedInv
<1>0. minted \in Nat /\ jobs \in [Jobs -> Row]
  BY DEF StoreInv, StoreTypeOK
<1>1. ASSUME NEW j \in Jobs, CallerStep(j) PROVE SchedInv'
  <2>1. PollPart'
    BY <1>1 DEF CallerStep, Enqueue, CancelPending, RequestCancel, RequeueStuck, PurgeClaim,
      schedVars, Fault, PollPart, PollsNameJobs
  <2>2. DrainPart'
    BY <1>1 DEF CallerStep, Enqueue, CancelPending, RequestCancel, RequeueStuck, PurgeClaim,
      schedVars, Fault, DrainPart, DrainsNameJobs
  <2>3. BookPart'
    BY <1>1 DEF CallerStep, Enqueue, CancelPending, RequestCancel, RequeueStuck, PurgeClaim,
      schedVars, Fault, BookPart
  <2>4. RestPart'
    BY <1>1 DEF CallerStep, Enqueue, CancelPending, RequestCancel, RequeueStuck, PurgeClaim,
      schedVars, Fault, RestPart
  <2> QED BY <2>1, <2>2, <2>3, <2>4
<1>2. ASSUME NEW s \in Owners, NEW j \in Jobs, Dequeue(s, j) PROVE SchedInv'
  BY <1>0, <1>2, StartKeeps, PollOnlyKeeps DEF Dequeue, Row
<1>3. ASSUME NEW s \in Owners, NEW j \in Jobs, ReapScan(s, j) PROVE SchedInv'
  BY <1>0, <1>3, StartKeeps, PollOnlyKeeps DEF ReapScan, Row
<1>4. ASSUME NEW s \in Owners, NEW j \in Jobs, OrphanScan(s, j) PROVE SchedInv'
  BY <1>0, <1>4, StartKeeps, PollOnlyKeeps DEF OrphanScan, Row
<1>5. ASSUME NEW s \in Owners, ClaimForDispatch(s) PROVE SchedInv'
  <2>1. poll[s].step # "idle" /\ PollOnly /\ faults' = faults
    BY <1>5 DEF ClaimForDispatch
  <2>2. ASSUME minted' = minted + 1,
               poll' = [poll EXCEPT ![s].step = "claimed", ![s].epoch = minted']
        PROVE  PollPart'
    <3>1. minted' \in Nat
      BY <1>0, <2>2
    <3> QED BY <2>1, <2>2, <3>1, ClaimKeeps
  <2> QED BY <1>5, <2>1, <2>2, PollOnlyKeeps DEF ClaimForDispatch, claim_execution
<1>6. ASSUME NEW s \in Owners, AlreadyClaimed(s) PROVE SchedInv'
  BY <1>6, FinishKeeps, PollOnlyKeeps DEF AlreadyClaimed
<1>7. ASSUME NEW s \in Owners, ShedToDlq(s) PROVE SchedInv'
  BY <1>7, FinishKeeps, PollOnlyKeeps DEF ShedToDlq
<1>8. ASSUME NEW s \in Owners, Track(s) PROVE SchedInv'
  <2>1. PollPart'
    BY <1>8, GotoKeeps DEF Track, PollOnly, Fault, DispatchSteps, ReapSteps
  <2>2. DrainPart'
    BY <1>8 DEF Track, PollOnly, Fault, DrainPart, DrainsNameJobs
  <2>3. BookPart'
    BY <1>8 DEF Track, PollOnly, Fault, PollPart, BookPart, Record, NoRecord, Position,
      DispatchSteps, ReapSteps
  <2>4. RestPart'
    BY <1>8 DEF Track, PollOnly, Fault, RestPart
  <2> QED BY <2>1, <2>2, <2>3, <2>4
<1>9. ASSUME NEW s \in Owners, Send(s) PROVE SchedInv'
  <2>1. PollPart'
    BY <1>9, FinishKeeps DEF Send, PollOnly, Fault
  <2>2. DrainPart'
    BY <1>9 DEF Send, PollOnly, Fault, DrainPart, DrainsNameJobs
  <2>3. BookPart'
    BY <1>9 DEF Send, PollOnly, Fault, BookPart
  <2>4. RestPart'
    BY <1>9 DEF Send, PollOnly, Fault, PollPart, PollsNameJobs, Position, DispatchSteps,
      ReapSteps, RestPart, Run
  <2> QED BY <2>1, <2>2, <2>3, <2>4
<1>10. ASSUME NEW s \in Owners, SendClosed(s) PROVE SchedInv'
  <2>1. PollPart'
    BY <1>10, GotoKeeps DEF SendClosed, SendRefused, PollOnly, Fault, DispatchSteps, ReapSteps
  <2>2. DrainPart'
    BY <1>10 DEF SendClosed, SendRefused, PollOnly, Fault, DrainPart, DrainsNameJobs
  <2>3. BookPart'
    BY <1>10 DEF SendClosed, SendRefused, PollOnly, Fault, BookPart, Record, NoRecord
  <2>4. RestPart'
    BY <1>10 DEF SendClosed, SendRefused, PollOnly, Fault, RestPart
  <2> QED BY <2>1, <2>2, <2>3, <2>4
<1>11. ASSUME NEW s \in Owners, RollbackClaim(s) PROVE SchedInv'
  BY <1>11, GotoKeeps, PollOnlyKeeps DEF RollbackClaim, DispatchSteps, ReapSteps
<1>12. ASSUME NEW s \in Owners, RollbackReschedule(s) PROVE SchedInv'
  BY <1>12, FinishKeeps, PollOnlyKeeps DEF RollbackReschedule
<1>13. ASSUME NEW s \in Owners, Reclaim(s) PROVE SchedInv'
  <2>1. poll[s].step # "idle" /\ PollOnly /\ faults' = faults
    BY <1>13 DEF Reclaim
  <2>2. ASSUME minted' = minted + 1,
               poll' = [poll EXCEPT ![s].step = "rescued", ![s].epoch = minted']
        PROVE  PollPart'
    <3>1. minted' \in Nat
      BY <1>0, <2>2
    <3> QED BY <2>1, <2>2, <3>1, ClaimKeeps
  <2> QED BY <1>13, <2>1, <2>2, FinishKeeps, PollOnlyKeeps DEF Reclaim, reclaim_execution
<1>14. ASSUME NEW s \in Owners, TrackRescue(s) PROVE SchedInv'
  <2>1. PollPart'
    BY <1>14, GotoKeeps DEF TrackRescue, PollOnly, Fault, DispatchSteps, ReapSteps
  <2>2. DrainPart'
    BY <1>14 DEF TrackRescue, PollOnly, Fault, DrainPart, DrainsNameJobs
  <2>3. BookPart'
    BY <1>14 DEF TrackRescue, PollOnly, Fault, PollPart, BookPart, Record, NoRecord, Position,
      DispatchSteps, ReapSteps
  <2>4. RestPart'
    BY <1>14 DEF TrackRescue, PollOnly, Fault, RestPart
  <2> QED BY <2>1, <2>2, <2>3, <2>4
<1>15. ASSUME NEW s \in Owners, ReapAuthorize(s) PROVE SchedInv'
  <2>1. PollPart'
    BY <1>15, GotoKeeps, FinishKeeps DEF ReapAuthorize, PollOnly, Fault, ReleaseDispatch,
      DispatchSteps, ReapSteps
  <2>2. DrainPart'
    BY <1>15 DEF ReapAuthorize, PollOnly, Fault, ReleaseDispatch, DrainPart, DrainsNameJobs
  <2>3. BookPart'
    BY <1>15, ReleaseKeeps DEF ReapAuthorize, PollOnly, Fault, PollPart, PollsNameJobs
  <2>4. RestPart'
    BY <1>15 DEF ReapAuthorize, PollOnly, Fault, ReleaseDispatch, RestPart
  <2> QED BY <2>1, <2>2, <2>3, <2>4
<1>16. ASSUME NEW s \in Owners, ReapSettle(s) PROVE SchedInv'
  BY <1>16, FinishKeeps, PollOnlyKeeps DEF ReapSettle
<1>17. ASSUME NEW s \in Owners, Defer(s) PROVE SchedInv'
  BY <1>17, FinishKeeps, PollOnlyKeeps DEF Defer, Fault
<1>18. ASSUME NEW s \in Owners, ClaimError(s) PROVE SchedInv'
  BY <1>18, GotoKeeps, PollOnlyKeeps DEF ClaimError, DispatchSteps, ReapSteps, Fault
<1>19. ASSUME NEW s \in Owners, Reject(s) PROVE SchedInv'
  BY <1>19, GotoKeeps, PollOnlyKeeps DEF Reject, DispatchSteps, ReapSteps, Fault
<1>20. ASSUME NEW s \in Owners, Shed(s) PROVE SchedInv'
  BY <1>20, GotoKeeps, PollOnlyKeeps DEF Shed, DispatchSteps, ReapSteps, Fault
<1>21. ASSUME NEW s \in Owners, SendFull(s) PROVE SchedInv'
  <2>1. PollPart'
    BY <1>21, GotoKeeps DEF SendFull, SendRefused, PollOnly, Fault, DispatchSteps, ReapSteps
  <2>2. DrainPart'
    BY <1>21 DEF SendFull, SendRefused, PollOnly, Fault, DrainPart, DrainsNameJobs
  <2>3. BookPart'
    BY <1>21 DEF SendFull, SendRefused, PollOnly, Fault, BookPart, Record, NoRecord
  <2>4. RestPart'
    BY <1>21 DEF SendFull, SendRefused, PollOnly, Fault, RestPart
  <2> QED BY <2>1, <2>2, <2>3, <2>4
<1>22. ASSUME NEW s \in Owners, RollbackError(s) PROVE SchedInv'
  BY <1>22, FinishKeeps, PollOnlyKeeps DEF RollbackError, Fault
<1>23. ASSUME NEW s \in Owners, ReapFenceError(s) PROVE SchedInv'
  <2>1. PollPart'
    BY <1>23, GotoKeeps DEF ReapFenceError, PollOnly, Fault, ReleaseDispatch, DispatchSteps,
      ReapSteps
  <2>2. DrainPart'
    BY <1>23 DEF ReapFenceError, PollOnly, Fault, ReleaseDispatch, DrainPart, DrainsNameJobs
  <2>3. BookPart'
    BY <1>23, ReleaseKeeps DEF ReapFenceError, PollOnly, Fault, PollPart, PollsNameJobs
  <2>4. RestPart'
    BY <1>23 DEF ReapFenceError, PollOnly, Fault, ReleaseDispatch, RestPart
  <2> QED BY <2>1, <2>2, <2>3, <2>4
<1>24. ASSUME NEW s \in Owners, ReapOverBudget(s) PROVE SchedInv'
  BY <1>24, FinishKeeps, PollOnlyKeeps DEF ReapOverBudget, Fault
<1>25. ASSUME NEW s \in Owners, ReapError(s) PROVE SchedInv'
  BY <1>25, FinishKeeps, PollOnlyKeeps DEF ReapError, Fault
<1>26. ASSUME NEW s \in Owners, Settle(s) PROVE SchedInv'
  <2>1. PollPart'
    BY <1>26 DEF Settle, SettledDrain, Fault, PollPart, PollsNameJobs
  <2>2. DrainPart'
    BY <1>26 DEF Settle, SettledDrain, Fault, DrainPart, DrainsNameJobs, Settling, NotSettling
  <2>3. BookPart'
    BY <1>26 DEF Settle, SettledDrain, Fault, BookPart
  <2>4. RestPart'
    BY <1>26 DEF Settle, SettledDrain, Fault, RestPart
  <2> QED BY <2>1, <2>2, <2>3, <2>4
<1>27. ASSUME NEW s \in Owners, SettleOverBudget(s) PROVE SchedInv'
  <2>1. PollPart'
    BY <1>27 DEF SettleOverBudget, SettledDrain, Fault, PollPart, PollsNameJobs
  <2>2. DrainPart'
    BY <1>27 DEF SettleOverBudget, SettledDrain, Fault, DrainPart, DrainsNameJobs, Settling,
      NotSettling
  <2>3. BookPart'
    BY <1>27 DEF SettleOverBudget, SettledDrain, Fault, BookPart
  <2>4. RestPart'
    BY <1>27 DEF SettleOverBudget, SettledDrain, Fault, RestPart
  <2> QED BY <2>1, <2>2, <2>3, <2>4
<1>28. ASSUME NEW s \in Owners, SettleError(s) PROVE SchedInv'
  <2>1. PollPart'
    BY <1>28 DEF SettleError, SettledDrain, Fault, PollPart, PollsNameJobs
  <2>2. DrainPart'
    BY <1>28 DEF SettleError, SettledDrain, Fault, DrainPart, DrainsNameJobs, Settling,
      NotSettling
  <2>3. BookPart'
    BY <1>28 DEF SettleError, SettledDrain, Fault, BookPart
  <2>4. RestPart'
    BY <1>28 DEF SettleError, SettledDrain, Fault, RestPart
  <2> QED BY <2>1, <2>2, <2>3, <2>4
<1>29. ASSUME NEW s \in Owners, Crash(s) PROVE SchedInv'
  <2>1. PollPart'
    BY <1>29, FinishKeeps DEF Crash, Fault, Finish
  <2>2. DrainPart'
    BY <1>29 DEF Crash, Fault, DrainPart, DrainsNameJobs, Settling, NotSettling
  <2>3. BookPart'
    BY <1>29 DEF Crash, Fault, BookPart, Record, NoRecord
  <2>4. RestPart'
    BY <1>29 DEF Crash, Fault, RestPart
  <2> QED BY <2>1, <2>2, <2>3, <2>4
<1>30. ASSUME NEW s \in Owners, ClosePool(s) PROVE SchedInv'
  <2>1. PollPart'
    BY <1>30 DEF ClosePool, Fault, PollPart, PollsNameJobs
  <2>2. DrainPart'
    BY <1>30 DEF ClosePool, Fault, DrainPart, DrainsNameJobs
  <2>3. BookPart'
    BY <1>30 DEF ClosePool, Fault, BookPart
  <2>4. RestPart'
    BY <1>30 DEF ClosePool, Fault, RestPart
  <2> QED BY <2>1, <2>2, <2>3, <2>4
<1>31. ASSUME NEW s \in Owners, HeartbeatExpires(s) PROVE SchedInv'
  <2>1. PollPart'
    BY <1>31 DEF HeartbeatExpires, Fault, PollPart, PollsNameJobs
  <2>2. DrainPart'
    BY <1>31 DEF HeartbeatExpires, Fault, DrainPart, DrainsNameJobs
  <2>3. BookPart'
    BY <1>31 DEF HeartbeatExpires, Fault, BookPart
  <2>4. RestPart'
    BY <1>31 DEF HeartbeatExpires, Fault, RestPart
  <2> QED BY <2>1, <2>2, <2>3, <2>4
<1>32. ASSUME NEW s \in Owners, Heartbeat(s) PROVE SchedInv'
  <2>1. PollPart'
    BY <1>32 DEF Heartbeat, Fault, PollPart, PollsNameJobs
  <2>2. DrainPart'
    BY <1>32 DEF Heartbeat, Fault, DrainPart, DrainsNameJobs
  <2>3. BookPart'
    BY <1>32 DEF Heartbeat, Fault, BookPart
  <2>4. RestPart'
    BY <1>32 DEF Heartbeat, Fault, RestPart
  <2> QED BY <2>1, <2>2, <2>3, <2>4
<1>33. ASSUME NEW r \in runs, NEW kind \in Kinds, Report(r, kind) PROVE SchedInv'
  <2>1. PollPart'
    BY <1>33 DEF Report, PollPart, PollsNameJobs
  <2>2. DrainPart'
    BY <1>33 DEF Report, DrainPart, DrainsNameJobs
  <2>3. BookPart'
    BY <1>33 DEF Report, BookPart
  <2>4. RestPart'
    BY <1>33 DEF Report, RestPart, Run, Result
  <2> QED BY <2>1, <2>2, <2>3, <2>4
<1>34. ASSUME NEW r \in runs, ExecutorLost(r) PROVE SchedInv'
  <2>1. PollPart'
    BY <1>34 DEF ExecutorLost, Fault, PollPart, PollsNameJobs
  <2>2. DrainPart'
    BY <1>34 DEF ExecutorLost, Fault, DrainPart, DrainsNameJobs
  <2>3. BookPart'
    BY <1>34 DEF ExecutorLost, Fault, BookPart
  <2>4. RestPart'
    BY <1>34 DEF ExecutorLost, Fault, RestPart
  <2> QED BY <2>1, <2>2, <2>3, <2>4
<1>35. ASSUME NEW r \in results, Authorize(r) PROVE SchedInv'
  <2>1. PollPart'
    BY <1>35 DEF Authorize, Take, PollPart, PollsNameJobs
  <2>2. DrainPart'
    BY <1>35 DEF Authorize, Take, DrainPart, RestPart, DrainsNameJobs, Settling, NotSettling,
      Result
  <2>3. BookPart'
    BY <1>35, ReleaseKeeps DEF Authorize, Take, RestPart, Result
  <2>4. RestPart'
    BY <1>35 DEF Authorize, Take, RestPart
  <2> QED BY <2>1, <2>2, <2>3, <2>4
<1>36. ASSUME NEW r \in results, FenceError(r) PROVE SchedInv'
  <2>1. PollPart'
    BY <1>36 DEF FenceError, Take, Fault, PollPart, PollsNameJobs
  <2>2. DrainPart'
    BY <1>36 DEF FenceError, Take, Fault, DrainPart, RestPart, DrainsNameJobs, Settling,
      NotSettling, Result
  <2>3. BookPart'
    BY <1>36, ReleaseKeeps DEF FenceError, Take, Fault, RestPart, Result
  <2>4. RestPart'
    BY <1>36 DEF FenceError, Take, Fault, RestPart
  <2> QED BY <2>1, <2>2, <2>3, <2>4
<1>37. CASE UNCHANGED vars
  BY <1>37 DEF vars, schedVars, PollPart, PollsNameJobs, DrainPart, DrainsNameJobs, BookPart,
    RestPart
<1>38. ASSUME NEW s \in Owners, PollStep(s) PROVE SchedInv'
  BY <1>38, <1>5, <1>6, <1>7, <1>8, <1>9, <1>10, <1>11, <1>12, <1>13, <1>14, <1>15, <1>16
    DEF PollStep
<1>39. ASSUME NEW s \in Owners, PollFault(s) PROVE SchedInv'
  BY <1>39, <1>17, <1>18, <1>19, <1>20, <1>21, <1>22, <1>23, <1>24, <1>25 DEF PollFault
<1>40. ASSUME NEW s \in Owners, PoolStep(s) \/ DrainStep(s) \/ DrainFault(s) PROVE SchedInv'
  BY <1>40, <1>33, <1>35, <1>36, <1>26, <1>27, <1>28 DEF PoolStep, DrainStep, DrainFault
<1> HIDE DEF SchedInv
<1> QED BY <1>1, <1>2, <1>3, <1>4, <1>29, <1>30, <1>31, <1>32, <1>34, <1>37, <1>38, <1>39,
  <1>40 DEF Next

(* Every scheduler starts idle.                                            *)
LEMMA SchedInitInv == Init => SchedInv
BY NoneAssumption DEF Init, SchedInv, PollPart, PollsNameJobs, DrainPart, DrainsNameJobs,
  BookPart, RestPart,
   Position, Idle, Settling, NotSettling, Record, NoRecord

(* The store's inductive invariant and the schedulers' types hold          *)
(* together.                                                               *)
LEMMA DispatchInvariant == Spec => [](StoreInv /\ SchedInv)
<1>1. Init => StoreInv /\ SchedInv
  BY StoreInitInv, SchedInitInv DEF Init
<1>2. StoreInv /\ SchedInv /\ [Next]_vars => (StoreInv /\ SchedInv)'
  BY DispatchUsesStore, StoreNextInv, SchedStep
<1> QED BY <1>1, <1>2, PTL DEF Spec

(* The type invariant, for any number of schedulers and jobs.              *)
THEOREM DispatchTypeCorrect == Spec => []TypeOK
<1>1. StoreInv /\ SchedInv => TypeOK
  BY DEF StoreInv, SchedInv, PollPart, DrainPart, BookPart, RestPart, TypeOK, SchedTypeOK
<1> QED BY <1>1, DispatchInvariant, PTL

(* The schedulers, their pools and the callers of the queue use the store  *)
(* only through its transactions, so that what holds of the store under    *)
(* any callers holds of the running system.                                *)
THEOREM DispatchImplementsStore == Spec => StoreSpec
<1>1. Init => StoreInit
  BY DEF Init
<1>2. StoreInv /\ SchedInv /\ [Next]_vars => [StoreNext]_storeVars
  BY DispatchUsesStore
<1> QED BY <1>1, <1>2, DispatchInvariant, PTL DEF Spec, StoreSpec

(* Through crashes, lost executors, false timeouts and storage errors, an  *)
(* archived outcome is final, no accepted job vanishes, and a job is never *)
(* both live and archived.                                                 *)
THEOREM OutcomesAreFinal == Spec => TerminalIsFinal /\ NeverVanishes /\ []LiveXorArchived
BY DispatchImplementsStore, TerminalIsFinalAlways, NeverVanishesAlways, LiveXorArchivedAlways

-----------------------------------------------------------------------------
(* Epochs.  Who remembers a dispatch, as a predicate.                      *)
Holds(h) ==
    /\ h.epoch # 0
    /\ \/ \E s \in Owners, j \in Jobs :
              h = DispatchOf(s, j, book[s][j]) \/ h = DispatchOf(s, j, retired[s][j])
       \/ \E s \in Owners :
              h = DispatchOf(s, poll[s].job, poll[s]) \/ h = DispatchOf(s, drain[s].job, drain[s])
       \/ \E r \in runs \cup results : h = DispatchOf(r.sched, r.job, r)

(* The set of the property and the predicate are the same.                 *)
LEMMA HoldersHold == \A h : h \in Holders <=> Holds(h)
BY DEF Holders, Holds

(* Every remembered epoch has been minted, and is of a scheduler's.        *)
EpochsMinted == \A h : Holds(h) => h.epoch \in 1..minted
EpochInv == EpochsMinted /\ EpochNamesOneDispatch

(* A step after which nobody remembers what nobody remembered before, and  *)
(* at which no claim is written.                                           *)
LEMMA NothingNew ==
    ASSUME StoreInv, SchedInv, EpochInv, minted' = minted,
           \A j \in Jobs : claims'[j] \in {claims[j], NoClaim},
           \A h : Holds(h)' => Holds(h)
    PROVE  EpochInv'
<1>1. EpochsMinted'
  BY DEF EpochInv, EpochsMinted
<1>2. \A g, h : Holds(g)' /\ Holds(h)' /\ g.epoch = h.epoch => g = h
  BY HoldersHold DEF EpochInv, EpochNamesOneDispatch
<1>3. ASSUME NEW h, Holds(h)', NEW j \in Jobs, claims'[j].epoch = h.epoch
      PROVE  j = h.job /\ claims'[j].owner = h.sched
  <2>1. Holds(h) /\ h.epoch # 0
    BY <1>3 DEF Holds
  <2>2. claims'[j] = claims[j]
    BY <1>3, <2>1 DEF NoClaim
  <2> QED BY <1>3, <2>1, <2>2, HoldersHold DEF EpochInv, EpochNamesOneDispatch
<1>4. EpochNamesOneDispatch'
  <2>1. \A h : (h \in Holders)' => Holds(h)'
    BY DEF Holders, Holds
  <2> QED BY <1>2, <1>3, <2>1 DEF EpochNamesOneDispatch
<1> QED BY <1>1, <1>4 DEF EpochInv

(* A step that writes a claim under a new epoch, and remembers it.         *)
LEMMA MintedForOne ==
    ASSUME StoreInv, SchedInv, EpochInv, NEW g, NEW j \in Jobs, minted' = minted + 1,
           g.job = j, g.epoch = minted',
           claims' = [claims EXCEPT ![j] = [owner |-> g.sched, epoch |-> minted']],
           \A h : Holds(h)' => Holds(h) \/ h = g
    PROVE  EpochInv'
<1>0. /\ minted \in Nat /\ claims \in [Jobs -> Claim]
      /\ \A k \in Jobs : claims[k].epoch \in 0..minted
      /\ \A h : Holds(h) => h.epoch \in 1..minted
  BY DEF StoreInv, StoreTypeOK, ClaimEpochsDistinct, EpochInv, EpochsMinted
<1>1. EpochsMinted'
  BY <1>0 DEF EpochsMinted
<1>2. \A f, h : Holds(f)' /\ Holds(h)' /\ f.epoch = h.epoch => f = h
  BY <1>0, HoldersHold DEF EpochInv, EpochNamesOneDispatch
<1>3. ASSUME NEW h, Holds(h)', NEW k \in Jobs, claims'[k].epoch = h.epoch
      PROVE  k = h.job /\ claims'[k].owner = h.sched
  <2>1. CASE h = g
    BY <1>0, <1>3, <2>1 DEF Claim
  <2>2. CASE Holds(h)
    <3>1. k # j
      BY <1>0, <1>3, <2>2 DEF Claim
    <3>2. claims'[k] = claims[k]
      BY <1>0, <3>1
    <3> QED BY <1>3, <2>2, <3>2, HoldersHold DEF EpochInv, EpochNamesOneDispatch
  <2> QED BY <1>3, <2>1, <2>2
<1>4. EpochNamesOneDispatch'
  <2>1. \A h : (h \in Holders)' => Holds(h)'
    BY DEF Holders, Holds
  <2> QED BY <1>2, <1>3, <2>1 DEF EpochNamesOneDispatch
<1> QED BY <1>1, <1>4 DEF EpochInv

(* A poll loop that moves on under the epoch it has, or under none.        *)
PollKept ==
    \A t \in Owners : \/ poll'[t].epoch = 0
                      \/ /\ poll'[t].job = poll[t].job
                         /\ poll'[t].attempt = poll[t].attempt /\ poll'[t].epoch = poll[t].epoch

(* What everything else may do: forget, or pass on what is remembered.     *)
Forgets ==
    /\ \A t \in Owners, j \in Jobs :
           /\ book'[t][j] = book[t][j] \/ book'[t][j].epoch = 0 \/ Holds(DispatchOf(t, j, book'[t][j]))
           /\ retired'[t][j] = retired[t][j] \/ retired'[t][j].epoch = 0
                 \/ Holds(DispatchOf(t, j, retired'[t][j]))
    /\ \A t \in Owners : drain'[t] = drain[t] \/ drain'[t].epoch = 0 \/ Holds(DispatchOf(t, drain'[t].job, drain'[t]))
    /\ \A r \in runs' \cup results' : \/ r \in runs \cup results \/ r.epoch = 0
                                    \/ Holds(DispatchOf(r.sched, r.job, r))

(* If everyone only forgets or passes on, nothing new is remembered.       *)
LEMMA ForgetsKeeps ==
    ASSUME SchedInv, PollKept, Forgets PROVE \A h : Holds(h)' => Holds(h)
<1> SUFFICES ASSUME NEW h, Holds(h)' PROVE Holds(h)
  OBVIOUS
<1>1. ASSUME NEW t \in Owners, NEW j \in Jobs,
             h = DispatchOf(t, j, book'[t][j]) \/ h = DispatchOf(t, j, retired'[t][j])
      PROVE  Holds(h)
  <2>1. h.epoch # 0
    BY DEF Holds
  <2>2. CASE h = DispatchOf(t, j, book'[t][j])
    <3>1. book'[t][j].epoch # 0
      BY <2>1, <2>2 DEF DispatchOf
    <3> QED BY <2>1, <2>2, <3>1 DEF Forgets, Holds
  <2>3. CASE h = DispatchOf(t, j, retired'[t][j])
    <3>1. retired'[t][j].epoch # 0
      BY <2>1, <2>3 DEF DispatchOf
    <3> QED BY <2>1, <2>3, <3>1 DEF Forgets, Holds
  <2> QED BY <1>1, <2>2, <2>3
<1>2. ASSUME NEW t \in Owners, h = DispatchOf(t, poll'[t].job, poll'[t]) PROVE Holds(h)
  <2>1. DispatchOf(t, poll'[t].job, poll'[t]) = DispatchOf(t, poll[t].job, poll[t])
    BY <1>2 DEF PollKept, Holds, DispatchOf
  <2> QED BY <1>2, <2>1 DEF Holds
<1>3. ASSUME NEW t \in Owners, h = DispatchOf(t, drain'[t].job, drain'[t]) PROVE Holds(h)
  <2>1. h.epoch # 0 /\ drain'[t].epoch # 0
    BY <1>3 DEF Holds, DispatchOf
  <2> QED BY <1>3, <2>1 DEF Forgets, Holds
<1>4. ASSUME NEW r \in runs' \cup results', h = DispatchOf(r.sched, r.job, r) PROVE Holds(h)
  <2>1. r.epoch # 0
    BY <1>4 DEF Holds, DispatchOf
  <2> QED BY <1>4, <2>1 DEF Forgets, Holds
<1> QED BY <1>1, <1>2, <1>3, <1>4 DEF Holds

(* What a released record becomes: the retired one, which it may be.       *)
LEMMA ReleaseForgets ==
    ASSUME SchedInv, NEW s \in Owners, NEW j \in Jobs, ReleaseDispatch(s, j)
    PROVE  \A t \in Owners, k \in Jobs :
               /\ book'[t][k] = book[t][k] \/ book'[t][k].epoch = 0
               /\ \/ retired'[t][k] = retired[t][k] \/ retired'[t][k].epoch = 0
                  \/ Holds(DispatchOf(t, k, retired'[t][k]))
<1>1. ASSUME NEW t \in Owners, NEW k \in Jobs, retired'[t][k] # retired[t][k],
     retired'[t][k].epoch # 0
      PROVE  Holds(DispatchOf(t, k, retired'[t][k]))
  <2>1. t = s /\ k = j /\ retired'[t][k] = book[t][k]
    BY <1>1 DEF ReleaseDispatch, TakenRecord, SchedInv, BookPart
  <2>2. DispatchOf(t, k, book[t][k]).epoch # 0
    BY <1>1, <2>1 DEF DispatchOf
  <2> QED BY <2>1, <2>2 DEF Holds
<1> QED BY <1>1 DEF ReleaseDispatch, SchedInv, BookPart, NoRecord

(* Every action keeps the meaning of epochs: two mint one, each for the    *)
(* job it claims, and the others forget or pass on.                        *)
LEMMA EpochStep == StoreInv /\ SchedInv /\ EpochInv /\ [Next]_vars => EpochInv'
<1> SUFFICES ASSUME StoreInv, SchedInv, EpochInv, [Next]_vars PROVE EpochInv'
  OBVIOUS
<1>a. /\ claims \in [Jobs -> Claim] /\ minted \in Nat
      /\ poll \in [Owners -> Position] /\ drain \in [Owners -> Settling]
      /\ \A s \in Owners : poll[s].step # "idle" => poll[s].job \in Jobs
      /\ \A r \in runs \cup results : r.sched \in Owners /\ r.job \in Jobs
  BY DEF StoreInv, StoreTypeOK, SchedInv, PollPart, PollsNameJobs, DrainPart, RestPart, Run,
    Result
<1>b. ASSUME PollKept, Forgets, minted' = minted,
             UNCHANGED storeVars \/ \E j \in Jobs : claims' = [claims EXCEPT ![j] = NoClaim] \/ claims' = claims
      PROVE  EpochInv'
  <2>1. \A j \in Jobs : claims'[j] \in {claims[j], NoClaim}
    BY <1>a, <1>b DEF storeVars
  <2> QED BY <1>b, <2>1, ForgetsKeeps, NothingNew
<1>c. ASSUME PollOnly PROVE Forgets
  BY <1>c DEF PollOnly, Forgets
<1>d. ASSUME NEW s \in Owners, Finish(s) \/ \E step : Goto(s, step) PROVE PollKept
  BY <1>a, <1>d DEF Finish, Goto, Idle, PollKept, Position
<1>e. ASSUME UNCHANGED poll PROVE PollKept
  BY <1>e DEF PollKept
<1>1. ASSUME NEW j \in Jobs, CallerStep(j) PROVE EpochInv'
  <2>1. PollKept /\ Forgets
    BY <1>1, <1>e DEF CallerStep, Enqueue, CancelPending, RequestCancel, RequeueStuck,
      PurgeClaim, schedVars, Forgets
  <2> QED BY <1>1, <1>b, <2>1 DEF CallerStep, Enqueue, CancelPending, RequestCancel,
    RequeueStuck, PurgeClaim,
                            enqueue, cancel_pending, request_cancel, requeue_stuck, purge_execution_claims, archive_job_row
<1>2. ASSUME NEW s \in Owners, NEW j \in Jobs,
     Dequeue(s, j) \/ ReapScan(s, j) \/ OrphanScan(s, j) PROVE EpochInv'
  <2>1. PollKept
    BY ZenonT(60), <1>a, <1>2 DEF Dequeue, ReapScan, OrphanScan, PollKept, Idle
  <2> QED BY <1>2, <1>b, <1>c, <2>1 DEF Dequeue, ReapScan, OrphanScan, dequeue, storeVars
<1>3. ASSUME NEW s \in Owners, ClaimForDispatch(s) PROVE EpochInv'
  <2> DEFINE g == DispatchOf(s, poll[s].job, [attempt |-> poll[s].attempt, epoch |-> minted'])
  <2>1. /\ poll[s].job \in Jobs /\ minted' = minted + 1 /\ PollOnly
        /\ claims' = [claims EXCEPT ![poll[s].job] = [owner |-> s, epoch |-> minted']]
        /\ poll' = [poll EXCEPT ![s].step = "claimed", ![s].epoch = minted']
    BY <1>a, <1>3 DEF ClaimForDispatch, claim_execution, storeVars
  <2>2. /\ \A t \in Owners \ {s} : poll'[t] = poll[t]
        /\ poll'[s].job = poll[s].job /\ poll'[s].attempt = poll[s].attempt /\ poll'[s].epoch = minted'
    BY <1>a, <2>1 DEF Position
  <2>3. DispatchOf(s, poll'[s].job, poll'[s]) = g
    BY <2>2 DEF DispatchOf
  <2>4. ASSUME NEW h, Holds(h)' PROVE Holds(h) \/ h = g
    <3> HIDE DEF g
    <3>1. ASSUME NEW t \in Owners, h = DispatchOf(t, poll'[t].job, poll'[t])
         PROVE Holds(h) \/ h = g
      BY <2>2, <2>3, <2>4, <3>1 DEF Holds
    <3> QED BY <2>1, <2>4, <3>1 DEF PollOnly, Holds
  <2>5. g.job = poll[s].job /\ g.epoch = minted' /\ g.sched = s
    BY DEF DispatchOf
  <2> HIDE DEF g
  <2> QED BY <2>1, <2>4, <2>5, MintedForOne
<1>4. ASSUME NEW s \in Owners, Reclaim(s), minted' # minted PROVE EpochInv'
  <2> DEFINE g == DispatchOf(s, poll[s].job, [attempt |-> poll[s].attempt, epoch |-> minted'])
  <2>1. /\ poll[s].job \in Jobs /\ minted' = minted + 1 /\ PollOnly
        /\ claims' = [claims EXCEPT ![poll[s].job] = [owner |-> s, epoch |-> minted']]
        /\ poll' = [poll EXCEPT ![s].step = "rescued", ![s].epoch = minted']
    BY <1>a, <1>4 DEF Reclaim, reclaim_execution, storeVars
  <2>2. /\ \A t \in Owners \ {s} : poll'[t] = poll[t]
        /\ poll'[s].job = poll[s].job /\ poll'[s].attempt = poll[s].attempt /\ poll'[s].epoch = minted'
    BY <1>a, <2>1 DEF Position
  <2>3. DispatchOf(s, poll'[s].job, poll'[s]) = g
    BY <2>2 DEF DispatchOf
  <2>4. ASSUME NEW h, Holds(h)' PROVE Holds(h) \/ h = g
    <3> HIDE DEF g
    <3>1. ASSUME NEW t \in Owners, h = DispatchOf(t, poll'[t].job, poll'[t])
         PROVE Holds(h) \/ h = g
      BY <2>2, <2>3, <2>4, <3>1 DEF Holds
    <3> QED BY <2>1, <2>4, <3>1 DEF PollOnly, Holds
  <2>5. g.job = poll[s].job /\ g.epoch = minted' /\ g.sched = s
    BY DEF DispatchOf
  <2> HIDE DEF g
  <2> QED BY <2>1, <2>4, <2>5, MintedForOne
<1>5. ASSUME NEW s \in Owners, Reclaim(s), minted' = minted PROVE EpochInv'
  <2>1. Finish(s) /\ UNCHANGED storeVars /\ PollOnly
    BY <1>a, <1>5 DEF Reclaim, reclaim_execution
  <2> QED BY <1>5, <1>b, <1>c, <1>d, <2>1
<1>6. ASSUME NEW s \in Owners,
     AlreadyClaimed(s) \/ ClaimError(s) \/ Reject(s) \/ Shed(s) \/ RollbackError(s) \/ ReapError(s) PROVE EpochInv'
  <2>1. PollKept /\ Forgets
    BY <1>6, <1>c, <1>d DEF AlreadyClaimed, ClaimError, Reject, Shed, RollbackError, ReapError
  <2>2. minted' = minted /\ (UNCHANGED storeVars \/ \E j \in Jobs : claims' = [claims EXCEPT ![j] = NoClaim] \/ claims' = claims)
    BY <1>a, <1>6 DEF AlreadyClaimed, ClaimError, Reject, Shed, RollbackError, ReapError,
      storeVars
  <2> QED BY <1>b, <2>1, <2>2
<1>7. ASSUME NEW s \in Owners, ShedToDlq(s) \/ RollbackClaim(s) \/ RollbackReschedule(s)
     PROVE EpochInv'
  <2>1. PollKept /\ Forgets
    BY <1>7, <1>c, <1>d DEF ShedToDlq, RollbackClaim, RollbackReschedule
  <2>2. minted' = minted /\ (UNCHANGED storeVars \/ \E j \in Jobs : claims' = [claims EXCEPT ![j] = NoClaim] \/ claims' = claims)
    BY <1>a, <1>7 DEF ShedToDlq, RollbackClaim, RollbackReschedule, storeVars, archive_job_row,
      complete_execution, dead_letter, reschedule
  <2> QED BY <1>b, <2>1, <2>2
<1>8. ASSUME NEW s \in Owners, ReapSettle(s) \/ Defer(s) \/ ReapOverBudget(s) PROVE EpochInv'
  <2>1. PollKept /\ Forgets
    BY <1>8, <1>c, <1>d DEF ReapSettle, Defer, ReapOverBudget
  <2>2. minted' = minted /\ (UNCHANGED storeVars \/ \E j \in Jobs : claims' = [claims EXCEPT ![j] = NoClaim] \/ claims' = claims)
    BY <1>a, <1>8 DEF ReapSettle, Defer, ReapOverBudget, storeVars, FailureTransition,
      archive_job_row, dead_letter, reschedule, retry
  <2> QED BY <1>b, <2>1, <2>2
<1>9. ASSUME NEW s \in Owners, Track(s) PROVE EpochInv'
  <2> DEFINE p == poll[s]
  <2>1. /\ book' = [book EXCEPT ![s][p.job] = [attempt |-> p.attempt, epoch |-> p.epoch]]
        /\ retired' = [retired EXCEPT ![s][p.job] = NoRecord]
        /\ UNCHANGED <<storeVars, drain, runs, results>> /\ p.job \in Jobs
    BY <1>a, <1>9 DEF Track
  <2>2. DispatchOf(s, p.job, book'[s][p.job]) = DispatchOf(s, p.job, p)
    BY <2>1 DEF DispatchOf, SchedInv, BookPart
  <2>3. ASSUME NEW t \in Owners, NEW j \in Jobs
        PROVE  book'[t][j] = book[t][j] \/ book'[t][j].epoch = 0 \/ Holds(DispatchOf(t, j, book'[t][j]))
    <3>1. CASE t = s /\ j = p.job /\ book'[t][j].epoch # 0
      <4>1. DispatchOf(t, j, book'[t][j]).epoch # 0
        BY <3>1 DEF DispatchOf
      <4> QED BY <2>2, <3>1, <4>1 DEF Holds
    <3>2. CASE t # s \/ j # p.job
      BY <2>1, <3>2 DEF SchedInv, BookPart
    <3> QED BY <3>1, <3>2
  <2>4. \A t \in Owners, j \in Jobs : retired'[t][j] = retired[t][j] \/ retired'[t][j].epoch = 0
    BY <2>1 DEF NoRecord, SchedInv, BookPart
  <2>5. Forgets
    BY <2>1, <2>3, <2>4 DEF Forgets
  <2>6. PollKept
    BY <1>9, <1>d DEF Track
  <2>7. minted' = minted /\ UNCHANGED storeVars
    BY <2>1 DEF storeVars
  <2> QED BY <1>b, <2>5, <2>6, <2>7
<1>10. ASSUME NEW s \in Owners, TrackRescue(s) PROVE EpochInv'
  <2> DEFINE p == poll[s]
  <2>1. /\ book' = [book EXCEPT ![s][p.job] = [attempt |-> p.attempt, epoch |-> p.epoch]]
        /\ retired' = [retired EXCEPT ![s][p.job] = NoRecord]
        /\ UNCHANGED <<storeVars, drain, runs, results>> /\ p.job \in Jobs
    BY <1>a, <1>10 DEF TrackRescue
  <2>2. DispatchOf(s, p.job, book'[s][p.job]) = DispatchOf(s, p.job, p)
    BY <2>1 DEF DispatchOf, SchedInv, BookPart
  <2>3. ASSUME NEW t \in Owners, NEW j \in Jobs
        PROVE  book'[t][j] = book[t][j] \/ book'[t][j].epoch = 0 \/ Holds(DispatchOf(t, j, book'[t][j]))
    <3>1. CASE t = s /\ j = p.job /\ book'[t][j].epoch # 0
      <4>1. DispatchOf(t, j, book'[t][j]).epoch # 0
        BY <3>1 DEF DispatchOf
      <4> QED BY <2>2, <3>1, <4>1 DEF Holds
    <3>2. CASE t # s \/ j # p.job
      BY <2>1, <3>2 DEF SchedInv, BookPart
    <3> QED BY <3>1, <3>2
  <2>4. \A t \in Owners, j \in Jobs : retired'[t][j] = retired[t][j] \/ retired'[t][j].epoch = 0
    BY <2>1 DEF NoRecord, SchedInv, BookPart
  <2>5. Forgets
    BY <2>1, <2>3, <2>4 DEF Forgets
  <2>6. PollKept
    BY <1>10, <1>d DEF TrackRescue
  <2>7. minted' = minted /\ UNCHANGED storeVars
    BY <2>1 DEF storeVars
  <2> QED BY <1>b, <2>5, <2>6, <2>7
<1>11. ASSUME NEW s \in Owners, Send(s) PROVE EpochInv'
  <2> DEFINE r == [sched |-> s, job |-> poll[s].job, attempt |-> poll[s].attempt, epoch |-> poll[s].epoch]
  <2>1. UNCHANGED <<storeVars, drain, book, retired, results>> /\ runs' = runs \cup {r} /\ Finish(s)
    BY <1>11 DEF Send
  <2>2. DispatchOf(r.sched, r.job, r) = r /\ r = DispatchOf(s, poll[s].job, poll[s])
    BY DEF DispatchOf
  <2>3. r.epoch = 0 \/ Holds(DispatchOf(r.sched, r.job, r))
    BY <2>2 DEF Holds
  <2> HIDE DEF r
  <2>4. Forgets
    BY <2>1, <2>3 DEF Forgets
  <2>5. PollKept
    BY <1>d, <2>1
  <2> QED BY <1>b, <2>1, <2>4, <2>5 DEF storeVars
<1>12. ASSUME NEW s \in Owners, SendClosed(s) \/ SendFull(s) PROVE EpochInv'
  <2>1. UNCHANGED <<storeVars, drain, runs, results>> /\ PollKept
    BY <1>12, <1>d DEF SendClosed, SendFull, SendRefused
  <2>2. Forgets
    BY <1>12, <1>a, <2>1 DEF SendClosed, SendFull, SendRefused, Forgets, NoRecord, SchedInv,
      BookPart
  <2> QED BY <1>b, <2>1, <2>2 DEF storeVars
<1>13. ASSUME NEW s \in Owners, ReapAuthorize(s) \/ ReapFenceError(s) PROVE EpochInv'
  <2>1. /\ UNCHANGED <<storeVars, drain, runs, results>> /\ poll[s].job \in Jobs
        /\ ReleaseDispatch(s, poll[s].job)
    BY <1>a, <1>13 DEF ReapAuthorize, ReapFenceError
  <2>2. Forgets
    BY <2>1, ReleaseForgets DEF Forgets
  <2>3. PollKept
    BY <1>13, <1>d DEF ReapAuthorize, ReapFenceError
  <2> QED BY <1>b, <2>1, <2>2, <2>3 DEF storeVars
<1>14. ASSUME NEW s \in Owners, Settle(s) \/ SettleOverBudget(s) \/ SettleError(s)
     PROVE EpochInv'
  <2>1. /\ UNCHANGED <<poll, book, retired, runs, results>> /\ SettledDrain(s)
    BY <1>14 DEF Settle, SettleOverBudget, SettleError
  <2>2. Forgets /\ PollKept
    BY <1>a, <1>e, <2>1 DEF Forgets, SettledDrain, NotSettling
  <2>3. minted' = minted /\ (UNCHANGED storeVars \/ \E j \in Jobs : claims' = [claims EXCEPT ![j] = NoClaim] \/ claims' = claims)
    <3>1. CASE SettleOverBudget(s) \/ SettleError(s)
      BY <3>1 DEF SettleOverBudget, SettleError, dead_letter, archive_job_row, storeVars,
        SchedInv, DrainPart, DrainsNameJobs, NotSettling
    <3>2. CASE Settle(s)
      <4>1. drain[s].job \in Jobs /\ drain[s].kind \in Kinds /\ Transition(drain[s].job, drain[s].attempt, drain[s].kind)
        BY <3>2 DEF Settle, SchedInv, DrainPart, DrainsNameJobs
      <4>2. ASSUME NEW j \in Jobs,
           complete(j) \/ retry(j) \/ dead_letter(j) \/ mark_cancelled(j)
            PROVE  minted' = minted /\ (claims' = [claims EXCEPT ![j] = NoClaim] \/ claims' = claims)
        BY <4>2 DEF complete, retry, dead_letter, mark_cancelled, archive_job_row
      <4>3. \/ UNCHANGED storeVars \/ complete(drain[s].job) \/ retry(drain[s].job)
            \/ dead_letter(drain[s].job) \/ mark_cancelled(drain[s].job)
        BY <4>1 DEF Transition, FailureTransition, Kinds
      <4> QED BY <4>1, <4>2, <4>3 DEF storeVars
    <3> QED BY <1>14, <3>1, <3>2
  <2> QED BY <1>b, <2>2, <2>3
<1>15. ASSUME NEW s \in Owners, Crash(s) PROVE EpochInv'
  <2>1. Forgets
    BY <1>a, <1>15 DEF Crash, Forgets, SchedInv, BookPart, NoRecord, NotSettling
  <2>2. PollKept
    BY <1>a, <1>15 DEF Crash, PollKept, Idle
  <2> QED BY <1>b, <1>15, <2>1, <2>2 DEF Crash, storeVars
<1>16. ASSUME NEW s \in Owners, ClosePool(s) \/ HeartbeatExpires(s) \/ Heartbeat(s)
     PROVE EpochInv'
  <2>1. UNCHANGED <<storeVars, poll, drain, book, retired, runs, results>>
    BY <1>16 DEF ClosePool, HeartbeatExpires, Heartbeat
  <2>2. Forgets
    BY <2>1 DEF Forgets
  <2> QED BY <1>b, <1>e, <2>1, <2>2 DEF storeVars
<1>17. ASSUME NEW r \in runs, NEW kind \in Kinds, Report(r, kind) PROVE EpochInv'
  <2> DEFINE q == [sched |-> r.sched, job |-> r.job, attempt |-> r.attempt, epoch |-> r.epoch, kind |-> kind]
  <2>1. /\ UNCHANGED <<storeVars, poll, drain, book, retired>>
        /\ runs' \cup results' \subseteq runs \cup results \cup {q}
    BY <1>17 DEF Report
  <2>2. DispatchOf(q.sched, q.job, q) = DispatchOf(r.sched, r.job, r) /\ q.epoch = r.epoch
    BY DEF DispatchOf
  <2>3. q.epoch = 0 \/ Holds(DispatchOf(q.sched, q.job, q))
    <3>1. DispatchOf(r.sched, r.job, r).epoch = r.epoch
      BY DEF DispatchOf
    <3> QED BY <2>2, <3>1 DEF Holds
  <2> HIDE DEF q
  <2>4. Forgets
    BY <2>1, <2>3 DEF Forgets
  <2> QED BY <1>b, <1>e, <2>1, <2>4 DEF storeVars
<1>18. ASSUME NEW r \in runs, ExecutorLost(r) PROVE EpochInv'
  <2>1. /\ UNCHANGED <<storeVars, poll, drain, book, retired, results>> /\ runs' \subseteq runs
    BY <1>18 DEF ExecutorLost
  <2>2. Forgets
    BY <2>1 DEF Forgets
  <2> QED BY <1>b, <1>e, <2>1, <2>2 DEF storeVars
<1>19. ASSUME NEW r \in results, Authorize(r) \/ FenceError(r) PROVE EpochInv'
  <2>1. /\ UNCHANGED <<storeVars, poll, runs>> /\ results' \subseteq results
        /\ ReleaseDispatch(r.sched, r.job) /\ r.sched \in Owners /\ r.job \in Jobs
        /\ \/ drain' = [drain EXCEPT ![r.sched] = Take(r)]
           \/ drain' = [drain EXCEPT ![r.sched] = NotSettling]
    BY <1>a, <1>19 DEF Authorize, FenceError
  <2>2. ASSUME NEW t \in Owners, drain'[t] # drain[t], drain'[t].epoch # 0
        PROVE  Holds(DispatchOf(t, drain'[t].job, drain'[t]))
    <3>1. t = r.sched /\ drain'[t] = Take(r)
      BY <1>a, <2>1, <2>2 DEF NotSettling
    <3>2. /\ DispatchOf(t, drain'[t].job, drain'[t]) = DispatchOf(r.sched, r.job, r)
          /\ DispatchOf(t, drain'[t].job, drain'[t]).epoch # 0
      BY <2>2, <3>1 DEF Take, DispatchOf
    <3> QED BY <3>2 DEF Holds
  <2>3. Forgets
    BY <2>1, <2>2, ReleaseForgets DEF Forgets
  <2> QED BY <1>b, <1>e, <2>1, <2>3 DEF storeVars
<1>20. CASE UNCHANGED vars
  <2>1. Forgets
    BY <1>20 DEF vars, schedVars, Forgets
  <2> QED BY <1>20, <1>b, <1>e, <2>1 DEF vars, schedVars, storeVars
<1>21. ASSUME NEW s \in Owners, PollStep(s) \/ PollFault(s) PROVE EpochInv'
  BY <1>21, <1>3, <1>4, <1>5, <1>6, <1>7, <1>8, <1>9, <1>10, <1>11, <1>12, <1>13 DEF PollStep,
    PollFault
<1>22. ASSUME NEW s \in Owners, PoolStep(s) \/ DrainStep(s) \/ DrainFault(s) PROVE EpochInv'
  BY <1>22, <1>14, <1>15, <1>16, <1>17, <1>18, <1>19 DEF PoolStep, DrainStep, DrainFault
<1> QED BY <1>1, <1>2, <1>14, <1>15, <1>16, <1>17, <1>18, <1>19, <1>20, <1>21, <1>22 DEF Next

(* The epoch of a claim stands for one dispatch, whatever fails: for any   *)
(* jobs and schedulers, any faults and any number of them, with timeouts   *)
(* that fire when they should not.                                         *)
THEOREM EpochNamesOneDispatchAlways == Spec => []EpochNamesOneDispatch
<1>1. Init => EpochInv
  <2> SUFFICES ASSUME Init PROVE EpochInv
    OBVIOUS
  <2>1. \A h : ~Holds(h)
    BY DEF Init, Holds, DispatchOf, NoRecord, Idle, NotSettling
  <2> QED BY <2>1, HoldersHold DEF EpochInv, EpochsMinted, EpochNamesOneDispatch
<1>2. EpochInv => EpochNamesOneDispatch
  BY DEF EpochInv
<1> QED BY <1>1, <1>2, EpochStep, DispatchInvariant, PTL DEF Spec

-----------------------------------------------------------------------------
(* One pair of hands.  A job that is Running is in the hands of one        *)
(* scheduler: in its poll loop, its pool, its result channel or its drain  *)
(* thread, or in those of one reaper; or nobody has it, because a process  *)
(* died, an executor was lost, or a write that should have settled it      *)
(* failed, and a reaper will find it.  This needs timeouts that tell the   *)
(* truth (AccurateDetection) and two things of the reapers, which the code *)
(* does not see to: no two of them have the same job in hand, and nobody   *)
(* requeues a job that one of them has.  Everything else may happen:       *)
(* crashes, lost executors, orphans recovered, stale jobs reaped, swept    *)
(* claims, failing writes, fences that err open.                           *)
Reaps(s, j) == poll[s].step \in ReapSteps /\ poll[s].job = j
SoleReaper == \A s, t \in Owners, j \in Jobs : Reaps(s, j) /\ Reaps(t, j) => s = t
RequeueApart == \A j \in Jobs : RequeueStuck(j) => \A s \in Owners : ~Reaps(s, j)

PollsOn(j) == {s \in Owners : poll[s].step # "idle" /\ poll[s].job = j}
DrainsOn(j) == {s \in Owners : drain[s].job = j}
RunsOn(j) == {r \in runs : r.job = j}
ResultsOn(j) == {r \in results : r.job = j}

(* The slots: an executor that is lost leaves its slot taken, so that what *)
(* is said of the other slots is said only if none is.                     *)
NoneLost == "lost" \notin Faults
NoSlot(j) == NoneLost => \A t \in Owners : book[t][j] = NoRecord
Booked(s, j, x) ==
    /\ x.epoch # 0
    /\ book[s][j] = [attempt |-> x.attempt, epoch |-> x.epoch]
    /\ NoneLost => \A t \in Owners \ {s} : book[t][j] = NoRecord

(* Nobody has the job; or exactly one has, at the attempt the row is at    *)
(* and, but for a reaper, under its claim, if the sweep has left it one.   *)
NobodyHas(j) ==
    /\ PollsOn(j) = {} /\ DrainsOn(j) = {} /\ RunsOn(j) = {} /\ ResultsOn(j) = {}
    /\ jobs[j].status = "Running" \/ claims[j] = NoClaim
    /\ NoSlot(j)

HasIts(s, j, x) ==
    /\ jobs[j].status = "Running" /\ jobs[j].retry = x.attempt
    /\ claims[j] \in {NoClaim, [owner |-> s, epoch |-> x.epoch]}

PollHas(s, j) ==
    /\ PollsOn(j) = {s} /\ DrainsOn(j) = {} /\ RunsOn(j) = {} /\ ResultsOn(j) = {}
    /\ jobs[j].status = "Running" /\ jobs[j].retry = poll[s].attempt
    /\ poll[s].step \in DispatchSteps => claims[j] \in {NoClaim, [owner |-> s, epoch |-> poll[s].epoch]}
    /\ poll[s].step \in {"dequeued", "reschedule", "shed"} => claims[j] = NoClaim
    /\ poll[s].step = "claimed" => poll[s].epoch # 0
    /\ poll[s].step = "tracked" => Booked(s, j, poll[s])
    /\ NoneLost /\ poll[s].step # "tracked" =>
          \A t \in Owners : book[t][j] = NoRecord \/ (t = s /\ poll[s].step = "reap")
RunHas(r, j) ==
    /\ PollsOn(j) = {} /\ DrainsOn(j) = {} /\ RunsOn(j) = {r} /\ ResultsOn(j) = {}
    /\ HasIts(r.sched, j, r) /\ Booked(r.sched, j, r)
ResultHas(r, j) ==
    /\ PollsOn(j) = {} /\ DrainsOn(j) = {} /\ RunsOn(j) = {} /\ ResultsOn(j) = {r}
    /\ HasIts(r.sched, j, r) /\ Booked(r.sched, j, r)
DrainHas(s, j) ==
    /\ PollsOn(j) = {} /\ DrainsOn(j) = {s} /\ RunsOn(j) = {} /\ ResultsOn(j) = {}
    /\ HasIts(s, j, drain[s]) /\ NoSlot(j)

InOnePairOfHands(j) ==
    \/ NobodyHas(j)
    \/ \E s \in Owners : PollHas(s, j) \/ DrainHas(s, j)
    \/ \E r \in runs : RunHas(r, j)
    \/ \E r \in results : ResultHas(r, j)

WithinBudget(j) ==
    /\ jobs[j].retry <= MaxRetries /\ dead[j] <= 1
    /\ dead[j] = 1 => archive[j].status = "Dead"

JobOK(j) == InOnePairOfHands(j) /\ WithinBudget(j)
OneHand == \A j \in Jobs : JobOK(j)

(* A scheduler that is down has nothing in hand, and only such a one is    *)
(* outside the heartbeat cutoff.                                           *)
DownIdle ==
    /\ \A s \in Owners : up[s] = "down" => poll[s].step = "idle" /\ drain[s].job = None
    /\ \A r \in runs : up[r.sched] # "down"
    /\ \A r \in results : up[r.sched] # "down"
    /\ \A s \in Owners : fresh[s] \/ up[s] = "down"

(* Whoever has the job is the one the invariant names.                     *)
HandsTell(j) ==
    /\ \A s \in PollsOn(j) : PollHas(s, j)
    /\ \A s \in DrainsOn(j) : DrainHas(s, j)
    /\ \A r \in RunsOn(j) : RunHas(r, j)
    /\ \A r \in ResultsOn(j) : ResultHas(r, j)
    /\ jobs[j].status # "Running" => NobodyHas(j) /\ claims[j] = NoClaim
    /\ PollsOn(j) = {} /\ DrainsOn(j) = {} /\ RunsOn(j) = {} /\ ResultsOn(j) = {} => NobodyHas(j)

(* So it does.                                                             *)
LEMMA WhoHas == ASSUME NEW j \in Jobs, InOnePairOfHands(j) PROVE HandsTell(j)
<1> USE DEF HandsTell
<1>1. CASE NobodyHas(j)
  BY <1>1 DEF NobodyHas
<1>2. ASSUME NEW s \in Owners, PollHas(s, j) PROVE HandsTell(j)
  BY <1>2 DEF PollHas
<1>3. ASSUME NEW s \in Owners, DrainHas(s, j) PROVE HandsTell(j)
  BY <1>3 DEF DrainHas, HasIts
<1>4. ASSUME NEW r \in runs, RunHas(r, j) PROVE HandsTell(j)
  BY <1>4 DEF RunHas, HasIts
<1>5. ASSUME NEW r \in results, ResultHas(r, j) PROVE HandsTell(j)
  BY <1>5 DEF ResultHas, HasIts
<1> QED BY <1>1, <1>2, <1>3, <1>4, <1>5 DEF InOnePairOfHands

(* A step that leaves a job where it is, but for its claim and its flag.   *)
LEMMA OtherJob ==
    ASSUME SchedInv, NEW k \in Jobs, JobOK(k),
           jobs'[k].status = jobs[k].status, jobs'[k].retry = jobs[k].retry,
           claims'[k] \in {claims[k], NoClaim}, archive'[k] = archive[k], dead'[k] = dead[k],
           \A t \in Owners : book'[t][k] = book[t][k],
           \A t \in Owners : t \in PollsOn(k) \/ t \in PollsOn(k)' => poll'[t] = poll[t],
           \A t \in Owners : t \in DrainsOn(k) \/ t \in DrainsOn(k)' => drain'[t] = drain[t],
           RunsOn(k)' = RunsOn(k), ResultsOn(k)' = ResultsOn(k)
    PROVE  JobOK(k)'
<1>0. PollsOn(k)' = PollsOn(k) /\ DrainsOn(k)' = DrainsOn(k) /\ WithinBudget(k)'
  BY DEF PollsOn, DrainsOn, WithinBudget, JobOK
<1>1. CASE NobodyHas(k)
  <2>1. NobodyHas(k)'
    BY <1>0, <1>1 DEF NobodyHas, NoSlot
  <2> QED BY <1>0, <2>1 DEF JobOK, InOnePairOfHands
<1>2. ASSUME NEW s \in Owners, PollHas(s, k) PROVE JobOK(k)'
  <2>1. PollHas(s, k)'
    <3>1. poll'[s] = poll[s]
      BY <1>2 DEF PollHas
    <3> QED BY <1>0, <1>2, <3>1 DEF PollHas, Booked
  <2> QED BY <1>0, <2>1 DEF JobOK, InOnePairOfHands
<1>3. ASSUME NEW s \in Owners, DrainHas(s, k) PROVE JobOK(k)'
  <2>1. DrainHas(s, k)'
    BY <1>0, <1>3 DEF DrainHas, HasIts, NoSlot, DrainsOn
  <2> QED BY <1>0, <2>1 DEF JobOK, InOnePairOfHands
<1>4. ASSUME NEW r \in runs, RunHas(r, k) PROVE JobOK(k)'
  <2>1. RunHas(r, k)' /\ r \in runs'
    BY <1>0, <1>4 DEF RunHas, HasIts, Booked, RunsOn, SchedInv, RestPart, Run
  <2> QED BY <1>0, <2>1 DEF JobOK, InOnePairOfHands
<1>5. ASSUME NEW r \in results, ResultHas(r, k) PROVE JobOK(k)'
  <2>1. ResultHas(r, k)' /\ r \in results'
    BY <1>0, <1>5 DEF ResultHas, HasIts, Booked, ResultsOn, SchedInv, RestPart, Result
  <2> QED BY <1>0, <2>1 DEF JobOK, InOnePairOfHands
<1> QED BY <1>1, <1>2, <1>3, <1>4, <1>5 DEF JobOK, InOnePairOfHands

(* The tables, as seen by the other jobs.                                  *)
OthersKept(j) ==
    \A k \in Jobs \ {j} : /\ jobs'[k] = jobs[k] /\ claims'[k] = claims[k]
                          /\ archive'[k] = archive[k] /\ dead'[k] = dead[k]

HasLeft(j) ==
    /\ jobs'[j].status # "Running" /\ claims'[j] = NoClaim
    /\ WithinBudget(j)' /\ OthersKept(j)

(* The transactions by which a job leaves the hands it was in.             *)
LEMMA JobLeaves ==
    ASSUME StoreInv, NEW j \in Jobs, WithinBudget(j), IsLive(j),
           \/ retry(j) /\ jobs[j].retry < MaxRetries
           \/ reschedule(j) /\ claims[j] = NoClaim
           \/ complete(j) \/ mark_cancelled(j) \/ dead_letter(j) \/ cancel_pending(j)
           \/ requeue_stuck(j)
    PROVE  HasLeft(j)
<1> USE DEF HasLeft
<1>0. /\ jobs \in [Jobs -> Row] /\ claims \in [Jobs -> Claim] /\ archive \in [Jobs -> ArchivedRow]
      /\ dead \in [Jobs -> Nat] /\ MaxRetries \in Nat /\ jobs[j].retry \in Nat /\ dead[j] \in Nat
  BY BoundsAssumption DEF StoreInv, StoreTypeOK, Row
<1>1. dead[j] = 0
  BY <1>0 DEF StoreInv, LiveXorArchived, WithinBudget, IsArchived
<1>2. CASE retry(j) /\ jobs[j].retry < MaxRetries
  BY <1>0, <1>1, <1>2 DEF retry, WithinBudget, OthersKept, Row
<1>3. CASE reschedule(j) /\ claims[j] = NoClaim
  BY <1>0, <1>1, <1>3 DEF reschedule, WithinBudget, OthersKept, Row
<1>5. CASE requeue_stuck(j)
  BY <1>0, <1>1, <1>5 DEF requeue_stuck, WithinBudget, OthersKept, Row
<1>4. ASSUME NEW st, archive_job_row(j, st),
     dead' = dead \/ (st = "Dead" /\ dead' = [dead EXCEPT ![j] = 1])
      PROVE  HasLeft(j)
  BY <1>0, <1>1, <1>4 DEF archive_job_row, WithinBudget, OthersKept, NoRow
<1> QED BY <1>0, <1>1, <1>2, <1>3, <1>4, <1>5 DEF complete, mark_cancelled, dead_letter,
  cancel_pending

(* The job that a step is about moves; every other stays where it is.      *)
LEMMA OthersStay ==
    ASSUME SchedInv, OneHand, NEW j \in Jobs, OthersKept(j), JobOK(j)',
           \A t \in Owners, k \in Jobs \ {j} : book'[t][k] = book[t][k],
           \A t \in Owners, k \in Jobs \ {j} :
               /\ t \in PollsOn(k) \/ t \in PollsOn(k)' => poll'[t] = poll[t]
               /\ t \in DrainsOn(k) \/ t \in DrainsOn(k)' => drain'[t] = drain[t],
           \A k \in Jobs \ {j} : RunsOn(k)' = RunsOn(k) /\ ResultsOn(k)' = ResultsOn(k)
    PROVE  OneHand'
<1>1. ASSUME NEW k \in Jobs \ {j} PROVE JobOK(k)'
  <2>1. JobOK(k) /\ k \in Jobs
    BY DEF OneHand
  <2> QED BY <1>1, <2>1, OtherJob DEF OthersKept
<1> QED BY <1>1 DEF OneHand

(* A poll loop's step on the job it has.                                   *)
LEMMA PollMovesJob ==
    ASSUME SchedInv, OneHand, NEW s \in Owners, NEW j \in Jobs, NEW p,
           j = poll[s].job \/ poll[s].step = "idle", p.job = j \/ p.step = "idle",
           poll' = [poll EXCEPT ![s] = p], OthersKept(j), JobOK(j)',
           \A t \in Owners, k \in Jobs \ {j} : book'[t][k] = book[t][k],
           drain' = drain, results' = results, \A k \in Jobs \ {j} : RunsOn(k)' = RunsOn(k)
    PROVE  OneHand'
<1>1. ASSUME NEW t \in Owners, NEW k \in Jobs \ {j}, t \in PollsOn(k) \/ t \in PollsOn(k)'
      PROVE  poll'[t] = poll[t]
  BY <1>1 DEF PollsOn, SchedInv, PollPart
<1>2. \A k \in Jobs : ResultsOn(k)' = ResultsOn(k)
  BY DEF ResultsOn
<1> QED BY <1>1, <1>2, OthersStay

(* Facts about the job a poll loop has, before the step.                   *)
LEMMA PollHasIt ==
    ASSUME SchedInv, OneHand, NEW s \in Owners, poll[s].step # "idle"
    PROVE  poll[s].job \in Jobs /\ PollHas(s, poll[s].job) /\ WithinBudget(poll[s].job)
<1>1. poll[s].job \in Jobs /\ s \in PollsOn(poll[s].job)
  BY DEF SchedInv, PollPart, PollsNameJobs, PollsOn
<1> QED BY <1>1, WhoHas DEF OneHand, JobOK, HandsTell

(* The poll loop lets the job go: it is nobody's.                          *)
LEMMA PollDropsJob ==
    ASSUME SchedInv, OneHand, NEW s \in Owners, NEW j \in Jobs, j = poll[s].job,
           PollHas(s, j), Finish(s), OthersKept(j), WithinBudget(j)',
           jobs'[j].status = "Running" \/ claims'[j] = NoClaim,
           NoSlot(j)', \A t \in Owners, k \in Jobs \ {j} : book'[t][k] = book[t][k],
           UNCHANGED <<drain, runs, results>>
    PROVE  OneHand'
<1>1. poll' = [poll EXCEPT ![s] = Idle] /\ poll \in [Owners -> Position]
  BY DEF Finish, SchedInv, PollPart
<1>2. PollsOn(j)' = {}
  BY <1>1 DEF PollHas, PollsOn, Idle
<1>3. DrainsOn(j)' = {} /\ RunsOn(j)' = {} /\ ResultsOn(j)' = {}
  BY DEF PollHas, DrainsOn, RunsOn, ResultsOn
<1>4. JobOK(j)'
  BY <1>2, <1>3 DEF JobOK, InOnePairOfHands, NobodyHas
<1>5. \A k \in Jobs : RunsOn(k)' = RunsOn(k)
  BY DEF RunsOn
<1> QED BY <1>1, <1>4, <1>5, PollMovesJob DEF Idle

(* The poll loop moves on with the job, outside the book.                  *)
LEMMA PollKeepsJob ==
    ASSUME StoreInv, SchedInv, OneHand, NEW s \in Owners, NEW j \in Jobs,
         j = poll[s].job,
           PollHas(s, j), WithinBudget(j), NEW step \in DispatchSteps \ {"tracked", "dequeued", "claimed"},
           poll[s].step \in DispatchSteps \ {"tracked"}, Goto(s, step), PollOnly, OthersKept(j),
           jobs'[j] = jobs[j], archive'[j] = archive[j], dead'[j] = dead[j],
           \/ claims'[j] = claims[j] /\ (step \in {"reschedule", "shed"} => claims[j] = NoClaim)
           \/ claims'[j] = NoClaim
    PROVE  OneHand'
<1> DEFINE p == [poll[s] EXCEPT !.step = step]
<1>1. /\ poll' = [poll EXCEPT ![s] = p] /\ poll \in [Owners -> Position]
      /\ p.job = j /\ p.step = step /\ p.attempt = poll[s].attempt /\ p.epoch = poll[s].epoch
  BY DEF Goto, SchedInv, PollPart, Position
<1> HIDE DEF p
<1>2. PollsOn(j)' = {s} /\ poll'[s] = p
  BY <1>1 DEF PollHas, PollsOn, DispatchSteps
<1>3. /\ DrainsOn(j)' = {} /\ RunsOn(j)' = {} /\ ResultsOn(j)' = {}
      /\ NoneLost => \A t \in Owners : book'[t][j] = NoRecord
  BY DEF PollHas, PollOnly, DrainsOn, RunsOn, ResultsOn, DispatchSteps
<1>4. PollHas(s, j)'
  BY <1>1, <1>2, <1>3 DEF PollHas, DispatchSteps
<1>5. JobOK(j)'
  BY <1>4 DEF JobOK, InOnePairOfHands, WithinBudget
<1>6. \A k \in Jobs : RunsOn(k)' = RunsOn(k)
  BY DEF PollOnly, RunsOn
<1> QED BY <1>1, <1>5, <1>6, PollMovesJob DEF PollOnly

(* A settle of the drain thread, or its failure, takes the job out of its  *)
(* hands.                                                                  *)
LEMMA DrainDropsJob ==
    ASSUME SchedInv, OneHand, NEW s \in Owners, NEW j \in Jobs, j = drain[s].job,
           DrainHas(s, j), OthersKept(j), WithinBudget(j)',
           jobs'[j].status = "Running" \/ claims'[j] = NoClaim,
           SettledDrain(s), UNCHANGED <<poll, book, runs, results>>
    PROVE  OneHand'
<1>1. drain' = [drain EXCEPT ![s] = NotSettling] /\ drain \in [Owners -> Settling] /\ None # j
  BY NoneAssumption DEF SettledDrain, SchedInv, DrainPart
<1>2. DrainsOn(j)' = {}
  BY <1>1 DEF DrainHas, DrainsOn, NotSettling
<1>3. PollsOn(j)' = {} /\ RunsOn(j)' = {} /\ ResultsOn(j)' = {} /\ NoSlot(j)'
  BY DEF DrainHas, PollsOn, RunsOn, ResultsOn, NoSlot
<1>4. JobOK(j)'
  BY <1>2, <1>3 DEF JobOK, InOnePairOfHands, NobodyHas
<1>5. ASSUME NEW t \in Owners, NEW k \in Jobs \ {j}, t \in DrainsOn(k) \/ t \in DrainsOn(k)'
      PROVE  drain'[t] = drain[t]
  BY <1>1, <1>5, NoneAssumption DEF DrainsOn, NotSettling
<1>6. \A k \in Jobs : RunsOn(k)' = RunsOn(k) /\ ResultsOn(k)' = ResultsOn(k)
  BY DEF RunsOn, ResultsOn
<1> QED BY <1>4, <1>5, <1>6, OthersStay

(* A job that looks stale and that no reaper has is nobody's.              *)
LEMMA StaleIsNobodys ==
    ASSUME AccurateDetection, SchedInv, OneHand, NEW j \in Jobs, LooksStale(j),
           \A s \in Owners : ~Reaps(s, j)
    PROVE  NobodyHas(j)
<1>1. PollsOn(j) = {}
  BY DEF LooksStale, InHands, PollsOn, Reaps, SchedInv, PollPart, Position
<1>2. DrainsOn(j) = {} /\ RunsOn(j) = {} /\ ResultsOn(j) = {}
  BY DEF LooksStale, InHands, DrainsOn, RunsOn, ResultsOn
<1> QED BY <1>1, <1>2, WhoHas DEF OneHand, JobOK, HandsTell

(* A job whose claim names a scheduler outside the heartbeat cutoff, and   *)
(* that no reaper has, is nobody's: its scheduler took it down with it.    *)
LEMMA OrphanIsNobodys ==
    ASSUME SchedInv, OneHand, DownIdle, NEW j \in Jobs, claims[j].owner \in Owners,
           ~fresh[claims[j].owner], \A s \in Owners : ~Reaps(s, j)
    PROVE  NobodyHas(j)
<1>0. claims[j] # NoClaim /\ up[claims[j].owner] = "down" /\ None # j
  BY NoneAssumption DEF NoClaim, DownIdle
<1>a. HandsTell(j)
  BY WhoHas DEF OneHand, JobOK
<1>1. PollsOn(j) = {}
  <2> SUFFICES ASSUME NEW s \in PollsOn(j) PROVE FALSE
    OBVIOUS
  <2>1. s \in Owners /\ PollHas(s, j) /\ poll[s].step # "idle" /\ poll[s].job = j
    BY <1>a DEF HandsTell, PollsOn
  <2>2. poll[s].step \in DispatchSteps
    BY <2>1 DEF Reaps, SchedInv, PollPart, Position
  <2>3. claims[j].owner = s
    BY <1>0, <2>1, <2>2 DEF PollHas
  <2> QED BY <1>0, <2>1, <2>3 DEF DownIdle
<1>2. DrainsOn(j) = {}
  BY <1>0, <1>a DEF HandsTell, DrainsOn, DrainHas, HasIts, DownIdle
<1>3. RunsOn(j) = {} /\ ResultsOn(j) = {}
  BY <1>0, <1>a DEF HandsTell, RunsOn, RunHas, ResultsOn, ResultHas, HasIts, DownIdle
<1> QED BY <1>a, <1>1, <1>2, <1>3 DEF HandsTell

(* A process that dies drops what it had in hand: it is nobody's.          *)
LEMMA CrashLeaves ==
    ASSUME SchedInv, OneHand, NEW s \in Owners, Crash(s)
    PROVE  OneHand'
<1>0. /\ poll \in [Owners -> Position] /\ drain \in [Owners -> Settling]
      /\ book \in [Owners -> [Jobs -> Record]]
  BY DEF SchedInv, PollPart, DrainPart, BookPart
<1>1. /\ poll' = [poll EXCEPT ![s] = Idle] /\ drain' = [drain EXCEPT ![s] = NotSettling]
      /\ book' = [book EXCEPT ![s] = [j \in Jobs |-> NoRecord]]
      /\ runs' = {r \in runs : r.sched # s} /\ results' = {r \in results : r.sched # s}
      /\ UNCHANGED storeVars
  BY DEF Crash
<1> SUFFICES ASSUME NEW k \in Jobs PROVE JobOK(k)'
  BY DEF OneHand
<1>2. JobOK(k) /\ WithinBudget(k)' /\ None # k
  BY <1>1, NoneAssumption DEF OneHand, JobOK, WithinBudget, storeVars
<1>3. /\ PollsOn(k)' = PollsOn(k) \ {s} /\ DrainsOn(k)' = DrainsOn(k) \ {s}
      /\ RunsOn(k)' = {r \in RunsOn(k) : r.sched # s}
      /\ ResultsOn(k)' = {r \in ResultsOn(k) : r.sched # s}
  <2>1. \A t \in Owners : t # s => poll'[t] = poll[t] /\ drain'[t] = drain[t]
    BY <1>0, <1>1
  <2>2. poll'[s].step = "idle" /\ drain'[s].job # k
    BY <1>0, <1>1, <1>2 DEF Idle, NotSettling
  <2> QED BY <1>1, <2>1, <2>2 DEF PollsOn, DrainsOn, RunsOn, ResultsOn
<1>4. /\ book'[s][k] = NoRecord /\ \A t \in Owners \ {s} : book'[t][k] = book[t][k]
      /\ \A t \in Owners \ {s} : poll'[t] = poll[t] /\ drain'[t] = drain[t]
  BY <1>0, <1>1
<1>5. CASE NobodyHas(k)
  <2>1. NobodyHas(k)'
    BY <1>1, <1>3, <1>4, <1>5 DEF NobodyHas, NoSlot, storeVars
  <2> QED BY <1>2, <2>1 DEF JobOK, InOnePairOfHands
<1>6. ASSUME NEW t \in Owners, PollHas(t, k) PROVE JobOK(k)'
  <2>1. CASE t = s
    <3>1. NobodyHas(k)'
      BY <1>1, <1>3, <1>4, <1>6, <2>1 DEF PollHas, Booked, NobodyHas, NoSlot, storeVars
    <3> QED BY <1>2, <3>1 DEF JobOK, InOnePairOfHands
  <2>2. CASE t # s
    <3>1. PollHas(t, k)'
      BY <1>1, <1>3, <1>4, <1>6, <2>2 DEF PollHas, Booked, storeVars
    <3> QED BY <1>2, <3>1 DEF JobOK, InOnePairOfHands
  <2> QED BY <2>1, <2>2
<1>7. ASSUME NEW t \in Owners, DrainHas(t, k) PROVE JobOK(k)'
  <2>1. CASE t = s
    <3>1. NobodyHas(k)'
      BY <1>1, <1>3, <1>4, <1>7, <2>1 DEF DrainHas, HasIts, NobodyHas, NoSlot, storeVars
    <3> QED BY <1>2, <3>1 DEF JobOK, InOnePairOfHands
  <2>2. CASE t # s
    <3>1. DrainHas(t, k)'
      BY <1>1, <1>3, <1>4, <1>7, <2>2 DEF DrainHas, HasIts, NoSlot, storeVars
    <3> QED BY <1>2, <3>1 DEF JobOK, InOnePairOfHands
  <2> QED BY <2>1, <2>2
<1>8. ASSUME NEW r \in runs, RunHas(r, k) PROVE JobOK(k)'
  <2>0. r.sched \in Owners
    BY DEF SchedInv, RestPart, Run
  <2>1. CASE r.sched = s
    <3>1. NobodyHas(k)'
      BY <1>1, <1>3, <1>4, <1>8, <2>1 DEF RunHas, HasIts, Booked, NobodyHas, NoSlot, storeVars
    <3> QED BY <1>2, <3>1 DEF JobOK, InOnePairOfHands
  <2>2. CASE r.sched # s
    <3>1. RunHas(r, k)' /\ r \in runs'
      BY <1>1, <1>3, <1>4, <1>8, <2>0, <2>2 DEF RunHas, HasIts, Booked, storeVars
    <3> QED BY <1>2, <3>1 DEF JobOK, InOnePairOfHands
  <2> QED BY <2>1, <2>2
<1>9. ASSUME NEW r \in results, ResultHas(r, k) PROVE JobOK(k)'
  <2>0. r.sched \in Owners
    BY DEF SchedInv, RestPart, Result
  <2>1. CASE r.sched = s
    <3>1. NobodyHas(k)'
      BY <1>1, <1>3, <1>4, <1>9, <2>1 DEF ResultHas, HasIts, Booked, NobodyHas, NoSlot, storeVars
    <3> QED BY <1>2, <3>1 DEF JobOK, InOnePairOfHands
  <2>2. CASE r.sched # s
    <3>1. ResultHas(r, k)' /\ r \in results'
      BY <1>1, <1>3, <1>4, <1>9, <2>0, <2>2 DEF ResultHas, HasIts, Booked, storeVars
    <3> QED BY <1>2, <3>1 DEF JobOK, InOnePairOfHands
  <2> QED BY <2>1, <2>2
<1> QED BY <1>2, <1>5, <1>6, <1>7, <1>8, <1>9 DEF JobOK, InOnePairOfHands

(* Every action leaves each job in one pair of hands at most.              *)
LEMMA OneHandStep ==
    ASSUME AccurateDetection, StoreInv, SchedInv, OneHand, DownIdle, SoleReaper',
           [Next]_vars, [RequeueApart]_vars
    PROVE  OneHand'
<1>0. /\ jobs \in [Jobs -> Row] /\ claims \in [Jobs -> Claim] /\ minted \in Nat
      /\ archive \in [Jobs -> ArchivedRow] /\ dead \in [Jobs -> Nat]
      /\ poll \in [Owners -> Position] /\ drain \in [Owners -> Settling]
      /\ book \in [Owners -> [Jobs -> Record]]
      /\ runs \subseteq Run /\ results \subseteq Result
      /\ MaxRetries \in Nat
  BY BoundsAssumption DEF StoreInv, StoreTypeOK, SchedInv, PollPart, DrainPart, BookPart,
    RestPart
<1>a. \A k \in Jobs : JobOK(k) /\ HandsTell(k) /\ WithinBudget(k)
  BY WhoHas DEF OneHand, JobOK
<1>1. ASSUME NEW j \in Jobs, UNCHANGED schedVars,
             enqueue(j) \/ cancel_pending(j)
      PROVE  OneHand'
  <2>1. NobodyHas(j) /\ claims[j] = NoClaim
    BY <1>a, <1>1 DEF HandsTell, enqueue, cancel_pending, IsLive, LiveStatus
  <2>2. HasLeft(j)
    <3>1. CASE enqueue(j)
      BY <1>0, <1>a, <2>1, <3>1 DEF enqueue, HasLeft, OthersKept, WithinBudget, NoRow
    <3>2. CASE cancel_pending(j)
      BY <1>a, <3>2, JobLeaves DEF cancel_pending, IsLive, LiveStatus
    <3> QED BY <1>1, <3>1, <3>2
  <2>3. \A k \in Jobs : /\ PollsOn(k)' = PollsOn(k) /\ DrainsOn(k)' = DrainsOn(k)
                        /\ RunsOn(k)' = RunsOn(k) /\ ResultsOn(k)' = ResultsOn(k)
    BY <1>1 DEF schedVars, PollsOn, DrainsOn, RunsOn, ResultsOn
  <2>4. UNCHANGED <<poll, drain, book>>
    BY <1>1 DEF schedVars
  <2>5. JobOK(j)'
    BY <2>1, <2>2, <2>3, <2>4 DEF NobodyHas, NoSlot, JobOK, InOnePairOfHands, HasLeft
  <2> QED BY <2>2, <2>3, <2>4, <2>5, OthersStay DEF HasLeft
<1>2. ASSUME NEW j \in Jobs, request_cancel(j) \/ purge_execution_claims(j),
             UNCHANGED <<poll, drain, book, retired, runs, results>>
      PROVE  OneHand'
  <2>1. \A k \in Jobs : /\ jobs'[k].status = jobs[k].status /\ jobs'[k].retry = jobs[k].retry
                        /\ claims'[k] \in {claims[k], NoClaim}
                        /\ archive'[k] = archive[k] /\ dead'[k] = dead[k]
    BY <1>0, <1>2 DEF request_cancel, purge_execution_claims, Row
  <2>2. \A k \in Jobs : RunsOn(k)' = RunsOn(k) /\ ResultsOn(k)' = ResultsOn(k)
    BY <1>2 DEF RunsOn, ResultsOn
  <2> QED BY <1>a, <1>2, <2>1, <2>2, OtherJob DEF OneHand
<1>3. ASSUME NEW s \in Owners, NEW j \in Jobs, Dequeue(s, j) PROVE OneHand'
  <2> DEFINE p == [Idle EXCEPT !.step = "dequeued", !.job = j, !.attempt = jobs[j].retry]
  <2>1. /\ poll[s] = Idle /\ dequeue(j) /\ poll' = [poll EXCEPT ![s] = p] /\ PollOnly
        /\ p.step = "dequeued" /\ p.job = j /\ p.attempt = jobs[j].retry
    BY <1>3 DEF Dequeue, Idle
  <2> HIDE DEF p
  <2>2. NobodyHas(j)
    BY <1>a, <2>1 DEF HandsTell, dequeue
  <2>3. PollsOn(j)' = {s} /\ poll'[s] = p
    BY <1>0, <2>1, <2>2 DEF NobodyHas, PollsOn, DispatchSteps
  <2>4. /\ jobs'[j].status = "Running" /\ jobs'[j].retry = jobs[j].retry /\ claims'[j] = NoClaim
        /\ OthersKept(j) /\ archive'[j] = archive[j] /\ dead'[j] = dead[j]
    BY <1>0, <2>1, <2>2 DEF dequeue, NobodyHas, OthersKept, Row
  <2>5. PollHas(s, j)'
    BY <2>1, <2>2, <2>3, <2>4 DEF NobodyHas, NoSlot, PollHas, PollOnly, DrainsOn, RunsOn,
      ResultsOn
  <2>6. JobOK(j)'
    BY <1>a, <2>4, <2>5 DEF JobOK, InOnePairOfHands, WithinBudget
  <2>7. \A k \in Jobs : RunsOn(k)' = RunsOn(k)
    BY <2>1 DEF PollOnly, RunsOn
  <2>8. poll[s].step = "idle" /\ UNCHANGED <<drain, results, book>>
    BY <2>1 DEF PollOnly, Idle
  <2> QED BY <2>1, <2>4, <2>6, <2>7, <2>8, PollMovesJob
<1>4. ASSUME NEW s \in Owners, Defer(s) \/ RollbackReschedule(s) \/ ShedToDlq(s)
      PROVE  OneHand'
  <2>0. PICK j : j = poll[s].job
    OBVIOUS
  <2>1. poll[s].step \in {"dequeued", "reschedule", "shed"} /\ poll[s].step \in DispatchSteps
    BY <2>0, <1>4 DEF Defer, RollbackReschedule, ShedToDlq, DispatchSteps
  <2>2. j \in Jobs /\ PollHas(s, j) /\ WithinBudget(j)
    BY <2>0, <2>1, PollHasIt
  <2>3. IsLive(j) /\ claims[j] = NoClaim /\ poll[s].step # "tracked"
    BY <2>0, <2>1, <2>2 DEF PollHas, IsLive, LiveStatus
  <2>4. Finish(s) /\ PollOnly /\ (reschedule(j) \/ dead_letter(j))
    BY <2>0, <1>4, <2>3 DEF Defer, RollbackReschedule, ShedToDlq
  <2>5. HasLeft(j)
    BY <2>0, <2>2, <2>3, <2>4, JobLeaves
  <2>6. NoSlot(j)' /\ UNCHANGED <<book, drain, runs, results>>
    BY <2>0, <2>1, <2>2, <2>4 DEF PollHas, PollOnly, NoSlot
  <2> QED BY <2>0, <2>2, <2>4, <2>5, <2>6, PollDropsJob DEF HasLeft
<1>5. ASSUME NEW s \in Owners, ClaimForDispatch(s) PROVE OneHand'
  <2>0. PICK j : j = poll[s].job
    OBVIOUS
  <2> DEFINE p == [poll[s] EXCEPT !.step = "claimed", !.epoch = minted']
  <2>1. /\ poll[s].step = "dequeued" /\ claim_execution(s, j) /\ PollOnly
        /\ poll' = [poll EXCEPT ![s] = p]
    BY <2>0, <1>0, <1>5 DEF ClaimForDispatch
  <2>2. j \in Jobs /\ PollHas(s, j) /\ WithinBudget(j)
    BY <2>0, <2>1, PollHasIt DEF DispatchSteps
  <2>3. /\ p.step = "claimed" /\ p.job = j /\ p.attempt = poll[s].attempt /\ p.epoch = minted' /\ minted' # 0
    BY <2>0, <1>0, <2>1 DEF Position, claim_execution
  <2>4. /\ OthersKept(j) /\ jobs'[j] = jobs[j] /\ archive'[j] = archive[j] /\ dead'[j] = dead[j]
        /\ claims'[j] = [owner |-> s, epoch |-> minted']
    BY <2>0, <1>0, <2>1, <2>2 DEF claim_execution, OthersKept
  <2> HIDE DEF p
  <2>5. PollsOn(j)' = {s} /\ poll'[s] = p
    BY <2>0, <1>0, <2>1, <2>2, <2>3 DEF PollHas, PollsOn, DispatchSteps
  <2>6. PollHas(s, j)'
    BY <2>0, <2>1, <2>2, <2>3, <2>4, <2>5 DEF PollHas, DispatchSteps, PollOnly, DrainsOn, RunsOn,
      ResultsOn
  <2>7. JobOK(j)'
    BY <2>0, <2>2, <2>4, <2>6 DEF JobOK, InOnePairOfHands, WithinBudget
  <2>8. \A k \in Jobs : RunsOn(k)' = RunsOn(k)
    BY <2>0, <2>1 DEF PollOnly, RunsOn
  <2> QED BY <2>0, <2>1, <2>2, <2>3, <2>4, <2>7, <2>8, PollMovesJob DEF PollOnly
<1>6. ASSUME NEW s \in Owners, AlreadyClaimed(s) PROVE FALSE
  <2>1. poll[s].step = "dequeued" /\ claims[poll[s].job] # NoClaim
    BY <1>6 DEF AlreadyClaimed
  <2>2. PollHas(s, poll[s].job)
    BY <2>1, PollHasIt DEF DispatchSteps
  <2> QED BY <2>1, <2>2 DEF PollHas
<1>7. ASSUME NEW s \in Owners, ClaimError(s) \/ Reject(s) \/ Shed(s) \/ RollbackClaim(s)
      PROVE  OneHand'
  <2>0. PICK j : j = poll[s].job
    OBVIOUS
  <2>1. poll[s].step \in {"dequeued", "claimed", "unclaim", "unclaimShed"} /\ poll[s].step \in DispatchSteps
    BY <2>0, <1>7 DEF ClaimError, Reject, Shed, RollbackClaim, DispatchSteps
  <2>2. j \in Jobs /\ PollHas(s, j) /\ WithinBudget(j)
    BY <2>0, <2>1, PollHasIt
  <2>3. PollOnly
    BY <2>0, <1>7 DEF ClaimError, Reject, Shed, RollbackClaim
  <2>4. CASE ClaimError(s) \/ Reject(s) \/ Shed(s)
    <3>1. PICK step \in {"unclaim", "shed", "unclaimShed"} :
              Goto(s, step) /\ (step = "shed" => poll[s].step = "dequeued")
      BY <2>0, <2>4 DEF ClaimError, Reject, Shed
    <3>2. UNCHANGED storeVars
      BY <2>0, <2>4 DEF ClaimError, Reject, Shed
    <3>3. step = "shed" => claims[j] = NoClaim
      BY <2>0, <2>2, <3>1 DEF PollHas
    <3>4. /\ step \in DispatchSteps \ {"tracked", "dequeued", "claimed"}
          /\ poll[s].step \in DispatchSteps \ {"tracked"}
          /\ OthersKept(j) /\ jobs' = jobs /\ archive' = archive /\ dead' = dead /\ claims' = claims
      BY <2>0, <2>1, <3>1, <3>2 DEF DispatchSteps, storeVars, OthersKept
    <3>5. step \in {"reschedule", "shed"} => claims[j] = NoClaim
      BY <2>0, <3>1, <3>3
    <3> QED BY <2>0, <2>2, <2>3, <3>1, <3>4, <3>5, PollKeepsJob
  <2>5. CASE RollbackClaim(s)
    <3>1. PICK step \in {"reschedule", "shed"} : Goto(s, step)
      BY <2>0, <2>5 DEF RollbackClaim
    <3>2. /\ OthersKept(j) /\ jobs' = jobs /\ archive' = archive /\ dead' = dead /\ claims'[j] = NoClaim
      BY <2>0, <1>0, <2>2, <2>5 DEF RollbackClaim, complete_execution, OthersKept
    <3>3. /\ step \in DispatchSteps \ {"tracked", "dequeued", "claimed"}
          /\ poll[s].step \in DispatchSteps \ {"tracked"}
      BY <2>0, <2>1, <3>1 DEF DispatchSteps
    <3> QED BY <2>0, <2>2, <2>3, <3>1, <3>2, <3>3, PollKeepsJob
  <2> QED BY <2>0, <1>7, <2>4, <2>5
<1>8. ASSUME NEW s \in Owners, Track(s) PROVE OneHand'
  <2>0. PICK j : j = poll[s].job
    OBVIOUS
  <2> DEFINE p == [poll[s] EXCEPT !.step = "tracked"]
  <2>1. /\ poll[s].step = "claimed" /\ UNCHANGED <<storeVars, drain, runs, results>>
        /\ poll' = [poll EXCEPT ![s] = p]
        /\ book' = [book EXCEPT ![s][j] = [attempt |-> poll[s].attempt, epoch |-> poll[s].epoch]]
    BY <2>0, <1>0, <1>8 DEF Track, Goto
  <2>2. j \in Jobs /\ PollHas(s, j) /\ WithinBudget(j)
    BY <2>0, <2>1, PollHasIt DEF DispatchSteps
  <2>3. p.step = "tracked" /\ p.job = j /\ p.attempt = poll[s].attempt /\ p.epoch = poll[s].epoch
    BY <2>0, <1>0 DEF Position
  <2> HIDE DEF p
  <2>4. PollsOn(j)' = {s} /\ poll'[s] = p
    BY <2>0, <1>0, <2>1, <2>2, <2>3 DEF PollHas, PollsOn, DispatchSteps
  <2>5. Booked(s, j, poll[s])'
    BY <2>0, <1>0, <2>1, <2>2, <2>3, <2>4 DEF PollHas, Booked, DispatchSteps
  <2>6. PollHas(s, j)'
    BY <2>0, <2>1, <2>2, <2>3, <2>4, <2>5 DEF PollHas, DispatchSteps, DrainsOn, RunsOn, ResultsOn,
      storeVars
  <2>7. JobOK(j)' /\ OthersKept(j)
    BY <2>0, <2>1, <2>2, <2>6 DEF JobOK, InOnePairOfHands, WithinBudget, storeVars, OthersKept
  <2>8. /\ \A k \in Jobs : RunsOn(k)' = RunsOn(k)
        /\ \A t \in Owners, k \in Jobs \ {j} : book'[t][k] = book[t][k]
    BY <2>0, <1>0, <2>1 DEF RunsOn
  <2> QED BY <2>0, <2>1, <2>2, <2>3, <2>7, <2>8, PollMovesJob
<1>9. ASSUME NEW s \in Owners, Send(s) PROVE OneHand'
  <2>0. PICK j : j = poll[s].job
    OBVIOUS
  <2>a. PICK r : r = [sched |-> s, job |-> j, attempt |-> poll[s].attempt, epoch |-> poll[s].epoch]
    OBVIOUS
  <2>1. /\ poll[s].step = "tracked" /\ UNCHANGED <<storeVars, drain, book, results>>
        /\ poll' = [poll EXCEPT ![s] = Idle] /\ runs' = runs \cup {r}
    BY <2>0, <2>a, <1>9 DEF Send, Finish
  <2>2. j \in Jobs /\ PollHas(s, j) /\ WithinBudget(j)
    BY <2>0, <2>1, PollHasIt DEF DispatchSteps
  <2>3. r.sched = s /\ r.job = j /\ r.attempt = poll[s].attempt /\ r.epoch = poll[s].epoch
    BY <2>a
  <2>4. PollsOn(j)' = {} /\ RunsOn(j)' = {r} /\ \A k \in Jobs \ {j} : RunsOn(k)' = RunsOn(k)
    BY <2>0, <1>0, <2>1, <2>2, <2>3 DEF PollHas, PollsOn, RunsOn, DispatchSteps, Idle
  <2>5. Booked(r.sched, j, r)'
    BY <2>0, <2>1, <2>2, <2>3 DEF PollHas, Booked
  <2>6. RunHas(r, j)'
    BY <2>0, <2>1, <2>2, <2>3, <2>4, <2>5 DEF PollHas, RunHas, HasIts, DispatchSteps, DrainsOn,
      ResultsOn, storeVars
  <2>7. JobOK(j)' /\ OthersKept(j)
    BY <2>0, <2>1, <2>2, <2>6 DEF JobOK, InOnePairOfHands, WithinBudget, storeVars, OthersKept
  <2> QED BY <2>0, <2>1, <2>2, <2>4, <2>7, PollMovesJob DEF Idle
<1>10. ASSUME NEW s \in Owners, SendClosed(s) \/ SendFull(s) PROVE OneHand'
  <2>0. PICK j : j = poll[s].job
    OBVIOUS
  <2> DEFINE p == [poll[s] EXCEPT !.step = "unclaim"]
  <2>1. /\ poll[s].step = "tracked" /\ UNCHANGED <<storeVars, drain, runs, results>>
        /\ poll' = [poll EXCEPT ![s] = p]
        /\ book' = [book EXCEPT ![s][j] = NoRecord]
    BY <2>0, <1>0, <1>10 DEF SendClosed, SendFull, SendRefused, Goto
  <2>2. j \in Jobs /\ PollHas(s, j) /\ WithinBudget(j)
    BY <2>0, <2>1, PollHasIt DEF DispatchSteps
  <2>3. p.step = "unclaim" /\ p.job = j /\ p.attempt = poll[s].attempt /\ p.epoch = poll[s].epoch
    BY <2>0, <1>0 DEF Position
  <2> HIDE DEF p
  <2>4. PollsOn(j)' = {s} /\ poll'[s] = p
    BY <2>0, <1>0, <2>1, <2>2, <2>3 DEF PollHas, PollsOn, DispatchSteps
  <2>5. NoneLost => \A t \in Owners : book'[t][j] = NoRecord
    BY <2>0, <1>0, <2>1, <2>2 DEF PollHas, Booked
  <2>6. PollHas(s, j)'
    BY <2>0, <2>1, <2>2, <2>3, <2>4, <2>5 DEF PollHas, DispatchSteps, DrainsOn, RunsOn, ResultsOn,
      storeVars
  <2>7. JobOK(j)' /\ OthersKept(j)
    BY <2>0, <2>1, <2>2, <2>6 DEF JobOK, InOnePairOfHands, WithinBudget, storeVars, OthersKept
  <2>8. /\ \A k \in Jobs : RunsOn(k)' = RunsOn(k)
        /\ \A t \in Owners, k \in Jobs \ {j} : book'[t][k] = book[t][k]
    BY <2>0, <1>0, <2>1 DEF RunsOn
  <2> QED BY <2>0, <2>1, <2>2, <2>3, <2>7, <2>8, PollMovesJob
<1>11. ASSUME NEW r \in runs, NEW kind \in Kinds, Report(r, kind)
     PROVE OneHand'
  <2> DEFINE j == r.job
             q == [sched |-> r.sched, job |-> r.job, attempt |-> r.attempt, epoch |-> r.epoch, kind |-> kind]
  <2>1. j \in Jobs /\ r.sched \in Owners /\ RunHas(r, j) /\ WithinBudget(j)
    BY <1>0, <1>a DEF HandsTell, RunsOn, Run
  <2>2. frame_is_current(r)
    BY <2>1 DEF RunHas, Booked, frame_is_current
  <2>3. /\ runs' = runs \ {r} /\ results' = results \cup {q} /\ UNCHANGED <<storeVars, poll, drain, book>>
    BY <1>11, <2>2 DEF Report
  <2>4. q.sched = r.sched /\ q.job = j /\ q.attempt = r.attempt /\ q.epoch = r.epoch
    OBVIOUS
  <2> HIDE DEF q
  <2>5. /\ RunsOn(j)' = {} /\ ResultsOn(j)' = {q}
        /\ \A k \in Jobs \ {j} : RunsOn(k)' = RunsOn(k) /\ ResultsOn(k)' = ResultsOn(k)
    BY <2>1, <2>3, <2>4 DEF RunHas, RunsOn, ResultsOn
  <2>6. ResultHas(q, j)'
    BY <2>1, <2>3, <2>4, <2>5 DEF RunHas, ResultHas, HasIts, Booked, PollsOn, DrainsOn,
      storeVars
  <2>7. JobOK(j)' /\ OthersKept(j)
    BY <2>1, <2>3, <2>6 DEF JobOK, InOnePairOfHands, WithinBudget, storeVars, OthersKept
  <2> QED BY <2>1, <2>3, <2>5, <2>7, OthersStay
<1>12. ASSUME NEW r \in results, Authorize(r) \/ FenceError(r) PROVE OneHand'
  <2> DEFINE j == r.job
             s == r.sched
  <2>1. j \in Jobs /\ s \in Owners /\ ResultHas(r, j) /\ WithinBudget(j)
    BY <1>0, <1>a DEF HandsTell, ResultsOn, Result
  <2>2. TakenRecord(s, j) = [attempt |-> r.attempt, epoch |-> r.epoch]
    BY <2>1 DEF ResultHas, Booked, TakenRecord, NoRecord
  <2>3. Current(s, j)
    BY <2>1, <2>2 DEF ResultHas, HasIts, Current, authorize_attempt
  <2>4. /\ results' = results \ {r} /\ UNCHANGED <<storeVars, poll, runs>>
        /\ book' = [book EXCEPT ![s][j] = NoRecord] /\ drain[s] = NotSettling
        /\ drain' = [drain EXCEPT ![s] = Take(r)]
    BY <1>12, <2>3 DEF Authorize, FenceError, ReleaseDispatch
  <2>5. Take(r).job = j /\ Take(r).attempt = r.attempt /\ Take(r).epoch = r.epoch /\ None # j
    BY <2>1, NoneAssumption DEF Take
  <2>6. /\ ResultsOn(j)' = {} /\ DrainsOn(j)' = {s} /\ drain'[s] = Take(r)
        /\ \A k \in Jobs \ {j} : RunsOn(k)' = RunsOn(k) /\ ResultsOn(k)' = ResultsOn(k)
    BY <1>0, <2>1, <2>4, <2>5 DEF ResultHas, RunsOn, ResultsOn, DrainsOn
  <2>7. /\ NoSlot(j)'
        /\ \A t \in Owners, k \in Jobs \ {j} : book'[t][k] = book[t][k]
    BY <1>0, <2>1, <2>4 DEF ResultHas, Booked, NoSlot
  <2>8. DrainHas(s, j)'
    BY <2>1, <2>4, <2>5, <2>6, <2>7 DEF ResultHas, DrainHas, HasIts, PollsOn, RunsOn, storeVars
  <2>9. JobOK(j)' /\ OthersKept(j)
    BY <2>1, <2>4, <2>8 DEF JobOK, InOnePairOfHands, WithinBudget, storeVars, OthersKept
  <2>10. ASSUME NEW t \in Owners, NEW k \in Jobs \ {j}, t \in DrainsOn(k) \/ t \in DrainsOn(k)'
         PROVE  drain'[t] = drain[t]
    BY <1>0, <2>4, <2>5, <2>10, NoneAssumption DEF DrainsOn, NotSettling
  <2> QED BY <2>1, <2>4, <2>6, <2>7, <2>9, <2>10, OthersStay
<1>13. ASSUME NEW s \in Owners, Settle(s) \/ SettleOverBudget(s) PROVE OneHand'
  <2>0. PICK j : j = drain[s].job
    OBVIOUS
  <2>1. j \in Jobs /\ drain[s].kind \in Kinds
    BY <1>13, <2>0 DEF Settle, SettleOverBudget, SchedInv, DrainPart, DrainsNameJobs, NotSettling
  <2>2. DrainHas(s, j) /\ WithinBudget(j)
    BY <1>a, <2>0, <2>1 DEF HandsTell, DrainsOn
  <2>3. IsLive(j) /\ jobs[j].status = "Running" /\ jobs[j].retry = drain[s].attempt
    BY <2>2 DEF DrainHas, HasIts, IsLive, LiveStatus
  <2>4. \/ retry(j) /\ jobs[j].retry < MaxRetries
        \/ complete(j) \/ mark_cancelled(j) \/ dead_letter(j)
    BY <1>13, <2>0, <2>1, <2>3 DEF Settle, SettleOverBudget, Transition, FailureTransition, Kinds
  <2>5. HasLeft(j)
    BY <2>1, <2>2, <2>3, <2>4, JobLeaves
  <2>6. SettledDrain(s) /\ UNCHANGED <<poll, book, runs, results>>
    BY <1>13 DEF Settle, SettleOverBudget
  <2> QED BY <2>0, <2>1, <2>2, <2>5, <2>6, DrainDropsJob DEF HasLeft
<1>14. CASE UNCHANGED <<storeVars, poll, drain, book, runs, results>>
  <2>1. \A k \in Jobs : RunsOn(k)' = RunsOn(k) /\ ResultsOn(k)' = ResultsOn(k)
    BY <1>14 DEF RunsOn, ResultsOn
  <2> QED BY <1>a, <1>14, <2>1, OtherJob DEF storeVars, OneHand
<1>15. ASSUME NEW s \in Owners, NEW j \in Jobs, ReapScan(s, j) \/ OrphanScan(s, j)
       PROVE  OneHand'
  <2>1. PICK p \in Position :
            /\ poll' = [poll EXCEPT ![s] = p] /\ p.step \in {"reap", "orphan"} /\ p.job = j
            /\ p.attempt = jobs[j].retry
    <3>1. CASE ReapScan(s, j)
      <4> DEFINE p == [Idle EXCEPT !.step = "reap", !.job = j, !.attempt = jobs[j].retry]
      <4>1. p \in Position /\ p.step = "reap" /\ p.job = j /\ p.attempt = jobs[j].retry
        BY <1>0 DEF Idle, Position, ReapSteps, Row
      <4> QED BY <3>1, <4>1 DEF ReapScan
    <3>2. CASE OrphanScan(s, j)
      <4> DEFINE p == [Idle EXCEPT !.step = "orphan", !.job = j, !.attempt = jobs[j].retry,
                                   !.owner = claims[j].owner]
      <4>0. claims[j].owner \in Owners
        BY <3>2 DEF OrphanScan
      <4>1. p \in Position /\ p.step = "orphan" /\ p.job = j /\ p.attempt = jobs[j].retry
        BY <1>0, <4>0 DEF Idle, Position, ReapSteps, Row
      <4> QED BY <3>2, <4>1 DEF OrphanScan
    <3> QED BY <1>15, <3>1, <3>2
  <2>2. /\ poll[s].step = "idle" /\ poll'[s] = p /\ jobs[j].status = "Running"
        /\ PollOnly /\ UNCHANGED storeVars
    BY <1>0, <1>15, <2>1 DEF ReapScan, OrphanScan, LooksStale, Idle
  <2>3. \A t \in Owners : ~Reaps(t, j)
    <3> SUFFICES ASSUME NEW t \in Owners, Reaps(t, j) PROVE FALSE
      OBVIOUS
    <3>1. t # s
      BY <2>2 DEF Reaps, ReapSteps
    <3>2. Reaps(s, j)' /\ Reaps(t, j)'
      BY <1>0, <2>1, <2>2, <3>1 DEF Reaps, ReapSteps
    <3> QED BY <3>1, <3>2 DEF SoleReaper
  <2>4. NobodyHas(j)
    BY <1>15, <2>3, StaleIsNobodys, OrphanIsNobodys DEF ReapScan, OrphanScan
  <2>5. PollsOn(j)' = {s}
    BY <1>0, <2>1, <2>2, <2>4 DEF NobodyHas, PollsOn
  <2>6. PollHas(s, j)'
    BY <2>1, <2>2, <2>4, <2>5 DEF NobodyHas, NoSlot, PollHas, PollOnly, storeVars, DrainsOn,
      RunsOn, ResultsOn, DispatchSteps
  <2>7. JobOK(j)' /\ OthersKept(j)
    BY <1>a, <2>2, <2>6 DEF JobOK, InOnePairOfHands, WithinBudget, storeVars, OthersKept
  <2>8. (\A k \in Jobs : RunsOn(k)' = RunsOn(k)) /\ UNCHANGED <<drain, book, results>>
    BY <2>2 DEF PollOnly, RunsOn
  <2> QED BY <2>1, <2>2, <2>7, <2>8, PollMovesJob
<1>16. ASSUME NEW s \in Owners, Reclaim(s) PROVE OneHand'
  <2>0. PICK j : j = poll[s].job
    OBVIOUS
  <2> DEFINE p == [poll[s] EXCEPT !.step = "rescued", !.epoch = minted']
  <2>1. poll[s].step = "orphan" /\ PollOnly
    BY <1>16 DEF Reclaim
  <2>2. j \in Jobs /\ PollHas(s, j) /\ WithinBudget(j)
    BY <2>0, <2>1, PollHasIt
  <2>3. CASE poll' = [poll EXCEPT ![s] = p] /\ reclaim_execution(j, poll[s].owner, s)
    <3>1. p.step = "rescued" /\ p.job = j /\ p.attempt = poll[s].attempt
      BY <1>0, <2>0 DEF Position
    <3> HIDE DEF p
    <3>2. PollsOn(j)' = {s} /\ poll'[s] = p
      BY <1>0, <2>0, <2>1, <2>2, <2>3, <3>1 DEF PollHas, PollsOn
    <3>3. OthersKept(j) /\ jobs' = jobs /\ archive' = archive /\ dead' = dead
      BY <1>0, <2>2, <2>3 DEF reclaim_execution, OthersKept
    <3>4. PollHas(s, j)'
      BY <2>1, <2>2, <3>1, <3>2, <3>3 DEF PollHas, PollOnly, DrainsOn, RunsOn, ResultsOn,
        DispatchSteps
    <3>5. JobOK(j)'
      BY <2>2, <3>3, <3>4 DEF JobOK, InOnePairOfHands, WithinBudget
    <3>6. (\A k \in Jobs : RunsOn(k)' = RunsOn(k)) /\ UNCHANGED <<drain, book, results>>
      BY <2>1 DEF PollOnly, RunsOn
    <3> QED BY <2>0, <2>2, <2>3, <3>1, <3>3, <3>5, <3>6, PollMovesJob
  <2>4. CASE Finish(s) /\ UNCHANGED storeVars
    <3>1. /\ OthersKept(j) /\ WithinBudget(j)' /\ jobs'[j].status = "Running" /\ NoSlot(j)'
          /\ UNCHANGED <<drain, book, runs, results>>
      BY <2>1, <2>2, <2>4 DEF PollHas, PollOnly, storeVars, OthersKept, WithinBudget, NoSlot
    <3> QED BY <2>0, <2>2, <2>4, <3>1, PollDropsJob
  <2> QED BY <1>0, <1>16, <2>0, <2>3, <2>4 DEF Reclaim
<1>17. ASSUME NEW s \in Owners, TrackRescue(s) PROVE OneHand'
  <2>0. PICK j : j = poll[s].job
    OBVIOUS
  <2> DEFINE p == [poll[s] EXCEPT !.step = "reap"]
  <2>1. /\ poll[s].step = "rescued" /\ UNCHANGED <<storeVars, drain, runs, results>>
        /\ poll' = [poll EXCEPT ![s] = p]
        /\ book' = [book EXCEPT ![s][j] = [attempt |-> poll[s].attempt, epoch |-> poll[s].epoch]]
    BY <2>0, <1>0, <1>17 DEF TrackRescue, Goto
  <2>2. j \in Jobs /\ PollHas(s, j) /\ WithinBudget(j)
    BY <2>0, <2>1, PollHasIt
  <2>3. p.step = "reap" /\ p.job = j /\ p.attempt = poll[s].attempt
    BY <2>0, <1>0 DEF Position
  <2> HIDE DEF p
  <2>4. PollsOn(j)' = {s} /\ poll'[s] = p
    BY <2>0, <1>0, <2>1, <2>2, <2>3 DEF PollHas, PollsOn
  <2>5. /\ NoneLost => \A t \in Owners \ {s} : book'[t][j] = NoRecord
        /\ \A t \in Owners, k \in Jobs \ {j} : book'[t][k] = book[t][k]
    BY <1>0, <2>1, <2>2 DEF PollHas
  <2>6. PollHas(s, j)'
    BY <2>1, <2>2, <2>3, <2>4, <2>5 DEF PollHas, DispatchSteps, DrainsOn, RunsOn, ResultsOn,
      storeVars
  <2>7. JobOK(j)' /\ OthersKept(j)
    BY <2>1, <2>2, <2>6 DEF JobOK, InOnePairOfHands, WithinBudget, storeVars, OthersKept
  <2>8. \A k \in Jobs : RunsOn(k)' = RunsOn(k)
    BY <2>1 DEF RunsOn
  <2> QED BY <2>0, <2>1, <2>2, <2>3, <2>5, <2>7, <2>8, PollMovesJob
<1>18. ASSUME NEW s \in Owners, ReapAuthorize(s) \/ ReapFenceError(s) PROVE OneHand'
  <2>0. PICK j : j = poll[s].job
    OBVIOUS
  <2> DEFINE p == [poll[s] EXCEPT !.step = "settle"]
  <2>1. /\ poll[s].step = "reap" /\ UNCHANGED <<storeVars, drain, runs, results>>
        /\ poll' = [poll EXCEPT ![s] = p] \/ Finish(s)
        /\ book' = [book EXCEPT ![s][j] = NoRecord]
    BY <2>0, <1>0, <1>18 DEF ReapAuthorize, ReapFenceError, ReleaseDispatch, Goto
  <2>2. j \in Jobs /\ PollHas(s, j) /\ WithinBudget(j)
    BY <2>0, <2>1, PollHasIt
  <2>3. /\ NoneLost => \A t \in Owners : book'[t][j] = NoRecord
        /\ \A t \in Owners, k \in Jobs \ {j} : book'[t][k] = book[t][k]
    BY <1>0, <2>1, <2>2 DEF PollHas
  <2>4. OthersKept(j) /\ WithinBudget(j)' /\ jobs'[j].status = "Running" /\ NoSlot(j)'
    BY <2>1, <2>2, <2>3 DEF PollHas, storeVars, OthersKept, WithinBudget, NoSlot
  <2>5. CASE poll' = [poll EXCEPT ![s] = p]
    <3>1. p.step = "settle" /\ p.job = j /\ p.attempt = poll[s].attempt
      BY <2>0, <1>0 DEF Position
    <3> HIDE DEF p
    <3>2. PollsOn(j)' = {s} /\ poll'[s] = p
      BY <1>0, <2>0, <2>1, <2>2, <2>5, <3>1 DEF PollHas, PollsOn
    <3>3. PollHas(s, j)'
      BY <2>1, <2>2, <2>3, <3>1, <3>2 DEF PollHas, DispatchSteps, DrainsOn, RunsOn, ResultsOn,
        storeVars
    <3>4. JobOK(j)' /\ \A k \in Jobs : RunsOn(k)' = RunsOn(k)
      BY <2>1, <2>4, <3>3 DEF JobOK, InOnePairOfHands, RunsOn
    <3> QED BY <2>0, <2>1, <2>2, <2>3, <2>4, <2>5, <3>1, <3>4, PollMovesJob
  <2>6. CASE Finish(s)
    BY <2>0, <2>1, <2>2, <2>3, <2>4, <2>6, PollDropsJob
  <2> QED BY <2>1, <2>5, <2>6
<1>19. ASSUME NEW s \in Owners,
              ReapSettle(s) \/ ReapOverBudget(s) \/ ReapError(s) \/ RollbackError(s)
       PROVE  OneHand'
  <2>0. PICK j : j = poll[s].job
    OBVIOUS
  <2>1. poll[s].step \in {"settle", "unclaim"} /\ Finish(s) /\ PollOnly
    BY <1>19 DEF ReapSettle, ReapOverBudget, ReapError, RollbackError
  <2>2. j \in Jobs /\ PollHas(s, j) /\ WithinBudget(j)
    BY <2>0, <2>1, PollHasIt
  <2>3. IsLive(j) /\ jobs[j].status = "Running" /\ jobs[j].retry = poll[s].attempt
    BY <2>2 DEF PollHas, IsLive, LiveStatus
  <2>4. NoSlot(j)' /\ UNCHANGED <<book, drain, runs, results>>
    BY <2>1, <2>2 DEF PollHas, PollOnly, NoSlot
  <2>5. CASE ReapSettle(s) \/ ReapOverBudget(s)
    <3>1. (retry(j) /\ jobs[j].retry < MaxRetries) \/ dead_letter(j)
      BY <2>0, <2>3, <2>5 DEF ReapSettle, ReapOverBudget, FailureTransition
    <3>2. HasLeft(j)
      BY <2>2, <2>3, <3>1, JobLeaves
    <3> QED BY <2>0, <2>1, <2>2, <2>4, <3>2, PollDropsJob DEF HasLeft
  <2>6. CASE ReapError(s) \/ RollbackError(s)
    <3>1. OthersKept(j) /\ WithinBudget(j)' /\ jobs'[j].status = "Running"
      BY <2>2, <2>3, <2>6 DEF ReapError, RollbackError, storeVars, OthersKept, WithinBudget
    <3> QED BY <2>0, <2>1, <2>2, <2>4, <3>1, PollDropsJob
  <2> QED BY <1>19, <2>5, <2>6
<1>20. ASSUME NEW s \in Owners, SettleError(s) PROVE OneHand'
  <2>0. PICK j : j = drain[s].job
    OBVIOUS
  <2>1. j \in Jobs /\ SettledDrain(s) /\ UNCHANGED <<storeVars, poll, book, runs, results>>
    BY <1>20, <2>0 DEF SettleError, SchedInv, DrainPart, DrainsNameJobs
  <2>2. DrainHas(s, j) /\ WithinBudget(j)
    BY <1>a, <2>0, <2>1 DEF HandsTell, DrainsOn
  <2>3. OthersKept(j) /\ WithinBudget(j)' /\ jobs'[j].status = "Running"
    BY <2>1, <2>2 DEF DrainHas, HasIts, storeVars, OthersKept, WithinBudget
  <2> QED BY <2>0, <2>1, <2>2, <2>3, DrainDropsJob
<1>21. ASSUME NEW r \in runs, ExecutorLost(r) PROVE OneHand'
  <2> DEFINE j == r.job
  <2>1. j \in Jobs /\ RunHas(r, j) /\ WithinBudget(j)
    BY <1>0, <1>a DEF HandsTell, RunsOn, Run
  <2>2. /\ runs' = runs \ {r} /\ UNCHANGED <<storeVars, poll, drain, book, results>> /\ ~NoneLost
    BY <1>21 DEF ExecutorLost, Fault, NoneLost
  <2>3. RunsOn(j)' = {} /\ \A k \in Jobs \ {j} : RunsOn(k)' = RunsOn(k)
    BY <2>1, <2>2 DEF RunHas, RunsOn
  <2>4. \A k \in Jobs : ResultsOn(k)' = ResultsOn(k)
    BY <2>2 DEF ResultsOn
  <2>5. NobodyHas(j)'
    BY <2>1, <2>2, <2>3, <2>4 DEF RunHas, HasIts, NobodyHas, NoSlot, NoneLost, PollsOn,
      DrainsOn, storeVars
  <2>6. JobOK(j)' /\ OthersKept(j)
    BY <2>1, <2>2, <2>5 DEF JobOK, InOnePairOfHands, WithinBudget, storeVars, OthersKept
  <2> QED BY <2>1, <2>2, <2>3, <2>4, <2>6, OthersStay
<1>22. ASSUME NEW j \in Jobs, RequeueStuck(j) PROVE OneHand'
  <2>1. /\ LooksStale(j) /\ requeue_stuck(j) /\ UNCHANGED <<poll, drain, book, runs, results>>
        /\ faults' # faults
    BY <1>22 DEF RequeueStuck, Fault, SchedInv, RestPart
  <2>2. RequeueApart
    BY <2>1 DEF vars, schedVars
  <2>3. NobodyHas(j)
    BY <1>22, <2>1, <2>2, StaleIsNobodys DEF RequeueApart
  <2>4. IsLive(j) /\ HasLeft(j)
    <3>1. IsLive(j)
      BY <2>1 DEF LooksStale, IsLive, LiveStatus
    <3> QED BY <1>a, <2>1, <3>1, JobLeaves
  <2>5. \A k \in Jobs : /\ PollsOn(k)' = PollsOn(k) /\ DrainsOn(k)' = DrainsOn(k)
                        /\ RunsOn(k)' = RunsOn(k) /\ ResultsOn(k)' = ResultsOn(k)
    BY <2>1 DEF PollsOn, DrainsOn, RunsOn, ResultsOn
  <2>6. JobOK(j)'
    BY <2>1, <2>3, <2>4, <2>5 DEF NobodyHas, NoSlot, JobOK, InOnePairOfHands, HasLeft
  <2> QED BY <2>1, <2>4, <2>5, <2>6, OthersStay DEF HasLeft
<1>23. ASSUME NEW s \in Owners, Crash(s) PROVE OneHand'
  BY <1>23, CrashLeaves
<1>24. ASSUME NEW j \in Jobs, CallerStep(j) PROVE OneHand'
  BY <1>1, <1>2, <1>22, <1>24 DEF CallerStep, Enqueue, CancelPending, RequestCancel, PurgeClaim,
    schedVars
<1>25. ASSUME NEW s \in Owners, PollStep(s) \/ PollFault(s) PROVE OneHand'
  BY <1>4, <1>5, <1>6, <1>7, <1>8, <1>9, <1>10, <1>16, <1>17, <1>18, <1>19, <1>25 DEF PollStep,
    PollFault
<1>26. ASSUME NEW s \in Owners, PoolStep(s) \/ DrainStep(s) \/ DrainFault(s)
     PROVE OneHand'
  BY <1>11, <1>12, <1>13, <1>20, <1>26 DEF PoolStep, DrainStep, DrainFault
<1>27. ASSUME NEW s \in Owners, ClosePool(s) \/ HeartbeatExpires(s) \/ Heartbeat(s)
       PROVE  OneHand'
  BY <1>14, <1>27 DEF ClosePool, HeartbeatExpires, Heartbeat
<1>28. CASE UNCHANGED vars
  BY <1>14, <1>28 DEF vars, schedVars
<1> QED BY <1>3, <1>15, <1>21, <1>23, <1>24, <1>25, <1>26, <1>27, <1>28 DEF Next

(* What is down has nothing in hand, and what is not is in the cutoff.     *)
LEMMA DownIdleStep ==
    ASSUME AccurateDetection, SchedInv, DownIdle, [Next]_vars
    PROVE  DownIdle'
<1> USE DEF DownIdle
<1>0. /\ poll \in [Owners -> Position] /\ drain \in [Owners -> Settling]
      /\ up \in [Owners -> {"up", "closing", "down"}] /\ fresh \in [Owners -> BOOLEAN]
      /\ runs \subseteq Run /\ results \subseteq Result
  BY DEF SchedInv, PollPart, DrainPart, RestPart
<1>1. ASSUME UNCHANGED <<drain, up, fresh, runs, results>>, NEW s \in Owners,
             up[s] # "down", \A t \in Owners \ {s} : poll'[t] = poll[t]
      PROVE  DownIdle'
  BY <1>0, <1>1
<1>2. ASSUME UNCHANGED <<poll, drain, up, fresh, runs, results>> PROVE DownIdle'
  BY <1>2
<1>3. ASSUME NEW j \in Jobs, CallerStep(j) PROVE DownIdle'
  BY <1>2, <1>3 DEF CallerStep, Enqueue, CancelPending, RequestCancel, RequeueStuck, PurgeClaim,
    schedVars
<1>4. ASSUME NEW s \in Owners, NEW j \in Jobs,
             Dequeue(s, j) \/ ReapScan(s, j) \/ OrphanScan(s, j)
      PROVE  DownIdle'
  <2>1. /\ up[s] # "down" /\ UNCHANGED <<drain, up, fresh, runs, results>>
        /\ \A t \in Owners \ {s} : poll'[t] = poll[t]
    BY <1>0, <1>4 DEF Dequeue, ReapScan, OrphanScan, PollOnly
  <2> QED BY <1>1, <2>1
<1>5. ASSUME NEW s \in Owners, PollStep(s) \/ PollFault(s) PROVE DownIdle'
  <2>1. up[s] # "down"
    BY <1>5 DEF PollStep, PollFault, ClaimForDispatch, AlreadyClaimed, ShedToDlq, Track, Send,
      SendClosed, SendRefused, RollbackClaim, RollbackReschedule, Reclaim, TrackRescue,
      ReapAuthorize, ReapSettle, Defer, ClaimError, Reject, Shed, SendFull, RollbackError,
      ReapFenceError, ReapOverBudget, ReapError
  <2>2. \A t \in Owners \ {s} : poll'[t] = poll[t]
    BY <1>0, <1>5 DEF PollStep, PollFault, ClaimForDispatch, AlreadyClaimed, ShedToDlq, Track,
      Send, SendClosed, SendRefused, RollbackClaim, RollbackReschedule, Reclaim, TrackRescue,
      ReapAuthorize, ReapSettle, Defer, ClaimError, Reject, Shed, SendFull, RollbackError,
      ReapFenceError, ReapOverBudget, ReapError, Goto, Finish
  <2>3. CASE Send(s)
    BY <1>0, <2>1, <2>2, <2>3 DEF Send
  <2>4. CASE ~Send(s)
    <3>1. UNCHANGED <<drain, up, fresh, runs, results>>
      BY <1>5, <2>4 DEF PollStep, PollFault, ClaimForDispatch, AlreadyClaimed, ShedToDlq, Track,
        SendClosed, SendRefused, RollbackClaim, RollbackReschedule, Reclaim, TrackRescue,
        ReapAuthorize, ReapSettle, Defer, ClaimError, Reject, Shed, SendFull, RollbackError,
        ReapFenceError, ReapOverBudget, ReapError, PollOnly
    <3> QED BY <1>1, <2>1, <2>2, <3>1
  <2> QED BY <2>3, <2>4
<1>6. ASSUME NEW s \in Owners, PoolStep(s) PROVE DownIdle'
  BY <1>0, <1>6 DEF PoolStep, Report
<1>7. ASSUME NEW s \in Owners, DrainStep(s) \/ DrainFault(s) PROVE DownIdle'
  <2>1. CASE Settle(s) \/ SettleOverBudget(s) \/ SettleError(s)
    BY <1>0, <2>1 DEF Settle, SettleOverBudget, SettleError, SettledDrain, NotSettling
  <2>2. ASSUME NEW r \in results, Authorize(r) \/ FenceError(r) PROVE DownIdle'
    <3>1. /\ up[r.sched] # "down" /\ UNCHANGED <<poll, up, fresh, runs>> /\ results' \subseteq results
          /\ \A t \in Owners \ {r.sched} : drain'[t] = drain[t]
      BY <1>0, <2>2 DEF Authorize, FenceError, Alive
    <3> QED BY <1>0, <3>1
  <2> QED BY <1>7, <2>1, <2>2 DEF DrainStep, DrainFault
<1>8. ASSUME NEW s \in Owners, Crash(s) PROVE DownIdle'
  BY <1>0, <1>8 DEF Crash, Idle, NotSettling
<1>9. ASSUME NEW s \in Owners, ClosePool(s) \/ HeartbeatExpires(s) \/ Heartbeat(s) PROVE DownIdle'
  <2>1. CASE ClosePool(s)
    BY <1>0, <2>1 DEF ClosePool, Run, Result
  <2>2. CASE HeartbeatExpires(s) \/ Heartbeat(s)
    <3>1. UNCHANGED <<poll, drain, up, runs, results>>
      BY <2>2 DEF HeartbeatExpires, Heartbeat
    <3>2. \A t \in Owners : fresh'[t] \/ up[t] = "down"
      BY <1>0, <2>2 DEF HeartbeatExpires, Heartbeat
    <3> QED BY <3>1, <3>2
  <2> QED BY <1>9, <2>1, <2>2
<1>10. ASSUME NEW r \in runs, ExecutorLost(r) PROVE DownIdle'
  BY <1>0, <1>10 DEF ExecutorLost
<1>11. CASE UNCHANGED vars
  BY <1>2, <1>11 DEF vars, schedVars
<1> QED BY <1>3, <1>4, <1>5, <1>6, <1>7, <1>8, <1>9, <1>10, <1>11 DEF Next

(* The inductive invariant, while reapers and requeues keep apart.         *)
LEMMA OneHandHolds ==
    ASSUME AccurateDetection
    PROVE  Spec /\ []SoleReaper /\ [][RequeueApart]_vars
               => [](StoreInv /\ SchedInv /\ OneHand /\ DownIdle)
<1>1. Init => OneHand /\ DownIdle
  <2> SUFFICES ASSUME Init PROVE OneHand /\ DownIdle
    OBVIOUS
  <2>1. DownIdle
    BY DEF Init, DownIdle, Idle, NotSettling
  <2>2. ASSUME NEW j \in Jobs PROVE NobodyHas(j) /\ WithinBudget(j)
    BY NoneAssumption, BoundsAssumption DEF Init, StoreInit, NobodyHas, NoSlot, WithinBudget,
      PollsOn, DrainsOn, RunsOn, ResultsOn, Idle, NotSettling, NoRow
  <2> QED BY <2>1, <2>2 DEF OneHand, JobOK, InOnePairOfHands
<1>2. StoreInv /\ SchedInv /\ OneHand /\ DownIdle /\ SoleReaper' /\ [Next]_vars /\ [RequeueApart]_vars
          => OneHand' /\ DownIdle'
  BY OneHandStep, DownIdleStep
<1> QED BY <1>1, <1>2, DispatchInvariant, PTL DEF Spec

(* Two workers never run the same job at once, for any number of jobs and  *)
(* schedulers and through every fault, unless two reapers have the job in  *)
(* hand together or it is requeued under one: what MCDispatchDoubleRun     *)
(* exhibits is the one way, with timeouts that tell the truth.             *)
THEOREM ExclusiveUnlessTwoReap ==
    ASSUME AccurateDetection
    PROVE  Spec /\ []SoleReaper /\ [][RequeueApart]_vars => []ExclusiveExecution
<1>1. SchedInv /\ OneHand => ExclusiveExecution
  <2> SUFFICES ASSUME SchedInv, OneHand, NEW q \in runs, NEW r \in runs, q.job = r.job
               PROVE  q = r
    BY DEF ExclusiveExecution
  <2>1. q.job \in Jobs /\ q \in RunsOn(q.job) /\ r \in RunsOn(q.job)
    BY DEF SchedInv, RestPart, Run, RunsOn
  <2>2. RunHas(q, q.job)
    BY <2>1, WhoHas DEF OneHand, JobOK, HandsTell
  <2> QED BY <2>1, <2>2 DEF RunHas
<1> QED BY <1>1, OneHandHolds, PTL

(* track_in_flight, untrack_in_flight and release_dispatch: if no executor *)
(* is lost, which leaves its slot taken, the book has a slot for what is   *)
(* under way and for nothing else, crashes and recoveries included.        *)
THEOREM BookAgreesUnlessLost ==
    ASSUME AccurateDetection, NoneLost
    PROVE  Spec /\ []SoleReaper /\ [][RequeueApart]_vars => []BookAgrees
<1>1. SchedInv /\ OneHand => BookAgrees
  <2> SUFFICES ASSUME SchedInv, OneHand PROVE BookAgrees
    OBVIOUS
  <2>1. ASSUME NEW s \in Owners, NEW j \in Jobs, book[s][j] # NoRecord
        PROVE  \/ poll[s].job = j /\ poll[s].step \in {"tracked", "reap"}
               \/ \E r \in runs \cup results : r.sched = s /\ r.job = j
    <3>1. ~NobodyHas(j) /\ \A t \in Owners : ~DrainHas(t, j)
      BY <2>1 DEF NobodyHas, DrainHas, NoSlot
    <3>2. ASSUME NEW t \in Owners, PollHas(t, j)
         PROVE t = s /\ poll[s].job = j /\ poll[s].step \in {"tracked", "reap"}
      BY <2>1, <3>2 DEF PollHas, Booked, PollsOn
    <3>3. ASSUME NEW r \in runs, RunHas(r, j) PROVE r.sched = s /\ r.job = j
      BY <2>1, <3>3 DEF RunHas, Booked, RunsOn
    <3>4. ASSUME NEW r \in results, ResultHas(r, j) PROVE r.sched = s /\ r.job = j
      BY <2>1, <3>4 DEF ResultHas, Booked, ResultsOn
    <3>5. InOnePairOfHands(j)
      BY DEF OneHand, JobOK
    <3> QED BY <3>1, <3>2, <3>3, <3>4, <3>5 DEF InOnePairOfHands
  <2>2. ASSUME NEW r \in runs \cup results PROVE TakenRecord(r.sched, r.job) # NoRecord
    <3>1. r.job \in Jobs /\ r.sched \in Owners
      BY DEF SchedInv, RestPart, Run, Result
    <3>2. Booked(r.sched, r.job, r)
      BY <3>1, WhoHas DEF OneHand, JobOK, HandsTell, RunsOn, ResultsOn, RunHas, ResultHas
    <3> QED BY <3>1, <3>2 DEF Booked, TakenRecord, NoRecord
  <2> QED BY <2>1, <2>2 DEF BookAgrees, SlotsBacked, ReportsCanBeFenced
<1> QED BY <1>1, OneHandHolds, PTL

(* A job is retried at most max_retries times and dead-lettered once, by   *)
(* results, reapers and rescuers together, unless two of these reap it.    *)
THEOREM RetriesUnlessTwoReap ==
    ASSUME AccurateDetection
    PROVE  Spec /\ []SoleReaper /\ [][RequeueApart]_vars => []RetriesWithinBudget
<1>1. OneHand => RetriesWithinBudget
  BY DEF OneHand, JobOK, WithinBudget, RetriesWithinBudget
<1> QED BY <1>1, OneHandHolds, PTL

(* The fence, with reaper and rescuer at work on the other side of it: a   *)
(* settled result moves only the attempt it comes from, unless two reapers *)
(* have the job, or a timeout fires on a result still under way, as in     *)
(* MCDispatchLateSettle.                                                   *)
THEOREM SettlesOwnUnlessTwoReap ==
    ASSUME AccurateDetection
    PROVE  Spec /\ []SoleReaper /\ [][RequeueApart]_vars => SettlesOwnDispatch
<1> DEFINE Own(s) == LET d == drain[s] IN
              (d # NotSettling /\ drain'[s] = NotSettling /\ Alive(s)' /\ jobs'[d.job] # jobs[d.job]) =>
                  /\ jobs[d.job].status = "Running" /\ jobs[d.job].retry = d.attempt
                  /\ claims[d.job].epoch \in {0, d.epoch}
<1>1. SchedInv /\ OneHand => \A s \in Owners : Own(s)
  <2> SUFFICES ASSUME SchedInv, OneHand, NEW s \in Owners, drain[s] # NotSettling
               PROVE  /\ jobs[drain[s].job].status = "Running" /\ jobs[drain[s].job].retry = drain[s].attempt
                      /\ claims[drain[s].job].epoch \in {0, drain[s].epoch}
    OBVIOUS
  <2>1. drain[s].job \in Jobs /\ s \in DrainsOn(drain[s].job)
    BY DEF SchedInv, DrainPart, DrainsNameJobs, DrainsOn
  <2>2. DrainHas(s, drain[s].job)
    BY <2>1, WhoHas DEF OneHand, JobOK, HandsTell
  <2> QED BY <2>2 DEF DrainHas, HasIts, NoClaim
<1>2. SchedInv /\ OneHand => [\A s \in Owners : Own(s)]_vars
  BY <1>1
<1> QED BY <1>2, OneHandHolds, PTL DEF SettlesOwnDispatch
=============================================================================
