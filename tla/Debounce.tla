------------------------------ MODULE Debounce ------------------------------
(***************************************************************************)
(* enqueue_debounced: the jobs rows of one debounce key, the calls that    *)
(* slide or insert one, and the dispatch that takes them away.  A call is  *)
(* one transaction (BEGIN IMMEDIATE on SQLite, an advisory lock on the key *)
(* on Postgres) but reads its clock before it waits for it: lag is how old *)
(* that reading is.  Times are kept relative to the present, so the model  *)
(* is finite without stopping the clock: age is now - created_at, counted  *)
(* up to the largest max_wait, and wait is scheduled_at - now, 0 once due. *)
(***************************************************************************)
EXTENDS Naturals, FiniteSets

CONSTANTS
    DebounceIds,  \* job ids; an id is used again once its job is archived
    Options,      \* DebounceOptions of the callers: window, max_wait
    Ceiling,      \* the largest max_wait
    MaxLag,       \* bound on the age of a call's clock reading
    Backoff,      \* the delay of a retry or a deferral
    MaxPending,   \* options.max_pending, the queue's admission cap
    DbSchedulers  \* schedulers that may have a row in hand at a time

(* What validated_debounce_key lets through.                               *)
ValidOptions(o) ==
    /\ o.window \in Nat \ {0} /\ o.max_wait \in Nat
    /\ o.window <= o.max_wait

ASSUME DebounceAssumption ==
    /\ \A o \in Options : ValidOptions(o) /\ o.max_wait <= Ceiling
    /\ Ceiling \in Nat /\ MaxLag \in Nat /\ Backoff \in Nat /\ MaxPending \in Nat
    /\ DbSchedulers \in Nat \ {0}

VARIABLE dbJobs   \* per id: the columns of its row

dbVars == <<dbJobs>>

(* retried: put back by retry or reschedule since it was inserted.         *)
(* owed: a call landed on the row since it was last dequeued.              *)
(* takers: schedulers that dequeued the row and have not claimed it yet.   *)
(* crossed: the claim was written while the row was Pending again.         *)
DbRow == [status : {"Absent", "Pending", "Running"}, age : Nat, wait : Nat,
          takers : 0..DbSchedulers, claimed : BOOLEAN, crossed : BOOLEAN,
          retried : BOOLEAN, owed : BOOLEAN]
DbNoRow == [status |-> "Absent", age |-> 0, wait |-> 0, takers |-> 0,
            claimed |-> FALSE, crossed |-> FALSE, retried |-> FALSE, owed |-> FALSE]

DebounceTypeOK ==
    /\ dbJobs \in [DebounceIds -> DbRow]
    /\ \A j \in DebounceIds : dbJobs[j].age <= Ceiling

DebounceInit == dbJobs = [j \in DebounceIds |-> DbNoRow]

-----------------------------------------------------------------------------
Lesser(a, b) == IF a <= b THEN a ELSE b
Less(a, b) == a - Lesser(a, b)

(* Mutant: the status filter is missing.                                   *)
Candidates_AnyLive == {j \in DebounceIds : dbJobs[j].status # "Absent" /\ ~dbJobs[j].claimed}

(* lock_debounce_candidates, without the rows that hold an execution claim.*)
Candidates == {j \in DebounceIds : dbJobs[j].status = "Pending" /\ ~dbJobs[j].claimed}

(* Oldest created_at first.  Rows older than every max_wait tie here.      *)
IsTarget(j) == j \in Candidates /\ \A k \in Candidates : dbJobs[k].age <= dbJobs[j].age

(* Mutant: the cap is counted from the call.                               *)
Deadline_FromCall(o, lag, age) == Less(Lesser(o.window, o.max_wait), lag)

(* min(now + window, created_at + max_wait) as a wait from the present.  A *)
(* deadline that is already past is due at once.                           *)
Deadline(o, lag, age) == Lesser(Less(o.window, lag), Less(o.max_wait, age))

(* A call finds an open window and moves its deadline.                     *)
Slide(o, lag) ==
    \E j \in DebounceIds :
        /\ IsTarget(j)
        /\ dbJobs' = [dbJobs EXCEPT ![j].wait = Deadline(o, lag, dbJobs[j].age),
                                    ![j].owed = TRUE]

(* A call finds none and inserts, unless the queue is full: QueueFull      *)
(* writes nothing, so a refused call is no step.                           *)
OpenWindow(o, lag) ==
    /\ Candidates = {}
    /\ Cardinality({k \in DebounceIds : dbJobs[k].status = "Pending"}) + 1 <= MaxPending
    /\ \E j \in DebounceIds :
           /\ dbJobs[j].status = "Absent"
           /\ dbJobs' = [dbJobs EXCEPT ![j] =
                  [DbNoRow EXCEPT !.status = "Pending", !.owed = TRUE,
                                  !.age = Lesser(lag, Ceiling),
                                  !.wait = Less(o.window, lag)]]

EnqueueDebounced ==
    \E o \in Options, lag \in 0..MaxLag : Slide(o, lag) \/ OpenWindow(o, lag)

DbTick ==
    dbJobs' = [j \in DebounceIds |->
        IF dbJobs[j].status = "Absent" THEN dbJobs[j]
        ELSE [dbJobs[j] EXCEPT !.age = Lesser(@ + 1, Ceiling), !.wait = Less(@, 1)]]

(* The scheduler takes a due row; the claim is a later, separate write.    *)
DbDequeue(j) ==
    /\ dbJobs[j].status = "Pending" /\ dbJobs[j].wait = 0
    /\ dbJobs[j].takers < DbSchedulers
    /\ dbJobs' = [dbJobs EXCEPT ![j].status = "Running", ![j].owed = FALSE,
                                ![j].takers = @ + 1]

(* The claim is an insert that never looks at the job row: by the time it  *)
(* comes the reaper may have put the row back, and a call may have slid    *)
(* it.  A claim that is already there is left to its owner.                *)
DbClaim(j) ==
    /\ dbJobs[j].takers > 0
    /\ dbJobs' = [dbJobs EXCEPT ![j].takers = @ - 1, ![j].claimed = TRUE,
                                ![j].crossed = @ \/ (dbJobs[j].status = "Pending"
                                                     /\ ~dbJobs[j].claimed)]

(* retry deletes the claim with the row's update, reschedule leaves it to  *)
(* complete_execution.  Both keep created_at and the debounce key, and     *)
(* neither looks at the status: a Running row is put back by its result or *)
(* by the reaper, and a row that is Pending again once more by a scheduler *)
(* that still has it in hand, deferred at a gate before the claim or       *)
(* rolling a crossed claim back.                                           *)
DbPutBack(j) ==
    \E taken \in {0, 1}, c \in {FALSE, dbJobs[j].claimed} :
        /\ dbJobs[j].status # "Absent" /\ taken <= dbJobs[j].takers
        /\ dbJobs[j].status = "Running" \/ taken = 1 \/ (dbJobs[j].crossed /\ ~c)
        /\ dbJobs' = [dbJobs EXCEPT ![j].status = "Pending", ![j].wait = Backoff,
                                    ![j].takers = @ - taken, ![j].retried = TRUE,
                                    ![j].claimed = c, ![j].crossed = c /\ @]

DbUnclaim(j) ==
    /\ dbJobs[j].claimed
    /\ dbJobs' = [dbJobs EXCEPT ![j].claimed = FALSE, ![j].crossed = FALSE]

(* The id of an archived row stands for a new one: nobody's late claim     *)
(* reaches it.                                                             *)
DbArchive(j) ==
    /\ dbJobs[j].status = "Running"
    /\ dbJobs' = [dbJobs EXCEPT ![j] = DbNoRow]

DebounceNext ==
    \/ EnqueueDebounced \/ DbTick
    \/ \E j \in DebounceIds : \/ DbDequeue(j) \/ DbClaim(j) \/ DbPutBack(j)
                              \/ DbUnclaim(j) \/ DbArchive(j)

DebounceSpec == DebounceInit /\ [][DebounceNext]_dbVars

(* Time passes, and the poll loop takes what is due and goes on to claim   *)
(* it.  Calls may go on for ever, and nothing is assumed of them.          *)
DebounceFair ==
    /\ WF_dbVars(DbTick)
    /\ \A j \in DebounceIds : WF_dbVars(DbDequeue(j)) /\ WF_dbVars(DbClaim(j))

-----------------------------------------------------------------------------
(* However many calls slide a window, with whatever options and however    *)
(* late they get the lock, the job is never put off past the longest       *)
(* max_wait counted from when the window opened.                           *)
NeverPutOffPastCeiling ==
    \A j \in DebounceIds :
        (dbJobs[j].status = "Pending" /\ ~dbJobs[j].retried)
            => dbJobs[j].age + dbJobs[j].wait <= Ceiling

(* A call is served by a run that starts after it: the row it lands on is  *)
(* Pending and stays so until a later dequeue, and no scheduler has it in  *)
(* hand or holds a claim on it.  The exception is a row that was put back: *)
(* a scheduler that took it earlier may still write its claim over the     *)
(* waiting call, which hides the row from later calls but not from the     *)
(* queue.  A claim left from before the call is never there.               *)
CallServedLater ==
    \A j \in DebounceIds : dbJobs[j].owed =>
        /\ dbJobs[j].status = "Pending"
        /\ dbJobs[j].claimed => dbJobs[j].crossed
        /\ dbJobs[j].takers > 0 \/ dbJobs[j].claimed => dbJobs[j].retried

(* Callers who never stop cannot starve a pending job.                     *)
DebouncedRuns ==
    \A j \in DebounceIds :
        (dbJobs[j].status = "Pending") ~> (dbJobs[j].status # "Pending")
=============================================================================
