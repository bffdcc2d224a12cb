--------------------------- MODULE ConcurrencyCaps --------------------------
(***************************************************************************)
(* The caps a dispatch batch must respect: max_running of the namespace,   *)
(* max_concurrent of the queue and of the task, and the scheduler's own    *)
(* max_in_flight.  Several schedulers share the jobs table.  A scheduler   *)
(* moves a whole batch to Running first and counts Running rows afterwards,*)
(* one query per scope and only once per batch: GateCounts serves the rest *)
(* of the batch from memory and gives back what a rejected job occupied.   *)
(* The stale reaper takes any Running row past its timeout, whoever has    *)
(* the job: what a pool still runs of it no table counts any more.         *)
(***************************************************************************)
EXTENDS Integers, Sequences, FiniteSets

CONSTANTS
    CapJobs,
    Dispatchers,    \* schedulers, one poll loop each
    ScopesOf,       \* per job: its capped scopes, in the order the gate reads them
    Limit,          \* per scope: the cap
    MaxInFlight,    \* max_in_flight of every scheduler
    BatchSize,
    MaxTaken,       \* bound on the rows the reaper takes from a dispatch that has them
    Unread          \* a scope this batch has not counted yet

Scopes == DOMAIN Limit

ASSUME CapsAssumption ==
    /\ Limit \in [Scopes -> Nat] /\ ScopesOf \in [CapJobs -> Seq(Scopes)]
    /\ IsFiniteSet(CapJobs) /\ MaxInFlight \in Nat /\ BatchSize \in Nat /\ MaxTaken \in Nat
    /\ Unread \notin Int

VARIABLES
    capRow,     \* per job: Pending, Running or Done
    batch,      \* per scheduler: jobs dequeued and not yet gated
    gate,       \* per scheduler: the job at the gate, as a set, and the scope it is at
    counts,     \* per scheduler: GateCounts
    inFlight,   \* per scheduler: dispatches in its book whose row is still theirs
    overrun,    \* per scheduler: dispatches in its book whose row the reaper took
    taken,      \* rows the reaper took from a dispatch that had them
    crossed     \* one of them was in a batch or at a gate

capVars == <<capRow, batch, gate, counts, inFlight, overrun, taken, crossed>>

CapIdle == [job |-> {}, at |-> 1]
NoCounts == [c \in Scopes |-> Unread]

CapsTypeOK ==
    /\ capRow \in [CapJobs -> {"Pending", "Running", "Done"}]
    /\ batch \in [Dispatchers -> SUBSET CapJobs]
    /\ inFlight \in [Dispatchers -> SUBSET CapJobs] /\ overrun \in [Dispatchers -> SUBSET CapJobs]
    /\ taken \in 0..MaxTaken /\ crossed \in BOOLEAN
    /\ \A s \in Dispatchers, c \in Scopes : counts[s][c] = Unread \/ counts[s][c] \in Int

CapsInit ==
    /\ capRow = [j \in CapJobs |-> "Pending"]
    /\ batch = [s \in Dispatchers |-> {}]
    /\ gate = [s \in Dispatchers |-> CapIdle]
    /\ counts = [s \in Dispatchers |-> NoCounts]
    /\ inFlight = [s \in Dispatchers |-> {}] /\ overrun = [s \in Dispatchers |-> {}]
    /\ taken = 0 /\ crossed = FALSE

-----------------------------------------------------------------------------
InScope(j, c) == \E i \in DOMAIN ScopesOf[j] : ScopesOf[j][i] = c
RunningIn(c) == {j \in CapJobs : capRow[j] = "Running" /\ InScope(j, c)}

(* The records of a scheduler's InFlight book: what in_flight_remaining    *)
(* takes off the budget.                                                   *)
Book(s) == inFlight[s] \cup overrun[s]

Flip(B) == capRow' = [j \in CapJobs |-> IF j \in B THEN "Running" ELSE capRow[j]]

(* Mutant: the cache outlives its batch.                                   *)
CapDequeue_KeepsCounts(s, B) ==
    /\ batch[s] = {} /\ gate[s] = CapIdle /\ B # {}
    /\ Cardinality(B) <= BatchSize
    /\ Cardinality(B) + Cardinality(Book(s)) <= MaxInFlight
    /\ \A j \in B : capRow[j] = "Pending"
    /\ Flip(B) /\ batch' = [batch EXCEPT ![s] = B]
    /\ UNCHANGED <<counts, gate, inFlight, overrun, taken, crossed>>

(* in_flight_remaining and the batch size bound the batch, which is moved  *)
(* to Running and claimed before any job of it is gated.                   *)
CapDequeue(s, B) ==
    /\ batch[s] = {} /\ gate[s] = CapIdle /\ B # {}
    /\ Cardinality(B) <= BatchSize
    /\ Cardinality(B) + Cardinality(Book(s)) <= MaxInFlight
    /\ \A j \in B : capRow[j] = "Pending"
    /\ Flip(B) /\ batch' = [batch EXCEPT ![s] = B]
    /\ counts' = [counts EXCEPT ![s] = NoCounts]
    /\ UNCHANGED <<gate, inFlight, overrun, taken, crossed>>

CapTake(s, j) ==
    /\ j \in batch[s] /\ gate[s] = CapIdle
    /\ batch' = [batch EXCEPT ![s] = @ \ {j}]
    /\ gate' = [gate EXCEPT ![s].job = {j}]
    /\ UNCHANGED <<capRow, counts, inFlight, overrun, taken, crossed>>

(* The scope's count, from the batch's cache or by a query.                *)
CountOf(s, c) == IF counts[s][c] = Unread THEN Cardinality(RunningIn(c)) ELSE counts[s][c]

(* check_post_claim_concurrency, one scope: the count includes this job,   *)
(* so the comparison is strict.  at = 0 marks a job over a cap.            *)
CapCount(s, j) ==
    /\ gate[s].job = {j} /\ gate[s].at \in DOMAIN ScopesOf[j]
    /\ LET c == ScopesOf[j][gate[s].at] IN
           /\ counts' = [counts EXCEPT ![s][c] = CountOf(s, c)]
           /\ gate' = [gate EXCEPT ![s].at = IF CountOf(s, c) > Limit[c] THEN 0 ELSE @ + 1]
    /\ UNCHANGED <<capRow, batch, inFlight, overrun, taken, crossed>>

(* GateCounts::release: scopes not loaded yet will be counted without the  *)
(* job.                                                                    *)
Release(s, j) ==
    counts' = [counts EXCEPT ![s] =
        [c \in Scopes |-> IF @[c] # Unread /\ InScope(j, c) THEN @[c] - 1 ELSE @[c]]]

(* The job does not go: over a cap (the in-process bulkhead included),     *)
(* turned away by a rate limit or the breaker, shed, a count that failed,  *)
(* or a channel that is full.  Its slot is given back and the row goes     *)
(* back to Pending, or to the dead letters.  If that write fails the row   *)
(* stays Running, and belongs to nobody.                                   *)
CapPutBack(s, j) ==
    /\ gate[s].job = {j}
    /\ Release(s, j)
    /\ \E row \in {"Pending", "Running", "Done"} : capRow' = [capRow EXCEPT ![j] = row]
    /\ gate' = [gate EXCEPT ![s] = CapIdle]
    /\ UNCHANGED <<batch, inFlight, overrun, taken, crossed>>

(* The claim was lost: the row is left to whoever holds it, and stays in   *)
(* the counts.                                                             *)
CapAlreadyClaimed(s, j) ==
    /\ gate[s] = [job |-> {j}, at |-> 1]
    /\ gate' = [gate EXCEPT ![s] = CapIdle]
    /\ UNCHANGED <<capRow, batch, counts, inFlight, overrun, taken, crossed>>

(* The record of an earlier dispatch of the job, if the book still has it, *)
(* is overwritten: the book is keyed by job id.                            *)
CapSend(s, j) ==
    /\ gate[s].job = {j} /\ gate[s].at = Len(ScopesOf[j]) + 1
    /\ inFlight' = [inFlight EXCEPT ![s] = @ \cup {j}]
    /\ overrun' = [overrun EXCEPT ![s] = @ \ {j}]
    /\ gate' = [gate EXCEPT ![s] = CapIdle]
    /\ UNCHANGED <<capRow, batch, counts, taken, crossed>>

(* The drain thread settles a job, which ends or is retried.  A failed     *)
(* write leaves the row as it is, and the record is gone all the same.     *)
CapReport(s, j) ==
    /\ j \in inFlight[s]
    /\ inFlight' = [inFlight EXCEPT ![s] = @ \ {j}]
    /\ \E row \in {"Pending", "Done", capRow[j]} : capRow' = [capRow EXCEPT ![j] = row]
    /\ UNCHANGED <<batch, gate, counts, overrun, taken, crossed>>

(* A result, the reaper's own included, that is fenced against a record    *)
(* whose row was taken: it frees the slot and is dropped.                  *)
CapSuperseded(s, j) ==
    /\ j \in overrun[s]
    /\ overrun' = [overrun EXCEPT ![s] = @ \ {j}]
    /\ UNCHANGED <<capRow, batch, gate, counts, inFlight, taken, crossed>>

InHand(s) == batch[s] \cup gate[s].job

(* The stale reaper of scheduler r takes a Running row past its timeout.   *)
(* It does not ask who has the job: a pool may still run it, and the row   *)
(* may be in a batch or at a gate.  A record of the job in r's own book is *)
(* released with it; the one in another scheduler's stays.                 *)
CapReap(r, j) ==
    /\ capRow[j] = "Running" /\ j \notin overrun[r]
    /\ \E row \in {"Pending", "Done"} : capRow' = [capRow EXCEPT ![j] = row]
    /\ inFlight' = [s \in Dispatchers |-> inFlight[s] \ {j}]
    /\ overrun' = [s \in Dispatchers |-> overrun[s] \cup (IF s = r THEN {} ELSE inFlight[s] \cap {j})]
    /\ crossed' = (crossed \/ \E s \in Dispatchers : j \in InHand(s))
    /\ taken' = taken + (IF \E s \in Dispatchers : j \in InHand(s) \cup inFlight[s] THEN 1 ELSE 0)
    /\ taken' <= MaxTaken
    /\ UNCHANGED <<batch, gate, counts>>

CapsNext ==
    \E s \in Dispatchers :
        \/ \E B \in SUBSET CapJobs : CapDequeue(s, B)
        \/ \E j \in CapJobs : \/ CapTake(s, j) \/ CapCount(s, j) \/ CapPutBack(s, j)
                              \/ CapAlreadyClaimed(s, j) \/ CapSend(s, j) \/ CapReport(s, j)
                              \/ CapSuperseded(s, j) \/ CapReap(s, j)

CapsSpec == CapsInit /\ [][CapsNext]_capVars

-----------------------------------------------------------------------------
Executing == UNION {inFlight[s] : s \in Dispatchers}

(* No scope ever has more dispatches in flight than its cap allows, over   *)
(* all schedulers, although each counts at its own time and reuses the     *)
(* count for a batch; and no scheduler's book holds more than              *)
(* max_in_flight, although that budget is read before the dequeue.  Two    *)
(* things are outside the caps, and the code calls them best-effort: an    *)
(* attempt the reaper timed out no longer counts, however long its pool    *)
(* goes on running it, and after the reaper took a row from under a        *)
(* dispatch in progress (crossed), which then gives back a place that was  *)
(* never counted, a scope may admit too much.                              *)
LimitsHold ==
    /\ \A c \in Scopes : crossed \/ Cardinality({j \in Executing : InScope(j, c)}) <= Limit[c]
    /\ \A s \in Dispatchers : Cardinality(Book(s)) <= MaxInFlight
=============================================================================
