----------------------------- MODULE RemotePool -----------------------------
(***************************************************************************)
(* The remote executor pool (worker/remote.rs) and the executors attached  *)
(* to it (worker/executor.rs).  place takes jobs one at a time, matches    *)
(* each to a connection with a free slot and sends it; a reader thread per *)
(* connection takes what comes back.  An executor answers from two threads *)
(* that share one writer: results and heartbeats.                          *)
(*                                                                         *)
(* Dispatch n is the n-th job handed to the pool; n is also the lease it   *)
(* is dispatched under.  Shutting the whole dispatcher down, progress and  *)
(* logs are left out.  publish_free, a load and a store, is one step.      *)
(***************************************************************************)
EXTENDS Integers, Sequences, FiniteSets

CONSTANTS
    Conns,       \* connections, each attached at most once
    ExecIds,     \* executor ids; a reconnect attaches under the same one
    Slots,       \* slots an executor announces
    PoolJobs,
    MaxHand,     \* bound on dispatches
    PoolModes    \* sets of the things a behaviour may meet, each once (Mishap)

ASSUME PoolAssumption ==
    /\ Slots \in Nat \ {0} /\ MaxHand \in Nat
    /\ Conns \subseteq Nat \ {0} /\ IsFiniteSet(PoolJobs)

VARIABLES
    given,     \* the job of each dispatch so far
    queue,     \* job_rx
    place,     \* the job being placed, and the connection it is matched to
    book,      \* LeaseBook: the lease of the job's current dispatch
    claim,     \* the dispatch that holds the job's claim in storage
    link,      \* a connection: state, id, free slots, draining
    registry,  \* Shared.executors
    entry,     \* Executor.in_flight
    down,      \* job frames on their way
    up,        \* frames from the executor on their way
    exec,      \* the executor's Shared, and the threads that use it
    pump,      \* sleep commits queued for storage
    results,   \* results replies and not drained yet
    replies,   \* how often each dispatch was answered for
    fate,      \* how each dispatch ended
    slept,     \* dispatches whose sleep is in storage
    due        \* what a behaviour may still meet

poolVars == <<given, queue, place, book, claim, link, registry, entry, down, up,
              exec, pump, results, replies, fate, slept, due>>

Handed == 1..MaxHand
NoDispatch == [n |-> 0, lease |-> 0, slept |-> FALSE]
NoPlacement == [n |-> 0, conn |-> 0]
Job(n) == given[n]
Held(c) == {j \in PoolJobs : entry[c][j] # NoDispatch}

\* The storage side, the dispatcher's side, the wire and the executor's side:
\* what an action leaves alone.
storeSide == <<given, claim, slept>>
poolSide == <<queue, place, link, registry, entry>>
wire == <<down, up>>
answers == <<results, replies, fate>>

Mishap(kind) == kind \in due /\ due' = due \ {kind}

PoolInit ==
    /\ given = <<>> /\ queue = <<>> /\ place = NoPlacement
    /\ book = [j \in PoolJobs |-> 0] /\ claim = [j \in PoolJobs |-> 0]
    /\ link = [c \in Conns |-> [state |-> "off", id |-> "none", free |-> Slots, draining |-> FALSE]]
    /\ registry = {}
    /\ entry = [c \in Conns |-> [j \in PoolJobs |-> NoDispatch]]
    /\ down = [c \in Conns |-> <<>>] /\ up = [c \in Conns |-> <<>>]
    /\ exec = [c \in Conns |-> [leases |-> [j \in PoolJobs |-> 0], free_slots |-> Slots,
                                running |-> {}, asking |-> {}, told |-> {}, done |-> {}, sent |-> 0,
                                beat |-> -1, draining |-> FALSE]]
    /\ pump = {} /\ results = {} /\ slept = {}
    /\ replies = [n \in Handed |-> 0] /\ fate = [n \in Handed |-> "none"]
    /\ due \in PoolModes
-----------------------------------------------------------------------------
(* The scheduler.  A claimed job is tracked, its lease issued, and sent.   *)
Hand(j) ==
    LET n == Len(given) + 1 IN
    /\ n <= MaxHand /\ claim[j] = 0
    /\ given' = Append(given, j) /\ queue' = Append(queue, n)
    /\ book' = [book EXCEPT ![j] = n] /\ claim' = [claim EXCEPT ![j] = n]
    /\ UNCHANGED <<place, link, registry, entry, wire, exec, pump, answers, slept, due>>

(* The drain thread takes a result, releases the job's record (retiring    *)
(* its lease) and settles the job if the record still holds the claim; a   *)
(* sleep is settled already.                                               *)
release_in_flight(r) ==
    LET j == Job(r.n) IN
    /\ r \in results /\ results' = results \ {r}
    /\ book' = [book EXCEPT ![j] = 0]
    /\ claim' = [claim EXCEPT ![j] = IF @ = book[j] /\ ~r.slept THEN 0 ELSE @]
    /\ UNCHANGED <<given, poolSide, wire, exec, pump, replies, fate, slept, due>>

(* The job is taken back from a dispatch under way: by this scheduler's    *)
(* reaper, which retires the lease, or by somebody else, who does not.     *)
TakenBack(j, own) ==
    /\ Mishap(IF own THEN "reap" ELSE "requeue") /\ claim[j] # 0
    /\ claim' = [claim EXCEPT ![j] = 0]
    /\ book' = [book EXCEPT ![j] = IF own THEN 0 ELSE @]
    /\ UNCHANGED <<given, poolSide, wire, exec, pump, answers, slept>>
-----------------------------------------------------------------------------
(* Placement, one job at a time.                                           *)
emit(n, asleep) ==
    /\ results' = results \cup {[n |-> n, slept |-> asleep]}
    /\ replies' = [replies EXCEPT ![n] = @ + 1]
    /\ fate' = [fate EXCEPT ![n] = "emitted"]

TakeJob ==
    /\ place = NoPlacement /\ queue # <<>>
    /\ place' = [n |-> Head(queue), conn |-> 0] /\ queue' = Tail(queue)
    /\ UNCHANGED <<storeSide, book, link, registry, entry, wire, exec, pump, answers, due>>

\* Executors that may be handed the job: attached, not draining, with a slot free
\* and not already running an attempt of it.
Candidates(n) ==
    {c \in registry : link[c].free > 0 /\ ~link[c].draining /\ entry[c][Job(n)] = NoDispatch}

try_acquire(c) ==
    /\ place.n # 0 /\ place.conn = 0 /\ c \in Candidates(place.n)
    /\ \A o \in Candidates(place.n) : link[o].free <= link[c].free
    /\ place' = [place EXCEPT !.conn = c]
    /\ link' = [link EXCEPT ![c].free = @ - 1]
    /\ UNCHANGED <<storeSide, book, queue, registry, entry, wire, exec, pump, answers, due>>

(* No slot within placement_timeout: a retryable failure.                  *)
fail_unplaceable ==
    /\ place.n # 0 /\ place.conn = 0 /\ Candidates(place.n) = {}
    /\ emit(place.n, FALSE) /\ place' = NoPlacement
    /\ UNCHANGED <<storeSide, book, queue, link, registry, entry, wire, exec, pump, due>>

(* The committed steps cannot be read: the slot goes back, the job fails.  *)
SnapshotUnread ==
    /\ Mishap("snapshot") /\ place.conn # 0
    /\ link' = [link EXCEPT ![place.conn].free = @ + 1]
    /\ emit(place.n, FALSE) /\ place' = NoPlacement
    /\ UNCHANGED <<storeSide, book, queue, registry, entry, wire, exec, pump>>

(* The job is registered and framed under the lease the book has now.  A   *)
(* write to a connection that has ended may still succeed.                 *)
dispatch_to ==
    LET n == place.n  c == place.conn  j == Job(n)  lease == book[j] IN
    /\ c # 0 /\ place' = NoPlacement
    /\ entry' = [entry EXCEPT ![c][j] = [n |-> n, lease |-> lease, slept |-> FALSE]]
    /\ down' = IF link[c].state = "open" THEN [down EXCEPT ![c] = Append(@, [n |-> n, lease |-> lease])]
               ELSE down
    /\ fate' = IF link[c].state = "gone" THEN [fate EXCEPT ![n] = "lost"] ELSE fate
    /\ UNCHANGED <<storeSide, book, queue, link, registry, up, exec, pump, results, replies, due>>

\* Instance-aware: whoever attached under the same id meanwhile stays.
deregister(c) == registry' = registry \ {c}

(* The write fails, or times out on an executor that stopped reading: the  *)
(* slot is given back and the connection dropped from the registry, though *)
(* not closed.  The job is left to the reaper.                             *)
WriteFailed ==
    LET c == place.conn IN
    /\ c # 0
    /\ \/ link[c].state # "open" /\ UNCHANGED due
       \/ link[c].state = "open" /\ Mishap("stall")
    /\ place' = NoPlacement /\ deregister(c)
    /\ link' = [link EXCEPT ![c].free = @ + 1]
    /\ fate' = [fate EXCEPT ![place.n] = "lost"]
    /\ UNCHANGED <<storeSide, book, queue, entry, wire, exec, pump, results, replies>>
-----------------------------------------------------------------------------
(* Connections.                                                            *)
attach(c, id) ==
    /\ link[c].state = "off" /\ \A o \in registry : link[o].id # id
    /\ \A o \in Conns : link[o].state = "off" => c <= o
    /\ link' = [link EXCEPT ![c].state = "open", ![c].id = id]
    /\ registry' = registry \cup {c}
    /\ UNCHANGED <<storeSide, book, queue, place, entry, wire, exec, pump, answers, due>>

\* The connection ends: what was on its way down is lost, and the reader still
\* gets some of what was on its way up.
Ended(c) ==
    /\ down' = [down EXCEPT ![c] = <<>>]
    /\ \E k \in 0..Len(up[c]) : up' = [up EXCEPT ![c] = SubSeq(@, 1, k)]
    /\ exec' = [exec EXCEPT ![c].running = {}, ![c].asking = {}, ![c].told = {}, ![c].done = {}, ![c].sent = 0,
                            ![c].beat = -1, ![c].draining = TRUE]

(* The executor dies or the network does.                                  *)
Lose(c) ==
    /\ Mishap("lose") /\ link[c].state = "open"
    /\ link' = [link EXCEPT ![c].state = "closed"] /\ Ended(c)
    /\ UNCHANGED <<storeSide, book, queue, place, registry, entry, pump, answers>>

(* detach: a stream that is rotated out is given no more work, waited for  *)
(* until every slot is back or its budget is over, and then closed.        *)
BeginDetach(c) ==
    /\ Mishap("detach") /\ c \in registry
    /\ link' = [link EXCEPT ![c].draining = TRUE]
    /\ UNCHANGED <<storeSide, book, queue, place, registry, entry, wire, exec, pump, answers>>

\* Mutant: nothing is running, which a job that is only matched does not count for.
is_idle_NotBusy(c) == Held(c) = {}

is_idle(c) == link[c].free >= Slots

CloseDetached(c, late) ==
    /\ link[c].draining /\ link[c].state = "open"
    /\ IF late THEN Mishap("late") /\ ~is_idle(c) ELSE is_idle(c) /\ UNCHANGED due
    /\ deregister(c)
    /\ link' = [link EXCEPT ![c].state = IF late THEN "closed" ELSE "detached"] /\ Ended(c)
    /\ UNCHANGED <<storeSide, book, queue, place, entry, pump, answers>>

(* The reader thread reaches the end of the stream: an attempt that slept  *)
(* is answered for, as no reaper will; the others are left to the reaper.  *)
abandon(c) ==
    LET over == {entry[c][j].n : j \in Held(c)}
        asleep == {entry[c][j].n : j \in {k \in Held(c) : entry[c][k].slept}} IN
    /\ link[c].state \in {"closed", "detached"} /\ up[c] = <<>>
    /\ deregister(c)
    /\ link' = [link EXCEPT ![c].state = "gone"]
    /\ entry' = [entry EXCEPT ![c] = [j \in PoolJobs |-> NoDispatch]]
    /\ results' = results \cup {[n |-> n, slept |-> TRUE] : n \in asleep}
    /\ replies' = [n \in Handed |-> IF n \in asleep THEN replies[n] + 1 ELSE replies[n]]
    /\ fate' = [n \in Handed |-> IF n \in asleep THEN "emitted" ELSE IF n \in over THEN "lost" ELSE fate[n]]
    /\ UNCHANGED <<storeSide, book, queue, place, wire, exec, pump, due>>
-----------------------------------------------------------------------------
(* The reader thread of a connection.                                      *)
Frame(c, kind) == up[c] # <<>> /\ Head(up[c]).kind = kind
Read(c) == up' = [up EXCEPT ![c] = Tail(@)]

\* No lease on record: the storage fence decides.  All executors negotiated leases,
\* so that a frame without one is refused.
frame_is_current(f) == book[Job(f.n)] = 0 \/ f.lease = book[Job(f.n)]

ReadHeartbeat(c) ==
    /\ Frame(c, "beat") /\ Read(c)
    /\ link' = [link EXCEPT ![c].free = IF Head(up[c]).free < @ THEN Head(up[c]).free ELSE @]
    /\ UNCHANGED <<storeSide, book, queue, place, registry, entry, down, exec, pump, answers, due>>

(* Mutant: the entry is looked up and stays.                               *)
ReadResult_EntryStays(c) ==
    LET f == Head(up[c])  j == Job(f.n) IN
    /\ Frame(c, "result") /\ Read(c)
    /\ entry[c][j] # NoDispatch /\ frame_is_current(f) /\ emit(entry[c][j].n, f.slept)
    /\ link' = [link EXCEPT ![c].free = @ + 1]
    /\ UNCHANGED <<storeSide, book, queue, place, registry, entry, down, exec, pump, due>>

(* A result: taking the entry is the right to answer for the dispatch.     *)
ReadResult(c) ==
    LET f == Head(up[c])  j == Job(f.n) IN
    /\ Frame(c, "result") /\ Read(c)
    /\ IF entry[c][j] = NoDispatch
       THEN UNCHANGED <<entry, link, answers>>
       ELSE /\ entry' = [entry EXCEPT ![c][j] = NoDispatch]
            /\ link' = [link EXCEPT ![c].free = @ + 1]
            /\ IF frame_is_current(f) THEN emit(entry[c][j].n, f.slept)
               ELSE fate' = [fate EXCEPT ![entry[c][j].n] = "refused"] /\ UNCHANGED <<results, replies>>
    /\ UNCHANGED <<storeSide, book, queue, place, registry, down, exec, pump, due>>

\* The task that asked for a step is answered, if its executor is still there:
\* it ends with that answer, asleep or failed.
Answered(c, n, ok) ==
    exec' = IF n \notin exec[c].asking THEN exec
            ELSE [exec EXCEPT ![c].asking = @ \ {n}, ![c].done = @ \cup {n},
                              ![c].told = IF ok THEN @ \cup {n} ELSE @]

(* apply_step_commit: the commit of a sleep is refused, or queued under    *)
(* the lease of the dispatch the connection is running.                    *)
apply_step_commit(c) ==
    LET f == Head(up[c])  e == entry[c][Job(f.n)] IN
    /\ Frame(c, "sleep") /\ Read(c)
    /\ IF e # NoDispatch /\ frame_is_current(f)
       THEN pump' = pump \cup {[conn |-> c, n |-> f.n, epoch |-> e.lease]} /\ UNCHANGED exec
       ELSE Answered(c, f.n, FALSE) /\ UNCHANGED pump
    /\ UNCHANGED <<storeSide, book, poolSide, down, answers, due>>

(* The pump's worker: sleep_job under the fence, then the reply, which     *)
(* notes the sleep on the connection's entry.                              *)
StepPumpApply(w) ==
    LET j == Job(w.n)
        \* By the epoch, or, where the dispatch had no lease, by the attempt.
        fenced == claim[j] # (IF w.epoch = 0 THEN w.n ELSE w.epoch) IN
    /\ w \in pump /\ pump' = pump \ {w}
    /\ Answered(w.conn, w.n, ~fenced)
    /\ IF fenced THEN UNCHANGED <<claim, slept, entry>>
       ELSE /\ claim' = [claim EXCEPT ![j] = 0]
            /\ slept' = slept \cup {w.n}
            /\ entry' = IF entry[w.conn][j] = NoDispatch THEN entry
                        ELSE [entry EXCEPT ![w.conn][j].slept = TRUE]
    /\ UNCHANGED <<given, book, queue, place, link, registry, wire, answers, due>>
-----------------------------------------------------------------------------
(* The executor.                                                           *)
Write(c, f) == up' = [up EXCEPT ![c] = Append(@, f)]
Result(c, n) == [kind |-> "result", n |-> n, lease |-> exec[c].leases[Job(n)],
                 slept |-> n \in exec[c].told, free |-> 0]
Beat(count) == [kind |-> "beat", n |-> 0, lease |-> 0, slept |-> FALSE, free |-> count]

\* Slots less jobs not answered yet, unless draining has set it to zero.
publish_free(e, unanswered) == IF e.draining THEN e.free_slots ELSE Slots - Cardinality(unanswered)
Unanswered(e) == e.running \cup e.asking \cup e.done \cup ({e.sent} \ {0})

(* A job frame: the lease is noted, and the job started or declined.       *)
accept_job(c) ==
    LET f == Head(down[c])
        e == exec[c]
        lease == IF f.lease = 0 THEN e.leases[Job(f.n)] ELSE f.lease IN
    /\ down[c] # <<>> /\ down' = [down EXCEPT ![c] = Tail(@)]
    /\ IF e.draining
       THEN Write(c, [Result(c, f.n) EXCEPT !.lease = lease])
            /\ exec' = [exec EXCEPT ![c].leases[Job(f.n)] = 0]
       ELSE /\ exec' = [exec EXCEPT ![c].leases[Job(f.n)] = lease, ![c].running = @ \cup {f.n},
                            ![c].free_slots = publish_free(e, Unanswered(e) \cup {f.n})]
            /\ UNCHANGED up
    /\ UNCHANGED <<storeSide, book, poolSide, pump, answers, due>>

(* A task ends, or asks the scheduler to commit a sleep and waits.         *)
TaskEnds(c, n) ==
    /\ n \in exec[c].running
    /\ exec' = [exec EXCEPT ![c].running = @ \ {n}, ![c].done = @ \cup {n}]
    /\ UNCHANGED <<storeSide, book, poolSide, wire, pump, answers, due>>

commit_sleep(c, n) ==
    /\ Mishap("sleep") /\ n \in exec[c].running
    /\ exec' = [exec EXCEPT ![c].running = @ \ {n}, ![c].asking = @ \cup {n}]
    /\ Write(c, [Result(c, n) EXCEPT !.kind = "sleep"])
    /\ UNCHANGED <<storeSide, book, poolSide, down, pump, answers>>

(* No acknowledgement within its timeout: the attempt ends retryably.      *)
AckTimeout(c, n) ==
    /\ n \in exec[c].asking
    /\ exec' = [exec EXCEPT ![c].asking = @ \ {n}, ![c].done = @ \cup {n}]
    /\ UNCHANGED <<storeSide, book, poolSide, wire, pump, answers, due>>

(* The result thread writes the frame; only then does it forget the        *)
(* dispatch and publish the slot.                                          *)
send_result(c, n) ==
    /\ exec[c].sent = 0 /\ n \in exec[c].done
    /\ exec' = [exec EXCEPT ![c].done = @ \ {n}, ![c].sent = n]
    /\ Write(c, Result(c, n))
    /\ UNCHANGED <<storeSide, book, poolSide, down, pump, answers, due>>

job_finished(c) ==
    LET e == exec[c] IN
    /\ e.sent # 0
    /\ exec' = [exec EXCEPT ![c].leases[Job(e.sent)] = 0, ![c].sent = 0,
                            ![c].free_slots = publish_free(e, Unanswered(e) \ {e.sent})]
    /\ UNCHANGED <<storeSide, book, poolSide, wire, pump, answers, due>>

(* The heartbeat thread reads the count, and then waits for the writer.    *)
LoadHeartbeat(c) ==
    /\ link[c].state = "open" /\ exec[c].beat = -1 /\ ~exec[c].draining /\ Mishap("beat")
    /\ exec' = [exec EXCEPT ![c].beat = exec[c].free_slots]
    /\ UNCHANGED <<storeSide, book, poolSide, wire, pump, answers>>

SendHeartbeat(c) ==
    /\ exec[c].beat # -1
    /\ exec' = [exec EXCEPT ![c].beat = -1]
    /\ Write(c, Beat(exec[c].beat))
    /\ UNCHANGED <<storeSide, book, poolSide, down, pump, answers, due>>

(* The executor stops: it announces no capacity, declines what still comes *)
(* and disconnects when what it holds is answered.                         *)
begin_drain(c) ==
    /\ Mishap("drain") /\ link[c].state = "open" /\ ~exec[c].draining
    /\ exec' = [exec EXCEPT ![c].draining = TRUE, ![c].free_slots = 0]
    /\ Write(c, Beat(0))
    /\ UNCHANGED <<storeSide, book, poolSide, down, pump, answers>>

teardown(c) ==
    /\ exec[c].draining /\ link[c].state = "open"
    /\ Unanswered(exec[c]) = {} /\ exec[c].beat = -1
    /\ link' = [link EXCEPT ![c].state = "closed"]
    /\ down' = [down EXCEPT ![c] = <<>>]
    /\ UNCHANGED <<storeSide, book, queue, place, registry, entry, up, exec, pump, answers, due>>
-----------------------------------------------------------------------------
Scheduling == \/ \E j \in PoolJobs : Hand(j)
              \/ \E r \in results : release_in_flight(r)
              \/ \E j \in PoolJobs, own \in BOOLEAN : TakenBack(j, own)

Placing == \/ TakeJob \/ fail_unplaceable \/ SnapshotUnread \/ dispatch_to \/ WriteFailed
           \/ \E c \in Conns : try_acquire(c)

Connecting == \E c \in Conns : \/ \E id \in ExecIds : attach(c, id)
                               \/ Lose(c) \/ BeginDetach(c) \/ abandon(c) \/ teardown(c)
                               \/ \E late \in BOOLEAN : CloseDetached(c, late)

Receiving == \/ \E c \in Conns : ReadHeartbeat(c) \/ ReadResult(c) \/ apply_step_commit(c)
           \/ \E w \in pump : StepPumpApply(w)

Executing == \E c \in Conns :
                \/ accept_job(c) \/ job_finished(c) \/ LoadHeartbeat(c) \/ SendHeartbeat(c) \/ begin_drain(c)
                \/ \E n \in Handed : TaskEnds(c, n) \/ commit_sleep(c, n) \/ AckTimeout(c, n)
                                       \/ send_result(c, n)

PoolNext == Scheduling \/ Placing \/ Connecting \/ Receiving \/ Executing
PoolSpec == PoolInit /\ [][PoolNext]_poolVars
-----------------------------------------------------------------------------
(* The one placement task, a reader thread per connection, the workers of  *)
(* the pump and the threads of an executor keep running, and a task ends.  *)
ReaderStep(c) == ReadHeartbeat(c) \/ ReadResult(c) \/ apply_step_commit(c) \/ abandon(c)
PumpStep == \E w \in pump : StepPumpApply(w)
ExecutorStep(c) ==
    \/ accept_job(c) \/ job_finished(c) \/ SendHeartbeat(c) \/ teardown(c)
    \/ \E n \in Handed : TaskEnds(c, n) \/ AckTimeout(c, n) \/ send_result(c, n)

PoolFairness ==
    /\ WF_poolVars(Placing) /\ WF_poolVars(PumpStep)
    /\ \A c \in Conns : WF_poolVars(ReaderStep(c)) /\ WF_poolVars(ExecutorStep(c))

PoolFairSpec == PoolSpec /\ PoolFairness
-----------------------------------------------------------------------------
Matched(c) == IF place.conn = c THEN 1 ELSE 0
Open(c) == link[c].state = "open"

(* A dispatch is answered for at most once, whichever of its result, the   *)
(* end of its connection and placement comes first; and what a connection  *)
(* says of a job is said by the dispatch its entry stands for, though the  *)
(* frames name the job alone (register_dispatch, handle_frame, abandon).   *)
AnsweredOnce ==
    /\ \A n \in Handed : replies[n] <= 1
    /\ \A c \in Conns : \A i \in DOMAIN up[c] :
          LET f == up[c][i] IN
          f.kind # "beat" => entry[c][Job(f.n)] = NoDispatch \/ entry[c][Job(f.n)].n = f.n

(* Rotating a stream out strands nothing: one closed because it was idle   *)
(* had no job, not even one matched to it and not sent yet; no connection  *)
(* is given more than its slots, whatever its heartbeats say; and the end  *)
(* of an old connection leaves its replacement, attached under the same    *)
(* id, in the registry; only a failed write takes an open connection out of *)
(* it (is_idle, handle_frame, deregister).                                 *)
NothingStranded ==
    \A c \in Conns :
        /\ link[c].state = "detached" => Held(c) = {} /\ place.conn # c
        /\ Open(c) => link[c].free + Cardinality(Held(c)) + Matched(c) <= Slots
        /\ Open(c) => c \in registry \/ \E n \in Handed : fate[n] = "lost"

(* A job handed to the pool is answered for, or its dispatch is over in a  *)
(* way that leaves it to the reaper: placement, a full executor and a lost *)
(* connection never hold it for good (place, abandon).                     *)
EveryHandEnds ==
    \A n \in Handed : (n <= Len(given)) ~> (fate[n] # "none")

(* A comment of handle_frame: "Local accounting is exact, so a heartbeat   *)
(* may only *shrink* capacity".  While the executor sheds nothing, the     *)
(* slots that are free and the ones in use are all there are.              *)
FreeIsExact ==
    \A c \in Conns :
        Open(c) /\ ~exec[c].draining => link[c].free + Cardinality(Held(c)) + Matched(c) = Slots

(* A comment of apply_step_commit: "if the connection dies before the      *)
(* `slept` frame arrives, `abandon` can still report the attempt that      *)
(* ended - no reaper will".  A dispatch that went to sleep is not lost.    *)
SleptIsReported == \A n \in slept : fate[n] # "lost"

(* A comment of the executor's leases: "every frame that settles or        *)
(* advances the attempt has to hand back the one that came with the        *)
(* dispatch".  So the dispatch that holds the job's claim is never refused.*)
HolderIsHeard == \A n \in Handed : fate[n] = "refused" => claim[Job(n)] # n
=============================================================================
