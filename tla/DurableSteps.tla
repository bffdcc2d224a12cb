---------------------------- MODULE DurableSteps ----------------------------
(***************************************************************************)
(* Durable steps of one job: the step rows in the store and the sessions   *)
(* that replay and extend them (step/session.rs, step/sequence.rs,         *)
(* storage/diesel_common/steps.rs).                                        *)
(*                                                                         *)
(* Every dispatch of the job opens a session, numbered by the claim epoch  *)
(* it was won under.  A session reads the committed steps once, answers a  *)
(* step it finds there from that snapshot, runs the body of one it does    *)
(* not, and commits the result through a fence.  Sessions of superseded    *)
(* dispatches go on: nothing tells them, and only the fence stops them.    *)
(*                                                                         *)
(* A job's code asks for its keyed steps in any order and then walks its   *)
(* unkeyed ones; two dispatches may run different versions of it.  A body's*)
(* result is 0 when it is reproducible, else the dispatch that ran it.     *)
(***************************************************************************)
EXTENDS Naturals, FiniteSets, SequencesExt

CONSTANTS
    Owners,         \* worker ids
    NoOne,          \* no owner
    Codes,          \* versions of the task: a set of keyed requests and a walk
    Nap,            \* duration of a sleep
    MaxSteps,       \* StepLimits::max_steps
    MaxRetries,     \* max_retries
    EpochFenced,    \* TRUE: writes carry the claim epoch (with_epoch)
    MaxDispatches,  \* bound on the dispatches of the job
    Events,         \* which of EventKinds may happen
    MaxEvents       \* how many of them a behaviour may contain

(* "overlap": the job is retried while a session of it is still running.   *)
EventKinds == {"crash", "purge", "requeue", "overlap", "again"}

ASSUME StepsAssumption ==
    /\ NoOne \notin Owners /\ Codes # {} /\ Nap \in Nat /\ MaxSteps \in Nat /\ MaxRetries \in Nat
    /\ EpochFenced \in BOOLEAN /\ MaxDispatches \in Nat /\ MaxEvents \in Nat
    /\ Events \subseteq EventKinds

Dispatches == 1..MaxDispatches

VARIABLES
    now,      \* now_millis
    job,      \* the jobs row: status, retry_count, scheduled_at
    claim,    \* execution_claims: owner and epoch, 0 is NULL
    steps,    \* job_steps ordered by seq
    taking,   \* per owner: the job was dequeued and is not claimed yet
    issued,   \* claims won so far
    sess,     \* the session of each dispatch
    events    \* events so far

vars == <<now, job, claim, steps, taking, issued, sess, events>>

Request(c) == c.loop \cup Range(c.walk)
Requests == UNION {Request(c) : c \in Codes}
Keys == {q.key : q \in Requests}

StepRow == [key : Keys, kind : {"run", "sleep"}, result : 0..MaxDispatches, wake : Nat]
NoRequest == [key |-> NoOne, kind |-> "run", keyed |-> FALSE]
NoClaim == [owner |-> NoOne, epoch |-> 0]
NotTaking == [busy |-> FALSE, attempt |-> 0]

Pcs == {"none", "load", "ask", "body", "commit", "sleep", "complete", "dead", "over"}

(* pending is the step handed out, seq the position it takes, value and    *)
(* wake what it commits; recorded is the length of the snapshot in view.   *)
NoSession == [pc |-> "none", owner |-> NoOne, attempt |-> 0, code |-> CHOOSE c \in Codes : TRUE,
              view |-> <<>>, recorded |-> 0, asked |-> {}, pending |-> NoRequest,
              seq |-> 0, value |-> 0, wake |-> 0]

Session(x) ==
    /\ x.pc \in Pcs /\ x.owner \in Owners \cup {NoOne} /\ x.attempt \in Nat /\ x.code \in Codes
    /\ x.view \in Seq(StepRow) /\ x.recorded \in 0..Len(x.view)
    /\ x.asked \subseteq Keys /\ x.pending \in Requests \cup {NoRequest}
    /\ x.seq \in Nat /\ x.value \in 0..MaxDispatches /\ x.wake \in Nat

TypeOK ==
    /\ now \in Nat
    /\ job \in [status : {"Pending", "Running", "Complete", "Dead"}, retry : 0..MaxRetries, wake : Nat]
    /\ claim \in [owner : Owners \cup {NoOne}, epoch : 0..MaxDispatches]
    /\ steps \in Seq(StepRow) /\ Len(steps) <= MaxSteps
    /\ taking \in [Owners -> [busy : BOOLEAN, attempt : 0..MaxRetries]]
    /\ issued \in 0..MaxDispatches
    /\ \A d \in Dispatches : Session(sess[d])
    /\ events \in 0..MaxEvents

Init ==
    /\ now = 0 /\ claim = NoClaim /\ steps = <<>>
    /\ job = [status |-> "Pending", retry |-> 0, wake |-> 0]
    /\ taking = [o \in Owners |-> NotTaking] /\ issued = 0
    /\ sess = [d \in Dispatches |-> NoSession]
    /\ events = 0

Event(e) == e \in Events /\ events < MaxEvents /\ events' = events + 1

At(d, pc) == sess[d].pc = pc
Active(d) == ~At(d, "none") /\ ~At(d, "over")
Goto(d, pc) == sess' = [sess EXCEPT ![d].pc = pc]
Over == job.status \in {"Complete", "Dead"}

(* Time matters while a deadline, stored or about to be, is ahead.         *)
Tick ==
    /\ \/ job.wake > now
       \/ \E d \in Dispatches : At(d, "sleep") /\ sess[d].wake > now
    /\ now' = now + 1
    /\ UNCHANGED <<job, claim, steps, taking, issued, sess, events>>

-----------------------------------------------------------------------------
(* Dispatch: the dequeue and the claim are two transactions.               *)

Dequeue(o) ==
    /\ ~taking[o].busy /\ job.status = "Pending" /\ job.wake <= now
    /\ job' = [job EXCEPT !.status = "Running"]
    /\ taking' = [taking EXCEPT ![o] = [busy |-> TRUE, attempt |-> job.retry]]
    /\ UNCHANGED <<now, claim, steps, issued, sess, events>>

Claim(o) ==
    /\ taking[o].busy
    /\ taking' = [taking EXCEPT ![o] = NotTaking]
    /\ \/ /\ claim = NoClaim /\ issued < MaxDispatches
          /\ issued' = issued + 1
          /\ claim' = [owner |-> o, epoch |-> issued']
          /\ \E c \in Codes :
                sess' = [sess EXCEPT ![issued'] =
                    [NoSession EXCEPT !.pc = "load", !.owner = o, !.attempt = taking[o].attempt, !.code = c]]
       \/ claim # NoClaim /\ UNCHANGED <<claim, issued, sess>>
    /\ UNCHANGED <<now, job, steps, events>>

-----------------------------------------------------------------------------
(* The fence.                                                              *)

epochs_agree(a, b) == a = 0 \/ b = 0 \/ a = b

(* The job is Running at this attempt, and the claim is the caller's, under*)
(* its epoch if both have one, or absent.                                  *)
resolve_attempt_fence(owner, attempt, epoch) ==
    /\ job.status = "Running" /\ job.retry = attempt
    /\ claim = NoClaim \/ (claim.owner = owner /\ epochs_agree(claim.epoch, epoch))

Epoch(d) == IF EpochFenced THEN d ELSE 0
Fenced(d) == resolve_attempt_fence(sess[d].owner, sess[d].attempt, Epoch(d))

(* An absent claim is put back under the writer's own epoch.               *)
Reasserted(d) == IF claim = NoClaim THEN [owner |-> sess[d].owner, epoch |-> Epoch(d)] ELSE claim

(* An unused key, the next free position, and room for one more.           *)
check_step_position(seq, key) ==
    /\ \A i \in DOMAIN steps : steps[i].key # key
    /\ seq = Len(steps) + 1
    /\ Len(steps) < MaxSteps

-----------------------------------------------------------------------------
(* The session's walk: which recorded step a request replays.              *)

(* Mutant: a retry starts without the steps of the attempts before it.     *)
Load_Retried(d) ==
    /\ At(d, "load")
    /\ LET found == IF sess[d].attempt = 0 THEN steps ELSE <<>> IN
       sess' = [sess EXCEPT ![d].pc = "ask", ![d].view = found, ![d].recorded = Len(found)]
    /\ UNCHANGED <<now, job, claim, steps, taking, issued, events>>

Load(d) ==
    /\ At(d, "load")
    /\ sess' = [sess EXCEPT ![d].pc = "ask", ![d].view = steps, ![d].recorded = Len(steps)]
    /\ UNCHANGED <<now, job, claim, steps, taking, issued, events>>

(* The walk skips what a keyed request already took.                       *)
Unclaimed(x) == {i \in 1..x.recorded : x.view[i].key \notin x.asked}
AtCursor(x) == {i \in Unclaimed(x) : \A k \in Unclaimed(x) : i <= k}

(* A keyed request is matched by key wherever it sits, an unkeyed one at   *)
(* the cursor.                                                             *)
recorded_match(x, q) ==
    IF q.keyed THEN {i \in 1..x.recorded : x.view[i].key = q.key}
    ELSE {i \in AtCursor(x) : x.view[i].key = q.key}

(* What the code asks for next.                                            *)
Asks(x) ==
    LET loop == {q \in x.code.loop : q.key \notin x.asked}
        left == {i \in DOMAIN x.code.walk : x.code.walk[i].key \notin x.asked} IN
    IF loop # {} THEN loop ELSE {x.code.walk[i] : i \in {k \in left : \A l \in left : k <= l}}

Replays(x, q) == \E i \in recorded_match(x, q) : x.view[i].kind = q.kind
NewGround(x, q) == recorded_match(x, q) = {} /\ (q.keyed \/ Unclaimed(x) = {})

SessionOnly == UNCHANGED <<now, job, claim, steps, taking, issued, events>>

Issued(x, q) == [x EXCEPT !.asked = @ \cup {q.key}, !.pending = q]

(* step.run on a recorded step: the stored result, and no body.            *)
Memoized(d, q) ==
    /\ At(d, "ask") /\ q \in Asks(sess[d]) /\ q.kind = "run" /\ Replays(sess[d], q)
    /\ sess' = [sess EXCEPT ![d] = [Issued(@, q) EXCEPT !.pending = NoRequest]]
    /\ SessionOnly

BeginRun(d, q) ==
    /\ At(d, "ask") /\ q \in Asks(sess[d]) /\ q.kind = "run" /\ NewGround(sess[d], q)
    /\ sess' = [sess EXCEPT ![d] = [Issued(@, q) EXCEPT !.pc = "body", !.seq = Len(sess[d].view) + 1]]
    /\ SessionOnly

(* Mutant: a recorded sleep is over because it is recorded.                *)
Elapsed_Recorded(d, q) ==
    /\ At(d, "ask") /\ q \in Asks(sess[d]) /\ q.kind = "sleep" /\ Replays(sess[d], q)
    /\ sess' = [sess EXCEPT ![d] = [Issued(@, q) EXCEPT !.pending = NoRequest]]
    /\ SessionOnly

(* step.sleep on a recorded sleep whose deadline has passed.               *)
Elapsed(d, q) ==
    /\ At(d, "ask") /\ q \in Asks(sess[d]) /\ q.kind = "sleep" /\ Replays(sess[d], q)
    /\ \A i \in recorded_match(sess[d], q) : now >= sess[d].view[i].wake
    /\ sess' = [sess EXCEPT ![d] = [Issued(@, q) EXCEPT !.pending = NoRequest]]
    /\ SessionOnly

(* One that has not passed is issued again at its recorded position.       *)
Resume(d, q) ==
    /\ At(d, "ask") /\ q \in Asks(sess[d]) /\ q.kind = "sleep" /\ Replays(sess[d], q)
    /\ \E i \in recorded_match(sess[d], q) :
          /\ now < sess[d].view[i].wake
          /\ sess' = [sess EXCEPT ![d] =
                [Issued(@, q) EXCEPT !.pc = "sleep", !.seq = i, !.wake = now + Nap]]
    /\ SessionOnly

BeginSleep(d, q) ==
    /\ At(d, "ask") /\ q \in Asks(sess[d]) /\ q.kind = "sleep" /\ NewGround(sess[d], q)
    /\ sess' = [sess EXCEPT ![d] = IF Len(sess[d].view) < MaxSteps
          THEN [Issued(@, q) EXCEPT !.pc = "sleep", !.seq = Len(sess[d].view) + 1, !.wake = now + Nap]
          ELSE [Issued(@, q) EXCEPT !.pc = "dead"]]
    /\ SessionOnly

(* The running code no longer matches what is recorded.                    *)
Diverge(d, q) ==
    /\ At(d, "ask") /\ q \in Asks(sess[d])
    /\ ~Replays(sess[d], q) /\ ~NewGround(sess[d], q)
    /\ Goto(d, "dead") /\ SessionOnly

(* The body returns, or fails and with it the attempt; a result over the   *)
(* caps is refused before it is sent.                                      *)
EndBody(d) ==
    /\ At(d, "body")
    /\ \/ Len(sess[d].view) < MaxSteps
          /\ \E v \in {0, d} : sess' = [sess EXCEPT ![d].pc = "commit", ![d].value = v]
       \/ Len(sess[d].view) >= MaxSteps /\ Goto(d, "dead")
    /\ SessionOnly

Finish(d) ==
    /\ At(d, "ask") /\ Asks(sess[d]) = {}
    /\ Goto(d, "complete") /\ SessionOnly

-----------------------------------------------------------------------------
(* The fenced writes.  A refusal inside the transaction rolls all of it    *)
(* back; a lost fence ends the attempt without a word.                     *)

Superseded(d) == ~Fenced(d) /\ Goto(d, "over") /\ UNCHANGED <<job, claim, steps>>
Refused(d) == Fenced(d) /\ Goto(d, "dead") /\ UNCHANGED <<job, claim, steps>>

Written(x) == [key |-> x.pending.key, kind |-> "run", result |-> x.value, wake |-> 0]

(* Mutant: the position is enough to know a commit again.                  *)
SameCommit_AnyResult(d) ==
    LET x == sess[d] IN x.seq \in DOMAIN steps /\ steps[x.seq].key = x.pending.key

(* A retransmission, or another session's identical result.                *)
SameCommit(d) ==
    LET x == sess[d] IN x.seq \in DOMAIN steps /\ steps[x.seq] = Written(x)

NewCommit(d) ==
    LET x == sess[d] IN x.seq \notin DOMAIN steps /\ check_step_position(x.seq, x.pending.key)

Committed(d) ==
    /\ claim' = Reasserted(d)
    /\ sess' = [sess EXCEPT ![d].pc = "ask", ![d].pending = NoRequest, ![d].view = Append(@, Written(sess[d]))]

record_step_result(d) ==
    /\ At(d, "commit")
    /\ \/ Superseded(d)
       \/ ~SameCommit(d) /\ ~NewCommit(d) /\ Refused(d)
       \/ Fenced(d) /\ SameCommit(d) /\ Committed(d) /\ UNCHANGED <<job, steps>>
       \/ Fenced(d) /\ NewCommit(d) /\ Committed(d)
          /\ steps' = Append(steps, Written(sess[d])) /\ UNCHANGED job
    /\ UNCHANGED <<now, taking, issued, events>>

(* The frame of a commit whose ack was lost is delivered again.            *)
Retransmit(d) ==
    /\ At(d, "commit") /\ Event("again")
    /\ Fenced(d) /\ (SameCommit(d) \/ NewCommit(d))
    /\ claim' = Reasserted(d)
    /\ steps' = IF SameCommit(d) THEN steps ELSE Append(steps, Written(sess[d]))
    /\ UNCHANGED <<now, job, taking, issued, sess>>

(* A sleep row already at the position keeps its deadline.                 *)
SameSleep(d) ==
    LET x == sess[d] IN
    x.seq \in DOMAIN steps /\ steps[x.seq].key = x.pending.key /\ steps[x.seq].kind = "sleep"

Slept(x) == [key |-> x.pending.key, kind |-> "sleep", result |-> 0, wake |-> x.wake]

StepsAfterSleep(d) == IF SameSleep(d) THEN steps ELSE Append(steps, Slept(sess[d]))

(* Mutant: the sleeping job stays Running, and the reaper retries it.      *)
sleep_job_StaysRunning(d) ==
    /\ At(d, "sleep") /\ Fenced(d) /\ (SameSleep(d) \/ NewCommit(d))
    /\ steps' = StepsAfterSleep(d)
    /\ claim' = NoClaim
    /\ Goto(d, "over")
    /\ UNCHANGED <<now, job, taking, issued, events>>

(* The row, the release of the claim and the reschedule in one transaction.*)
sleep_job(d) ==
    /\ At(d, "sleep")
    /\ \/ Superseded(d)
       \/ ~SameSleep(d) /\ ~NewCommit(d) /\ Refused(d)
       \/ /\ Fenced(d) /\ (SameSleep(d) \/ NewCommit(d))
          /\ steps' = StepsAfterSleep(d)
          /\ claim' = NoClaim
          /\ job' = [job EXCEPT !.status = "Pending", !.wake = steps'[sess[d].seq].wake]
          /\ Goto(d, "over")
    /\ UNCHANGED <<now, taking, issued, events>>

-----------------------------------------------------------------------------
(* The end of an attempt, and of the job.                                  *)

(* The scheduler's record of the job is of its latest dispatch.            *)
LatestOf(o) == {d \in Dispatches : d <= issued /\ sess[d].owner = o
                   /\ \A e \in Dispatches : (e <= issued /\ sess[e].owner = o) => e <= d}

Authorized(d) ==
    \E r \in LatestOf(sess[d].owner) :
        (EpochFenced => r = d) /\ resolve_attempt_fence(sess[r].owner, sess[r].attempt, r)

(* archive_job_row drops the steps with the row.                           *)
Archived(status) ==
    job' = [job EXCEPT !.status = status] /\ steps' = <<>> /\ claim' = NoClaim

Settle(d) ==
    /\ At(d, "complete") \/ At(d, "dead")
    /\ \/ Authorized(d) /\ Archived(IF At(d, "complete") THEN "Complete" ELSE "Dead")
       \/ ~Authorized(d) /\ UNCHANGED <<job, steps, claim>>
    /\ Goto(d, "over")
    /\ UNCHANGED <<now, taking, issued, events>>

(* The attempt failed, or looks stale: the reaper, on any scheduler.       *)
Retry ==
    /\ job.status = "Running"
    /\ \/ (\A d \in Dispatches : ~Active(d)) /\ (\A o \in Owners : ~taking[o].busy) /\ UNCHANGED events
       \/ Event("overlap")
    /\ \/ /\ job.retry < MaxRetries
          /\ job' = [job EXCEPT !.status = "Pending", !.retry = @ + 1, !.wake = now]
          /\ claim' = NoClaim /\ UNCHANGED steps
       \/ job.retry = MaxRetries /\ Archived("Dead")
    /\ UNCHANGED <<now, taking, issued, sess>>

requeue_stuck ==
    /\ job.status = "Running" /\ Event("requeue")
    /\ job' = [job EXCEPT !.status = "Pending", !.wake = now]
    /\ claim' = NoClaim
    /\ UNCHANGED <<now, steps, taking, issued, sess>>

purge_execution_claims ==
    /\ claim # NoClaim /\ Event("purge")
    /\ claim' = NoClaim
    /\ UNCHANGED <<now, job, steps, taking, issued, sess>>

(* The worker dies, or the body raises: nothing more comes from it.        *)
Crash(d) ==
    /\ Active(d) /\ Event("crash")
    /\ Goto(d, "over")
    /\ UNCHANGED <<now, job, claim, steps, taking, issued>>

SessionStep(d) ==
    \/ Load(d) \/ EndBody(d) \/ Finish(d) \/ record_step_result(d) \/ sleep_job(d) \/ Settle(d)
    \/ \E q \in Requests : \/ Memoized(d, q) \/ BeginRun(d, q) \/ Elapsed(d, q)
                           \/ Resume(d, q) \/ BeginSleep(d, q) \/ Diverge(d, q)

Poll == \E o \in Owners : Dequeue(o) \/ Claim(o)

Next ==
    \/ Tick \/ Poll \/ Retry \/ requeue_stuck \/ purge_execution_claims
    \/ \E d \in Dispatches : SessionStep(d) \/ Retransmit(d) \/ Crash(d)

Spec == Init /\ [][Next]_vars

(* Time passes, schedulers poll and sweep, and a session goes on.          *)
Fairness ==
    /\ WF_vars(Tick) /\ WF_vars(Poll) /\ WF_vars(Retry)
    /\ \A d \in Dispatches : WF_vars(SessionStep(d))

FairSpec == Spec /\ Fairness

-----------------------------------------------------------------------------
(* What a session takes for the job's history is its history: every value  *)
(* it read or committed stands at the position it has it at, however many  *)
(* superseded sessions wrote beside it.                                    *)
ViewsAreHistory == ~Over => \A d \in Dispatches : IsPrefix(sess[d].view, steps)

(* The job has one history: every session sees it, and while the job lives *)
(* a committed step never changes, its deadline included: replays and      *)
(* retransmissions only ever add (record_step_result, Load).               *)
OneHistory == [][ViewsAreHistory' /\ (IsPrefix(steps, steps') \/ Over')]_vars

(* No session is past a sleep before the deadline its first commit fixed.  *)
NoEarlyWake ==
    \A d \in Dispatches : \A i \in DOMAIN sess[d].view :
        LET r == sess[d].view[i] IN
        (Active(d) /\ ~At(d, "sleep") /\ r.kind = "sleep" /\ r.key \in sess[d].asked) => now >= r.wake

(* The job's current attempt does not run the body of a committed step     *)
(* again, in whatever order the keys of a replay come and whatever earlier *)
(* attempts still write.                                                   *)
CommittedNotRerun ==
    \A d \in Dispatches :
        (At(d, "body") /\ job.status = "Running" /\ sess[d].attempt = job.retry) =>
            \A i \in DOMAIN steps : steps[i].key # sess[d].pending.key

(* What steps.rs says of the fence: a write puts back the claim of the     *)
(* job's own attempt only, and never between another scheduler's dequeue   *)
(* of that attempt and its claim, when the job has moved on from the       *)
(* writer.  A requeue refutes it (resolve_attempt_fence).                  *)
NoClaimResurrected ==
    [][(claim = NoClaim /\ claim' # NoClaim /\ issued' = issued) =>
          /\ sess[claim'.epoch].attempt = job.retry
          /\ \A o \in Owners : ~(taking[o].busy /\ taking[o].attempt = job.retry)]_vars

(* A job whose faults fit its retries completes, its sleeps included.      *)
Completes == <>(job.status = "Complete")
=============================================================================
