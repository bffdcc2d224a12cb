----------------------------- MODULE PushSettle -----------------------------
(***************************************************************************)
(* One job pushed to an HTTP target that answers 202 and reports later     *)
(* (worker/http_target).  The waiting attempt task, the target's Settle and*)
(* ExtendLease calls and the stale reaper race for a durable settle marker *)
(* on the execution claim; whoever consumes it answers for the dispatch.   *)
(*                                                                         *)
(* The job is dispatched again after a failure or an operator's requeue, so*)
(* a straggler of dispatch d and the current dispatch d + 1 share the      *)
(* process-local registry, which is keyed by job id.  A dispatch is        *)
(* identified by its claim epoch, 1, 2, ...; time is a small counter.  The *)
(* poll loop dispatches and reaps on one thread.                           *)
(***************************************************************************)
EXTENDS Naturals, FiniteSets

CONSTANTS
    MaxDispatches,  \* bound on the dispatches of the job
    JobTimeout,     \* timeout_ms
    Extension,      \* what one ExtendLease call asks for
    MaxTime,        \* bound on the clock
    Events          \* which of EventKinds may happen, once each; "overtake": the job may
                    \* be dispatched again before what is Underway for it has ended

EventKinds == {"cancel", "drain", "requeue", "extend", "recordError", "claimError", "overtake"}

ASSUME PushAssumption ==
    /\ MaxDispatches \in Nat /\ JobTimeout \in Nat \ {0} /\ Extension \in Nat \ {0}
    /\ MaxTime \in Nat /\ Events \subseteq EventKinds

Dispatches == 1..MaxDispatches

VARIABLES
    now,        \* now_millis
    issued,     \* dispatches made so far
    cur,        \* the dispatch the row is Running under, 0 when it is not Running
    marker,     \* settle_deadline_ms on the claim of cur, 0 is NULL
    started,    \* started_at per dispatch
    task,       \* the attempt task: where it is, and why it gave up
    asked,      \* the time it decided to give up
    held,       \* Shared::accepted: dispatch and readiness, 0 when no entry
    ended,      \* EndedDispatches: the accepted dispatch that ended last, and how
    relieved,   \* the oneshot of a dispatch has fired
    call,       \* the target's Settle call per dispatch
    extend,     \* the target's ExtendLease call per dispatch
    sent,       \* results in the channel to the scheduler
    lease,      \* LeaseBook: the current dispatch of the job, 0 when none
    reap,       \* the reaper: nothing, or what it read of the job
    over,       \* the job is terminal
    outcome,    \* history: who decided a dispatch, "none" so far
    won,        \* history: who was ever granted a dispatch's marker
    emitted,    \* history: how many results the dispatcher sent per dispatch
    happened    \* the events so far

row == <<cur, marker, over, outcome, won>>
calls == <<call, extend>>
process == <<task, asked, held, ended, relieved, sent, emitted, lease>>
vars == <<now, issued, started, row, process, calls, reap, happened>>

TaskPc == {"none", "request", "recording", "recorded", "waiting", "claiming", "emit", "lost", "done"}
Why == {"none", "answer", "failure", "cancel", "drain", "deadline"}
CallPc == {"idle", "checked", "granted", "emitted", "ok", "fenced", "cancelled", "nothere"}
Parties == {"target", "task", "reaper"}
Entry == [dispatch : 0..MaxDispatches, ready : BOOLEAN]
NoEntry == [dispatch |-> 0, ready |-> FALSE]
Ending == [dispatch : 0..MaxDispatches, how : {"fenced", "cancelled"}]
Reading == [dispatch : 0..MaxDispatches, awaiting : BOOLEAN, won : BOOLEAN, at : Nat]
NoReading == [dispatch |-> 0, awaiting |-> FALSE, won |-> FALSE, at |-> 0]

TypeOK ==
    /\ now \in 0..MaxTime /\ issued \in 0..MaxDispatches /\ cur \in 0..MaxDispatches
    /\ marker \in 0..MaxTime
    /\ started \in [Dispatches -> 0..MaxTime]
    /\ task \in [Dispatches -> [pc : TaskPc, why : Why]]
    /\ asked \in [Dispatches -> 0..MaxTime]
    /\ held \in Entry /\ ended \in Ending
    /\ over \in BOOLEAN /\ emitted \in [Dispatches -> Nat]
    /\ relieved \in [Dispatches -> BOOLEAN]
    /\ call \in [Dispatches -> CallPc]
    /\ extend \in [Dispatches -> {"idle", "checked"}]
    /\ sent \subseteq [dispatch : Dispatches, by : {"target", "task"}, why : Why]
    /\ lease \in 0..MaxDispatches
    /\ reap \in Reading
    /\ outcome \in [Dispatches -> {"none", "requeue"} \cup Parties]
    /\ won \in [Dispatches -> SUBSET Parties]
    /\ happened \subseteq EventKinds

Init ==
    /\ now = 1 /\ issued = 0 /\ cur = 0 /\ marker = 0
    /\ started = [d \in Dispatches |-> 0]
    /\ task = [d \in Dispatches |-> [pc |-> "none", why |-> "none"]]
    /\ asked = [d \in Dispatches |-> 0]
    /\ held = NoEntry /\ ended = [dispatch |-> 0, how |-> "fenced"]
    /\ over = FALSE /\ emitted = [d \in Dispatches |-> 0]
    /\ relieved = [d \in Dispatches |-> FALSE]
    /\ call = [d \in Dispatches |-> "idle"]
    /\ extend = [d \in Dispatches |-> "idle"]
    /\ sent = {} /\ lease = 0 /\ reap = NoReading
    /\ outcome = [d \in Dispatches |-> "none"]
    /\ won = [d \in Dispatches |-> {}]
    /\ happened = {}

Happens(e) == e \in Events \ happened /\ happened' = happened \cup {e}

(* started_at + timeout_ms.                                                *)
Deadline(d) == started[d] + JobTimeout

At(d, pc) == task[d].pc = pc
Goto(d, pc) == task' = [task EXCEPT ![d].pc = pc]

Tick ==
    /\ now < MaxTime
    /\ now' = now + 1
    /\ UNCHANGED <<issued, started, row, process, calls, reap, happened>>

-----------------------------------------------------------------------------
(* The durable marker.                                                     *)

(* The removal half of claim_settle: the claim row stays.                  *)
consume(party) ==
    /\ marker' = 0
    /\ won' = [won EXCEPT ![cur] = @ \cup {party}]

(* Granted to the deadline's claimant only if the stored deadline is past. *)
claim_settle_Expired(at) == cur # 0 /\ marker # 0 /\ marker <= at

(* Granted to a peer only under the epoch of the claim.                    *)
claim_settle_Lease(d) == cur = d /\ marker # 0

(* Granted to the process giving up, whatever the deadline and the epoch.  *)
claim_settle_Abandoned == cur # 0 /\ marker # 0

(* await_settle: fenced on the dispatch, and the deadline only moves out.  *)
await_settle(d, deadline) ==
    /\ cur = d
    /\ marker' = IF marker > deadline THEN marker ELSE deadline

-----------------------------------------------------------------------------
(* The scheduler: one thread that dispatches and reaps, one that drains.   *)

(* An attempt inside a storage call, or a report already granted.          *)
Underway(d) ==
    task[d].pc \in {"recording", "recorded", "claiming"} \/ call[d] \in {"granted", "emitted"}

Dispatch ==
    /\ cur = 0 /\ ~over /\ issued < MaxDispatches /\ reap = NoReading
    /\ "drain" \notin happened /\ now + JobTimeout + 1 < MaxTime
    /\ (\E d \in Dispatches : Underway(d)) => "overtake" \in Events
    /\ issued' = issued + 1 /\ cur' = issued' /\ lease' = issued'
    /\ started' = [started EXCEPT ![issued'] = now]
    /\ task' = [task EXCEPT ![issued'].pc = "request"]
    /\ UNCHANGED <<now, marker, over, outcome, won, asked, held, ended, relieved, sent, emitted,
                   calls, reap, happened>>

(* The job leaves Running: its claim, and any marker on it, goes too.  A   *)
(* failure is retried, an answer and a cancel are not.                     *)
Decide(party, why) ==
    /\ outcome' = [outcome EXCEPT ![cur] = party]
    /\ over' = (why \in {"answer", "cancel"})
    /\ cur' = 0 /\ marker' = 0
    /\ UNCHANGED won

(* A result is applied to whatever dispatch the job runs now; a job that is*)
(* not running drops it.                                                   *)
Drain(r) ==
    /\ r \in sent
    /\ sent' = sent \ {r}
    /\ IF cur = 0 THEN UNCHANGED row ELSE Decide(r.by, r.why)
    /\ lease' = 0
    /\ UNCHANGED <<now, issued, started, task, asked, held, ended, relieved, emitted, calls, reap,
                   happened>>

Requeue ==
    /\ cur # 0 /\ Happens("requeue")
    /\ Decide("requeue", "requeue")
    /\ UNCHANGED <<now, issued, started, process, calls, reap>>

(* Mutant: a job with a marker is left to its target for good.             *)
ReapScan_SkipsAwaiting ==
    /\ reap = NoReading /\ cur # 0
    /\ Deadline(cur) < now /\ marker = 0
    /\ reap' = [dispatch |-> cur, awaiting |-> FALSE, won |-> FALSE, at |-> now]
    /\ UNCHANGED <<now, issued, started, row, process, calls, happened>>

(* reap_stale_jobs: past the job's own timeout, and not inside a settle    *)
(* deadline.                                                               *)
ReapScan ==
    /\ reap = NoReading /\ cur # 0
    /\ Deadline(cur) < now /\ marker <= now
    /\ reap' = [dispatch |-> cur, awaiting |-> marker # 0, won |-> FALSE, at |-> now]
    /\ UNCHANGED <<now, issued, started, row, process, calls, happened>>

ReapClaim ==
    /\ reap.dispatch # 0 /\ reap.awaiting /\ ~reap.won
    /\ \/ /\ claim_settle_Expired(reap.at)
          /\ consume("reaper")
          /\ reap' = [reap EXCEPT !.won = TRUE]
          /\ UNCHANGED <<cur, over, outcome>>
       \/ /\ ~claim_settle_Expired(reap.at)
          /\ reap' = NoReading
          /\ UNCHANGED row
    /\ UNCHANGED <<now, issued, started, process, calls, happened>>

ReapClaimError ==
    /\ reap.dispatch # 0 /\ reap.awaiting /\ ~reap.won
    /\ Happens("claimError")
    /\ reap' = NoReading
    /\ UNCHANGED <<now, issued, started, row, process, calls>>

(* The timeout, with a marker won or on a job that had none.               *)
ReapSettle ==
    /\ reap.dispatch # 0 /\ (reap.awaiting => reap.won)
    /\ IF cur = reap.dispatch THEN Decide("reaper", "failure") ELSE UNCHANGED row
    /\ lease' = 0 /\ reap' = NoReading
    /\ UNCHANGED <<now, issued, started, task, asked, held, ended, relieved, sent, emitted, calls,
                   happened>>

-----------------------------------------------------------------------------
(* The attempt task (run_one).                                             *)

TaskOnly == UNCHANGED <<now, issued, started, calls, reap>>

(* A cancel reaches the newest dispatch of the job, a drain all of them.   *)
Given(d, why) ==
    \/ why = "cancel" /\ "cancel" \in happened /\ d = issued
    \/ why = "drain" /\ "drain" \in happened

(* The request ends without a 202: the target answered, its budget, which  *)
(* is no longer than the job's timeout, ran out, or it was given up.       *)
RequestEnds(d) ==
    /\ At(d, "request")
    /\ \E why \in Why :
          /\ why \in {"answer", "failure"} \/ Given(d, why)
          /\ task' = [task EXCEPT ![d] = [pc |-> "emit", why |-> why]]
    /\ TaskOnly /\ UNCHANGED <<row, asked, held, ended, relieved, sent, emitted, lease, happened>>

(* 202: registered before the marker is written.                           *)
Accepted(d) ==
    /\ At(d, "request") /\ now < Deadline(d)
    /\ held' = [dispatch |-> d, ready |-> FALSE]
    /\ Goto(d, "recording")
    /\ TaskOnly /\ UNCHANGED <<row, asked, ended, relieved, sent, emitted, lease, happened>>

Record(d) ==
    /\ At(d, "recording")
    /\ \/ await_settle(d, Deadline(d)) /\ Goto(d, "recorded")
       \/ cur # d /\ Goto(d, "lost") /\ UNCHANGED marker
    /\ TaskOnly
    /\ UNCHANGED <<cur, over, outcome, won, asked, held, ended, relieved, sent, emitted, lease, happened>>

RecordError(d) ==
    /\ At(d, "recording") /\ Happens("recordError")
    /\ task' = [task EXCEPT ![d] = [pc |-> "emit", why |-> "failure"]]
    /\ TaskOnly /\ UNCHANGED <<row, asked, held, ended, relieved, sent, emitted, lease>>

(* mark_accepted_ready looks the entry up by job id alone.                 *)
MarkReady(d) ==
    /\ At(d, "recorded")
    /\ held' = IF held.dispatch # 0 THEN [held EXCEPT !.ready = TRUE] ELSE held
    /\ Goto(d, "waiting")
    /\ TaskOnly /\ UNCHANGED <<row, asked, ended, relieved, sent, emitted, lease, happened>>

Relieved(d) ==
    /\ At(d, "waiting") /\ relieved[d]
    /\ Goto(d, "lost")
    /\ TaskOnly /\ UNCHANGED <<row, asked, held, ended, relieved, sent, emitted, lease, happened>>

(* The timer is set to the job's own deadline, once.                       *)
GiveUp(d, why) ==
    /\ At(d, "waiting") /\ ~relieved[d]
    /\ Given(d, why) \/ (why = "deadline" /\ now >= Deadline(d))
    /\ task' = [task EXCEPT ![d] = [pc |-> "claiming", why |-> why]]
    /\ asked' = IF why = "deadline" THEN [asked EXCEPT ![d] = now] ELSE asked
    /\ TaskOnly /\ UNCHANGED <<row, held, ended, relieved, sent, emitted, lease, happened>>

Entitled(d) ==
    IF task[d].why = "deadline" THEN claim_settle_Expired(asked[d]) ELSE claim_settle_Abandoned

(* Mutant: a refused claim is answered for like a granted one.             *)
Claim_RefusalIgnored(d) ==
    /\ At(d, "claiming")
    /\ \/ Entitled(d) /\ consume("task")
       \/ ~Entitled(d) /\ UNCHANGED <<marker, won>>
    /\ Goto(d, "emit")
    /\ TaskOnly
    /\ UNCHANGED <<cur, over, outcome, asked, held, ended, relieved, sent, emitted, lease, happened>>

Claim(d) ==
    /\ At(d, "claiming")
    /\ \/ Entitled(d) /\ consume("task") /\ Goto(d, "emit")
       \/ ~Entitled(d) /\ Goto(d, "lost") /\ UNCHANGED <<marker, won>>
    /\ TaskOnly
    /\ UNCHANGED <<cur, over, outcome, asked, held, ended, relieved, sent, emitted, lease, happened>>

(* Fails closed: no result without the marker.                             *)
ClaimError(d) ==
    /\ At(d, "claiming") /\ Happens("claimError")
    /\ Goto(d, "lost")
    /\ TaskOnly /\ UNCHANGED <<row, asked, held, ended, relieved, sent, emitted, lease>>

(* retire_accepted: guarded by the lease, so a straggler leaves a newer    *)
(* entry, and its ending, alone.                                           *)
retire_accepted(d, how) ==
    IF held.dispatch = d
    THEN held' = NoEntry /\ ended' = [dispatch |-> d, how |-> how]
    ELSE UNCHANGED <<held, ended>>

Lost(d) ==
    /\ At(d, "lost")
    /\ retire_accepted(d, "fenced") /\ Goto(d, "done")
    /\ TaskOnly /\ UNCHANGED <<row, asked, relieved, sent, emitted, lease, happened>>

Send(d, by, why) ==
    /\ sent' = sent \cup {[dispatch |-> d, by |-> by, why |-> why]}
    /\ emitted' = [emitted EXCEPT ![d] = @ + 1]

(* dispatch_is_current is the last gate: a lease that disagrees drops the  *)
(* result.                                                                 *)
Emit(d) ==
    /\ At(d, "emit")
    /\ retire_accepted(d, IF task[d].why = "cancel" THEN "cancelled" ELSE "fenced")
    /\ Goto(d, "done")
    /\ IF lease \in {0, d} THEN Send(d, "task", task[d].why) ELSE UNCHANGED <<sent, emitted>>
    /\ TaskOnly /\ UNCHANGED <<row, asked, relieved, lease, happened>>

-----------------------------------------------------------------------------
(* The target: Settle and ExtendLease under the lease of its dispatch.     *)

CallOnly == UNCHANGED <<now, issued, started, task, asked, ended, lease, reap>>

(* The target holds the lease it was dispatched with, and calls for a      *)
(* dispatch it accepted.                                                   *)
WasAccepted(d) ==
    \/ held.dispatch = d \/ ended.dispatch = d
    \/ task[d].pc \in {"recording", "recorded", "waiting", "claiming", "lost"}

(* What a report on a dispatch that is not held open is told.              *)
not_held(d) == IF ended.dispatch = d THEN ended.how ELSE "nothere"

(* Mutant: an entry whose marker is not durable yet is good enough.        *)
SettleCheck_NotReadyIsReady(d) ==
    /\ call[d] = "idle" /\ WasAccepted(d)
    /\ call' = [call EXCEPT ![d] = CASE held.dispatch = d -> "checked"
                                     [] held.dispatch = 0 -> not_held(d)
                                     [] OTHER -> "fenced"]
    /\ CallOnly /\ UNCHANGED <<row, held, relieved, sent, emitted, extend, happened>>

(* An entry not ready yet answers "try again"; an ended dispatch, or       *)
(* another one's lease, answers Fenced, which is final.                    *)
SettleCheck(d) ==
    /\ held.dispatch # 0 => held.ready
    /\ SettleCheck_NotReadyIsReady(d)

SettleClaim(d) ==
    /\ call[d] = "checked"
    /\ \/ claim_settle_Lease(d) /\ consume("target") /\ call' = [call EXCEPT ![d] = "granted"]
       \/ ~claim_settle_Lease(d) /\ call' = [call EXCEPT ![d] = "fenced"]
          /\ UNCHANGED <<marker, won>>
    /\ CallOnly
    /\ UNCHANGED <<cur, over, outcome, held, relieved, sent, emitted, extend, happened>>

(* emit_settled builds the result from the entry; without one, nothing is  *)
(* sent.                                                                   *)
SettleEmit(d) ==
    /\ call[d] = "granted"
    /\ \/ held.dispatch = 0 /\ UNCHANGED <<sent, emitted>>
       \/ held.dispatch # 0 /\ \E why \in {"answer", "failure"} : Send(held.dispatch, "target", why)
    /\ call' = [call EXCEPT ![d] = "emitted"]
    /\ CallOnly /\ UNCHANGED <<row, held, relieved, extend, happened>>

SettleRelieve(d) ==
    /\ call[d] = "emitted"
    /\ relieved' = [k \in Dispatches |-> relieved[k] \/ k = held.dispatch]
    /\ call' = [call EXCEPT ![d] = "ok"]
    /\ CallOnly /\ UNCHANGED <<row, held, sent, emitted, extend, happened>>

ExtendCheck(d) ==
    /\ extend[d] = "idle" /\ Happens("extend")
    /\ held = [dispatch |-> d, ready |-> TRUE]
    /\ extend' = [extend EXCEPT ![d] = "checked"]
    /\ CallOnly /\ UNCHANGED <<row, held, relieved, sent, emitted, call>>

ExtendWrite(d) ==
    /\ extend[d] = "checked" /\ now + Extension < MaxTime
    /\ \/ await_settle(d, now + Extension)
       \/ cur # d /\ UNCHANGED marker
    /\ extend' = [extend EXCEPT ![d] = "idle"]
    /\ CallOnly
    /\ UNCHANGED <<cur, over, outcome, won, held, relieved, sent, emitted, call, happened>>

-----------------------------------------------------------------------------
(* An operator cancels the job; the process begins to shut down.           *)
Signal(e) ==
    /\ e \in {"cancel", "drain"} /\ Happens(e)
    /\ e = "cancel" => cur # 0
    /\ UNCHANGED <<now, issued, started, row, process, calls, reap>>

TaskStep(d) ==
    \/ RequestEnds(d) \/ Accepted(d) \/ Record(d) \/ MarkReady(d) \/ Relieved(d)
    \/ (\E why \in {"cancel", "drain", "deadline"} : GiveUp(d, why))
    \/ Claim(d) \/ Lost(d) \/ Emit(d)

CallStep(d) == SettleClaim(d) \/ SettleEmit(d) \/ SettleRelieve(d)

ReapStep == ReapScan \/ ReapClaim \/ ReapSettle

Next ==
    \/ Tick \/ Dispatch \/ ReapStep \/ ReapClaimError \/ Requeue
    \/ \E r \in sent : Drain(r)
    \/ \E e \in EventKinds : Signal(e)
    \/ \E d \in Dispatches :
          \/ TaskStep(d) \/ RecordError(d) \/ ClaimError(d) \/ CallStep(d)
          \/ SettleCheck(d) \/ ExtendCheck(d) \/ ExtendWrite(d)

Spec == Init /\ [][Next]_vars

(* Time passes, started work goes on and the reaper keeps sweeping; nothing*)
(* is promised about the target.                                           *)
Fairness ==
    /\ WF_vars(Tick) /\ WF_vars(ReapStep) /\ WF_vars(\E r \in sent : Drain(r))
    /\ \A d \in Dispatches : WF_vars(TaskStep(d)) /\ WF_vars(CallStep(d))

FairSpec == Spec /\ Fairness

-----------------------------------------------------------------------------
(* Three parties race for the marker of a dispatch and one of them gets it.*)
SingleWinner == \A d \in Dispatches : Cardinality(won[d]) <= 1

(* Fenced is final for the target, which throws its result away: it is only*)
(* told so once its dispatch is decided, or somebody holds its marker.     *)
FencedMeansDecided ==
    \A d \in Dispatches : call[d] = "fenced" => outcome[d] # "none" \/ won[d] # {}

(* A Settle answered Ok, whose result the scheduler has not dropped, is    *)
(* what the dispatch ends with, or its result is still on its way.         *)
AckedNotLost ==
    \A d \in Dispatches :
        call[d] = "ok" =>
            outcome[d] = "target" \/ \E r \in sent : r.dispatch = d /\ r.by = "target"

(* One decision per dispatch: the attempt, its timer, its cancel, its      *)
(* drain and the target's own report never both get the marker, and never  *)
(* both answer for it.                                                     *)
DecidedOnce == SingleWinner /\ \A d \in Dispatches : emitted[d] <= 1

(* Every dispatch is decided, even if the target accepts it and is never   *)
(* heard of again, and its permit, the only backpressure push has, is      *)
(* given back.                                                             *)
PushSettles ==
    \A d \in Dispatches : /\ cur = d ~> outcome[d] # "none"
                          /\ At(d, "request") ~> At(d, "done")
=============================================================================
