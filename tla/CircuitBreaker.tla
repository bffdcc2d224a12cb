--------------------------- MODULE CircuitBreaker ---------------------------
(***************************************************************************)
(* The breaker of one task (resilience/circuit_breaker.rs): a row in the   *)
(* shared store that every scheduler's poll thread asks (allow) and every  *)
(* drain thread feeds (record_success, record_failure).  Each call reads   *)
(* the row, decides, and upserts the whole row it computed: Call is the    *)
(* read, Commit the upsert, and other callers run in between.              *)
(*                                                                         *)
(* Instants are kept as ages: age is the time since opened_at while open   *)
(* and since half_open_at while half-open, idle the time since             *)
(* last_failure_at; both stop growing where no comparison can tell.  The   *)
(* failure count stops at Threshold for the same reason.                   *)
(***************************************************************************)
EXTENDS Naturals, FiniteSets

CONSTANTS
    Callers,      \* threads that use the breaker
    Threshold,    \* threshold
    Window,       \* window_ms
    Cooldown,     \* cooldown_ms
    MaxProbes,    \* half_open_max_probes
    RateNum, RateDen,  \* half_open_success_rate = RateNum / RateDen
    MaxRunning    \* bound on the jobs of the task in flight

ASSUME BreakerAssumption ==
    /\ Threshold \in Nat \ {0} /\ Window \in Nat /\ Cooldown \in Nat /\ MaxProbes \in Nat \ {0}
    /\ RateNum \in Nat /\ RateDen \in Nat \ {0} /\ RateNum <= RateDen /\ MaxRunning \in Nat

VARIABLES
    row,      \* the stored CircuitBreakerState
    call,     \* per caller: the row it is about to upsert, if any
    running,  \* jobs let through that have not reported
    probed,   \* history: jobs let through in this half-open period
    overlap   \* history: a call upserted while another was under way

vars == <<row, call, running, probed, overlap>>

Row == [state : {"closed", "open", "half"}, failures : 0..Threshold, age : 0..Cooldown,
        idle : 0..(Window + 1), probes : 0..MaxProbes, successes : Nat, losses : Nat]

Fresh == [state |-> "closed", failures |-> 0, age |-> 0, idle |-> Window + 1,
          probes |-> 0, successes |-> 0, losses |-> 0]

Kinds == {"none", "allow", "refuse", "success", "failure"}
NoCall == [kind |-> "none", row |-> Fresh]

TypeOK ==
    /\ row \in Row
    /\ call \in [Callers -> [kind : Kinds, row : Row]]
    /\ running \in 0..MaxRunning
    /\ probed \in Nat /\ overlap \in BOOLEAN

Init ==
    /\ row = Fresh /\ call = [c \in Callers |-> NoCall] /\ running = 0
    /\ probed = 0 /\ overlap = FALSE

-----------------------------------------------------------------------------
(* What a call makes of the row it read.                                   *)

Enter(r, state) == [r EXCEPT !.state = state, !.age = 0, !.probes = 0, !.successes = 0, !.losses = 0]

Closed(r) == [Enter(r, "closed") EXCEPT !.failures = 0]

Counted(r) == IF r.failures < Threshold THEN r.failures + 1 ELSE Threshold

Failed(r, n) == [r EXCEPT !.failures = n, !.idle = 0]

HasProbe(r) == r.probes < MaxProbes

(* What allow upserts for a job it lets through.                           *)
Admitted(r) ==
    IF r.state = "half" THEN [r EXCEPT !.probes = @ + 1] ELSE Enter(r, "half")

(* Mutant: waits for one sample more than there are probes.                *)
Decided_OneLate(successes, losses) == successes + losses > MaxProbes

Decided(successes, losses) == successes + losses >= MaxProbes

record_success(r) ==
    IF r.state # "half" THEN Closed(r)
    ELSE LET s == r.successes + 1 IN
         IF ~Decided(s, r.losses) THEN [r EXCEPT !.successes = s]
         ELSE IF s * RateDen >= RateNum * (s + r.losses) THEN Closed(r) ELSE Enter(r, "open")

(* The best rate still possible, with every probe left a success.          *)
OutOfReach(successes, losses) == (MaxProbes - losses) * RateDen < RateNum * MaxProbes

record_failure(r) ==
    LET n == IF r.state # "closed" \/ r.idle <= Window THEN Counted(r) ELSE 1 IN
    CASE r.state = "closed" -> IF n >= Threshold THEN [Failed(r, n) EXCEPT !.state = "open", !.age = 0]
                               ELSE Failed(r, n)
      [] r.state = "open" -> Failed(r, n)
      [] r.state = "half" -> IF Decided(r.successes, r.losses + 1) \/ OutOfReach(r.successes, r.losses + 1)
                             THEN Enter(Failed(r, n), "open")
                             ELSE [Failed(r, n) EXCEPT !.losses = @ + 1]

-----------------------------------------------------------------------------
Idle(c) == call[c] = NoCall

Begin(c, kind, r) == call' = [call EXCEPT ![c] = [kind |-> kind, row |-> r]]

(* A job has room to be let through; the calls about to do so count.       *)
Room == running + Cardinality({c \in Callers : call[c].kind = "allow"}) < MaxRunning

(* allow on a closed breaker: no write.                                    *)
AllowClosed(c) ==
    /\ Idle(c) /\ row.state = "closed" /\ Room
    /\ running' = running + 1
    /\ UNCHANGED <<row, call, probed, overlap>>

(* Mutant: an open breaker is not asked for its cooldown.                  *)
AllowProbe_Hot(c) ==
    /\ Idle(c) /\ Room
    /\ row.state = "open" \/ (row.state = "half" /\ HasProbe(row))
    /\ Begin(c, "allow", Admitted(row))
    /\ UNCHANGED <<row, running, probed, overlap>>

(* allow: the first after the cooldown, or one more probe.                 *)
AllowProbe(c) ==
    /\ Idle(c) /\ Room
    /\ \/ row.state = "open" /\ row.age = Cooldown
       \/ row.state = "half" /\ HasProbe(row)
    /\ Begin(c, "allow", Admitted(row))
    /\ UNCHANGED <<row, running, probed, overlap>>

(* allow: refused, and the probes are out for longer than the cooldown.    *)
AllowTimeout(c) ==
    /\ Idle(c) /\ row.state = "half" /\ ~HasProbe(row) /\ row.age = Cooldown
    /\ Begin(c, "refuse", Enter(row, "open"))
    /\ UNCHANGED <<row, running, probed, overlap>>

(* A result: record_success writes nothing on a clean closed row.          *)
Report(c) ==
    /\ Idle(c) /\ running > 0
    /\ running' = running - 1
    /\ \/ IF row.state = "closed" /\ row.failures = 0
          THEN UNCHANGED call
          ELSE Begin(c, "success", record_success(row))
       \/ Begin(c, "failure", record_failure(row))
    /\ UNCHANGED <<row, probed, overlap>>

(* A job let through that reports nothing: it was deferred by a later gate,*)
(* lost its claim, or was cancelled.                                       *)
NoReport ==
    /\ running > 0
    /\ running' = running - 1
    /\ UNCHANGED <<row, call, probed, overlap>>

(* upsert_circuit_breaker: the whole row, whatever happened since the read.*)
Commit(c) ==
    /\ ~Idle(c)
    /\ row' = call[c].row
    /\ call' = [call EXCEPT ![c] = NoCall]
    /\ running' = IF call[c].kind = "allow" THEN running + 1 ELSE running
    /\ probed' = IF row'.state # "half" THEN 0
                 ELSE (IF row.state = "half" THEN probed ELSE 0)
                      + (IF call[c].kind = "allow" THEN 1 ELSE 0)
    /\ overlap' = (overlap \/ \E d \in Callers \ {c} : ~Idle(d))

Older(r) ==
    [r EXCEPT !.age = IF r.state # "closed" /\ @ < Cooldown THEN @ + 1 ELSE @,
              !.idle = IF @ <= Window THEN @ + 1 ELSE @]

Tick ==
    /\ row' = Older(row)
    /\ call' = [c \in Callers |-> [call[c] EXCEPT !.row = IF Idle(c) THEN @ ELSE Older(@)]]
    /\ UNCHANGED <<running, probed, overlap>>

Ask(c) == AllowClosed(c) \/ AllowProbe(c) \/ AllowTimeout(c)

Next ==
    \/ Tick \/ NoReport
    \/ \E c \in Callers : Ask(c) \/ Report(c) \/ Commit(c)

Spec == Init /\ [][Next]_vars

(* Time passes, the task's jobs keep being polled, a job ends one way or   *)
(* another, and a call returns.                                            *)
Fairness ==
    /\ WF_vars(Tick) /\ WF_vars(NoReport)
    /\ \A c \in Callers : WF_vars(Commit(c)) /\ WF_vars(AllowProbe(c)) /\ WF_vars(AllowTimeout(c))

FairSpec == Spec /\ Fairness

-----------------------------------------------------------------------------
(* A half-open breaker whose samples are all in has decided: it never sits *)
(* half-open with nothing left to wait for.                                *)
SamplesPending == row.state = "half" => row.successes + row.losses < MaxProbes

(* Documented: half_open_max_probes is the number of probes let through.   *)
ProbesAsConfigured == probed <= MaxProbes

TripUndone ==
    /\ row.state = "open" /\ row'.state # "open" /\ row.age < Cooldown
    /\ \A c \in Callers : call[c].kind = "success" => call'[c] = call[c]

(* A breaker that tripped stays tripped until its cooldown is over or the  *)
(* task succeeds: only calls that overlapped can undo a trip.              *)
TripStandsAlone == [][TripUndone => overlap']_vars

(* Documented: an open breaker stays open until it has cooled down.        *)
TripStands == [][~TripUndone]_vars

(* Documented: an open breaker is left for half-open, once it cooled down. *)
OpenUntilCooledDown ==
    [][(row.state = "open" /\ row'.state # "open") => row'.state = "half" /\ row.age = Cooldown]_vars

(* A task is never gated for good: an open breaker goes half-open, and one *)
(* whose probes never report opens again and takes new ones.               *)
NeverGatedForGood ==
    /\ row.state = "open" ~> row.state # "open"
    /\ (row.state = "half" /\ ~HasProbe(row)) ~> (row.state # "half" \/ HasProbe(row))
=============================================================================
