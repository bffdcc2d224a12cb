---------------------------- MODULE GatesProofs -----------------------------
(***************************************************************************)
(* What holds a job back before it runs, proved for any number of callers  *)
(* and jobs: the circuit breaker of its task, the debounce key it was      *)
(* enqueued under, and the jobs it depends on.                             *)
(***************************************************************************)
EXTENDS CircuitBreaker, Debounce, Dependencies, TLAPS

-----------------------------------------------------------------------------
(* The breaker.  Callers upsert whole rows computed from reads that may be *)
(* stale, so SamplesPending must hold of every row that is still on its    *)
(* way to the store: RowOK, of the stored row and of each caller's.        *)
RowOK(r) == r \in Row /\ (r.state = "half" => r.successes + r.losses < MaxProbes)

BreakerInv ==
    /\ RowOK(row)
    /\ call \in [Callers -> [kind : Kinds, row : Row]]
    /\ \A c \in Callers : RowOK(call[c].row)

(* Entering a state starts with no samples.                                *)
LEMMA EnterOK ==
    ASSUME NEW r, RowOK(r), NEW s \in {"closed", "open", "half"}
    PROVE  RowOK(Enter(r, s))
<1>1. 0 \in 0..Cooldown /\ 0 \in 0..MaxProbes /\ 0 + 0 < MaxProbes
  BY BreakerAssumption
<1>2. Enter(r, s) \in Row
  BY <1>1 DEF RowOK, Row, Enter
<1>3. Enter(r, s).successes = 0 /\ Enter(r, s).losses = 0
  BY DEF RowOK, Row, Enter
<1> QED BY <1>1, <1>2, <1>3 DEF RowOK

(* A failure counted leaves the samples alone.                             *)
LEMMA FailedOK ==
    ASSUME NEW r, RowOK(r), NEW n \in 0..Threshold
    PROVE  RowOK(Failed(r, n))
<1>1. 0 \in 0..(Window + 1)
  BY BreakerAssumption
<1>2. Failed(r, n) \in Row
  BY <1>1 DEF RowOK, Row, Failed
<1>3. /\ Failed(r, n).state = r.state
      /\ Failed(r, n).successes = r.successes /\ Failed(r, n).losses = r.losses
  BY DEF RowOK, Row, Failed
<1> QED BY <1>2, <1>3 DEF RowOK

(* allow: a probe taken, or a period begun, decides nothing.               *)
LEMMA AdmittedOK ==
    ASSUME NEW r, RowOK(r), r.state = "half" => HasProbe(r)
    PROVE  RowOK(Admitted(r))
<1>1. CASE r.state = "half"
  BY <1>1, BreakerAssumption DEF RowOK, Row, Admitted, HasProbe
<1>2. CASE r.state # "half"
  BY <1>2, EnterOK DEF Admitted
<1> QED BY <1>1, <1>2

(* record_success decides as soon as its sample is the last.               *)
LEMMA SuccessOK ==
    ASSUME NEW r, RowOK(r)
    PROVE  RowOK(record_success(r))
<1> DEFINE s == r.successes + 1
           met == s * RateDen >= RateNum * (s + r.losses)
<1>1. RowOK(Closed(r)) /\ RowOK(Enter(r, "open"))
  <2>1. RowOK(Enter(r, "closed")) /\ RowOK(Enter(r, "open"))
    BY EnterOK
  <2> DEFINE e == Enter(r, "closed")
  <2>2. e.state = "closed" /\ Closed(r) = [e EXCEPT !.failures = 0]
    BY DEF Closed, Enter, RowOK, Row
  <2>3. 0 \in 0..Threshold
    BY BreakerAssumption
  <2> HIDE DEF e
  <2>4. [e EXCEPT !.failures = 0] \in Row /\ [e EXCEPT !.failures = 0].state = "closed"
    BY <2>1, <2>2, <2>3 DEF e, RowOK, Row
  <2> QED BY <2>1, <2>2, <2>4 DEF RowOK
<1>2. ~Decided(s, r.losses) => RowOK([r EXCEPT !.successes = s])
  BY BreakerAssumption DEF RowOK, Row, Decided
<1>3. record_success(r) = IF r.state # "half" THEN Closed(r)
                          ELSE IF ~Decided(s, r.losses) THEN [r EXCEPT !.successes = s]
                          ELSE IF met THEN Closed(r) ELSE Enter(r, "open")
  BY DEF record_success
<1> HIDE DEF s, met
<1> QED BY <1>1, <1>2, <1>3

(* record_failure decides on the last sample, or sooner.                   *)
LEMMA FailureOK ==
    ASSUME NEW r, RowOK(r)
    PROVE  RowOK(record_failure(r))
<1> DEFINE n == IF r.state # "closed" \/ r.idle <= Window THEN Counted(r) ELSE 1
           lost == OutOfReach(r.successes, r.losses + 1)
           f == Failed(r, n)
<1>1. n \in 0..Threshold
  BY BreakerAssumption DEF Counted, RowOK, Row
<1>2. RowOK(f) /\ f.state = r.state /\ f.losses = r.losses /\ f.successes = r.successes
  <2>1. RowOK(f)
    BY <1>1, FailedOK
  <2> QED BY <2>1 DEF Failed, RowOK, Row
<1>3. r.state \in {"closed", "open", "half"}
  BY DEF RowOK, Row
<1>4. RowOK(Enter(f, "open"))
  <2> HIDE DEF f
  <2> QED BY <1>2, EnterOK
<1>5. RowOK([f EXCEPT !.state = "open", !.age = 0])
  <2>1. 0 \in 0..Cooldown
    BY BreakerAssumption
  <2>2. f \in Row
    BY <1>2 DEF RowOK
  <2> HIDE DEF f
  <2>3. /\ [f EXCEPT !.state = "open", !.age = 0] \in Row
        /\ [f EXCEPT !.state = "open", !.age = 0].state = "open"
    BY <2>1, <2>2 DEF Row
  <2> QED BY <2>3 DEF RowOK
<1>6. ASSUME ~Decided(r.successes, r.losses + 1) PROVE RowOK([f EXCEPT !.losses = @ + 1])
  <2>1. r.successes + (r.losses + 1) < MaxProbes
    BY <1>6, BreakerAssumption DEF Decided, RowOK, Row
  <2>2. f \in Row
    BY <1>2 DEF RowOK
  <2>3. f.losses = r.losses /\ f.successes = r.successes
    BY <1>2
  <2> HIDE DEF f
  <2>4. [f EXCEPT !.losses = @ + 1] \in Row
    BY <2>2 DEF Row
  <2> QED BY <2>1, <2>2, <2>3, <2>4, BreakerAssumption DEF RowOK, Row
<1>7. CASE r.state = "closed"
  <2>1. record_failure(r) = IF n >= Threshold THEN [f EXCEPT !.state = "open", !.age = 0] ELSE f
    BY <1>7 DEF record_failure
  <2> HIDE DEF n, f
  <2> QED BY <2>1, <1>2, <1>5
<1>8. CASE r.state = "open"
  <2>1. record_failure(r) = f
    BY <1>8 DEF record_failure
  <2> QED BY <2>1, <1>2
<1>9. CASE r.state = "half"
  <2>1. record_failure(r) = IF Decided(r.successes, r.losses + 1) \/ lost
                            THEN Enter(f, "open") ELSE [f EXCEPT !.losses = @ + 1]
    BY <1>9 DEF record_failure
  <2> HIDE DEF n, f, lost
  <2> QED BY <2>1, <1>4, <1>6
<1> QED BY <1>3, <1>7, <1>8, <1>9

(* Time decides nothing.                                                   *)
LEMMA OlderOK ==
    ASSUME NEW r, RowOK(r)
    PROVE  RowOK(Older(r))
<1> DEFINE a == IF r.state # "closed" /\ r.age < Cooldown THEN r.age + 1 ELSE r.age
           i == IF r.idle <= Window THEN r.idle + 1 ELSE r.idle
<1>1. a \in 0..Cooldown /\ i \in 0..(Window + 1)
  BY BreakerAssumption DEF RowOK, Row
<1>2. Older(r) = [r EXCEPT !.age = a, !.idle = i]
  BY DEF Older, RowOK, Row
<1> HIDE DEF a, i
<1>3. /\ Older(r) \in Row /\ Older(r).state = r.state
      /\ Older(r).successes = r.successes /\ Older(r).losses = r.losses
  BY <1>1, <1>2 DEF RowOK, Row
<1> QED BY <1>3 DEF RowOK

(* A call that begins with a sound row keeps the invariant.                *)
LEMMA BeginOK ==
    ASSUME BreakerInv, NEW c \in Callers, NEW kind \in Kinds, NEW r, RowOK(r),
           Begin(c, kind, r), UNCHANGED row
    PROVE  BreakerInv'
<1>1. r \in Row
  BY DEF RowOK
<1>2. call' \in [Callers -> [kind : Kinds, row : Row]]
  BY <1>1 DEF BreakerInv, Begin
<1>3. \A d \in Callers : RowOK(call'[d].row)
  <2> SUFFICES ASSUME NEW d \in Callers PROVE RowOK(call'[d].row)
    OBVIOUS
  <2>1. CASE d = c
    BY <2>1 DEF BreakerInv, Begin
  <2>2. CASE d # c
    BY <2>2 DEF BreakerInv, Begin
  <2> QED BY <2>1, <2>2
<1> QED BY <1>2, <1>3 DEF BreakerInv

(* Every step keeps it, stale upserts included.                            *)
LEMMA BreakerNextInv == BreakerInv /\ [Next]_vars => BreakerInv'
<1> SUFFICES ASSUME BreakerInv, [Next]_vars PROVE BreakerInv'
  OBVIOUS
<1>1. CASE Tick
  <2>1. RowOK(row')
    BY <1>1, OlderOK DEF Tick, BreakerInv
  <2>2. \A c \in Callers : RowOK(call'[c].row)
    <3> SUFFICES ASSUME NEW c \in Callers PROVE RowOK(call'[c].row)
      OBVIOUS
    <3>1. RowOK(call[c].row) /\ RowOK(Older(call[c].row))
      BY OlderOK DEF BreakerInv
    <3>2. call'[c].row \in {call[c].row, Older(call[c].row)}
      BY <1>1 DEF Tick, BreakerInv
    <3> QED BY <3>1, <3>2
  <2>3. call' \in [Callers -> [kind : Kinds, row : Row]]
    <3> SUFFICES ASSUME NEW c \in Callers PROVE call'[c] \in [kind : Kinds, row : Row]
      BY <1>1 DEF Tick
    <3>1. Older(call[c].row) \in Row
      BY OlderOK DEF BreakerInv, RowOK
    <3> QED BY <1>1, <3>1 DEF Tick, BreakerInv
  <2> QED BY <2>1, <2>2, <2>3 DEF BreakerInv
<1>2. CASE NoReport
  BY <1>2 DEF NoReport, BreakerInv
<1>3. ASSUME NEW c \in Callers, AllowClosed(c) PROVE BreakerInv'
  BY <1>3 DEF AllowClosed, BreakerInv
<1>4. ASSUME NEW c \in Callers, AllowProbe(c) PROVE BreakerInv'
  <2>1. RowOK(Admitted(row))
    BY <1>4, AdmittedOK DEF AllowProbe, BreakerInv
  <2> QED BY <1>4, <2>1, BeginOK DEF AllowProbe, Kinds
<1>5. ASSUME NEW c \in Callers, AllowTimeout(c) PROVE BreakerInv'
  <2>1. RowOK(Enter(row, "open"))
    BY EnterOK DEF BreakerInv
  <2> QED BY <1>5, <2>1, BeginOK DEF AllowTimeout, Kinds
<1>6. ASSUME NEW c \in Callers, Report(c) PROVE BreakerInv'
  <2>1. RowOK(record_success(row)) /\ RowOK(record_failure(row))
    BY SuccessOK, FailureOK DEF BreakerInv
  <2>2. CASE UNCHANGED call
    BY <1>6, <2>2 DEF Report, BreakerInv
  <2>3. CASE Begin(c, "success", record_success(row))
    BY <1>6, <2>1, <2>3, BeginOK DEF Report, Kinds
  <2>4. CASE Begin(c, "failure", record_failure(row))
    BY <1>6, <2>1, <2>4, BeginOK DEF Report, Kinds
  <2> QED BY <1>6, <2>2, <2>3, <2>4 DEF Report
<1>7. ASSUME NEW c \in Callers, Commit(c) PROVE BreakerInv'
  <2>1. RowOK(row')
    BY <1>7 DEF Commit, BreakerInv
  <2>2. NoCall.row \in Row /\ RowOK(NoCall.row) /\ NoCall \in [kind : Kinds, row : Row]
    BY BreakerAssumption DEF NoCall, Fresh, RowOK, Row, Kinds
  <2>3. call' = [call EXCEPT ![c] = NoCall]
    BY <1>7 DEF Commit
  <2>4. \A d \in Callers : call'[d] \in {call[d], NoCall}
    BY <2>3 DEF BreakerInv
  <2> QED BY <2>1, <2>2, <2>3, <2>4 DEF BreakerInv
<1>8. CASE UNCHANGED vars
  BY <1>8 DEF vars, BreakerInv
<1> QED BY <1>1, <1>2, <1>3, <1>4, <1>5, <1>6, <1>7, <1>8 DEF Next, Ask

(* A breaker starts closed, with no call under way.                        *)
LEMMA BreakerInitInv == Init => BreakerInv
BY BreakerAssumption DEF Init, BreakerInv, RowOK, Row, Fresh, NoCall, Kinds

(* However many schedulers ask and report at once, and however stale the   *)
(* rows they upsert, a breaker whose samples are all in is not half-open.  *)
THEOREM SamplesPendingAlways == Spec => []SamplesPending
<1>1. BreakerInv => SamplesPending
  BY DEF BreakerInv, RowOK, SamplesPending
<1> QED BY <1>1, BreakerInitInv, BreakerNextInv, PTL DEF Spec

(* As long as no call was written under another, what a call under way is  *)
(* about to write over a breaker that tripped and has not cooled down is a *)
(* tripped breaker too, or follows a success.                              *)
Alone ==
    ~overlap => \A c \in Callers :
        (~Idle(c) /\ row.state = "open" /\ row.age < Cooldown) =>
            call[c].row.state = "open" \/ call[c].kind = "success"

(* Nobody else writes the row while a call is under way, and time only     *)
(* brings the end of the cooldown nearer.                                  *)
LEMMA AloneStep == BreakerInv /\ Alone /\ [Next]_vars => Alone'
<1> SUFFICES ASSUME BreakerInv, Alone, [Next]_vars, ~overlap', NEW d \in Callers, ~Idle(d)',
                    row'.state = "open", row'.age < Cooldown
             PROVE  call'[d].row.state = "open" \/ call'[d].kind = "success"
  BY DEF Alone
<1> USE BreakerAssumption
<1>0. row \in Row /\ call \in [Callers -> [kind : Kinds, row : Row]]
  BY DEF BreakerInv, RowOK
<1>1. CASE Tick
  <2>1. row.state = "open" /\ row.age < Cooldown
    BY <1>0, <1>1 DEF Tick, Older, Row
  <2>2. call'[d] = [call[d] EXCEPT !.row = IF Idle(d) THEN call[d].row ELSE Older(call[d].row)]
    BY <1>1 DEF Tick
  <2>3. call[d] \in [kind : Kinds, row : Row]
    BY <1>0
  <2>4. ~Idle(d)
    BY <2>2, <2>3 DEF Idle
  <2>5. call'[d].row.state = call[d].row.state /\ call'[d].kind = call[d].kind
    BY <2>2, <2>3, <2>4 DEF Older, Row
  <2> QED BY <1>1, <2>1, <2>4, <2>5 DEF Alone, Tick
<1>2. ASSUME NEW c \in Callers, Commit(c) PROVE FALSE
  BY <1>0, <1>2 DEF Commit, Idle, NoCall
<1>3. CASE UNCHANGED <<row, call, overlap>>
  BY <1>3 DEF Alone, Idle
<1>4. ASSUME NEW c \in Callers, NEW kind \in Kinds, NEW r, Begin(c, kind, r), UNCHANGED <<row, overlap>>,
             row.state = "open" /\ row.age < Cooldown => r.state = "open" \/ kind = "success"
      PROVE  call'[d].row.state = "open" \/ call'[d].kind = "success"
  <2>1. CASE d = c
    BY <1>0, <1>4, <2>1 DEF Begin
  <2>2. CASE d # c
    BY <1>0, <1>4, <2>2 DEF Begin, Alone, Idle
  <2> QED BY <2>1, <2>2
<1>5. ASSUME NEW c \in Callers, AllowProbe(c) \/ AllowTimeout(c)
      PROVE  call'[d].row.state = "open" \/ call'[d].kind = "success"
  <2>1. ~(row.state = "open" /\ row.age < Cooldown)
    BY <1>0, <1>5 DEF AllowProbe, AllowTimeout, Row
  <2> QED BY <1>4, <1>5, <2>1 DEF AllowProbe, AllowTimeout, Kinds
<1>6. ASSUME NEW c \in Callers, Report(c)
      PROVE  call'[d].row.state = "open" \/ call'[d].kind = "success"
  <2>1. row.state = "open" => record_failure(row).state = "open"
    BY <1>0 DEF record_failure, Failed, Row
  <2> QED BY <1>3, <1>4, <1>6, <2>1 DEF Report, Kinds
<1> QED BY <1>1, <1>2, <1>3, <1>5, <1>6 DEF Next, Ask, AllowClosed, NoReport, vars

(* allow, record_success and record_failure: calls that do not overlap     *)
(* leave a tripped breaker open until it has cooled down or the task       *)
(* succeeds, for any number of threads and any configuration.              *)
THEOREM TripStandsAloneAlways == Spec => TripStandsAlone
<1>1. Init => BreakerInv /\ Alone
  <2>1. Init => Alone
    BY DEF Init, Alone, Idle
  <2> QED BY <2>1, BreakerInitInv
<1>2. BreakerInv /\ Alone /\ [Next]_vars => [TripUndone => overlap']_vars
  <2> SUFFICES ASSUME BreakerInv, Alone, Next, TripUndone PROVE overlap'
    BY DEF vars
  <2>0. row \in Row /\ call \in [Callers -> [kind : Kinds, row : Row]]
    BY DEF BreakerInv, RowOK
  <2>1. PICK c \in Callers : Commit(c)
    BY <2>0 DEF Next, Ask, TripUndone, Tick, Older, Row, NoReport, AllowClosed, AllowProbe, AllowTimeout, Report
  <2>2. call[c].row.state # "open" /\ ~Idle(c) /\ row.state = "open" /\ row.age < Cooldown
    BY <2>1 DEF Commit, TripUndone
  <2>3. call[c].kind # "success"
    BY <2>0, <2>1 DEF Commit, TripUndone, Idle, NoCall
  <2> QED BY <2>1, <2>2, <2>3 DEF Alone, Commit
<1>3. BreakerInv /\ Alone /\ [Next]_vars => (BreakerInv /\ Alone)'
  BY BreakerNextInv, AloneStep
<1> QED BY <1>1, <1>2, <1>3, PTL DEF Spec, TripStandsAlone

-----------------------------------------------------------------------------
(* Debounce.  The claim does not look at the row, so what keeps it off a   *)
(* row that was never put back is who may write one: whoever has dequeued  *)
(* a row that is Pending saw it put back since (OldHands), and so did      *)
(* whoever crossed it.  An age never passes Ceiling, so that a deadline    *)
(* cut off at max_wait cannot either.                                      *)
OldHands ==
    \A j \in DebounceIds :
        /\ dbJobs[j].status = "Pending" /\ (dbJobs[j].takers > 0 \/ dbJobs[j].claimed)
               => dbJobs[j].retried
        /\ dbJobs[j].status = "Absent" => dbJobs[j].takers = 0

DebounceInv == DebounceTypeOK /\ NeverPutOffPastCeiling /\ CallServedLater /\ OldHands

(* A call puts a row where the cap allows, counted from its creation.      *)
LEMMA DeadlineWithinCap ==
    ASSUME NEW o \in Options, NEW lag \in 0..MaxLag, NEW age \in Nat, age <= Ceiling
    PROVE  /\ Deadline(o, lag, age) \in Nat /\ age + Deadline(o, lag, age) <= Ceiling
           /\ Less(o.window, lag) \in Nat
           /\ Lesser(lag, Ceiling) \in Nat /\ Lesser(lag, Ceiling) + Less(o.window, lag) <= Ceiling
<1>1. /\ o.window \in Nat /\ o.max_wait \in Nat /\ lag \in Nat /\ Ceiling \in Nat
      /\ o.max_wait <= Ceiling /\ o.window <= o.max_wait
  BY DebounceAssumption DEF ValidOptions
<1> QED BY <1>1 DEF Deadline, Lesser, Less

(* What the invariant says of one row.                                     *)
DbRowOK(r) ==
    /\ r \in DbRow /\ r.age <= Ceiling
    /\ (r.status = "Pending" /\ r.retried = FALSE) => r.age + r.wait <= Ceiling
    /\ r.owed = TRUE => /\ r.status = "Pending"
                        /\ r.claimed = TRUE => r.crossed = TRUE
                        /\ r.takers > 0 \/ r.claimed = TRUE => r.retried = TRUE
    /\ r.status = "Pending" /\ (r.takers > 0 \/ r.claimed = TRUE) => r.retried = TRUE
    /\ r.status = "Absent" => r.takers = 0

(* A step that leaves one row as the invariant wants it.                   *)
LEMMA DebounceRowChange ==
    ASSUME DebounceInv, NEW j \in DebounceIds, NEW r, DbRowOK(r),
         dbJobs' = [dbJobs EXCEPT ![j] = r]
    PROVE  DebounceInv'
BY DEF DebounceInv, DebounceTypeOK, NeverPutOffPastCeiling, CallServedLater, OldHands, DbRowOK, DbRow

(* Every action keeps the invariant.                                       *)
LEMMA DebounceStep == DebounceInv /\ [DebounceNext]_dbVars => DebounceInv'
<1> SUFFICES ASSUME DebounceInv, [DebounceNext]_dbVars PROVE DebounceInv'
  OBVIOUS
<1>0. \A j \in DebounceIds : DbRowOK(dbJobs[j])
  BY DEF DebounceInv, DebounceTypeOK, NeverPutOffPastCeiling, CallServedLater, OldHands, DbRowOK, DbRow
<1>1. ASSUME NEW o \in Options, NEW lag \in 0..MaxLag, Slide(o, lag) PROVE DebounceInv'
  <2>1. PICK j \in DebounceIds :
            /\ IsTarget(j)
            /\ dbJobs' = [dbJobs EXCEPT ![j].wait = Deadline(o, lag, dbJobs[j].age),
                                        ![j].owed = TRUE]
    BY <1>1 DEF Slide
  <2> DEFINE r == [dbJobs[j] EXCEPT !.wait = Deadline(o, lag, dbJobs[j].age), !.owed = TRUE]
  <2>2. /\ Deadline(o, lag, dbJobs[j].age) \in Nat
        /\ dbJobs[j].age + Deadline(o, lag, dbJobs[j].age) <= Ceiling
    BY <1>0, DeadlineWithinCap DEF DbRowOK, DbRow
  <2>3. DbRowOK(r)
    BY <1>0, <2>1, <2>2 DEF DbRowOK, DbRow, IsTarget, Candidates
  <2>4. dbJobs' = [dbJobs EXCEPT ![j] = r]
    BY <2>1
  <2> QED BY <2>3, <2>4, DebounceRowChange
<1>2. ASSUME NEW o \in Options, NEW lag \in 0..MaxLag, OpenWindow(o, lag) PROVE DebounceInv'
  <2> DEFINE r == [DbNoRow EXCEPT !.status = "Pending", !.owed = TRUE,
                                  !.age = Lesser(lag, Ceiling), !.wait = Less(o.window, lag)]
  <2>1. /\ Less(o.window, lag) \in Nat /\ Lesser(lag, Ceiling) \in Nat
        /\ Lesser(lag, Ceiling) <= Ceiling
        /\ Lesser(lag, Ceiling) + Less(o.window, lag) <= Ceiling
    BY DeadlineWithinCap, DebounceAssumption DEF Lesser
  <2>2. DbRowOK(r)
    <3> DEFINE a == Lesser(lag, Ceiling)
               w == Less(o.window, lag)
    <3>1. a \in Nat /\ w \in Nat /\ a <= Ceiling /\ a + w <= Ceiling
      BY <2>1
    <3>2. 0 \in 0..DbSchedulers
      BY DebounceAssumption
    <3> HIDE DEF a, w
    <3>3. r \in DbRow
      BY <3>1, <3>2 DEF DbRow, DbNoRow, a, w
    <3>4. /\ r.status = "Pending" /\ r.age = a /\ r.wait = w /\ r.takers = 0
          /\ r.claimed = FALSE
      BY DEF DbNoRow, a, w
    <3> HIDE DEF r
    <3> QED BY <3>1, <3>3, <3>4 DEF DbRowOK
  <2> QED BY <1>2, <2>2, DebounceRowChange DEF OpenWindow
<1>3. CASE DbTick
  <2> DEFINE r(j) == IF dbJobs[j].status = "Absent" THEN dbJobs[j]
                     ELSE [dbJobs[j] EXCEPT !.age = Lesser(@ + 1, Ceiling), !.wait = Less(@, 1)]
  <2>1. ASSUME NEW j \in DebounceIds PROVE DbRowOK(r(j))
    <3>1. CASE dbJobs[j].status = "Absent"
      BY <1>0, <3>1
    <3>2. CASE dbJobs[j].status # "Absent"
      <4>1. /\ dbJobs[j] \in DbRow /\ dbJobs[j].age \in Nat /\ dbJobs[j].wait \in Nat
            /\ dbJobs[j].age <= Ceiling /\ Ceiling \in Nat
        BY <1>0, DebounceAssumption DEF DbRowOK, DbRow
      <4>2. /\ Lesser(dbJobs[j].age + 1, Ceiling) \in Nat
            /\ Lesser(dbJobs[j].age + 1, Ceiling) <= Ceiling
            /\ Less(dbJobs[j].wait, 1) \in Nat
            /\ dbJobs[j].age + dbJobs[j].wait <= Ceiling
                  => Lesser(dbJobs[j].age + 1, Ceiling) + Less(dbJobs[j].wait, 1) <= Ceiling
        BY <4>1 DEF Lesser, Less
      <4>3. r(j) = [dbJobs[j] EXCEPT !.age = Lesser(dbJobs[j].age + 1, Ceiling),
                                     !.wait = Less(dbJobs[j].wait, 1)]
        BY <3>2
      <4> QED BY <1>0, <4>1, <4>2, <4>3 DEF DbRowOK, DbRow
    <3> QED BY <3>1, <3>2
  <2>2. dbJobs' = [j \in DebounceIds |-> r(j)]
    BY <1>3 DEF DbTick
  <2> HIDE DEF r
  <2>3. \A j \in DebounceIds : DbRowOK(dbJobs'[j])
    BY <2>1, <2>2
  <2> QED BY <2>2, <2>3 DEF DebounceInv, DebounceTypeOK, NeverPutOffPastCeiling,
    CallServedLater, OldHands, DbRowOK, DbRow
<1>4. ASSUME NEW j \in DebounceIds,
             DbDequeue(j) \/ DbClaim(j) \/ DbPutBack(j) \/ DbUnclaim(j) \/ DbArchive(j)
      PROVE  DebounceInv'
  <2>0. dbJobs[j] \in DbRow /\ dbJobs[j].takers \in 0..DbSchedulers
    BY <1>0, DebounceAssumption DEF DbRowOK, DbRow
  <2>1. CASE DbDequeue(j)
    <3> DEFINE r == [dbJobs[j] EXCEPT !.status = "Running", !.owed = FALSE, !.takers = @ + 1]
    <3>1. DbRowOK(r)
      <4>0. dbJobs[j].takers + 1 \in 0..DbSchedulers
        BY <2>0, <2>1, DebounceAssumption DEF DbDequeue
      <4>1. r \in DbRow
        BY <2>0, <4>0 DEF DbRow
      <4>2. r.status = "Running" /\ r.owed = FALSE /\ r.age = dbJobs[j].age
        BY <2>0 DEF DbRow
      <4> QED BY <1>0, <4>1, <4>2 DEF DbRowOK
    <3>2. dbJobs' = [dbJobs EXCEPT ![j] = r]
      BY <2>1 DEF DbDequeue
    <3> QED BY <3>1, <3>2, DebounceRowChange
  <2>2. CASE DbClaim(j)
    <3> DEFINE x == dbJobs[j].crossed \/ (dbJobs[j].status = "Pending" /\ ~dbJobs[j].claimed)
               r == [dbJobs[j] EXCEPT !.takers = @ - 1, !.claimed = TRUE, !.crossed = x]
    <3>1. dbJobs[j].takers - 1 \in 0..DbSchedulers /\ x \in BOOLEAN
      BY <2>0, <2>2, DebounceAssumption DEF DbClaim, DbRow
    <3>2. DbRowOK(r)
      <4>1. r \in DbRow
        BY <2>0, <3>1 DEF DbRow
      <4>2. /\ r.takers = dbJobs[j].takers - 1 /\ r.claimed = TRUE /\ r.crossed = x
            /\ r.age = dbJobs[j].age /\ r.wait = dbJobs[j].wait /\ r.status = dbJobs[j].status
            /\ r.retried = dbJobs[j].retried /\ r.owed = dbJobs[j].owed
        BY <2>0 DEF DbRow
      <4>3. dbJobs[j].takers > 0 /\ dbJobs[j].status # "Absent"
        BY <1>0, <2>2 DEF DbClaim, DbRowOK
      <4>4. r.status = "Pending" => r.retried = TRUE
        BY <1>0, <4>2, <4>3 DEF DbRowOK
      <4>5. r.owed = TRUE => r.status = "Pending" /\ x = TRUE
        <5>1. ASSUME dbJobs[j].owed = TRUE
              PROVE  dbJobs[j].status = "Pending" /\ (dbJobs[j].claimed = TRUE => dbJobs[j].crossed = TRUE)
          BY <1>0, <5>1 DEF DbRowOK
        <5>2. dbJobs[j].claimed \in BOOLEAN
          BY <2>0 DEF DbRow
        <5> QED BY <4>2, <5>1, <5>2
      <4> QED BY <1>0, <4>1, <4>2, <4>3, <4>4, <4>5 DEF DbRowOK
    <3>3. dbJobs' = [dbJobs EXCEPT ![j] = r]
      BY <2>2 DEF DbClaim
    <3> QED BY <3>2, <3>3, DebounceRowChange
  <2>3. CASE DbPutBack(j)
    <3>1. PICK taken \in {0, 1}, c \in {FALSE, dbJobs[j].claimed} :
              /\ dbJobs[j].status # "Absent" /\ taken <= dbJobs[j].takers
              /\ dbJobs[j].status = "Running" \/ taken = 1 \/ (dbJobs[j].crossed /\ ~c)
              /\ dbJobs' = [dbJobs EXCEPT ![j].status = "Pending", ![j].wait = Backoff,
                                          ![j].takers = @ - taken, ![j].retried = TRUE,
                                          ![j].claimed = c, ![j].crossed = c /\ @]
      BY <2>3 DEF DbPutBack
    <3> DEFINE x == c /\ dbJobs[j].crossed
               r == [dbJobs[j] EXCEPT !.status = "Pending", !.wait = Backoff,
                                      !.takers = @ - taken, !.retried = TRUE,
                                      !.claimed = c, !.crossed = x]
    <3>2. /\ dbJobs[j].takers - taken \in 0..DbSchedulers /\ Backoff \in Nat
          /\ c \in BOOLEAN /\ x \in BOOLEAN
      <4>1. dbJobs[j].claimed \in BOOLEAN
        BY <2>0 DEF DbRow
      <4>2. taken \in {0, 1} /\ taken <= dbJobs[j].takers
        BY <3>1
      <4>3. dbJobs[j].takers - taken \in 0..DbSchedulers /\ Backoff \in Nat
        BY <2>0, <4>2, DebounceAssumption
      <4> QED BY <4>1, <4>3
    <3>3. DbRowOK(r)
      <4>1. r \in DbRow
        BY <2>0, <3>2 DEF DbRow
      <4>2. /\ r.status = "Pending" /\ r.retried = TRUE /\ r.claimed = c /\ r.crossed = x
            /\ r.age = dbJobs[j].age /\ r.owed = dbJobs[j].owed
        BY <2>0 DEF DbRow
      <4>3. r.owed = TRUE /\ c = TRUE => x = TRUE
        BY <1>0, <3>1, <4>2 DEF DbRowOK
      <4> QED BY <1>0, <4>1, <4>2, <4>3 DEF DbRowOK
    <3>4. dbJobs' = [dbJobs EXCEPT ![j] = r]
      BY <3>1
    <3> QED BY <3>3, <3>4, DebounceRowChange
  <2>4. CASE DbUnclaim(j)
    <3> DEFINE r == [dbJobs[j] EXCEPT !.claimed = FALSE, !.crossed = FALSE]
    <3>1. DbRowOK(r)
      BY <1>0, <2>0 DEF DbRowOK, DbRow
    <3>2. dbJobs' = [dbJobs EXCEPT ![j] = r]
      BY <2>4 DEF DbUnclaim
    <3> QED BY <3>1, <3>2, DebounceRowChange
  <2>5. CASE DbArchive(j)
    <3>1. DbRowOK(DbNoRow)
      BY DebounceAssumption DEF DbRowOK, DbRow, DbNoRow
    <3> QED BY <2>5, <3>1, DebounceRowChange DEF DbArchive
  <2> QED BY <1>4, <2>1, <2>2, <2>3, <2>4, <2>5
<1>5. CASE UNCHANGED dbVars
  BY <1>5 DEF dbVars, DebounceInv, DebounceTypeOK, NeverPutOffPastCeiling, CallServedLater, OldHands
<1> QED BY <1>1, <1>2, <1>3, <1>4, <1>5 DEF DebounceNext, EnqueueDebounced

(* It holds from the start.                                                *)
LEMMA DebounceInvariant == DebounceSpec => []DebounceInv
<1>1. DebounceInit => DebounceInv
  BY DebounceAssumption DEF DebounceInit, DebounceInv, DebounceTypeOK, NeverPutOffPastCeiling,
    CallServedLater, OldHands, DbRow, DbNoRow
<1> QED BY <1>1, DebounceStep, PTL DEF DebounceSpec

(* enqueue_debounced: calls never put a job off past max_wait of its       *)
(* creation, whatever the callers, their options and their clocks.         *)
THEOREM NeverPutOffAlways == DebounceSpec => []NeverPutOffPastCeiling
<1>1. DebounceInv => NeverPutOffPastCeiling
  BY DEF DebounceInv
<1> QED BY <1>1, DebounceInvariant, PTL

(* enqueue_debounced: a call's payload is on a row that waits for a later  *)
(* dequeue, and only a row that was put back can be claimed over it.       *)
THEOREM CallServedAlways == DebounceSpec => []CallServedLater
<1>1. DebounceInv => CallServedLater
  BY DEF DebounceInv
<1> QED BY <1>1, DebounceInvariant, PTL

-----------------------------------------------------------------------------
(* Dependencies.  A job that has not run yet is held by an edge to each    *)
(* dependency that has not completed, and an edge goes only with the row   *)
(* of one of its two jobs.  What makes that enough is where retention may  *)
(* forget a row that ended badly: not under an enqueue, and not under a    *)
(* cascade; so at that moment whoever still waits for it is stranded, and  *)
(* why is what the cascade's own invariant says.                           *)
Ended == {"Complete", "Dead", "Cancelled", "Purged", "Forgotten"}

EdgesAreWanted ==
    \A j, d \in DepJobs : <<j, d>> \in depEdges =>
        /\ d \in wanted[j] /\ depStatus[j] # "Absent"
        /\ depStatus[d] \notin {"Absent", "Forgotten"}

EnteringIsChecked ==
    \A j \in entering :
        /\ depStatus[j] = "Absent"
        /\ \A d \in wanted[j] : depStatus[d] \notin {"Absent", "Forgotten"}

CompletedIsRecorded ==
    \A d \in DepJobs : depStatus[d] \in {"Complete", "Purged"} <=> d \in completed

(* Held back: by an edge, or there is nothing left to wait for, or the     *)
(* fault that the property names.                                          *)
Settled(j, d) == d \in completed \/ (depStatus[d] = "Forgotten" /\ (j \in excused \/ d \in excused))
HeldByEdges ==
    \A j \in DepJobs : depStatus[j] = "Pending" =>
        \A d \in wanted[j] : <<j, d>> \in depEdges \/ Settled(j, d)

CascadeRows == cascades \subseteq [root : DepJobs, todo : SUBSET DepJobs, found : SUBSET DepJobs]

CascadesStartAtTheEnded == \A c \in cascades : depStatus[c.root] \in Ended

(* What a walk has visited it has the dependents of, but for late comers.  *)
VisitedIsClosed ==
    \A c \in cascades : \A k \in c.found \ c.todo : \A j \in DepJobs :
        <<j, k>> \in depEdges => j \in c.found \/ j \in excused

(* StrandedOnlyByFault, as the walk keeps it true: the cascade has the job *)
(* already, or has its dependency still to visit.                          *)
OnItsWay(j, d) ==
    j \in excused \/ d \in excused \/ \E c \in cascades : j \in c.found \/ d \in c.todo
StrandedIsOnItsWay ==
    \A j, d \in DepJobs :
        (/\ depStatus[j] = "Pending" /\ <<j, d>> \in depEdges
         /\ depStatus[d] \in {"Dead", "Cancelled"}) => OnItsWay(j, d)

CascadeInv == CascadeRows /\ CascadesStartAtTheEnded /\ VisitedIsClosed /\ StrandedIsOnItsWay
EdgeInv == EdgesAreWanted /\ EnteringIsChecked /\ CompletedIsRecorded /\ HeldByEdges
DependenciesInv == DependenciesTypeOK /\ CascadeInv /\ EdgeInv /\ RunsAfterDependencies

(* Every action keeps each part of the invariant.                          *)
LEMMA DependenciesStep == DependenciesInv /\ [DependenciesNext]_depVars => DependenciesInv'
<1> SUFFICES ASSUME DependenciesInv, [DependenciesNext]_depVars PROVE DependenciesInv'
  OBVIOUS
<1> USE DEF DependenciesInv, CascadeInv, EdgeInv
<1>1. ASSUME NEW j \in DepJobs, NEW deps \in SUBSET DepJobs, validate_dependencies(j, deps)
     PROVE DependenciesInv'
  <2>1. DependenciesTypeOK'
    BY <1>1 DEF validate_dependencies, Acceptable, DependenciesTypeOK, CascadeRows, DepTerminal
  <2>2. CascadeRows'
    BY <1>1 DEF validate_dependencies, Acceptable, DependenciesTypeOK, CascadeRows
  <2>3. CascadesStartAtTheEnded'
    BY <1>1 DEF validate_dependencies, Acceptable, DependenciesTypeOK, CascadesStartAtTheEnded,
      Ended, DepTerminal
  <2>4. VisitedIsClosed'
    BY <1>1 DEF validate_dependencies, Acceptable, DependenciesTypeOK, CascadeRows,
      VisitedIsClosed, EdgesAreWanted
  <2>5. StrandedIsOnItsWay'
    BY <1>1 DEF validate_dependencies, Acceptable, DependenciesTypeOK, CascadeRows,
      VisitedIsClosed, StrandedIsOnItsWay, OnItsWay, EdgesAreWanted, CascadesStartAtTheEnded,
      Ended
  <2>6. EdgesAreWanted'
    BY <1>1 DEF validate_dependencies, Acceptable, DependenciesTypeOK, EdgesAreWanted,
      EnteringIsChecked
  <2>7. EnteringIsChecked'
    BY <1>1 DEF validate_dependencies, Acceptable, DependenciesTypeOK, EnteringIsChecked,
      DepTerminal
  <2>8. CompletedIsRecorded'
    BY <1>1 DEF validate_dependencies, Acceptable, DependenciesTypeOK, CompletedIsRecorded,
      DepTerminal
  <2>9. HeldByEdges'
    BY <1>1 DEF validate_dependencies, Acceptable, DependenciesTypeOK, HeldByEdges, Settled,
      RunsAfterDependencies, StrandedIsOnItsWay, OnItsWay, CompletedIsRecorded,
      EnteringIsChecked, DepTerminal
  <2>10. RunsAfterDependencies'
    BY <1>1 DEF validate_dependencies, Acceptable, DependenciesTypeOK, RunsAfterDependencies,
      HeldByEdges, Settled, CompletedIsRecorded, EdgesAreWanted
  <2> QED BY <2>1, <2>2, <2>3, <2>4, <2>5, <2>6, <2>7, <2>8, <2>9, <2>10
<1>2. ASSUME NEW j \in DepJobs, insert_job_with_deps(j) PROVE DependenciesInv'
  <2>1. DependenciesTypeOK'
    BY <1>2 DEF insert_job_with_deps, CameLate, DependenciesTypeOK, CascadeRows, DepTerminal
  <2>2. CascadeRows'
    BY <1>2 DEF insert_job_with_deps, CameLate, DependenciesTypeOK, CascadeRows
  <2>3. CascadesStartAtTheEnded'
    BY <1>2 DEF insert_job_with_deps, CameLate, DependenciesTypeOK, CascadesStartAtTheEnded,
      Ended, DepTerminal, EnteringIsChecked
  <2>4. VisitedIsClosed'
    BY <1>2 DEF insert_job_with_deps, CameLate, DependenciesTypeOK, CascadeRows,
      VisitedIsClosed, EdgesAreWanted
  <2>5. StrandedIsOnItsWay'
    BY <1>2 DEF insert_job_with_deps, CameLate, DependenciesTypeOK, CascadeRows,
      VisitedIsClosed, StrandedIsOnItsWay, OnItsWay, EdgesAreWanted, CascadesStartAtTheEnded,
      Ended
  <2>6. EdgesAreWanted'
    BY <1>2 DEF insert_job_with_deps, CameLate, DependenciesTypeOK, EdgesAreWanted,
      EnteringIsChecked
  <2>7. EnteringIsChecked'
    BY <1>2 DEF insert_job_with_deps, CameLate, DependenciesTypeOK, EnteringIsChecked,
      DepTerminal
  <2>8. CompletedIsRecorded'
    BY <1>2 DEF insert_job_with_deps, CameLate, DependenciesTypeOK, CompletedIsRecorded,
      DepTerminal, EnteringIsChecked
  <2>9. HeldByEdges'
    BY <1>2 DEF insert_job_with_deps, CameLate, DependenciesTypeOK, HeldByEdges, Settled,
      RunsAfterDependencies, StrandedIsOnItsWay, OnItsWay, CompletedIsRecorded,
      EnteringIsChecked, DepTerminal
  <2>10. RunsAfterDependencies'
    BY <1>2 DEF insert_job_with_deps, CameLate, DependenciesTypeOK, RunsAfterDependencies,
      HeldByEdges, Settled, CompletedIsRecorded, EdgesAreWanted, EnteringIsChecked
  <2> QED BY <2>1, <2>2, <2>3, <2>4, <2>5, <2>6, <2>7, <2>8, <2>9, <2>10
<1>3. ASSUME NEW j \in DepJobs, DepDequeue(j) PROVE DependenciesInv'
  <2>1. DependenciesTypeOK'
    BY <1>3 DEF DepDequeue, deps_satisfied, DependsOn, DependenciesTypeOK, CascadeRows,
      DepTerminal
  <2>2. CascadeRows'
    BY <1>3 DEF DepDequeue, deps_satisfied, DependsOn, DependenciesTypeOK, CascadeRows
  <2>3. CascadesStartAtTheEnded'
    BY <1>3 DEF DepDequeue, deps_satisfied, DependsOn, DependenciesTypeOK,
      CascadesStartAtTheEnded, Ended, DepTerminal
  <2>4. VisitedIsClosed'
    BY <1>3 DEF DepDequeue, deps_satisfied, DependsOn, DependenciesTypeOK, CascadeRows,
      VisitedIsClosed, EdgesAreWanted
  <2>5. StrandedIsOnItsWay'
    BY <1>3 DEF DepDequeue, deps_satisfied, DependsOn, DependenciesTypeOK, CascadeRows,
      VisitedIsClosed, StrandedIsOnItsWay, OnItsWay, EdgesAreWanted, CascadesStartAtTheEnded,
      Ended
  <2>6. EdgesAreWanted'
    BY <1>3 DEF DepDequeue, deps_satisfied, DependsOn, DependenciesTypeOK, EdgesAreWanted,
      EnteringIsChecked
  <2>7. EnteringIsChecked'
    BY <1>3 DEF DepDequeue, deps_satisfied, DependsOn, DependenciesTypeOK, EnteringIsChecked,
      DepTerminal
  <2>8. CompletedIsRecorded'
    BY <1>3 DEF DepDequeue, deps_satisfied, DependsOn, DependenciesTypeOK, CompletedIsRecorded,
      DepTerminal
  <2>9. HeldByEdges'
    BY <1>3 DEF DepDequeue, deps_satisfied, DependsOn, DependenciesTypeOK, HeldByEdges, Settled,
      RunsAfterDependencies, StrandedIsOnItsWay, OnItsWay, CompletedIsRecorded,
      EnteringIsChecked, DepTerminal
  <2>10. RunsAfterDependencies'
    BY <1>3 DEF DepDequeue, deps_satisfied, DependsOn, DependenciesTypeOK,
      RunsAfterDependencies, HeldByEdges, Settled, CompletedIsRecorded, EdgesAreWanted
  <2> QED BY <2>1, <2>2, <2>3, <2>4, <2>5, <2>6, <2>7, <2>8, <2>9, <2>10
<1>4. ASSUME NEW j \in DepJobs, DepComplete(j) PROVE DependenciesInv'
  <2>1. DependenciesTypeOK'
    BY <1>4 DEF DepComplete, DependenciesTypeOK, CascadeRows, DepTerminal
  <2>2. CascadeRows'
    BY <1>4 DEF DepComplete, DependenciesTypeOK, CascadeRows
  <2>3. CascadesStartAtTheEnded'
    BY <1>4 DEF DepComplete, DependenciesTypeOK, CascadesStartAtTheEnded, Ended, DepTerminal
  <2>4. VisitedIsClosed'
    BY <1>4 DEF DepComplete, DependenciesTypeOK, CascadeRows, VisitedIsClosed, EdgesAreWanted
  <2>5. StrandedIsOnItsWay'
    BY <1>4 DEF DepComplete, DependenciesTypeOK, CascadeRows, VisitedIsClosed,
      StrandedIsOnItsWay, OnItsWay, EdgesAreWanted, CascadesStartAtTheEnded, Ended
  <2>6. EdgesAreWanted'
    BY <1>4 DEF DepComplete, DependenciesTypeOK, EdgesAreWanted, EnteringIsChecked
  <2>7. EnteringIsChecked'
    BY <1>4 DEF DepComplete, DependenciesTypeOK, EnteringIsChecked, DepTerminal
  <2>8. CompletedIsRecorded'
    BY <1>4 DEF DepComplete, DependenciesTypeOK, CompletedIsRecorded, DepTerminal
  <2>9. HeldByEdges'
    BY <1>4 DEF DepComplete, DependenciesTypeOK, HeldByEdges, Settled, RunsAfterDependencies,
      StrandedIsOnItsWay, OnItsWay, CompletedIsRecorded, EnteringIsChecked, DepTerminal
  <2>10. RunsAfterDependencies'
    BY <1>4 DEF DepComplete, DependenciesTypeOK, RunsAfterDependencies, HeldByEdges, Settled,
      CompletedIsRecorded, EdgesAreWanted
  <2> QED BY <2>1, <2>2, <2>3, <2>4, <2>5, <2>6, <2>7, <2>8, <2>9, <2>10
<1>5. ASSUME NEW j \in DepJobs, DepRetry(j) PROVE DependenciesInv'
  <2>1. DependenciesTypeOK'
    BY <1>5 DEF DepRetry, DependenciesTypeOK, CascadeRows, DepTerminal
  <2>2. CascadeRows'
    BY <1>5 DEF DepRetry, DependenciesTypeOK, CascadeRows
  <2>3. CascadesStartAtTheEnded'
    BY <1>5 DEF DepRetry, DependenciesTypeOK, CascadesStartAtTheEnded, Ended, DepTerminal
  <2>4. VisitedIsClosed'
    BY <1>5 DEF DepRetry, DependenciesTypeOK, CascadeRows, VisitedIsClosed, EdgesAreWanted
  <2>5. StrandedIsOnItsWay'
    BY <1>5 DEF DepRetry, DependenciesTypeOK, CascadeRows, VisitedIsClosed, StrandedIsOnItsWay,
      OnItsWay, EdgesAreWanted, CascadesStartAtTheEnded, Ended, RunsAfterDependencies,
      CompletedIsRecorded
  <2>6. EdgesAreWanted'
    BY <1>5 DEF DepRetry, DependenciesTypeOK, EdgesAreWanted, EnteringIsChecked
  <2>7. EnteringIsChecked'
    BY <1>5 DEF DepRetry, DependenciesTypeOK, EnteringIsChecked, DepTerminal
  <2>8. CompletedIsRecorded'
    BY <1>5 DEF DepRetry, DependenciesTypeOK, CompletedIsRecorded, DepTerminal
  <2>9. HeldByEdges'
    BY <1>5 DEF DepRetry, DependenciesTypeOK, HeldByEdges, Settled, RunsAfterDependencies,
      StrandedIsOnItsWay, OnItsWay, CompletedIsRecorded, EnteringIsChecked, DepTerminal
  <2>10. RunsAfterDependencies'
    BY <1>5 DEF DepRetry, DependenciesTypeOK, RunsAfterDependencies, HeldByEdges, Settled,
      CompletedIsRecorded, EdgesAreWanted
  <2> QED BY <2>1, <2>2, <2>3, <2>4, <2>5, <2>6, <2>7, <2>8, <2>9, <2>10
<1>6. ASSUME NEW j \in DepJobs, DepCancel(j) PROVE DependenciesInv'
  <2>1. DependenciesTypeOK'
    BY <1>6 DEF DepCancel, StartCascade, DependenciesTypeOK, CascadeRows, DepTerminal
  <2>2. CascadeRows'
    BY <1>6 DEF DepCancel, StartCascade, DependenciesTypeOK, CascadeRows
  <2>3. CascadesStartAtTheEnded'
    BY <1>6 DEF DepCancel, StartCascade, DependenciesTypeOK, CascadesStartAtTheEnded, Ended,
      DepTerminal
  <2>4. VisitedIsClosed'
    BY <1>6 DEF DepCancel, StartCascade, DependenciesTypeOK, CascadeRows, VisitedIsClosed,
      EdgesAreWanted
  <2>5. StrandedIsOnItsWay'
    <3> DEFINE c == [root |-> j, todo |-> {j}, found |-> {j}]
    <3>1. c \in cascades' /\ cascades \subseteq cascades' /\ excused' = excused /\ depEdges' = depEdges
      BY <1>6 DEF DepCancel, StartCascade
    <3> SUFFICES ASSUME NEW i \in DepJobs, NEW d \in DepJobs, <<i, d>> \in depEdges,
                        depStatus'[i] = "Pending", depStatus'[d] \in {"Dead", "Cancelled"}
                 PROVE  OnItsWay(i, d)'
      BY <3>1 DEF StrandedIsOnItsWay
    <3>2. CASE d = j
      BY <3>1, <3>2 DEF OnItsWay
    <3>3. CASE d # j
      <4>1. depStatus[i] = "Pending" /\ depStatus'[d] = depStatus[d]
        BY <1>6, <3>3 DEF DepCancel, DependenciesTypeOK
      <4>2. OnItsWay(i, d)
        BY <4>1 DEF StrandedIsOnItsWay
      <4> HIDE DEF c
      <4> QED BY <3>1, <4>2 DEF OnItsWay
    <3> QED BY <3>2, <3>3
  <2>6. EdgesAreWanted'
    BY <1>6 DEF DepCancel, StartCascade, DependenciesTypeOK, EdgesAreWanted, EnteringIsChecked
  <2>7. EnteringIsChecked'
    BY <1>6 DEF DepCancel, StartCascade, DependenciesTypeOK, EnteringIsChecked, DepTerminal
  <2>8. CompletedIsRecorded'
    BY <1>6 DEF DepCancel, StartCascade, DependenciesTypeOK, CompletedIsRecorded, DepTerminal
  <2>9. HeldByEdges'
    BY <1>6 DEF DepCancel, StartCascade, DependenciesTypeOK, HeldByEdges, Settled,
      RunsAfterDependencies, StrandedIsOnItsWay, OnItsWay, CompletedIsRecorded,
      EnteringIsChecked, DepTerminal
  <2>10. RunsAfterDependencies'
    BY <1>6 DEF DepCancel, StartCascade, DependenciesTypeOK, RunsAfterDependencies, HeldByEdges,
      Settled, CompletedIsRecorded, EdgesAreWanted
  <2> QED BY <2>1, <2>2, <2>3, <2>4, <2>5, <2>6, <2>7, <2>8, <2>9, <2>10
<1>7. ASSUME NEW j \in DepJobs, DepDead(j) PROVE DependenciesInv'
  <2>1. DependenciesTypeOK'
    BY <1>7 DEF DepDead, StartCascade, DependenciesTypeOK, CascadeRows, DepTerminal
  <2>2. CascadeRows'
    BY <1>7 DEF DepDead, StartCascade, DependenciesTypeOK, CascadeRows
  <2>3. CascadesStartAtTheEnded'
    BY <1>7 DEF DepDead, StartCascade, DependenciesTypeOK, CascadesStartAtTheEnded, Ended,
      DepTerminal
  <2>4. VisitedIsClosed'
    BY <1>7 DEF DepDead, StartCascade, DependenciesTypeOK, CascadeRows, VisitedIsClosed,
      EdgesAreWanted
  <2>5. StrandedIsOnItsWay'
    <3> DEFINE c == [root |-> j, todo |-> {j}, found |-> {j}]
    <3>1. c \in cascades' /\ cascades \subseteq cascades' /\ excused' = excused /\ depEdges' = depEdges
      BY <1>7 DEF DepDead, StartCascade
    <3> SUFFICES ASSUME NEW i \in DepJobs, NEW d \in DepJobs, <<i, d>> \in depEdges,
                        depStatus'[i] = "Pending", depStatus'[d] \in {"Dead", "Cancelled"}
                 PROVE  OnItsWay(i, d)'
      BY <3>1 DEF StrandedIsOnItsWay
    <3>2. CASE d = j
      BY <3>1, <3>2 DEF OnItsWay
    <3>3. CASE d # j
      <4>1. depStatus[i] = "Pending" /\ depStatus'[d] = depStatus[d]
        BY <1>7, <3>3 DEF DepDead, DependenciesTypeOK
      <4>2. OnItsWay(i, d)
        BY <4>1 DEF StrandedIsOnItsWay
      <4> HIDE DEF c
      <4> QED BY <3>1, <4>2 DEF OnItsWay
    <3> QED BY <3>2, <3>3
  <2>6. EdgesAreWanted'
    BY <1>7 DEF DepDead, StartCascade, DependenciesTypeOK, EdgesAreWanted, EnteringIsChecked
  <2>7. EnteringIsChecked'
    BY <1>7 DEF DepDead, StartCascade, DependenciesTypeOK, EnteringIsChecked, DepTerminal
  <2>8. CompletedIsRecorded'
    BY <1>7 DEF DepDead, StartCascade, DependenciesTypeOK, CompletedIsRecorded, DepTerminal
  <2>9. HeldByEdges'
    BY <1>7 DEF DepDead, StartCascade, DependenciesTypeOK, HeldByEdges, Settled,
      RunsAfterDependencies, StrandedIsOnItsWay, OnItsWay, CompletedIsRecorded,
      EnteringIsChecked, DepTerminal
  <2>10. RunsAfterDependencies'
    BY <1>7 DEF DepDead, StartCascade, DependenciesTypeOK, RunsAfterDependencies, HeldByEdges,
      Settled, CompletedIsRecorded, EdgesAreWanted
  <2> QED BY <2>1, <2>2, <2>3, <2>4, <2>5, <2>6, <2>7, <2>8, <2>9, <2>10
<1>8. ASSUME NEW j \in DepJobs, DepEndsAlone(j) PROVE DependenciesInv'
  <2>1. DependenciesTypeOK'
    BY <1>8 DEF DepEndsAlone, DependenciesTypeOK, CascadeRows, DepTerminal
  <2>2. CascadeRows'
    BY <1>8 DEF DepEndsAlone, DependenciesTypeOK, CascadeRows
  <2>3. CascadesStartAtTheEnded'
    BY <1>8 DEF DepEndsAlone, DependenciesTypeOK, CascadesStartAtTheEnded, Ended, DepTerminal
  <2>4. VisitedIsClosed'
    BY <1>8 DEF DepEndsAlone, DependenciesTypeOK, CascadeRows, VisitedIsClosed, EdgesAreWanted
  <2>5. StrandedIsOnItsWay'
    BY <1>8 DEF DepEndsAlone, DependenciesTypeOK, CascadeRows, VisitedIsClosed,
      StrandedIsOnItsWay, OnItsWay, EdgesAreWanted, CascadesStartAtTheEnded, Ended
  <2>6. EdgesAreWanted'
    BY <1>8 DEF DepEndsAlone, DependenciesTypeOK, EdgesAreWanted, EnteringIsChecked
  <2>7. EnteringIsChecked'
    BY <1>8 DEF DepEndsAlone, DependenciesTypeOK, EnteringIsChecked, DepTerminal
  <2>8. CompletedIsRecorded'
    BY <1>8 DEF DepEndsAlone, DependenciesTypeOK, CompletedIsRecorded, DepTerminal
  <2>9. HeldByEdges'
    BY <1>8 DEF DepEndsAlone, DependenciesTypeOK, HeldByEdges, Settled, RunsAfterDependencies,
      StrandedIsOnItsWay, OnItsWay, CompletedIsRecorded, EnteringIsChecked, DepTerminal
  <2>10. RunsAfterDependencies'
    BY <1>8 DEF DepEndsAlone, DependenciesTypeOK, RunsAfterDependencies, HeldByEdges, Settled,
      CompletedIsRecorded, EdgesAreWanted
  <2> QED BY <2>1, <2>2, <2>3, <2>4, <2>5, <2>6, <2>7, <2>8, <2>9, <2>10
<1>9. ASSUME NEW j \in DepJobs, DepPurge(j) PROVE DependenciesInv'
  <2>1. DependenciesTypeOK'
    BY <1>9 DEF DepPurge, DependenciesTypeOK, CascadeRows, DepTerminal
  <2>2. CascadeRows'
    BY <1>9 DEF DepPurge, DependenciesTypeOK, CascadeRows
  <2>3. CascadesStartAtTheEnded'
    BY <1>9 DEF DepPurge, DependenciesTypeOK, CascadesStartAtTheEnded, Ended, DepTerminal
  <2>4. VisitedIsClosed'
    BY <1>9 DEF DepPurge, DependenciesTypeOK, CascadeRows, VisitedIsClosed, EdgesAreWanted
  <2>5. StrandedIsOnItsWay'
    BY <1>9 DEF DepPurge, DependenciesTypeOK, CascadeRows, VisitedIsClosed, StrandedIsOnItsWay,
      OnItsWay, EdgesAreWanted, CascadesStartAtTheEnded, Ended
  <2>6. EdgesAreWanted'
    BY <1>9 DEF DepPurge, DependenciesTypeOK, EdgesAreWanted, EnteringIsChecked
  <2>7. EnteringIsChecked'
    BY <1>9 DEF DepPurge, DependenciesTypeOK, EnteringIsChecked, DepTerminal
  <2>8. CompletedIsRecorded'
    BY <1>9 DEF DepPurge, DependenciesTypeOK, CompletedIsRecorded, DepTerminal
  <2>9. HeldByEdges'
    BY <1>9 DEF DepPurge, DependenciesTypeOK, HeldByEdges, Settled, RunsAfterDependencies,
      StrandedIsOnItsWay, OnItsWay, CompletedIsRecorded, EnteringIsChecked, DepTerminal
  <2>10. RunsAfterDependencies'
    BY <1>9 DEF DepPurge, DependenciesTypeOK, RunsAfterDependencies, HeldByEdges, Settled,
      CompletedIsRecorded, EdgesAreWanted
  <2> QED BY <2>1, <2>2, <2>3, <2>4, <2>5, <2>6, <2>7, <2>8, <2>9, <2>10
<1>10. ASSUME NEW c \in cascades, NEW j \in DepJobs, CascadeVisit(c, j) PROVE DependenciesInv'
  <2> DEFINE v == [c EXCEPT !.todo = (@ \ {j}) \cup (Dependents(j) \ c.found),
                            !.found = @ \cup Dependents(j)]
  <2>a. /\ c \in [root : DepJobs, todo : SUBSET DepJobs, found : SUBSET DepJobs]
        /\ c.todo \subseteq c.found /\ j \in c.todo /\ Dependents(j) \subseteq DepJobs
    BY <1>10 DEF CascadeVisit, CascadeRows, DependenciesTypeOK, Dependents
  <2>b. /\ v.root = c.root /\ v.todo = (c.todo \ {j}) \cup (Dependents(j) \ c.found)
        /\ v.found = c.found \cup Dependents(j)
        /\ v \in [root : DepJobs, todo : SUBSET DepJobs, found : SUBSET DepJobs]
    BY ONLY <2>a DEF v
  <2>c. /\ cascades' = (cascades \ {c}) \cup {v}
        /\ UNCHANGED <<depStatus, depEdges, wanted, entering, completed, excused>>
    BY ONLY <1>10 DEF CascadeVisit, v
  <2> HIDE DEF v
  <2>0. /\ cascades' = (cascades \ {c}) \cup {v} /\ j \in c.todo /\ c.todo \subseteq c.found
        /\ v \in [root : DepJobs, todo : SUBSET DepJobs, found : SUBSET DepJobs]
        /\ v.root = c.root /\ v.todo = (c.todo \ {j}) \cup (Dependents(j) \ c.found)
        /\ v.found = c.found \cup Dependents(j) /\ v.todo \subseteq v.found
        /\ UNCHANGED <<depStatus, depEdges, wanted, entering, completed, excused>>
    BY <2>a, <2>b, <2>c
  <2>1. DependenciesTypeOK'
    BY <2>0 DEF DependenciesTypeOK
  <2>2. CascadeRows'
    BY <2>0 DEF CascadeRows
  <2>3. CascadesStartAtTheEnded'
    BY <2>0 DEF CascadesStartAtTheEnded
  <2>4. VisitedIsClosed'
    <3>1. ASSUME NEW k \in v.found \ v.todo, NEW i \in DepJobs, <<i, k>> \in depEdges
          PROVE  i \in v.found \/ i \in excused
      <4>1. CASE k = j
        BY <2>0, <3>1, <4>1 DEF Dependents
      <4>2. CASE k # j
        <5>1. k \in c.found \ c.todo
          BY <2>0, <4>2
        <5> QED BY <2>0, <3>1, <5>1 DEF VisitedIsClosed
      <4> QED BY <4>1, <4>2
    <3> QED BY <2>0, <3>1 DEF VisitedIsClosed
  <2>5. StrandedIsOnItsWay'
    <3> SUFFICES ASSUME NEW i \in DepJobs, NEW d \in DepJobs, OnItsWay(i, d),
         <<i, d>> \in depEdges
                 PROVE  OnItsWay(i, d)'
      BY <2>0 DEF StrandedIsOnItsWay
    <3>1. CASE i \in c.found \/ d \in c.todo
      <4>1. i \in v.found \/ d \in v.todo
        BY <2>0, <3>1 DEF Dependents
      <4> QED BY <2>0, <4>1 DEF OnItsWay
    <3>2. CASE ~(i \in c.found \/ d \in c.todo)
      BY <2>0, <3>2 DEF OnItsWay
    <3> QED BY <3>1, <3>2
  <2>6. EdgesAreWanted'
    BY <1>10 DEF CascadeVisit, Dependents, DependenciesTypeOK, EdgesAreWanted, EnteringIsChecked
  <2>7. EnteringIsChecked'
    BY <1>10 DEF CascadeVisit, Dependents, DependenciesTypeOK, EnteringIsChecked, DepTerminal
  <2>8. CompletedIsRecorded'
    BY <1>10 DEF CascadeVisit, Dependents, DependenciesTypeOK, CompletedIsRecorded, DepTerminal
  <2>9. HeldByEdges'
    BY <1>10 DEF CascadeVisit, Dependents, DependenciesTypeOK, HeldByEdges, Settled,
      RunsAfterDependencies, StrandedIsOnItsWay, OnItsWay, CompletedIsRecorded,
      EnteringIsChecked, DepTerminal
  <2>10. RunsAfterDependencies'
    BY <1>10 DEF CascadeVisit, Dependents, DependenciesTypeOK, RunsAfterDependencies,
      HeldByEdges, Settled, CompletedIsRecorded, EdgesAreWanted
  <2> QED BY <2>1, <2>2, <2>3, <2>4, <2>5, <2>6, <2>7, <2>8, <2>9, <2>10
<1>11. ASSUME NEW c \in cascades, CascadeWrite(c) PROVE DependenciesInv'
  <2>1. DependenciesTypeOK'
    BY <1>11 DEF CascadeWrite, DependenciesTypeOK, CascadeRows, DepTerminal
  <2>2. CascadeRows'
    BY <1>11 DEF CascadeWrite, DependenciesTypeOK, CascadeRows
  <2>3. CascadesStartAtTheEnded'
    BY <1>11 DEF CascadeWrite, DependenciesTypeOK, CascadesStartAtTheEnded, Ended, DepTerminal
  <2>4. VisitedIsClosed'
    BY <1>11 DEF CascadeWrite, DependenciesTypeOK, CascadeRows, VisitedIsClosed, EdgesAreWanted
  <2>5. StrandedIsOnItsWay'
    BY <1>11 DEF CascadeWrite, DependenciesTypeOK, CascadeRows, VisitedIsClosed,
      StrandedIsOnItsWay, OnItsWay, EdgesAreWanted, CascadesStartAtTheEnded, Ended
  <2>6. EdgesAreWanted'
    BY <1>11 DEF CascadeWrite, DependenciesTypeOK, EdgesAreWanted, EnteringIsChecked
  <2>7. EnteringIsChecked'
    BY <1>11 DEF CascadeWrite, DependenciesTypeOK, EnteringIsChecked, DepTerminal
  <2>8. CompletedIsRecorded'
    BY <1>11 DEF CascadeWrite, DependenciesTypeOK, CompletedIsRecorded, DepTerminal
  <2>9. HeldByEdges'
    BY <1>11 DEF CascadeWrite, DependenciesTypeOK, HeldByEdges, Settled, RunsAfterDependencies,
      StrandedIsOnItsWay, OnItsWay, CompletedIsRecorded, EnteringIsChecked, DepTerminal
  <2>10. RunsAfterDependencies'
    BY <1>11 DEF CascadeWrite, DependenciesTypeOK, RunsAfterDependencies, HeldByEdges, Settled,
      CompletedIsRecorded, EdgesAreWanted
  <2> QED BY <2>1, <2>2, <2>3, <2>4, <2>5, <2>6, <2>7, <2>8, <2>9, <2>10
<1>12. ASSUME NEW c \in cascades, CascadeLost(c) PROVE DependenciesInv'
  <2>1. DependenciesTypeOK'
    BY <1>12 DEF CascadeLost, DependenciesTypeOK, CascadeRows, DepTerminal
  <2>2. CascadeRows'
    BY <1>12 DEF CascadeLost, DependenciesTypeOK, CascadeRows
  <2>3. CascadesStartAtTheEnded'
    BY <1>12 DEF CascadeLost, DependenciesTypeOK, CascadesStartAtTheEnded, Ended, DepTerminal
  <2>4. VisitedIsClosed'
    BY <1>12 DEF CascadeLost, DependenciesTypeOK, CascadeRows, VisitedIsClosed, EdgesAreWanted
  <2>5. StrandedIsOnItsWay'
    BY <1>12 DEF CascadeLost, DependenciesTypeOK, CascadeRows, VisitedIsClosed,
      StrandedIsOnItsWay, OnItsWay, EdgesAreWanted, CascadesStartAtTheEnded, Ended
  <2>6. EdgesAreWanted'
    BY <1>12 DEF CascadeLost, DependenciesTypeOK, EdgesAreWanted, EnteringIsChecked
  <2>7. EnteringIsChecked'
    BY <1>12 DEF CascadeLost, DependenciesTypeOK, EnteringIsChecked, DepTerminal
  <2>8. CompletedIsRecorded'
    BY <1>12 DEF CascadeLost, DependenciesTypeOK, CompletedIsRecorded, DepTerminal
  <2>9. HeldByEdges'
    BY <1>12 DEF CascadeLost, DependenciesTypeOK, HeldByEdges, Settled, RunsAfterDependencies,
      StrandedIsOnItsWay, OnItsWay, CompletedIsRecorded, EnteringIsChecked, DepTerminal
  <2>10. RunsAfterDependencies'
    BY <1>12 DEF CascadeLost, DependenciesTypeOK, RunsAfterDependencies, HeldByEdges, Settled,
      CompletedIsRecorded, EdgesAreWanted
  <2> QED BY <2>1, <2>2, <2>3, <2>4, <2>5, <2>6, <2>7, <2>8, <2>9, <2>10
<1>13. CASE UNCHANGED depVars
  BY <1>13 DEF depVars, DependenciesTypeOK, CascadeRows, CascadesStartAtTheEnded,
    VisitedIsClosed, StrandedIsOnItsWay,
     OnItsWay, EdgesAreWanted, EnteringIsChecked, CompletedIsRecorded, HeldByEdges, Settled, RunsAfterDependencies
<1> QED BY <1>1, <1>2, <1>3, <1>4, <1>5, <1>6, <1>7, <1>8, <1>9, <1>10, <1>11, <1>12, <1>13
  DEF DependenciesNext

(* It holds from the start.                                                *)
LEMMA DependenciesInvariant == DependenciesSpec => []DependenciesInv
<1>1. DependenciesInit => DependenciesInv
  BY DEF DependenciesInit, DependenciesInv, CascadeInv, EdgeInv, DependenciesTypeOK,
    CascadeRows,
     CascadesStartAtTheEnded, VisitedIsClosed, StrandedIsOnItsWay, EdgesAreWanted, EnteringIsChecked,
     CompletedIsRecorded, HeldByEdges, RunsAfterDependencies
<1> QED BY <1>1, DependenciesStep, PTL DEF DependenciesSpec

(* deps_satisfied and the edges: a job runs after what it waits for, in    *)
(* graphs of any size, with any number of cascades.                        *)
THEOREM RunsAfterDependenciesAlways == DependenciesSpec => []RunsAfterDependencies
<1>1. DependenciesInv => RunsAfterDependencies
  BY DEF DependenciesInv
<1> QED BY <1>1, DependenciesInvariant, PTL

(* cascade_cancel: nothing but the three named faults strands a job.       *)
THEOREM StrandedOnlyByFaultAlways == DependenciesSpec => []StrandedOnlyByFault
<1>1. DependenciesInv => StrandedOnlyByFault
  <2> SUFFICES ASSUME DependenciesInv, NEW j \in DepJobs, NEW d \in DependsOn(j),
                      depStatus[j] = "Pending", depStatus[d] \in {"Dead", "Cancelled"}
               PROVE  j \in excused \/ d \in excused \/ \E c \in cascades : WillFind(c, j)
    BY DEF StrandedOnlyByFault
  <2>1. OnItsWay(j, d) /\ d \in DepJobs /\ j \in Dependents(d)
    BY DEF DependenciesInv, CascadeInv, StrandedIsOnItsWay, DependsOn, Dependents
  <2>2. ASSUME NEW c \in cascades, j \in c.found \/ d \in c.todo PROVE WillFind(c, j)
    BY <2>1, <2>2 DEF WillFind
  <2> QED BY <2>1, <2>2 DEF OnItsWay
<1> QED BY <1>1, DependenciesInvariant, PTL
=============================================================================
