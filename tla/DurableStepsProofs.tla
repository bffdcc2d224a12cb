------------------------- MODULE DurableStepsProofs -------------------------
(***************************************************************************)
(* What holds of the durable steps of a job for any code, any number of    *)
(* workers, dispatches and events.                                         *)
(***************************************************************************)
EXTENDS DurableSteps, TLAPS

-----------------------------------------------------------------------------
(* Prefixes, element by element.                                           *)

\* One sequence is a prefix of another when it is no longer and agrees with it entry by entry.
LEMMA PrefixPointwise ==
    ASSUME NEW S, NEW s \in Seq(S), NEW t \in Seq(S)
    PROVE  IsPrefix(s, t) <=> (Len(s) <= Len(t) /\ \A i \in 1..Len(s) : s[i] = t[i])
<1>1. CASE Len(s) <= Len(t)
  <2>1. /\ SubSeq(s, 1, Len(s)) \in Seq(S) /\ Len(SubSeq(s, 1, Len(s))) = Len(s)
        /\ \A i \in 1..Len(s) : SubSeq(s, 1, Len(s))[i] = s[i]
    OBVIOUS
  <2>2. /\ SubSeq(t, 1, Len(s)) \in Seq(S) /\ Len(SubSeq(t, 1, Len(s))) = Len(s)
        /\ \A i \in 1..Len(s) : SubSeq(t, 1, Len(s))[i] = t[i]
    BY <1>1
  <2> QED BY <1>1, <2>1, <2>2 DEF IsPrefix
<1>2. CASE ~(Len(s) <= Len(t))
  BY <1>2 DEF IsPrefix
<1> QED BY <1>1, <1>2

\* A prefix stays one when the longer sequence is appended to (insert_step).
LEMMA PrefixGrows ==
    ASSUME NEW S, NEW s \in Seq(S), NEW t \in Seq(S), NEW e \in S, IsPrefix(s, t)
    PROVE  IsPrefix(s, Append(t, e))
<1>1. Len(s) <= Len(t) /\ \A i \in 1..Len(s) : s[i] = t[i]
  BY PrefixPointwise
<1>2. /\ Append(t, e) \in Seq(S) /\ Len(Append(t, e)) = Len(t) + 1
      /\ \A i \in 1..Len(t) : Append(t, e)[i] = t[i]
  OBVIOUS
<1>3. Len(s) <= Len(Append(t, e)) /\ \A i \in 1..Len(s) : s[i] = Append(t, e)[i]
  BY <1>1, <1>2
<1> QED BY <1>2, <1>3, PrefixPointwise

\* A prefix extended by the entry that comes next is a prefix still: what a session
\* does when it finds its step already in the table.
LEMMA PrefixCatchesUp ==
    ASSUME NEW S, NEW s \in Seq(S), NEW t \in Seq(S), IsPrefix(s, t), Len(s) + 1 <= Len(t),
           NEW e \in S, t[Len(s) + 1] = e
    PROVE  IsPrefix(Append(s, e), t)
<1>1. Len(s) <= Len(t) /\ \A i \in 1..Len(s) : s[i] = t[i]
  BY PrefixPointwise
<1>2. /\ Append(s, e) \in Seq(S) /\ Len(Append(s, e)) = Len(s) + 1
      /\ \A i \in 1..Len(s) : Append(s, e)[i] = s[i]
      /\ Append(s, e)[Len(s) + 1] = e
  OBVIOUS
<1>3. \A i \in 1..(Len(s) + 1) : Append(s, e)[i] = t[i]
  BY <1>1, <1>2
<1> QED BY <1>2, <1>3, PrefixPointwise

\* Every history is a prefix of itself, and the empty one of every history.
LEMMA PrefixOfItself ==
    ASSUME NEW S, NEW s \in Seq(S)
    PROVE  IsPrefix(s, s) /\ IsPrefix(<<>>, s)
<1>1. <<>> \in Seq(S) /\ Len(<<>>) = 0
  OBVIOUS
<1>2. IsPrefix(s, s)
  BY PrefixPointwise
<1>3. IsPrefix(<<>>, s)
  BY <1>1 DEF IsPrefix
<1> QED BY <1>2, <1>3

-----------------------------------------------------------------------------
(* The inductive invariant.                                                *)

DistinctKeys(s) == \A i, k \in 1..Len(s) : s[i].key = s[k].key => i = k
HasKey(s, key) == \E i \in 1..Len(s) : s[i].key = key

(* A step handed out at the end of the session's view, under a new key.    *)
AtTheEnd(x) ==
    /\ x.pending \in Requests /\ x.pending.key \in x.asked
    /\ x.seq = Len(x.view) + 1 /\ ~HasKey(x.view, x.pending.key)

(* A sleep handed out again at the position it was recorded at.            *)
Resumed(x) ==
    /\ x.pending \in Requests
    /\ x.seq \in 1..Len(x.view)
    /\ x.view[x.seq].key = x.pending.key /\ x.view[x.seq].kind = "sleep"

(* The sleeps the session asked for, but the one it is in, are over.       *)
SleepsOver(x, t) ==
    \A i \in 1..Len(x.view) :
        (/\ x.view[i].kind = "sleep" /\ x.view[i].key \in x.asked
         /\ ~(x.pc = "sleep" /\ x.view[i].key = x.pending.key)) => t >= x.view[i].wake

(* What the session added to its snapshot are bodies it was asked for.     *)
OwnSteps(x) ==
    \A i \in (x.recorded + 1)..Len(x.view) : x.view[i].kind = "run" /\ x.view[i].key \in x.asked

SessionRecord ==
    [pc : Pcs, owner : Owners \cup {NoOne}, attempt : Nat, code : Codes, view : Seq(StepRow),
     recorded : Nat, asked : SUBSET Keys, pending : Requests \cup {NoRequest}, seq : Nat,
     value : 0..MaxDispatches, wake : Nat]

SessionOK(x, t) ==
    /\ x \in SessionRecord
    /\ x.recorded <= Len(x.view) /\ DistinctKeys(x.view)
    /\ x.pc \in {"none", "load"} => x.view = <<>> /\ x.asked = {}
    /\ OwnSteps(x)
    /\ x.pc \in {"body", "commit"} => AtTheEnd(x)
    /\ x.pc = "sleep" => AtTheEnd(x) \/ Resumed(x)
    /\ x.pc # "over" => SleepsOver(x, t)

RowsOK ==
    /\ now \in Nat
    /\ job \in [status : {"Pending", "Running", "Complete", "Dead"}, retry : 0..MaxRetries, wake : Nat]
    /\ claim \in [owner : Owners \cup {NoOne}, epoch : 0..MaxDispatches]
    /\ taking \in [Owners -> [busy : BOOLEAN, attempt : 0..MaxRetries]]
    /\ issued \in 0..MaxDispatches /\ events \in 0..MaxEvents

StepsOK == steps \in Seq(StepRow) /\ Len(steps) <= MaxSteps /\ DistinctKeys(steps)

SessionsOK ==
    /\ sess \in [Dispatches -> SessionRecord]
    /\ \A d \in Dispatches : SessionOK(sess[d], now)

StepsInv == RowsOK /\ StepsOK /\ SessionsOK /\ ViewsAreHistory

-----------------------------------------------------------------------------
(* One session changes; the store's history stays.                         *)

\* A step that moves one session and leaves the table alone keeps the sessions and
\* their views in order.
LEMMA OneSession ==
    ASSUME StepsInv, NEW d \in Dispatches, NEW x, SessionOK(x, now),
           ~Over => IsPrefix(x.view, steps),
           sess' = [sess EXCEPT ![d] = x], now' = now, steps' = steps, ~Over' => ~Over
    PROVE  SessionsOK' /\ ViewsAreHistory'
<1>1. \A e \in Dispatches : sess'[e] = IF e = d THEN x ELSE sess[e]
  BY DEF StepsInv, SessionsOK
<1>2. sess' \in [Dispatches -> SessionRecord]
  BY DEF StepsInv, SessionsOK, SessionOK
<1>3. \A e \in Dispatches : SessionOK(sess'[e], now')
  <2> SUFFICES ASSUME NEW e \in Dispatches PROVE SessionOK(sess'[e], now)
    OBVIOUS
  <2> QED BY <1>1 DEF StepsInv, SessionsOK
<1>4. ViewsAreHistory'
  <2> SUFFICES ASSUME ~Over', NEW e \in Dispatches PROVE IsPrefix(sess'[e].view, steps')
    BY DEF ViewsAreHistory
  <2>1. ~Over
    OBVIOUS
  <2> QED BY <1>1, <2>1 DEF StepsInv, ViewsAreHistory
<1> QED BY <1>2, <1>3, <1>4 DEF SessionsOK

(* A session moves on without touching what it knows.                      *)
LEMMA Relabelled ==
    ASSUME StepsInv, NEW d \in Dispatches,
         NEW pc \in Pcs \ {"none", "load", "body", "commit", "sleep"},
           sess[d].pc # "over", sess[d].pc = "sleep" => pc = "over" \/ AtTheEnd(sess[d]),
           sess' = [sess EXCEPT ![d].pc = pc], now' = now, steps' = steps, ~Over' => ~Over
    PROVE  SessionsOK' /\ ViewsAreHistory'
<1> DEFINE x == sess[d]
           y == [x EXCEPT !.pc = pc]
<1>1. x \in SessionRecord /\ SessionOK(x, now)
  BY DEF StepsInv, SessionsOK
<1>2. y \in SessionRecord /\ y.view = x.view /\ y.asked = x.asked /\ y.recorded = x.recorded /\ y.pc = pc
  BY <1>1 DEF SessionRecord
<1>3. pc # "over" => SleepsOver(y, now)
  <2> SUFFICES ASSUME pc # "over", NEW i \in 1..Len(x.view), x.view[i].kind = "sleep",
                      x.view[i].key \in x.asked
               PROVE  now >= x.view[i].wake
    BY <1>2 DEF SleepsOver
  <2>1. ~(x.pc = "sleep" /\ x.view[i].key = x.pending.key)
    BY DEF AtTheEnd, HasKey
  <2> QED BY <1>1, <2>1 DEF SessionOK, SleepsOver
<1>4. SessionOK(y, now)
  BY <1>1, <1>2, <1>3 DEF SessionOK, OwnSteps
<1>5. sess' = [sess EXCEPT ![d] = y]
  BY DEF StepsInv, SessionsOK
<1>6. ~Over => IsPrefix(y.view, steps)
  BY <1>2 DEF StepsInv, ViewsAreHistory
<1> HIDE DEF y
<1> QED BY <1>4, <1>5, <1>6, OneSession

-----------------------------------------------------------------------------
(* The session's walk.                                                     *)

(* What a request can be matched with carries its key.                     *)
LEMMA MatchHasKey ==
    ASSUME NEW x, NEW q, NEW i \in recorded_match(x, q)
    PROVE  i \in 1..x.recorded /\ x.view[i].key = q.key
BY DEF recorded_match, AtCursor, Unclaimed

(* On new ground the key is nowhere in the view: the recorded part has been*)
(* looked at or walked over, the rest was asked for by this session.       *)
LEMMA NewGroundIsNew ==
    ASSUME NEW x, SessionOK(x, now), NEW q \in Asks(x), NewGround(x, q)
    PROVE  ~HasKey(x.view, q.key) /\ q.key \notin x.asked
<1>1. q.key \notin x.asked
  BY DEF Asks
<1>2. ASSUME NEW i \in 1..Len(x.view), x.view[i].key = q.key PROVE FALSE
  <2>0. x.recorded \in Nat /\ Len(x.view) \in Nat /\ x.recorded <= Len(x.view) /\ i \in Nat
    BY DEF SessionOK, SessionRecord
  <2>1. CASE i > x.recorded
    <3>1. i \in (x.recorded + 1)..Len(x.view)
      BY <2>0, <2>1
    <3> QED BY <1>1, <1>2, <3>1 DEF SessionOK, OwnSteps
  <2>2. CASE i <= x.recorded
    <3>1. i \in 1..x.recorded
      BY <2>0, <2>2
    <3>2. CASE q.keyed
      BY <1>2, <3>1, <3>2 DEF NewGround, recorded_match
    <3>3. CASE ~q.keyed
      BY <1>1, <1>2, <3>1, <3>3 DEF NewGround, Unclaimed
    <3> QED BY <3>2, <3>3
  <2> QED BY <2>0, <2>1, <2>2
<1> QED BY <1>1, <1>2 DEF HasKey

(* A request is answered or handed out; its sleep, if it has one recorded, *)
(* is over or is the one the session is in.                                *)
LEMMA AskStep ==
    ASSUME StepsInv, NEW d \in Dispatches, sess[d].pc = "ask", NEW q \in Requests,
           NEW y \in SessionRecord, y.view = sess[d].view, y.recorded = sess[d].recorded,
           y.asked = sess[d].asked \cup {q.key}, y.pc \in {"ask", "body", "sleep", "dead"},
           y.pc = "body" => AtTheEnd(y),
           y.pc = "sleep" => y.pending = q /\ (AtTheEnd(y) \/ Resumed(y)),
           y.pc # "sleep" => \A i \in 1..Len(y.view) :
               (y.view[i].key = q.key /\ y.view[i].kind = "sleep") => now >= y.view[i].wake,
           sess' = [sess EXCEPT ![d] = y], now' = now, steps' = steps, job' = job
    PROVE  SessionsOK' /\ ViewsAreHistory'
<1>1. SessionOK(sess[d], now) /\ sess[d] \in SessionRecord
  BY DEF StepsInv, SessionsOK
<1>2. SleepsOver(y, now)
  BY <1>1 DEF SleepsOver, SessionOK
<1>3. OwnSteps(y) /\ DistinctKeys(y.view) /\ y.recorded <= Len(y.view)
  BY <1>1 DEF OwnSteps, SessionOK
<1>4. SessionOK(y, now)
  BY <1>2, <1>3 DEF SessionOK
<1>5. ~Over => IsPrefix(y.view, steps)
  BY DEF StepsInv, ViewsAreHistory
<1>6. ~Over' => ~Over
  BY DEF Over
<1> QED BY <1>4, <1>5, <1>6, OneSession

\* A request put on a session leaves it a session.
LEMMA IssuedIsARecord ==
    ASSUME NEW x \in SessionRecord, NEW q \in Requests
    PROVE  /\ Issued(x, q) \in SessionRecord
           /\ Issued(x, q) = [x EXCEPT !.asked = x.asked \cup {q.key}, !.pending = q]
<1>1. q.key \in Keys
  BY DEF Keys
<1>2. Issued(x, q) = [x EXCEPT !.asked = x.asked \cup {q.key}, !.pending = q]
  BY DEF Issued, SessionRecord
<1> QED BY ZenonT(60), <1>1, <1>2 DEF SessionRecord

(* The session after request q was handed out at position n.               *)
Handed(x, q, pc, n, w) == [Issued(x, q) EXCEPT !.pc = pc, !.seq = n, !.wake = w]

\* What a session looks like when a request has been handed to the store.
LEMMA HandedOut ==
    ASSUME NEW x \in SessionRecord, NEW q \in Requests, NEW pc \in Pcs, NEW n \in Nat,
         NEW w \in Nat,
           NEW y, y = Handed(x, q, pc, n, w)
    PROVE  /\ y \in SessionRecord /\ y.view = x.view /\ y.recorded = x.recorded /\ y.seq = n
           /\ y.asked = x.asked \cup {q.key} /\ y.pc = pc /\ y.pending = q
<1>1. PICK u : u = Issued(x, q)
  OBVIOUS
<1>2. u \in SessionRecord /\ u = [x EXCEPT !.asked = x.asked \cup {q.key}, !.pending = q]
  BY <1>1, IssuedIsARecord
<1>3. /\ u.view = x.view /\ u.recorded = x.recorded
      /\ u.asked = x.asked \cup {q.key} /\ u.pending = q
  BY <1>2 DEF SessionRecord
<1>4. y = [u EXCEPT !.pc = pc, !.seq = n, !.wake = w]
  BY <1>1 DEF Handed
<1> QED BY <1>2, <1>3, <1>4 DEF SessionRecord

\* A request answered from the view: a memoized result, or a sleep that is over.
LEMMA AnsweredStep ==
    ASSUME StepsInv, NEW d \in Dispatches, NEW q \in Requests, Memoized(d, q) \/ Elapsed(d, q)
    PROVE  SessionsOK' /\ ViewsAreHistory'
<1> DEFINE x == sess[d]
           y == [Issued(x, q) EXCEPT !.pending = NoRequest]
<1>1. SessionOK(x, now) /\ x \in SessionRecord /\ x.pc = "ask"
  BY DEF StepsInv, SessionsOK, Memoized, Elapsed, At
<1>2. Issued(x, q) \in SessionRecord /\ Issued(x, q) = [x EXCEPT !.asked = x.asked \cup {q.key}, !.pending = q]
  BY <1>1, IssuedIsARecord
<1>3. /\ y \in SessionRecord /\ y.view = x.view /\ y.recorded = x.recorded
      /\ y.asked = x.asked \cup {q.key} /\ y.pc = "ask"
  BY <1>1, <1>2 DEF SessionRecord
<1>4. sess' = [sess EXCEPT ![d] = y] /\ now' = now /\ steps' = steps /\ job' = job
  BY DEF Memoized, Elapsed, SessionOnly, StepsInv, SessionsOK
<1>5. ASSUME NEW i \in 1..Len(x.view), x.view[i].key = q.key, x.view[i].kind = "sleep"
      PROVE  now >= x.view[i].wake
  <2>1. PICK k \in recorded_match(x, q) : x.view[k].kind = q.kind
    BY DEF Memoized, Elapsed, Replays
  <2>2. k \in 1..x.recorded /\ x.view[k].key = q.key
    BY MatchHasKey
  <2>3. k \in 1..Len(x.view)
    BY <1>1, <2>2 DEF SessionOK, SessionRecord
  <2>4. k = i
    BY <1>1, <1>5, <2>2, <2>3 DEF SessionOK, DistinctKeys
  <2>5. CASE Memoized(d, q)
    BY <1>5, <2>1, <2>4, <2>5 DEF Memoized
  <2>6. CASE Elapsed(d, q)
    BY <2>1, <2>4, <2>6 DEF Elapsed
  <2> QED BY <2>5, <2>6
<1> HIDE DEF y
<1> QED BY <1>1, <1>3, <1>4, <1>5, AskStep

\* A step not seen before starts to run.
LEMMA BeginRunStep ==
    ASSUME StepsInv, NEW d \in Dispatches, NEW q \in Requests, BeginRun(d, q)
    PROVE  SessionsOK' /\ ViewsAreHistory'
<1> DEFINE x == sess[d]
<1>1. SessionOK(x, now) /\ x \in SessionRecord /\ x.pc = "ask" /\ q \in Asks(x) /\ NewGround(x, q)
  BY DEF StepsInv, SessionsOK, BeginRun, At
<1>2. Len(x.view) + 1 \in Nat /\ x.wake \in Nat /\ "body" \in Pcs
  BY <1>1 DEF SessionRecord, Pcs
<1>0. PICK n \in Nat, w \in Nat, pc \in Pcs : n = Len(x.view) + 1 /\ w = x.wake /\ pc = "body"
  BY <1>2
<1>00. PICK y : y = Handed(x, q, pc, n, w)
  OBVIOUS
<1>3. /\ y \in SessionRecord /\ y.view = x.view /\ y.recorded = x.recorded /\ y.seq = Len(x.view) + 1
      /\ y.asked = x.asked \cup {q.key} /\ y.pc = "body" /\ y.pending = q
  <2>1. x \in SessionRecord
    BY <1>1
  <2> HIDE DEF x
  <2> QED BY SMTT(30), <1>0, <1>00, <2>1, HandedOut
<1>4. sess' = [sess EXCEPT ![d] = y] /\ now' = now /\ steps' = steps /\ job' = job
  <2>1. PICK u : u = Issued(x, q)
    OBVIOUS
  <2>2. x \in SessionRecord
    BY <1>1
  <2>3. u \in SessionRecord /\ u.wake = x.wake
    <3> HIDE DEF x
    <3>1. u \in SessionRecord /\ u = [x EXCEPT !.asked = x.asked \cup {q.key}, !.pending = q]
      BY <2>1, <2>2, IssuedIsARecord
    <3> QED BY <2>2, <3>1 DEF SessionRecord
  <2>4. y = [u EXCEPT !.pc = "body", !.seq = Len(x.view) + 1]
    BY <1>0, <1>00, <2>1, <2>3 DEF Handed, SessionRecord
  <2> QED BY <2>1, <2>4 DEF BeginRun, SessionOnly, StepsInv, SessionsOK
<1>5. ~HasKey(x.view, q.key)
  BY <1>1, NewGroundIsNew
<1>6. AtTheEnd(y)
  BY <1>3, <1>5 DEF AtTheEnd
<1>7. \A i \in 1..Len(y.view) : y.view[i].key # q.key
  BY <1>3, <1>5 DEF HasKey
<1> QED BY <1>1, <1>3, <1>4, <1>6, <1>7, AskStep

\* A sleep found in the view, not over yet, is slept on.
LEMMA ResumeStep ==
    ASSUME StepsInv, NEW d \in Dispatches, NEW q \in Requests, Resume(d, q)
    PROVE  SessionsOK' /\ ViewsAreHistory'
<1> DEFINE x == sess[d]
<1>1. SessionOK(x, now) /\ x \in SessionRecord /\ x.pc = "ask" /\ q.kind = "sleep" /\ now \in Nat
  BY DEF StepsInv, SessionsOK, Resume, At, RowsOK
<1>3. PICK i \in recorded_match(x, q) :
          /\ now < x.view[i].wake
          /\ sess' = [sess EXCEPT ![d] =
                [Issued(x, q) EXCEPT !.pc = "sleep", !.seq = i, !.wake = now + Nap]]
  BY DEF Resume, StepsInv, SessionsOK
<1>0. PICK y : y = Handed(x, q, "sleep", i, now + Nap)
  OBVIOUS
<1>4. i \in 1..x.recorded /\ x.view[i].key = q.key
  BY MatchHasKey
<1>5. i \in 1..Len(x.view) /\ i \in Nat
  BY <1>1, <1>4 DEF SessionOK, SessionRecord
<1>6. /\ y \in SessionRecord /\ y.view = x.view /\ y.recorded = x.recorded /\ y.seq = i
      /\ y.asked = x.asked \cup {q.key} /\ y.pc = "sleep" /\ y.pending = q
  <2>1. now + Nap \in Nat /\ "sleep" \in Pcs
    BY <1>1, StepsAssumption DEF Pcs
  <2>2. x \in SessionRecord /\ i \in Nat
    BY <1>1, <1>5
  <2> HIDE DEF x
  <2> QED BY <1>0, <2>1, <2>2, HandedOut
<1>7. x.view[i].kind = "sleep"
  <2>1. PICK k \in recorded_match(x, q) : x.view[k].kind = q.kind
    BY DEF Resume, Replays
  <2>2. k \in 1..x.recorded /\ x.view[k].key = q.key
    BY MatchHasKey
  <2>3. k \in 1..Len(x.view)
    BY <1>1, <2>2 DEF SessionOK, SessionRecord
  <2>4. k = i
    BY <1>1, <1>4, <1>5, <2>2, <2>3 DEF SessionOK, DistinctKeys
  <2> QED BY <1>1, <2>1, <2>4
<1>8. Resumed(y)
  BY <1>4, <1>5, <1>6, <1>7 DEF Resumed
<1>9. sess' = [sess EXCEPT ![d] = y] /\ now' = now /\ steps' = steps /\ job' = job
  BY <1>0, <1>3 DEF Resume, SessionOnly, Handed
<1> QED BY <1>1, <1>6, <1>8, <1>9, AskStep

\* A sleep not seen before is handed to the store.
LEMMA BeginSleepStep ==
    ASSUME StepsInv, NEW d \in Dispatches, NEW q \in Requests, BeginSleep(d, q)
    PROVE  SessionsOK' /\ ViewsAreHistory'
<1> DEFINE x == sess[d]
           y == Handed(x, q, "sleep", Len(x.view) + 1, now + Nap)
           z == [Issued(x, q) EXCEPT !.pc = "dead"]
<1>1. /\ SessionOK(x, now) /\ x \in SessionRecord /\ x.pc = "ask" /\ q \in Asks(x) /\ NewGround(x, q)
      /\ now \in Nat
  BY DEF StepsInv, SessionsOK, BeginSleep, At, RowsOK
<1>2. Issued(x, q) \in SessionRecord /\ Issued(x, q) = [x EXCEPT !.asked = x.asked \cup {q.key}, !.pending = q]
  BY <1>1, IssuedIsARecord
<1>3. ~HasKey(x.view, q.key)
  BY <1>1, NewGroundIsNew
<1>4. (sess' = [sess EXCEPT ![d] = y] \/ sess' = [sess EXCEPT ![d] = z])
      /\ now' = now /\ steps' = steps /\ job' = job
  BY DEF BeginSleep, SessionOnly, StepsInv, SessionsOK, Handed
<1>5. CASE sess' = [sess EXCEPT ![d] = y]
  <2>1. /\ y \in SessionRecord /\ y.view = x.view /\ y.recorded = x.recorded /\ y.seq = Len(x.view) + 1
        /\ y.asked = x.asked \cup {q.key} /\ y.pc = "sleep" /\ y.pending = q
    <3>1. x.view \in Seq(StepRow) /\ Len(x.view) + 1 \in Nat /\ now + Nap \in Nat /\ "sleep" \in Pcs
      BY SMTT(30), <1>1, StepsAssumption DEF SessionRecord, Pcs
    <3>2. PICK n \in Nat, w \in Nat, pc \in Pcs : n = Len(x.view) + 1 /\ w = now + Nap /\ pc = "sleep"
      BY <3>1
    <3>3. y = Handed(x, q, pc, n, w) /\ x \in SessionRecord
      BY <1>1, <3>2
    <3> HIDE DEF x, y
    <3> QED BY <3>2, <3>3, HandedOut
  <2>2. AtTheEnd(y)
    BY <1>3, <2>1 DEF AtTheEnd
  <2> HIDE DEF y
  <2> QED BY <1>1, <1>4, <1>5, <2>1, <2>2, AskStep
<1>6. CASE sess' = [sess EXCEPT ![d] = z]
  <2>1. /\ z \in SessionRecord /\ z.view = x.view /\ z.recorded = x.recorded
        /\ z.asked = x.asked \cup {q.key} /\ z.pc = "dead"
    BY <1>1, <1>2 DEF SessionRecord, Pcs
  <2>2. \A i \in 1..Len(z.view) : z.view[i].key # q.key
    BY <1>3, <2>1 DEF HasKey
  <2> HIDE DEF z
  <2> QED BY <1>1, <1>4, <1>6, <2>1, <2>2, AskStep
<1> QED BY <1>4, <1>5, <1>6

\* The session reads the history that is in the table.
LEMMA LoadStep ==
    ASSUME StepsInv, NEW d \in Dispatches, Load(d)
    PROVE  SessionsOK' /\ ViewsAreHistory'
<1> DEFINE x == sess[d]
           y == [x EXCEPT !.pc = "ask", !.view = steps, !.recorded = Len(steps)]
<1>1. SessionOK(x, now) /\ x \in SessionRecord /\ x.pc = "load" /\ steps \in Seq(StepRow)
  BY DEF StepsInv, SessionsOK, StepsOK, Load, At
<1>2. /\ y \in SessionRecord /\ y.view = steps /\ y.recorded = Len(steps) /\ y.asked = {} /\ y.pc = "ask"
  <2>1. x.asked = {} /\ Len(steps) \in Nat /\ "ask" \in Pcs
    BY <1>1 DEF Pcs, SessionOK
  <2> QED BY <1>1, <2>1 DEF SessionRecord
<1>3. sess' = [sess EXCEPT ![d] = y] /\ now' = now /\ steps' = steps /\ job' = job
  BY DEF Load, StepsInv, SessionsOK
<1>4. SessionOK(y, now)
  BY <1>1, <1>2 DEF SessionOK, OwnSteps, SleepsOver, StepsInv, StepsOK
<1>5. ~Over => IsPrefix(y.view, steps)
  BY <1>1, <1>2, PrefixOfItself
<1>6. ~Over' => ~Over
  BY <1>3 DEF Over
<1> HIDE DEF y
<1> QED BY <1>3, <1>4, <1>5, <1>6, OneSession

\* Steps of a session that leave its view alone: the body ends, the session ends, or
\* a request diverges from the view.
LEMMA QuietStep ==
    ASSUME StepsInv, NEW d \in Dispatches,
           EndBody(d) \/ Finish(d) \/ (\E q \in Requests : Diverge(d, q))
    PROVE  SessionsOK' /\ ViewsAreHistory'
<1>0. now' = now /\ steps' = steps /\ job' = job /\ (~Over' => ~Over)
  BY DEF EndBody, Finish, Diverge, SessionOnly, Over
<1>1. CASE \E pc \in {"complete", "dead"} : sess[d].pc \in {"ask", "body"} /\ Goto(d, pc)
  <2>1. PICK pc \in {"complete", "dead"} : sess[d].pc \in {"ask", "body"} /\ Goto(d, pc)
    BY <1>1
  <2>2. pc \in Pcs \ {"none", "load", "body", "commit", "sleep"}
    BY DEF Pcs
  <2>3. sess' = [sess EXCEPT ![d].pc = pc]
    BY <2>1 DEF Goto
  <2> QED BY <1>0, <2>1, <2>2, <2>3, Relabelled
<1>2. CASE \E v \in {0, d} : sess[d].pc = "body" /\ sess' = [sess EXCEPT ![d].pc = "commit", ![d].value = v]
  <2>1. PICK v \in {0, d} : sess[d].pc = "body" /\ sess' = [sess EXCEPT ![d].pc = "commit", ![d].value = v]
    BY <1>2
  <2> DEFINE x == sess[d]
  <2>2. PICK y : y = [x EXCEPT !.pc = "commit", !.value = v]
    OBVIOUS
  <2>3. SessionOK(x, now) /\ x \in SessionRecord
    BY DEF StepsInv, SessionsOK
  <2>4. v \in 0..MaxDispatches /\ "commit" \in Pcs
    BY StepsAssumption DEF Dispatches, Pcs
  <2>5. /\ y \in SessionRecord /\ y.pc = "commit" /\ y.view = x.view /\ y.recorded = x.recorded
        /\ y.asked = x.asked /\ y.pending = x.pending /\ y.seq = x.seq
    BY <2>2, <2>3, <2>4 DEF SessionRecord
  <2>6. SessionOK(y, now)
    BY <2>1, <2>3, <2>5 DEF SessionOK, OwnSteps, SleepsOver, AtTheEnd
  <2>7. sess' = [sess EXCEPT ![d] = y]
    BY <2>1, <2>2 DEF StepsInv, SessionsOK
  <2>8. ~Over => IsPrefix(y.view, steps)
    BY <2>5 DEF StepsInv, ViewsAreHistory
  <2> QED BY <1>0, <2>6, <2>7, <2>8, OneSession
<1> QED BY <1>1, <1>2 DEF EndBody, Finish, Diverge, At

-----------------------------------------------------------------------------
(* The fenced writes.                                                      *)

\* A session that passes the fence works on a live job, in its own attempt.
LEMMA FencedIsAlive ==
    ASSUME NEW d, Fenced(d)
    PROVE  ~Over /\ job.status = "Running" /\ job.retry = sess[d].attempt
BY DEF Fenced, resolve_attempt_fence, Over

(* A row with a new key at the end of the history.                         *)
LEMMA HistoryGrows ==
    ASSUME StepsOK, NEW r \in StepRow, \A i \in DOMAIN steps : steps[i].key # r.key,
           Len(steps) < MaxSteps, steps' = Append(steps, r)
    PROVE  /\ StepsOK' /\ IsPrefix(steps, steps')
           /\ Len(steps') = Len(steps) + 1 /\ steps'[Len(steps) + 1] = r
<1>1. steps \in Seq(StepRow) /\ Len(steps) \in Nat /\ DOMAIN steps = 1..Len(steps)
  BY DEF StepsOK
<1>2. /\ steps' \in Seq(StepRow) /\ Len(steps') = Len(steps) + 1
      /\ \A i \in 1..Len(steps) : steps'[i] = steps[i]
      /\ steps'[Len(steps) + 1] = r
  BY <1>1
<1>3. DistinctKeys(steps')
  BY <1>1, <1>2 DEF StepsOK, DistinctKeys
<1>4. IsPrefix(steps, steps')
  BY <1>1, PrefixOfItself, PrefixGrows
<1> QED BY <1>1, <1>2, <1>3, <1>4, StepsAssumption DEF StepsOK

(* The writer's session changes and the history grows by one row.          *)
LEMMA WriterStep ==
    ASSUME StepsInv, NEW d \in Dispatches, NEW x, SessionOK(x, now), NEW r \in StepRow,
           ~Over, steps' = Append(steps, r), IsPrefix(x.view, steps'),
           sess' = [sess EXCEPT ![d] = x], now' = now
    PROVE  SessionsOK' /\ ViewsAreHistory'
<1>1. \A e \in Dispatches : sess'[e] = IF e = d THEN x ELSE sess[e]
  BY DEF StepsInv, SessionsOK
<1>2. sess' \in [Dispatches -> SessionRecord]
  BY DEF StepsInv, SessionsOK, SessionOK
<1>3. \A e \in Dispatches : SessionOK(sess'[e], now')
  <2> SUFFICES ASSUME NEW e \in Dispatches PROVE SessionOK(sess'[e], now)
    OBVIOUS
  <2> QED BY <1>1 DEF StepsInv, SessionsOK
<1>4. ASSUME NEW e \in Dispatches PROVE IsPrefix(sess'[e].view, steps')
  <2>1. CASE e = d
    BY <1>1, <2>1
  <2>2. CASE e # d
    <3>1. IsPrefix(sess[e].view, steps) /\ sess[e] \in SessionRecord /\ steps \in Seq(StepRow)
      BY DEF StepsInv, ViewsAreHistory, SessionsOK, StepsOK
    <3>2. sess[e].view \in Seq(StepRow)
      BY <3>1 DEF SessionRecord
    <3>3. IsPrefix(sess[e].view, Append(steps, r))
      BY <3>1, <3>2, PrefixGrows
    <3> QED BY <1>1, <2>2, <3>3
  <2> QED BY <2>1, <2>2
<1> QED BY <1>2, <1>3, <1>4 DEF SessionsOK, ViewsAreHistory

(* A commit adds its row to the writer's own view.                         *)
LEMMA CommitKeepsSession ==
    ASSUME NEW x, SessionOK(x, now), x.pc = "commit",
           NEW y, y = [x EXCEPT !.pc = "ask", !.pending = NoRequest, !.view = Append(x.view, Written(x))]
    PROVE  SessionOK(y, now) /\ y.view = Append(x.view, Written(x)) /\ Written(x) \in StepRow
<1>1. /\ x \in SessionRecord /\ AtTheEnd(x) /\ x.recorded <= Len(x.view) /\ DistinctKeys(x.view)
      /\ OwnSteps(x) /\ SleepsOver(x, now)
  BY DEF SessionOK
<1>2. PICK w : w = Written(x)
  OBVIOUS
<1>3. w \in StepRow /\ w.key = x.pending.key /\ w.kind = "run"
  BY <1>1, <1>2 DEF AtTheEnd, Written, StepRow, Keys, SessionRecord
<1>4. x.view \in Seq(StepRow) /\ Len(x.view) \in Nat /\ x.recorded \in Nat
  BY <1>1 DEF SessionRecord
<1>5. PICK v : v = Append(x.view, w)
  OBVIOUS
<1>6. /\ v \in Seq(StepRow) /\ Len(v) = Len(x.view) + 1
      /\ (\A i \in 1..Len(x.view) : v[i] = x.view[i]) /\ v[Len(x.view) + 1] = w
  BY <1>3, <1>4, <1>5
<1>7. /\ y \in SessionRecord /\ y.pc = "ask" /\ y.view = v /\ y.recorded = x.recorded /\ y.asked = x.asked
  BY <1>1, <1>2, <1>5, <1>6 DEF SessionRecord, Pcs
<1>a. \A i \in 1..Len(v) : i \in 1..Len(x.view) \/ i = Len(x.view) + 1
  BY <1>4, <1>6
<1>b. \A i \in 1..Len(x.view) : x.view[i].key # w.key
  BY <1>1, <1>3 DEF AtTheEnd, HasKey
<1>8. DistinctKeys(v)
  <2> SUFFICES ASSUME NEW i \in 1..Len(v), NEW k \in 1..Len(v), v[i].key = v[k].key PROVE i = k
    BY DEF DistinctKeys
  <2>1. CASE i \in 1..Len(x.view) /\ k \in 1..Len(x.view)
    BY <1>1, <1>6, <2>1 DEF DistinctKeys
  <2>2. CASE i \in 1..Len(x.view) /\ k = Len(x.view) + 1
    BY <1>b, <1>6, <2>2
  <2>3. CASE i = Len(x.view) + 1 /\ k \in 1..Len(x.view)
    BY <1>b, <1>6, <2>3
  <2> QED BY <1>a, <2>1, <2>2, <2>3
<1>9. OwnSteps(y)
  <2> SUFFICES ASSUME NEW i \in (x.recorded + 1)..Len(v)
       PROVE v[i].kind = "run" /\ v[i].key \in x.asked
    BY <1>7 DEF OwnSteps
  <2>1. i \in 1..Len(v)
    BY <1>4, <1>6
  <2>2. CASE i \in 1..Len(x.view)
    <3>1. i \in (x.recorded + 1)..Len(x.view) /\ v[i] = x.view[i]
      BY <1>4, <1>6, <2>2
    <3> QED BY <1>1, <3>1 DEF OwnSteps
  <2>3. CASE i = Len(x.view) + 1
    BY <1>1, <1>3, <1>6, <2>3 DEF AtTheEnd
  <2> QED BY <1>a, <2>1, <2>2, <2>3
<1>10. SleepsOver(y, now)
  BY <1>1, <1>3, <1>4, <1>6, <1>7 DEF SleepsOver
<1>11. y.recorded <= Len(v)
  BY <1>1, <1>4, <1>6, <1>7
<1>12. SessionOK(y, now)
  BY <1>7, <1>8, <1>9, <1>10, <1>11 DEF SessionOK
<1> QED BY <1>2, <1>3, <1>5, <1>7, <1>12

\* record_step_result, with its answer from the table when the row is there already.
LEMMA RecordStep ==
    ASSUME StepsInv, NEW d \in Dispatches, record_step_result(d)
    PROVE  StepsOK' /\ SessionsOK' /\ ViewsAreHistory' /\ IsPrefix(steps, steps')
<1> DEFINE x == sess[d]
<1>1. /\ SessionOK(x, now) /\ x \in SessionRecord /\ x.pc = "commit" /\ now' = now
      /\ StepsOK /\ steps \in Seq(StepRow) /\ sess \in [Dispatches -> SessionRecord]
  BY DEF StepsInv, SessionsOK, StepsOK, record_step_result, At
<1>2. AtTheEnd(x) /\ x.view \in Seq(StepRow) /\ Len(x.view) \in Nat /\ Len(steps) \in Nat
  BY <1>1 DEF SessionOK, SessionRecord
<1>3. CASE Superseded(d) \/ Refused(d)
  <2>1. PICK pc \in {"over", "dead"} : sess' = [sess EXCEPT ![d].pc = pc]
    BY <1>3 DEF Superseded, Refused, Goto
  <2>2. steps' = steps /\ (~Over' => ~Over)
    BY <1>3 DEF Superseded, Refused, Over
  <2>3. pc \in Pcs \ {"none", "load", "body", "commit", "sleep"}
    BY DEF Pcs
  <2>4. SessionsOK' /\ ViewsAreHistory'
    BY <1>1, <2>1, <2>2, <2>3, Relabelled
  <2> QED BY <1>1, <2>2, <2>4, PrefixOfItself DEF StepsOK
<1>4. CASE Fenced(d) /\ Committed(d) /\ job' = job /\
           ((SameCommit(d) /\ steps' = steps) \/ (NewCommit(d) /\ steps' = Append(steps, Written(x))))
  <2>1. PICK y : y = [x EXCEPT !.pc = "ask", !.pending = NoRequest, !.view = Append(x.view, Written(x))]
    OBVIOUS
  <2>2. SessionOK(y, now) /\ y.view = Append(x.view, Written(x)) /\ Written(x) \in StepRow
    <3> HIDE DEF x
    <3> QED BY <1>1, <2>1, CommitKeepsSession
  <2>3. sess' = [sess EXCEPT ![d] = y]
    BY <1>1, <1>4, <2>1 DEF Committed
  <2>4. ~Over /\ IsPrefix(x.view, steps) /\ (~Over' => ~Over)
    BY <1>4, FencedIsAlive DEF StepsInv, ViewsAreHistory
  <2>5. CASE SameCommit(d) /\ steps' = steps
    <3>1. x.seq \in DOMAIN steps /\ steps[x.seq] = Written(x)
      BY <2>5 DEF SameCommit
    <3>2. Len(x.view) + 1 <= Len(steps) /\ steps[Len(x.view) + 1] = Written(x)
      BY <1>1, <1>2, <3>1 DEF AtTheEnd
    <3>3. IsPrefix(Append(x.view, Written(x)), steps)
      <4> HIDE DEF x
      <4> QED BY <1>1, <1>2, <2>2, <2>4, <3>2, PrefixCatchesUp
    <3>4. SessionsOK' /\ ViewsAreHistory'
      BY <1>1, <2>2, <2>3, <2>4, <2>5, <3>3, OneSession
    <3> QED BY <1>1, <2>5, <3>4, PrefixOfItself DEF StepsOK
  <2>6. CASE NewCommit(d) /\ steps' = Append(steps, Written(x))
    <3>1. /\ \A i \in DOMAIN steps : steps[i].key # x.pending.key
          /\ x.seq = Len(steps) + 1 /\ Len(steps) < MaxSteps
      BY <2>6 DEF NewCommit, check_step_position
    <3>2. PICK r \in StepRow : r = Written(x)
      BY <2>2
    <3>3. r.key = x.pending.key
      BY <3>2 DEF Written
    <3>4. /\ StepsOK' /\ IsPrefix(steps, steps')
          /\ Len(steps') = Len(steps) + 1 /\ steps'[Len(steps) + 1] = r
      BY <1>1, <2>6, <3>1, <3>2, <3>3, HistoryGrows
    <3>5. Len(x.view) + 1 <= Len(steps') /\ steps'[Len(x.view) + 1] = r /\ steps' \in Seq(StepRow)
      BY <1>2, <3>1, <3>4 DEF AtTheEnd, StepsOK
    <3>6. IsPrefix(x.view, steps')
      BY <1>1, <1>2, <2>4, <2>6, <3>2, PrefixGrows
    <3>7. IsPrefix(Append(x.view, r), steps')
      <4> HIDE DEF x
      <4> QED BY <1>2, <3>5, <3>6, PrefixCatchesUp
    <3>8. SessionsOK' /\ ViewsAreHistory'
      BY <1>1, <2>2, <2>3, <2>4, <2>6, <3>2, <3>7, WriterStep
    <3> QED BY <3>4, <3>8
  <2> QED BY <1>4, <2>5, <2>6
<1> QED BY <1>3, <1>4 DEF record_step_result

(* The frame delivered again: the row is there, or becomes so.             *)
LEMMA RetransmitStep ==
    ASSUME StepsInv, NEW d \in Dispatches, Retransmit(d)
    PROVE  StepsOK' /\ SessionsOK' /\ ViewsAreHistory' /\ IsPrefix(steps, steps')
<1> DEFINE x == sess[d]
<1>1. /\ SessionOK(x, now) /\ x \in SessionRecord /\ x.pc = "commit" /\ now' = now /\ job' = job
      /\ StepsOK /\ steps \in Seq(StepRow) /\ sess \in [Dispatches -> SessionRecord] /\ sess' = sess
  BY DEF StepsInv, SessionsOK, StepsOK, Retransmit, At
<1>2. ~Over /\ IsPrefix(x.view, steps) /\ (~Over' => ~Over)
  BY FencedIsAlive DEF Retransmit, StepsInv, ViewsAreHistory
<1>3. sess' = [sess EXCEPT ![d] = x]
  BY <1>1
<1>4. CASE steps' = steps
  <2>1. SessionsOK' /\ ViewsAreHistory'
    <3> HIDE DEF x
    <3> QED BY <1>1, <1>2, <1>3, <1>4, OneSession
  <2> QED BY <1>1, <1>4, <2>1, PrefixOfItself DEF StepsOK
<1>5. CASE NewCommit(d) /\ steps' = Append(steps, Written(x))
  <2>1. Written(x) \in StepRow
    <3> HIDE DEF x
    <3> QED BY <1>1, CommitKeepsSession
  <2>2. PICK r \in StepRow : r = Written(x)
    BY <2>1
  <2>3. /\ \A i \in DOMAIN steps : steps[i].key # r.key
        /\ Len(steps) < MaxSteps /\ steps' = Append(steps, r)
    BY <1>5, <2>2 DEF NewCommit, check_step_position, Written
  <2>4. StepsOK' /\ IsPrefix(steps, steps')
    BY <1>1, <2>3, HistoryGrows
  <2>5. IsPrefix(x.view, steps')
    <3>1. x.view \in Seq(StepRow)
      BY <1>1 DEF SessionRecord
    <3> QED BY <1>1, <1>2, <2>3, <3>1, PrefixGrows
  <2>6. SessionsOK' /\ ViewsAreHistory'
    <3> HIDE DEF x
    <3> QED BY <1>1, <1>2, <1>3, <2>3, <2>5, WriterStep
  <2> QED BY <2>4, <2>6
<1> QED BY <1>4, <1>5 DEF Retransmit

\* sleep_job, which also puts the job back to Pending.
LEMMA SleepStep ==
    ASSUME StepsInv, NEW d \in Dispatches, sleep_job(d)
    PROVE  /\ StepsOK' /\ SessionsOK' /\ ViewsAreHistory' /\ IsPrefix(steps, steps')
           /\ job' = job \/ \E w \in Nat : job' = [job EXCEPT !.status = "Pending", !.wake = w]
<1> DEFINE x == sess[d]
<1>1. /\ SessionOK(x, now) /\ x \in SessionRecord /\ x.pc = "sleep" /\ now' = now
      /\ StepsOK /\ steps \in Seq(StepRow) /\ sess \in [Dispatches -> SessionRecord]
  BY DEF StepsInv, SessionsOK, StepsOK, sleep_job, At
<1>2. /\ AtTheEnd(x) \/ Resumed(x)
      /\ x.view \in Seq(StepRow) /\ Len(x.view) \in Nat /\ Len(steps) \in Nat
      /\ DOMAIN steps = 1..Len(steps)
  BY <1>1 DEF SessionOK, SessionRecord
<1>3. "over" \in Pcs \ {"none", "load", "body", "commit", "sleep"}
      /\ "dead" \in Pcs \ {"none", "load", "body", "commit", "sleep"}
  BY DEF Pcs
<1>4. CASE Superseded(d)
  <2>1. steps' = steps /\ job' = job /\ (~Over' => ~Over) /\ sess' = [sess EXCEPT ![d].pc = "over"]
    BY <1>4 DEF Superseded, Over, Goto
  <2>2. SessionsOK' /\ ViewsAreHistory'
    BY <1>1, <1>3, <2>1, Relabelled
  <2> QED BY <1>1, <2>1, <2>2, PrefixOfItself DEF StepsOK
<1>5. CASE ~SameSleep(d) /\ ~NewCommit(d) /\ Refused(d)
  <2>1. steps' = steps /\ job' = job /\ (~Over' => ~Over) /\ sess' = [sess EXCEPT ![d].pc = "dead"]
    BY <1>5 DEF Refused, Over, Goto
  <2>2. ~Over /\ IsPrefix(x.view, steps)
    BY <1>5, FencedIsAlive DEF Refused, StepsInv, ViewsAreHistory
  <2>3. Len(x.view) <= Len(steps) /\ \A i \in 1..Len(x.view) : x.view[i] = steps[i]
    BY <1>1, <1>2, <2>2, PrefixPointwise
  <2>4. ~Resumed(x)
    BY <1>2, <1>5, <2>3 DEF Resumed, SameSleep
  <2>5. SessionsOK' /\ ViewsAreHistory'
    BY <1>1, <1>2, <1>3, <2>1, <2>4, Relabelled
  <2> QED BY <1>1, <2>1, <2>5, PrefixOfItself DEF StepsOK
<1>6. CASE /\ Fenced(d) /\ (SameSleep(d) \/ NewCommit(d))
           /\ steps' = StepsAfterSleep(d)
           /\ job' = [job EXCEPT !.status = "Pending", !.wake = steps'[sess[d].seq].wake]
           /\ Goto(d, "over")
  <2>1. ~Over /\ IsPrefix(x.view, steps)
    BY <1>6, FencedIsAlive DEF StepsInv, ViewsAreHistory
  <2>2. sess' = [sess EXCEPT ![d].pc = "over"]
    BY <1>6 DEF Goto
  <2>3. CASE SameSleep(d)
    <3>1. steps' = steps
      BY <1>6, <2>3 DEF StepsAfterSleep
    <3>2. SessionsOK' /\ ViewsAreHistory'
      BY <1>1, <1>3, <2>1, <2>2, <3>1, Relabelled
    <3>3. steps'[x.seq].wake \in Nat
      <4>1. x.seq \in DOMAIN steps
        BY <2>3 DEF SameSleep
      <4>2. steps[x.seq] \in StepRow
        BY <1>1, <1>2, <4>1
      <4> QED BY <3>1, <4>2 DEF StepRow
    <3> QED BY <1>1, <1>6, <3>1, <3>2, <3>3, PrefixOfItself DEF StepsOK
  <2>4. CASE ~SameSleep(d)
    <3>1. PICK r : r = Slept(x)
      OBVIOUS
    <3>2. x.pending \in Requests
      BY <1>2 DEF AtTheEnd, Resumed
    <3>3. r \in StepRow /\ r.key = x.pending.key
      BY <1>1, <3>1, <3>2, StepsAssumption DEF Slept, StepRow, Keys, SessionRecord
    <3>4. /\ \A i \in DOMAIN steps : steps[i].key # r.key
          /\ Len(steps) < MaxSteps /\ x.seq = Len(steps) + 1 /\ steps' = Append(steps, r)
      BY <1>6, <2>4, <3>1, <3>3 DEF NewCommit, check_step_position, StepsAfterSleep
    <3>5. /\ StepsOK' /\ IsPrefix(steps, steps') /\ steps'[x.seq] = r
      BY <1>1, <3>3, <3>4, HistoryGrows
    <3>6. IsPrefix(x.view, steps')
      BY <1>1, <1>2, <2>1, <3>3, <3>4, PrefixGrows
    <3>7. PICK y : y = [x EXCEPT !.pc = "over"]
      OBVIOUS
    <3>8. /\ y \in SessionRecord /\ y.pc = "over" /\ y.view = x.view /\ y.recorded = x.recorded
          /\ y.asked = x.asked
      BY <1>1, <1>3, <3>7 DEF SessionRecord
    <3>9. SessionOK(y, now)
      BY <1>1, <3>8 DEF SessionOK, OwnSteps
    <3>10. sess' = [sess EXCEPT ![d] = y]
      BY <1>1, <2>2, <3>7
    <3>11. SessionsOK' /\ ViewsAreHistory'
      BY <1>1, <2>1, <3>3, <3>4, <3>6, <3>8, <3>9, <3>10, WriterStep
    <3>12. r.wake \in Nat
      BY <3>3 DEF StepRow
    <3> QED BY <1>6, <3>5, <3>11, <3>12
  <2> QED BY <2>3, <2>4
<1> QED BY <1>4, <1>5, <1>6 DEF sleep_job

(* The result of the attempt; the history goes with the archived row.      *)
LEMMA SettleStep ==
    ASSUME StepsInv, NEW d \in Dispatches, Settle(d)
    PROVE  StepsOK' /\ SessionsOK' /\ ViewsAreHistory' /\ (IsPrefix(steps, steps') \/ Over')
<1>1. /\ sess[d].pc \in {"complete", "dead"} /\ sess' = [sess EXCEPT ![d].pc = "over"] /\ now' = now
      /\ steps \in Seq(StepRow) /\ StepsOK
  BY DEF Settle, At, Goto, StepsInv, StepsOK
<1>2. "over" \in Pcs \ {"none", "load", "body", "commit", "sleep"}
  BY DEF Pcs
<1>3. CASE job' = job /\ steps' = steps
  <2>1. ~Over' => ~Over
    BY <1>3 DEF Over
  <2>2. SessionsOK' /\ ViewsAreHistory'
    BY <1>1, <1>2, <1>3, <2>1, Relabelled
  <2> QED BY <1>1, <1>3, <2>2, PrefixOfItself DEF StepsOK
<1>4. CASE \E st \in {"Complete", "Dead"} : Archived(st)
  <2>1. Over' /\ steps' = <<>>
    BY <1>4 DEF Archived, Over, StepsInv, RowsOK
  <2>2. StepsOK'
    BY <2>1, StepsAssumption DEF StepsOK, DistinctKeys
  <2>3. ViewsAreHistory'
    BY <2>1 DEF ViewsAreHistory
  <2> DEFINE x == sess[d]
  <2>4. PICK y : y = [x EXCEPT !.pc = "over"]
    OBVIOUS
  <2>5. x \in SessionRecord /\ SessionOK(x, now) /\ sess \in [Dispatches -> SessionRecord]
    BY DEF StepsInv, SessionsOK
  <2>6. /\ y \in SessionRecord /\ y.pc = "over" /\ y.view = x.view /\ y.recorded = x.recorded
        /\ y.asked = x.asked
    BY <1>2, <2>4, <2>5 DEF SessionRecord
  <2>7. SessionOK(y, now)
    BY <2>5, <2>6 DEF SessionOK, OwnSteps
  <2>8. sess' = [sess EXCEPT ![d] = y]
    BY <1>1, <2>4, <2>5
  <2>9. SessionsOK'
    <3>1. \A e \in Dispatches : sess'[e] = IF e = d THEN y ELSE sess[e]
      BY <2>5, <2>8
    <3>2. sess' \in [Dispatches -> SessionRecord]
      BY <2>5, <2>6, <2>8
    <3>3. ASSUME NEW e \in Dispatches PROVE SessionOK(sess'[e], now')
      BY <1>1, <2>7, <3>1 DEF StepsInv, SessionsOK
    <3> QED BY <3>2, <3>3 DEF SessionsOK
  <2> QED BY <2>1, <2>2, <2>3, <2>9
<1> QED BY <1>3, <1>4 DEF Settle

\* A worker claims the job and opens a session on it.
LEMMA ClaimStep ==
    ASSUME StepsInv, NEW o \in Owners, Claim(o)
    PROVE  RowsOK' /\ SessionsOK' /\ ViewsAreHistory'
<1>1. /\ now' = now /\ steps' = steps /\ job' = job /\ events' = events
      /\ steps \in Seq(StepRow) /\ RowsOK /\ taking' = [taking EXCEPT ![o] = NotTaking]
  BY DEF Claim, StepsInv, StepsOK
<1>2. taking' \in [Owners -> [busy : BOOLEAN, attempt : 0..MaxRetries]]
  BY <1>1, StepsAssumption DEF RowsOK, NotTaking
<1>3. ~Over' => ~Over
  BY <1>1 DEF Over
<1>4. CASE UNCHANGED <<claim, issued, sess>>
  BY <1>1, <1>2, <1>4 DEF RowsOK, StepsInv, SessionsOK, ViewsAreHistory, Over
<1>5. CASE /\ issued < MaxDispatches
           /\ issued' = issued + 1
           /\ claim' = [owner |-> o, epoch |-> issued']
           /\ \E c \in Codes :
                 sess' = [sess EXCEPT ![issued'] =
                    [NoSession EXCEPT !.pc = "load", !.owner = o, !.attempt = taking[o].attempt, !.code = c]]
  <2>1. issued' \in 0..MaxDispatches /\ issued' \in Dispatches
    BY <1>1, <1>5, StepsAssumption DEF RowsOK, Dispatches
  <2>2. RowsOK'
    BY <1>1, <1>2, <1>5, <2>1 DEF RowsOK
  <2>3. PICK c \in Codes : sess' = [sess EXCEPT ![issued'] =
                    [NoSession EXCEPT !.pc = "load", !.owner = o, !.attempt = taking[o].attempt, !.code = c]]
    BY <1>5
  <2>4. PICK y : y = [NoSession EXCEPT !.pc = "load", !.owner = o, !.attempt = taking[o].attempt, !.code = c]
    OBVIOUS
  <2>5. taking[o].attempt \in Nat
    BY <1>1, StepsAssumption DEF RowsOK
  <2>6. /\ y.view = <<>> /\ y.recorded = 0 /\ y.asked = {} /\ y.pc = "load"
        /\ y \in SessionRecord
    <3>1. y = [pc |-> "load", owner |-> o, attempt |-> taking[o].attempt, code |-> c, view |-> <<>>,
               recorded |-> 0, asked |-> {}, pending |-> NoRequest, seq |-> 0, value |-> 0, wake |-> 0]
      BY <2>4 DEF NoSession
    <3>2. "load" \in Pcs /\ 0 \in 0..MaxDispatches /\ <<>> \in Seq(StepRow)
      BY StepsAssumption DEF Pcs
    <3> QED BY <2>5, <3>1, <3>2 DEF SessionRecord
  <2>7. SessionOK(y, now)
    BY <2>6 DEF SessionOK, OwnSteps, SleepsOver, DistinctKeys
  <2>8. IsPrefix(y.view, steps)
    BY <1>1, <2>6, PrefixOfItself
  <2>9. PICK n \in Dispatches : n = issued'
    BY <2>1
  <2>10. sess' = [sess EXCEPT ![n] = y]
    BY <2>3, <2>4, <2>9
  <2>11. SessionsOK' /\ ViewsAreHistory'
    BY <1>1, <1>3, <2>7, <2>8, <2>10, OneSession
  <2> QED BY <2>2, <2>11
<1> QED BY <1>4, <1>5 DEF Claim

(* The rows other than the steps keep their types.                         *)
LEMMA RowsStep ==
    ASSUME StepsInv, Next
    PROVE  RowsOK'
<1>1. /\ RowsOK /\ sess \in [Dispatches -> SessionRecord]
  BY DEF StepsInv, SessionsOK
<1>2. NoClaim \in [owner : Owners \cup {NoOne}, epoch : 0..MaxDispatches] /\ MaxRetries \in Nat /\ MaxEvents \in Nat
  BY StepsAssumption DEF NoClaim
<1>3. ASSUME NEW d \in Dispatches
      PROVE  Reasserted(d) \in [owner : Owners \cup {NoOne}, epoch : 0..MaxDispatches]
  <2>1. sess[d].owner \in Owners \cup {NoOne} /\ Epoch(d) \in 0..MaxDispatches
    BY <1>1, StepsAssumption DEF SessionRecord, Epoch, Dispatches
  <2> QED BY <1>1, <2>1 DEF Reasserted, RowsOK
<1>4. CASE Tick
  BY <1>1, <1>4 DEF Tick, RowsOK
<1>5. ASSUME NEW o \in Owners, Dequeue(o) PROVE RowsOK'
  BY <1>1, <1>5 DEF Dequeue, RowsOK
<1>6. ASSUME NEW o \in Owners, Claim(o) PROVE RowsOK'
  BY <1>6, ClaimStep
<1>7. CASE Retry
  <2>1. events' \in 0..MaxEvents
    BY <1>1, <1>2, <1>7 DEF Retry, Event, RowsOK
  <2>2. job' \in [status : {"Pending", "Running", "Complete", "Dead"}, retry : 0..MaxRetries, wake : Nat]
    <3>1. CASE job.retry < MaxRetries /\ job' = [job EXCEPT !.status = "Pending", !.retry = job.retry + 1, !.wake = now]
      <4>1. job.retry + 1 \in 0..MaxRetries /\ now \in Nat
        BY <1>1, <1>2, <3>1 DEF RowsOK
      <4> QED BY <1>1, <3>1, <4>1 DEF RowsOK
    <3>2. CASE job' = [job EXCEPT !.status = "Dead"]
      BY <1>1, <3>2 DEF RowsOK
    <3> QED BY <1>7, <3>1, <3>2 DEF Retry, Archived
  <2>3. claim' = NoClaim
    BY <1>7 DEF Retry, Archived
  <2> QED BY <1>1, <1>2, <1>7, <2>1, <2>2, <2>3 DEF Retry, RowsOK
<1>8. CASE requeue_stuck
  <2>1. events' \in 0..MaxEvents /\ claim' = NoClaim
    BY <1>1, <1>2, <1>8 DEF requeue_stuck, Event, RowsOK
  <2>2. job' \in [status : {"Pending", "Running", "Complete", "Dead"}, retry : 0..MaxRetries, wake : Nat]
    BY <1>1, <1>8 DEF requeue_stuck, RowsOK
  <2> QED BY <1>1, <1>2, <1>8, <2>1, <2>2 DEF requeue_stuck, RowsOK
<1>9. CASE purge_execution_claims
  BY <1>1, <1>2, <1>9 DEF purge_execution_claims, Event, RowsOK
<1>10. ASSUME NEW d \in Dispatches, Retransmit(d) PROVE RowsOK'
  BY <1>1, <1>2, <1>3, <1>10 DEF Retransmit, Event, RowsOK
<1>11. ASSUME NEW d \in Dispatches, Crash(d) PROVE RowsOK'
  BY <1>1, <1>2, <1>11 DEF Crash, Event, RowsOK
<1>12. ASSUME NEW d \in Dispatches, UNCHANGED <<now, job, claim, taking, issued, events>>
     PROVE RowsOK'
  BY <1>1, <1>12 DEF RowsOK
<1>13. ASSUME NEW d \in Dispatches, record_step_result(d) PROVE RowsOK'
  <2>1. claim' = claim \/ claim' = Reasserted(d)
    BY <1>13 DEF record_step_result, Superseded, Refused, Committed
  <2>2. job' = job
    BY <1>13 DEF record_step_result, Superseded, Refused
  <2> QED BY <1>1, <1>3, <1>13, <2>1, <2>2 DEF record_step_result, RowsOK
<1>14. ASSUME NEW d \in Dispatches, sleep_job(d) PROVE RowsOK'
  <2>1. claim' = claim \/ claim' = NoClaim
    BY <1>14 DEF sleep_job, Superseded, Refused
  <2>2. job' = job \/ \E w \in Nat : job' = [job EXCEPT !.status = "Pending", !.wake = w]
    BY <1>14, SleepStep
  <2>3. job' \in [status : {"Pending", "Running", "Complete", "Dead"}, retry : 0..MaxRetries, wake : Nat]
    BY <1>1, <2>2 DEF RowsOK
  <2> QED BY <1>1, <1>2, <1>14, <2>1, <2>3 DEF sleep_job, RowsOK
<1>15. ASSUME NEW d \in Dispatches, Settle(d) PROVE RowsOK'
  BY <1>1, <1>2, <1>15 DEF Settle, Archived, RowsOK
<1>16. ASSUME NEW d \in Dispatches, SessionStep(d) PROVE RowsOK'
  <2>1. CASE Load(d) \/ EndBody(d) \/ Finish(d)
    BY <1>12, <2>1 DEF Load, EndBody, Finish, SessionOnly
  <2>2. ASSUME NEW q \in Requests, \/ Memoized(d, q) \/ BeginRun(d, q) \/ Elapsed(d, q)
                                   \/ Resume(d, q) \/ BeginSleep(d, q) \/ Diverge(d, q)
        PROVE  RowsOK'
    BY <1>12, <2>2 DEF Memoized, BeginRun, Elapsed, Resume, BeginSleep, Diverge, SessionOnly
  <2> QED BY <1>13, <1>14, <1>15, <1>16, <2>1, <2>2 DEF SessionStep
<1> QED BY <1>4, <1>5, <1>6, <1>7, <1>8, <1>9, <1>10, <1>11, <1>16 DEF Next, Poll

(* Nobody's session changes and the history stays or is dropped.           *)
LEMMA SessionsRest ==
    ASSUME StepsInv, sess' = sess, now' = now, ~Over' => ~Over /\ steps' = steps
    PROVE  SessionsOK' /\ ViewsAreHistory'
BY DEF StepsInv, SessionsOK, ViewsAreHistory

\* Nothing a session holds comes undone when the clock moves on.
LEMMA TimePasses ==
    ASSUME NEW x, NEW t \in Nat, SessionOK(x, t)
    PROVE  SessionOK(x, t + 1)
<1>1. \A i \in 1..Len(x.view) : x.view[i].wake \in Nat
  <2>1. x.view \in Seq(StepRow)
    BY DEF SessionOK, SessionRecord
  <2>2. ASSUME NEW i \in 1..Len(x.view) PROVE x.view[i] \in StepRow
    BY <2>1
  <2> QED BY <2>2 DEF StepRow
<1>2. SleepsOver(x, t) => SleepsOver(x, t + 1)
  BY <1>1 DEF SleepsOver
<1> QED BY <1>2 DEF SessionOK

\* Every step keeps the invariant, and extends the history unless the job is over.
LEMMA StepsInvStep ==
    ASSUME StepsInv, [Next]_vars
    PROVE  StepsInv' /\ (IsPrefix(steps, steps') \/ Over')
<1>0. StepsOK /\ steps \in Seq(StepRow) /\ RowsOK /\ IsPrefix(steps, steps)
  BY PrefixOfItself DEF StepsInv, StepsOK
<1> DEFINE Goal == StepsOK' /\ SessionsOK' /\ ViewsAreHistory' /\ (IsPrefix(steps, steps') \/ Over')
<1>1. ASSUME steps' = steps, SessionsOK' /\ ViewsAreHistory' PROVE Goal
  BY <1>0, <1>1 DEF StepsOK
<1>2. CASE UNCHANGED vars
  <2>1. SessionsOK' /\ ViewsAreHistory' /\ steps' = steps
    BY <1>2, SessionsRest DEF vars, Over
  <2>2. RowsOK'
    BY <1>0, <1>2 DEF vars, RowsOK
  <2> QED BY <1>1, <2>1, <2>2 DEF StepsInv
<1>3. ASSUME Tick PROVE Goal
  <2>1. sess' = sess /\ steps' = steps /\ job' = job /\ now' = now + 1 /\ now \in Nat
    BY <1>0, <1>3 DEF Tick, RowsOK
  <2>2. \A d \in Dispatches : SessionOK(sess[d], now + 1)
    BY <2>1, TimePasses DEF StepsInv, SessionsOK
  <2>3. SessionsOK' /\ ViewsAreHistory'
    BY <2>1, <2>2 DEF StepsInv, SessionsOK, ViewsAreHistory, Over
  <2> QED BY <1>1, <2>1, <2>3
<1>4. ASSUME requeue_stuck \/ purge_execution_claims \/ \E o \in Owners : Dequeue(o) PROVE Goal
  <2>1. sess' = sess /\ steps' = steps /\ now' = now /\ (~Over' => ~Over)
    BY <1>4 DEF requeue_stuck, purge_execution_claims, Dequeue, Over
  <2> QED BY <1>1, <2>1, SessionsRest
<1>5. ASSUME NEW o \in Owners, Claim(o) PROVE Goal
  BY <1>1, <1>5, ClaimStep DEF Claim
<1>6. ASSUME Retry PROVE Goal
  <2>1. sess' = sess /\ now' = now
    BY <1>6 DEF Retry
  <2>2. CASE steps' = steps /\ ~Over
    BY <1>1, <2>1, <2>2, SessionsRest
  <2>3. CASE Archived("Dead")
    <3>1. Over' /\ steps' = <<>>
      BY <1>0, <2>3 DEF Archived, Over, RowsOK
    <3>2. StepsOK'
      BY <3>1, StepsAssumption DEF StepsOK, DistinctKeys
    <3>3. SessionsOK' /\ ViewsAreHistory'
      BY <2>1, <3>1, SessionsRest
    <3> QED BY <3>1, <3>2, <3>3
  <2> QED BY <1>6, <2>2, <2>3 DEF Retry, Over
<1>7. ASSUME NEW d \in Dispatches, Retransmit(d) PROVE Goal
  BY <1>7, RetransmitStep
<1>8. ASSUME NEW d \in Dispatches, Crash(d) PROVE Goal
  <2>1. /\ sess[d].pc # "over" /\ sess' = [sess EXCEPT ![d].pc = "over"] /\ now' = now /\ steps' = steps
        /\ (~Over' => ~Over)
    BY <1>8 DEF Crash, Active, At, Goto, Over
  <2>2. "over" \in Pcs \ {"none", "load", "body", "commit", "sleep"}
    BY DEF Pcs
  <2> QED BY <1>1, <2>1, <2>2, Relabelled
<1>9. ASSUME NEW d \in Dispatches, SessionStep(d) PROVE Goal
  <2>1. CASE Load(d)
    BY <1>1, <2>1, LoadStep DEF Load
  <2>2. CASE EndBody(d) \/ Finish(d)
    BY <1>1, <2>2, QuietStep DEF EndBody, Finish, SessionOnly
  <2>3. CASE record_step_result(d)
    BY <2>3, RecordStep
  <2>4. CASE sleep_job(d)
    BY <2>4, SleepStep
  <2>5. CASE Settle(d)
    BY <2>5, SettleStep
  <2>6. ASSUME NEW q \in Requests, \/ Memoized(d, q) \/ BeginRun(d, q) \/ Elapsed(d, q)
                                   \/ Resume(d, q) \/ BeginSleep(d, q) \/ Diverge(d, q)
        PROVE  Goal
    <3>1. steps' = steps
      BY <2>6 DEF Memoized, BeginRun, Elapsed, Resume, BeginSleep, Diverge, SessionOnly
    <3>2. SessionsOK' /\ ViewsAreHistory'
      BY <2>6, AnsweredStep, BeginRunStep, ResumeStep, BeginSleepStep, QuietStep
    <3> QED BY <1>1, <3>1, <3>2
  <2> QED BY <1>9, <2>1, <2>2, <2>3, <2>4, <2>5, <2>6 DEF SessionStep
<1>10. CASE Next
  <2>1. Goal
    BY <1>3, <1>4, <1>5, <1>6, <1>7, <1>8, <1>9, <1>10 DEF Next, Poll
  <2> QED BY <1>10, <2>1, RowsStep DEF StepsInv
<1> QED BY <1>2, <1>10

\* The initial states satisfy it.
LEMMA StepsInvInit ==
    ASSUME Init
    PROVE  StepsInv
<1>1. RowsOK
  BY StepsAssumption DEF Init, RowsOK, NoClaim, NotTaking
<1>2. steps = <<>> /\ StepsOK
  BY StepsAssumption DEF Init, StepsOK, DistinctKeys
<1>3. NoSession \in SessionRecord /\ NoSession.view = <<>> /\ NoSession.asked = {} /\ NoSession.recorded = 0
      /\ NoSession.pc = "none"
  BY StepsAssumption DEF NoSession, SessionRecord, Pcs
<1>4. SessionOK(NoSession, now)
  BY <1>3 DEF SessionOK, OwnSteps, SleepsOver, DistinctKeys
<1>5. \A d \in Dispatches : sess[d] = NoSession
  BY DEF Init
<1>6. sess \in [Dispatches -> SessionRecord]
  BY <1>3 DEF Init
<1>7. SessionsOK
  BY <1>4, <1>5, <1>6 DEF SessionsOK
<1>8. IsPrefix(<<>>, steps)
  BY <1>2, PrefixOfItself DEF StepsOK
<1>9. ViewsAreHistory
  BY <1>3, <1>5, <1>8 DEF ViewsAreHistory
<1> QED BY <1>1, <1>2, <1>7, <1>9 DEF StepsInv

-----------------------------------------------------------------------------
(* The theorems that need no hypothesis.                                   *)

\* The invariant holds throughout.
LEMMA StepsInvAlways == Spec => []StepsInv
<1>1. Init => StepsInv
  BY StepsInvInit
<1>2. StepsInv /\ [Next]_vars => StepsInv'
  BY StepsInvStep
<1> QED BY <1>1, <1>2, PTL DEF Spec

(* Type correctness of the job row, its claim, its step rows and every     *)
(* session, the bounds on retries, steps and dispatches included.          *)
THEOREM StepsTypeCorrect == Spec => []TypeOK
<1>1. StepsInv => TypeOK
  <2> SUFFICES ASSUME StepsInv PROVE TypeOK
    OBVIOUS
  <2>1. ASSUME NEW d \in Dispatches PROVE Session(sess[d])
    <3>1. PICK x : x = sess[d]
      OBVIOUS
    <3>2. x \in SessionRecord /\ x.recorded <= Len(x.view)
      BY <3>1 DEF StepsInv, SessionsOK, SessionOK
    <3>3. x.view \in Seq(StepRow) /\ x.recorded \in 0..Len(x.view)
      BY <3>2 DEF SessionRecord
    <3>4. Session(x)
      BY <3>2, <3>3 DEF Session, SessionRecord
    <3> QED BY <3>1, <3>4
  <2> QED BY <2>1 DEF StepsInv, RowsOK, StepsOK, TypeOK
<1> QED BY <1>1, StepsInvAlways, PTL

(* The job has one history: sessions of superseded dispatches, replays,    *)
(* retransmissions and changed code only ever add to it, and each session  *)
(* has it right (record_step_result, sleep_job, Load).                     *)
THEOREM OneHistoryAlways == Spec => OneHistory
<1>1. StepsInv /\ [Next]_vars => [ViewsAreHistory' /\ (IsPrefix(steps, steps') \/ Over')]_vars
  BY StepsInvStep DEF StepsInv
<1> QED BY <1>1, StepsInvAlways, PTL DEF Spec, OneHistory

(* No session gets past a sleep before the deadline its first commit fixed,*)
(* on whichever dispatch, in whichever order its keys come (sleep_job, the *)
(* replay of a recorded sleep).                                            *)
THEOREM NoEarlyWakeAlways == Spec => []NoEarlyWake
<1>1. StepsInv => NoEarlyWake
  <2> SUFFICES ASSUME StepsInv, NEW d \in Dispatches, NEW i \in DOMAIN sess[d].view,
                      Active(d), ~At(d, "sleep"), sess[d].view[i].kind = "sleep",
                      sess[d].view[i].key \in sess[d].asked
               PROVE  now >= sess[d].view[i].wake
    BY DEF NoEarlyWake
  <2>1. SessionOK(sess[d], now)
    BY DEF StepsInv, SessionsOK
  <2>2. sess[d].view \in Seq(StepRow) /\ sess[d].pc # "over" /\ sess[d].pc # "sleep"
    BY <2>1 DEF SessionOK, SessionRecord, Active, At
  <2>3. i \in 1..Len(sess[d].view)
    BY <2>2
  <2> QED BY <2>1, <2>2, <2>3 DEF SessionOK, SleepsOver
<1> QED BY <1>1, StepsInvAlways, PTL

-----------------------------------------------------------------------------
(* One pair of hands per attempt.  Every end of an attempt but an          *)
(* operator's requeue raises the retry count, or is the sleep of the       *)
(* session itself; so without a requeue an attempt is either being claimed *)
(* by one scheduler or served by one session, and only that one can write. *)

NoRequeue == "requeue" \notin Events

Takes(o) == taking[o].busy /\ taking[o].attempt = job.retry
Serves(d) == Active(d) /\ sess[d].attempt = job.retry

(* The session that serves the attempt knows the whole history, but for the*)
(* row of its own commit when that was delivered and not acknowledged.     *)
InStep(x) ==
    x.pc = "load" \/ x.view = steps \/ (x.pc = "commit" /\ steps = Append(x.view, Written(x)))

AttemptsPast ==
    /\ \A o \in Owners : taking[o].busy => taking[o].attempt <= job.retry
    /\ \A d \in Dispatches : Active(d) => sess[d].attempt <= job.retry

OneHolder ==
    /\ \A o, p \in Owners : Takes(o) /\ Takes(p) => o = p
    /\ \A d, e \in Dispatches : Serves(d) /\ Serves(e) => d = e
    /\ \A o \in Owners, d \in Dispatches : ~(Takes(o) /\ Serves(d))

PendingIsFree ==
    job.status = "Pending" =>
        (\A o \in Owners : ~Takes(o)) /\ (\A d \in Dispatches : ~Serves(d))

HolderInStep == \A d \in Dispatches : Serves(d) /\ ~Over => InStep(sess[d])

SoleInv == AttemptsPast /\ OneHolder /\ PendingIsFree /\ HolderInStep

(* One session moves; if the history moves it is the serving one.          *)
LEMMA SoleSession ==
    ASSUME StepsInv, SoleInv, NEW d \in Dispatches, Active(d),
           \A e \in Dispatches : e # d => sess'[e] = sess[e],
           sess'[d].attempt = sess[d].attempt, job' = job, taking' = taking,
           steps' = steps \/ Serves(d),
           (Serves(d) /\ ~Over /\ Active(d)') => InStep(sess[d])'
    PROVE  SoleInv'
<1>1. \A e \in Dispatches : Active(e)' => Active(e) /\ sess'[e].attempt = sess[e].attempt
  BY DEF Active, At
<1>2. \A e \in Dispatches : Serves(e)' => Serves(e)
  BY <1>1 DEF Serves
<1>3. \A o \in Owners : Takes(o)' <=> Takes(o)
  BY DEF Takes
<1>4. AttemptsPast'
  BY <1>1 DEF SoleInv, AttemptsPast
<1>5. OneHolder' /\ PendingIsFree'
  BY <1>2, <1>3 DEF SoleInv, OneHolder, PendingIsFree
<1>6. HolderInStep'
  <2> SUFFICES ASSUME NEW e \in Dispatches, Serves(e)', ~Over' PROVE InStep(sess[e])'
    BY DEF HolderInStep
  <2>1. Serves(e) /\ ~Over /\ Active(e)'
    BY <1>2 DEF Over, Serves
  <2>2. CASE e = d
    BY <2>1, <2>2
  <2>3. CASE e # d
    <3>1. steps' = steps
      BY <2>1, <2>3 DEF SoleInv, OneHolder
    <3>2. InStep(sess[e])
      BY <2>1 DEF SoleInv, HolderInStep
    <3>3. sess'[e] = sess[e]
      BY <2>3
    <3> QED BY <3>1, <3>2, <3>3 DEF InStep, Written
  <2> QED BY <2>2, <2>3
<1> QED BY <1>4, <1>5, <1>6 DEF SoleInv

(* The serving session ends.                                               *)
LEMMA SoleEnd ==
    ASSUME StepsInv, SoleInv, NEW d \in Dispatches, Active(d),
           \A e \in Dispatches : e # d => sess'[e] = sess[e], sess'[d].pc = "over",
           taking' = taking, job'.retry = job.retry, Serves(d)
    PROVE  SoleInv'
<1>1. \A e \in Dispatches : Active(e)' => e # d /\ Active(e) /\ sess'[e].attempt = sess[e].attempt
  BY DEF Active, At
<1>2. \A e \in Dispatches : ~Serves(e)'
  BY <1>1 DEF Serves, SoleInv, OneHolder
<1>3. \A o \in Owners : ~Takes(o)'
  BY DEF Takes, SoleInv, OneHolder
<1>4. AttemptsPast'
  BY <1>1 DEF SoleInv, AttemptsPast
<1> QED BY <1>2, <1>3, <1>4 DEF SoleInv, OneHolder, PendingIsFree, HolderInStep

(* The job ends, whoever was at it.                                        *)
LEMMA SoleOver ==
    ASSUME SoleInv, taking' = taking, job'.retry = job.retry,
         job'.status \in {"Complete", "Dead"},
           \A e \in Dispatches : Active(e)' => Active(e) /\ sess'[e].attempt = sess[e].attempt
    PROVE  SoleInv'
<1>1. \A e \in Dispatches : Serves(e)' => Serves(e)
  BY DEF Serves
<1>2. \A o \in Owners : Takes(o)' <=> Takes(o)
  BY DEF Takes
<1>3. Over' /\ job'.status # "Pending"
  BY DEF Over
<1>4. AttemptsPast'
  BY DEF SoleInv, AttemptsPast
<1> QED BY <1>1, <1>2, <1>3, <1>4 DEF SoleInv, OneHolder, PendingIsFree, HolderInStep

\* A session that passes the fence while it commits is one the job is bound to.
LEMMA FencedServes ==
    ASSUME NEW d \in Dispatches, Fenced(d), sess[d].pc \in {"commit", "sleep"}
    PROVE  Serves(d) /\ Active(d)
BY FencedIsAlive DEF Serves, Active, At

\* A commit, or its retransmission, leaves at most one session bound to the job.
LEMMA SoleRecord ==
    ASSUME StepsInv, SoleInv, NEW d \in Dispatches, record_step_result(d) \/ Retransmit(d)
    PROVE  SoleInv'
<1> DEFINE x == sess[d]
<1>1. /\ SessionOK(x, now) /\ x \in SessionRecord /\ x.pc = "commit" /\ job' = job /\ taking' = taking
      /\ steps \in Seq(StepRow) /\ sess \in [Dispatches -> SessionRecord]
  BY DEF StepsInv, SessionsOK, StepsOK, record_step_result, Retransmit, At, Superseded, Refused
<1>2. Active(d) /\ x.view \in Seq(StepRow) /\ x.seq = Len(x.view) + 1
  BY <1>1 DEF Active, At, SessionRecord, SessionOK, AtTheEnd
<1>3. Serves(d) /\ ~Over => x.view = steps \/ steps = Append(x.view, Written(x))
  BY <1>1 DEF SoleInv, HolderInStep, InStep
<1>4. CASE Superseded(d)
  <2>1. steps' = steps /\ sess' = [sess EXCEPT ![d].pc = "over"]
    BY <1>4 DEF Superseded, Goto
  <2>2. sess'[d].attempt = x.attempt /\ sess'[d].pc = "over" /\ \A e \in Dispatches : e # d => sess'[e] = sess[e]
    BY <1>1, <2>1 DEF SessionRecord
  <2>3. ~Active(d)'
    BY <2>2 DEF Active, At
  <2> QED BY <1>1, <1>2, <2>1, <2>2, <2>3, SoleSession
<1>5. CASE ~SameCommit(d) /\ ~NewCommit(d) /\ Refused(d)
  <2>1. steps' = steps /\ sess' = [sess EXCEPT ![d].pc = "dead"] /\ Serves(d) /\ ~Over
    BY <1>1, <1>5, FencedServes, FencedIsAlive DEF Refused, Goto
  <2>2. sess'[d].attempt = x.attempt /\ sess'[d].view = x.view /\ \A e \in Dispatches : e # d => sess'[e] = sess[e]
    BY <1>1, <2>1 DEF SessionRecord
  <2>3. x.view = steps
    <3>1. CASE steps = Append(x.view, Written(x))
      <4>1. Written(x) \in StepRow
        <5> HIDE DEF x
        <5> QED BY <1>1, CommitKeepsSession
      <4>2. x.seq \in DOMAIN steps /\ steps[x.seq] = Written(x)
        BY <1>2, <3>1, <4>1
      <4> QED BY <1>5, <4>2 DEF SameCommit
    <3> QED BY <1>3, <2>1, <3>1
  <2>4. InStep(sess[d])'
    BY <2>1, <2>2, <2>3 DEF InStep
  <2> QED BY <1>1, <1>2, <2>1, <2>2, <2>4, SoleSession
<1>6. CASE /\ Fenced(d)
           /\ (SameCommit(d) /\ steps' = steps) \/ (NewCommit(d) /\ steps' = Append(steps, Written(x)))
           /\ Committed(d) \/ sess' = sess
  <2>1. Serves(d) /\ ~Over
    BY <1>1, <1>6, FencedServes, FencedIsAlive
  <2>2. PICK w \in StepRow : w = Written(x)
    <3> HIDE DEF x
    <3> QED BY <1>1, CommitKeepsSession
  <2>3. steps' = Append(x.view, w)
    <3>1. CASE SameCommit(d) /\ steps' = steps
      <4>1. x.seq \in DOMAIN steps
        BY <3>1 DEF SameCommit
      <4>2. x.view # steps
        BY <1>1, <1>2, <4>1
      <4> QED BY <1>3, <2>1, <2>2, <3>1, <4>2
    <3>2. CASE NewCommit(d) /\ steps' = Append(steps, Written(x))
      <4>1. x.seq = Len(steps) + 1
        BY <3>2 DEF NewCommit, check_step_position
      <4>2. Len(Append(x.view, w)) = Len(x.view) + 1
        BY <1>2
      <4>3. steps # Append(x.view, w)
        BY <1>1, <1>2, <4>1, <4>2
      <4> QED BY <1>3, <2>1, <2>2, <3>2, <4>3
    <3> QED BY <1>6, <3>1, <3>2
  <2>4. CASE sess' = sess
    <3>1. InStep(sess[d])'
      BY <1>1, <2>2, <2>3, <2>4 DEF InStep, Written
    <3> QED BY <1>1, <1>2, <2>1, <2>4, <3>1, SoleSession
  <2>5. CASE Committed(d)
    <3>1. PICK y : y = [x EXCEPT !.pc = "ask", !.pending = NoRequest, !.view = Append(x.view, Written(x))]
      OBVIOUS
    <3>2. sess' = [sess EXCEPT ![d] = y]
      BY <1>1, <2>5, <3>1 DEF Committed
    <3>3. y.attempt = x.attempt /\ y.view = Append(x.view, w)
      BY <1>1, <2>2, <3>1 DEF SessionRecord
    <3>4. sess'[d] = y /\ \A e \in Dispatches : e # d => sess'[e] = sess[e]
      BY <1>1, <3>2
    <3>5. InStep(sess[d])'
      BY <2>3, <3>3, <3>4 DEF InStep
    <3> QED BY <1>1, <1>2, <2>1, <3>3, <3>4, <3>5, SoleSession
  <2> QED BY <1>6, <2>4, <2>5
<1> QED BY <1>4, <1>5, <1>6 DEF record_step_result, Retransmit

\* So does a sleep, which ends the session's hold on the job.
LEMMA SoleSleep ==
    ASSUME StepsInv, SoleInv, NEW d \in Dispatches, sleep_job(d)
    PROVE  SoleInv'
<1> DEFINE x == sess[d]
<1>1. /\ x \in SessionRecord /\ x.pc = "sleep" /\ Active(d) /\ taking' = taking
      /\ sess \in [Dispatches -> SessionRecord]
  BY DEF StepsInv, SessionsOK, sleep_job, At, Active
<1>2. CASE Superseded(d) \/ Refused(d)
  <2>1. PICK pc \in {"over", "dead"} : sess' = [sess EXCEPT ![d].pc = pc]
    BY <1>2 DEF Superseded, Refused, Goto
  <2>2. steps' = steps /\ job' = job
    BY <1>2 DEF Superseded, Refused
  <2>3. sess'[d].attempt = x.attempt /\ sess'[d].view = x.view /\ \A e \in Dispatches : e # d => sess'[e] = sess[e]
    BY <1>1, <2>1 DEF SessionRecord
  <2>4. (Serves(d) /\ ~Over) => x.view = steps
    BY <1>1 DEF SoleInv, HolderInStep, InStep
  <2>5. (Serves(d) /\ ~Over) => InStep(sess[d])'
    BY <2>2, <2>3, <2>4 DEF InStep
  <2> QED BY <1>1, <2>2, <2>3, <2>5, SoleSession
<1>3. CASE Fenced(d) /\ Goto(d, "over")
  <2>1. Serves(d)
    BY <1>1, <1>3, FencedServes
  <2>2. sess'[d].pc = "over" /\ \A e \in Dispatches : e # d => sess'[e] = sess[e]
    BY <1>1, <1>3 DEF Goto, SessionRecord
  <2>3. job'.retry = job.retry
    BY SleepStep DEF StepsInv, RowsOK
  <2> QED BY <1>1, <2>1, <2>2, <2>3, SoleEnd
<1> QED BY <1>2, <1>3 DEF sleep_job

(* What the code asks for leaves the session's view alone.                 *)
LEMMA SoleAsk ==
    ASSUME StepsInv, SoleInv, NEW d \in Dispatches, sess[d].pc \in {"ask", "body"},
           sess'[d].attempt = sess[d].attempt, sess'[d].view = sess[d].view,
           \A e \in Dispatches : e # d => sess'[e] = sess[e],
           job' = job, taking' = taking, steps' = steps
    PROVE  SoleInv'
<1>1. Active(d)
  BY DEF Active, At
<1>2. (Serves(d) /\ ~Over) => sess[d].view = steps
  BY DEF SoleInv, HolderInStep, InStep
<1>3. (Serves(d) /\ ~Over) => InStep(sess[d])'
  BY <1>2 DEF InStep
<1> QED BY <1>1, <1>3, SoleSession

\* So does a request of the body, whichever answer it gets.
LEMMA SoleWalk ==
    ASSUME StepsInv, SoleInv, NEW d \in Dispatches, NEW q \in Requests,
           \/ Memoized(d, q) \/ BeginRun(d, q) \/ Elapsed(d, q)
           \/ Resume(d, q) \/ BeginSleep(d, q) \/ Diverge(d, q)
    PROVE  SoleInv'
<1> DEFINE x == sess[d]
<1>1. x \in SessionRecord /\ x.pc = "ask" /\ sess \in [Dispatches -> SessionRecord]
  BY DEF StepsInv, SessionsOK, Memoized, BeginRun, Elapsed, Resume, BeginSleep, Diverge, At
<1>2. job' = job /\ taking' = taking /\ steps' = steps
  BY DEF Memoized, BeginRun, Elapsed, Resume, BeginSleep, Diverge, SessionOnly
<1>3. PICK u : u = Issued(x, q)
  OBVIOUS
<1>4. u \in SessionRecord /\ u.attempt = x.attempt /\ u.view = x.view
  <2> HIDE DEF x
  <2>1. u \in SessionRecord /\ u = [x EXCEPT !.asked = x.asked \cup {q.key}, !.pending = q]
    BY <1>1, <1>3, IssuedIsARecord
  <2> QED BY <1>1, <2>1 DEF SessionRecord
<1>5. CASE Memoized(d, q) \/ Elapsed(d, q)
  <2>1. PICK y : y = [u EXCEPT !.pending = NoRequest]
    OBVIOUS
  <2>2. sess' = [sess EXCEPT ![d] = y]
    BY <1>1, <1>3, <1>5, <2>1 DEF Memoized, Elapsed
  <2>3. y.attempt = x.attempt /\ y.view = x.view
    BY <1>4, <2>1 DEF SessionRecord
  <2>4. sess'[d] = y /\ \A e \in Dispatches : e # d => sess'[e] = sess[e]
    BY <1>1, <2>1, <2>2
  <2> QED BY <1>1, <1>2, <2>3, <2>4, SoleAsk
<1>6. CASE BeginRun(d, q)
  <2>1. PICK y : y = [u EXCEPT !.pc = "body", !.seq = Len(x.view) + 1]
    OBVIOUS
  <2>2. sess' = [sess EXCEPT ![d] = y]
    BY <1>1, <1>3, <1>6, <2>1 DEF BeginRun
  <2>3. y.attempt = x.attempt /\ y.view = x.view
    BY <1>4, <2>1 DEF SessionRecord
  <2>4. sess'[d] = y /\ \A e \in Dispatches : e # d => sess'[e] = sess[e]
    BY <1>1, <2>1, <2>2
  <2> QED BY <1>1, <1>2, <2>3, <2>4, SoleAsk
<1>7. CASE Resume(d, q)
  <2>1. PICK i : sess' = [sess EXCEPT ![d] = [u EXCEPT !.pc = "sleep", !.seq = i, !.wake = now + Nap]]
    BY <1>1, <1>3, <1>7 DEF Resume
  <2>2. PICK y : y = [u EXCEPT !.pc = "sleep", !.seq = i, !.wake = now + Nap]
    OBVIOUS
  <2>3. y.attempt = x.attempt /\ y.view = x.view
    BY <1>4, <2>2 DEF SessionRecord
  <2>4. sess'[d] = y /\ \A e \in Dispatches : e # d => sess'[e] = sess[e]
    BY <1>1, <2>1, <2>2
  <2> QED BY <1>1, <1>2, <2>3, <2>4, SoleAsk
<1>8. CASE BeginSleep(d, q)
  <2>1. PICK y : y = IF Len(x.view) < MaxSteps
                     THEN [u EXCEPT !.pc = "sleep", !.seq = Len(x.view) + 1, !.wake = now + Nap]
                     ELSE [u EXCEPT !.pc = "dead"]
    OBVIOUS
  <2>2. sess' = [sess EXCEPT ![d] = y]
    BY <1>1, <1>3, <1>8, <2>1 DEF BeginSleep
  <2>3. y.attempt = x.attempt /\ y.view = x.view
    BY <1>4, <2>1 DEF SessionRecord
  <2>4. sess'[d] = y /\ \A e \in Dispatches : e # d => sess'[e] = sess[e]
    BY <1>1, <2>1, <2>2
  <2> QED BY <1>1, <1>2, <2>3, <2>4, SoleAsk
<1>9. CASE Diverge(d, q)
  <2>1. PICK y : y = [x EXCEPT !.pc = "dead"]
    OBVIOUS
  <2>2. sess' = [sess EXCEPT ![d] = y]
    BY <1>1, <1>9, <2>1 DEF Diverge, Goto
  <2>3. y.attempt = x.attempt /\ y.view = x.view
    BY <1>1, <2>1 DEF SessionRecord
  <2>4. sess'[d] = y /\ \A e \in Dispatches : e # d => sess'[e] = sess[e]
    BY <1>1, <2>1, <2>2
  <2> QED BY <1>1, <1>2, <2>3, <2>4, SoleAsk
<1> QED BY <1>5, <1>6, <1>7, <1>8, <1>9

\* So do the steps in which a session loads, ends or crashes.
LEMMA SoleQuiet ==
    ASSUME StepsInv, SoleInv, NEW d \in Dispatches,
         Load(d) \/ EndBody(d) \/ Finish(d) \/ Crash(d)
    PROVE  SoleInv'
<1> DEFINE x == sess[d]
<1>1. x \in SessionRecord /\ sess \in [Dispatches -> SessionRecord]
  BY DEF StepsInv, SessionsOK
<1>2. job' = job /\ taking' = taking /\ steps' = steps
  BY DEF Load, EndBody, Finish, Crash, SessionOnly
<1>3. CASE Load(d)
  <2>1. /\ sess'[d].attempt = x.attempt /\ sess'[d].view = steps /\ Active(d)
        /\ \A e \in Dispatches : e # d => sess'[e] = sess[e]
    BY <1>1, <1>3 DEF Load, SessionRecord, Active, At
  <2>2. InStep(sess[d])'
    BY <1>2, <2>1 DEF InStep
  <2> QED BY <1>2, <2>1, <2>2, SoleSession
<1>4. CASE EndBody(d)
  <2>1. x.pc = "body" /\ \/ \E v \in {0, d} : sess' = [sess EXCEPT ![d].pc = "commit", ![d].value = v]
                         \/ sess' = [sess EXCEPT ![d].pc = "dead"]
    BY <1>4 DEF EndBody, At, Goto
  <2>2. /\ sess'[d].attempt = x.attempt /\ sess'[d].view = x.view
        /\ \A e \in Dispatches : e # d => sess'[e] = sess[e]
    BY <1>1, <2>1 DEF SessionRecord
  <2> QED BY <1>2, <2>1, <2>2, SoleAsk
<1>5. CASE Finish(d)
  <2>1. x.pc = "ask" /\ sess' = [sess EXCEPT ![d].pc = "complete"]
    BY <1>5 DEF Finish, At, Goto
  <2>2. /\ sess'[d].attempt = x.attempt /\ sess'[d].view = x.view
        /\ \A e \in Dispatches : e # d => sess'[e] = sess[e]
    BY <1>1, <2>1 DEF SessionRecord
  <2> QED BY <1>2, <2>1, <2>2, SoleAsk
<1>6. CASE Crash(d)
  <2>1. /\ sess'[d].attempt = x.attempt /\ sess'[d].pc = "over" /\ Active(d)
        /\ \A e \in Dispatches : e # d => sess'[e] = sess[e]
    BY <1>1, <1>6 DEF Crash, Goto, SessionRecord
  <2>2. ~Active(d)'
    BY <2>1 DEF Active, At
  <2> QED BY <1>2, <2>1, <2>2, SoleSession
<1> QED BY <1>3, <1>4, <1>5, <1>6

\* So does the settling of the job.
LEMMA SoleSettle ==
    ASSUME StepsInv, SoleInv, NEW d \in Dispatches, Settle(d)
    PROVE  SoleInv'
<1> DEFINE x == sess[d]
<1>1. x \in SessionRecord /\ sess \in [Dispatches -> SessionRecord] /\ x.pc \in {"complete", "dead"}
      /\ taking' = taking
  BY DEF StepsInv, SessionsOK, Settle, At
<1>2. /\ sess'[d].attempt = x.attempt /\ sess'[d].pc = "over" /\ Active(d)
      /\ \A e \in Dispatches : e # d => sess'[e] = sess[e]
  BY <1>1 DEF Settle, Goto, Active, At, SessionRecord
<1>3. ~Active(d)'
  BY <1>2 DEF Active, At
<1>4. CASE job' = job /\ steps' = steps
  BY <1>1, <1>2, <1>3, <1>4, SoleSession
<1>5. CASE \E st \in {"Complete", "Dead"} : Archived(st)
  <2>1. job'.retry = job.retry /\ job'.status \in {"Complete", "Dead"}
    BY <1>5 DEF Archived, StepsInv, RowsOK
  <2>2. \A e \in Dispatches : Active(e)' => Active(e) /\ sess'[e].attempt = sess[e].attempt
    BY <1>2, <1>3 DEF Active, At
  <2> QED BY <1>1, <2>1, <2>2, SoleOver
<1> QED BY <1>4, <1>5 DEF Settle

\* So does a claim: the job was Pending, and no session was bound to it.
LEMMA SoleClaim ==
    ASSUME StepsInv, SoleInv, NEW o \in Owners, Claim(o)
    PROVE  SoleInv'
<1>1. /\ sess \in [Dispatches -> SessionRecord] /\ RowsOK /\ job' = job /\ steps' = steps
      /\ taking' = [taking EXCEPT ![o] = NotTaking] /\ taking[o].busy
  BY DEF StepsInv, SessionsOK, Claim
<1>2. /\ ~taking'[o].busy /\ \A p \in Owners : p # o => taking'[p] = taking[p]
  BY <1>1 DEF RowsOK, NotTaking
<1>3. \A p \in Owners : Takes(p)' => Takes(p) /\ p # o
  BY <1>1, <1>2 DEF Takes
<1>4. CASE sess' = sess
  <2>1. \A e \in Dispatches : (Serves(e)' <=> Serves(e)) /\ (Active(e)' <=> Active(e))
    BY <1>1, <1>4 DEF Serves, Active, At
  <2>2. AttemptsPast'
    BY <1>1, <1>2, <1>4, <2>1 DEF SoleInv, AttemptsPast
  <2>3. HolderInStep'
    <3> SUFFICES ASSUME NEW e \in Dispatches, Serves(e)', ~Over' PROVE InStep(sess[e])'
      BY DEF HolderInStep
    <3>1. InStep(sess[e])
      BY <1>1, <2>1 DEF SoleInv, HolderInStep, Over
    <3> QED BY <1>1, <1>4, <3>1 DEF InStep, Written
  <2> QED BY <1>1, <1>3, <2>1, <2>2, <2>3 DEF SoleInv, OneHolder, PendingIsFree
<1>5. CASE /\ issued < MaxDispatches
           /\ issued' = issued + 1
           /\ \E c \in Codes :
                 sess' = [sess EXCEPT ![issued'] =
                    [NoSession EXCEPT !.pc = "load", !.owner = o, !.attempt = taking[o].attempt, !.code = c]]
  <2>1. PICK n \in Dispatches : n = issued'
    BY <1>1, <1>5, StepsAssumption DEF RowsOK, Dispatches
  <2>2. /\ sess'[n].pc = "load" /\ sess'[n].attempt = taking[o].attempt
        /\ \A e \in Dispatches : e # n => sess'[e] = sess[e]
    BY <1>1, <1>5, <2>1 DEF NoSession
  <2>3. /\ \A e \in Dispatches : e # n => ((Serves(e)' <=> Serves(e)) /\ (Active(e)' <=> Active(e)))
        /\ Serves(n)' => Takes(o)
    BY <1>1, <2>2 DEF Serves, Active, At, Takes
  <2>4. AttemptsPast'
    BY <1>1, <1>2, <2>2, <2>3 DEF SoleInv, AttemptsPast
  <2>5. OneHolder' /\ PendingIsFree'
    BY <1>1, <1>3, <2>3 DEF SoleInv, OneHolder, PendingIsFree
  <2>6. HolderInStep'
    <3> SUFFICES ASSUME NEW e \in Dispatches, Serves(e)', ~Over' PROVE InStep(sess[e])'
      BY DEF HolderInStep
    <3>1. CASE e = n
      BY <2>2, <3>1 DEF InStep
    <3>2. CASE e # n
      <4>1. InStep(sess[e]) /\ sess'[e] = sess[e]
        BY <1>1, <2>2, <2>3, <3>2 DEF SoleInv, HolderInStep, Over
      <4> QED BY <1>1, <4>1 DEF InStep, Written
    <3> QED BY <3>1, <3>2
  <2> QED BY <2>4, <2>5, <2>6 DEF SoleInv
<1> QED BY <1>4, <1>5 DEF Claim

(* The sessions and their steps stay; the job row may move on.             *)
LEMMA SoleRow ==
    ASSUME StepsInv, SoleInv, NoRequeue, sess' = sess,
           Tick \/ Retry \/ requeue_stuck \/ purge_execution_claims \/ \E o \in Owners : Dequeue(o)
    PROVE  SoleInv'
<1>1. RowsOK /\ sess \in [Dispatches -> SessionRecord]
  BY DEF StepsInv, SessionsOK
<1>2. \A e \in Dispatches : Active(e)' <=> Active(e)
  BY DEF Active, At
<1>3. CASE requeue_stuck
  BY <1>3 DEF requeue_stuck, Event, NoRequeue
<1>4. CASE Tick \/ purge_execution_claims
  <2>1. job' = job /\ steps' = steps /\ taking' = taking
    BY <1>4 DEF Tick, purge_execution_claims
  <2>2. \A e \in Dispatches : Serves(e)' <=> Serves(e)
    BY <1>2, <2>1 DEF Serves
  <2>3. \A o \in Owners : Takes(o)' <=> Takes(o)
    BY <2>1 DEF Takes
  <2>4. HolderInStep'
    <3> SUFFICES ASSUME NEW e \in Dispatches, Serves(e)', ~Over' PROVE InStep(sess[e])'
      BY DEF HolderInStep
    <3>1. InStep(sess[e])
      BY <2>1, <2>2 DEF SoleInv, HolderInStep, Over
    <3> QED BY <2>1, <3>1 DEF InStep, Written
  <2> QED BY <1>2, <2>1, <2>2, <2>3, <2>4 DEF SoleInv, AttemptsPast, OneHolder, PendingIsFree
<1>5. ASSUME NEW o \in Owners, Dequeue(o) PROVE SoleInv'
  <2>1. /\ job.status = "Pending" /\ job'.status = "Running" /\ job'.retry = job.retry /\ steps' = steps
        /\ taking'[o].attempt = job.retry /\ \A p \in Owners : p # o => taking'[p] = taking[p]
    BY <1>1, <1>5 DEF Dequeue, RowsOK
  <2>2. \A e \in Dispatches : ~Serves(e)'
    BY <1>2, <2>1 DEF Serves, SoleInv, PendingIsFree
  <2>3. \A p \in Owners : Takes(p)' => p = o
    BY <2>1 DEF Takes, SoleInv, PendingIsFree
  <2>4. AttemptsPast'
    BY <1>1, <1>2, <2>1 DEF SoleInv, AttemptsPast, RowsOK
  <2> QED BY <2>1, <2>2, <2>3, <2>4 DEF SoleInv, OneHolder, PendingIsFree, HolderInStep
<1>6. CASE Retry
  <2>1. taking' = taking
    BY <1>6 DEF Retry
  <2>2. CASE job' = [job EXCEPT !.status = "Pending", !.retry = job.retry + 1, !.wake = now]
    <3>1. job'.retry = job.retry + 1 /\ job.retry \in Nat
      BY <1>1, <2>2, StepsAssumption DEF RowsOK
    <3>2. \A d \in Dispatches : sess[d].attempt \in Nat
      BY <1>1 DEF SessionRecord
    <3>3. \A o \in Owners : taking[o].attempt \in Nat
      BY <1>1 DEF RowsOK
    <3>4. \A e \in Dispatches : ~Serves(e)'
      BY <1>2, <3>1, <3>2 DEF Serves, SoleInv, AttemptsPast
    <3>5. \A o \in Owners : ~Takes(o)'
      BY <2>1, <3>1, <3>3 DEF Takes, SoleInv, AttemptsPast
    <3>6. AttemptsPast'
      BY <1>2, <2>1, <3>1, <3>2, <3>3 DEF SoleInv, AttemptsPast
    <3> QED BY <3>4, <3>5, <3>6 DEF SoleInv, OneHolder, PendingIsFree, HolderInStep
  <2>3. CASE Archived("Dead")
    <3>1. job'.retry = job.retry /\ job'.status = "Dead"
      BY <1>1, <2>3 DEF Archived, RowsOK
    <3> QED BY <1>2, <2>1, <3>1, SoleOver
  <2> QED BY <1>6, <2>2, <2>3 DEF Retry
<1> QED BY <1>3, <1>4, <1>5, <1>6

\* Every step keeps the sole session, if no job is requeued.
LEMMA SoleStep ==
    ASSUME StepsInv, SoleInv, NoRequeue, [Next]_vars
    PROVE  SoleInv'
<1>1. CASE UNCHANGED vars
  <2>1. \A e \in Dispatches : (Serves(e)' <=> Serves(e)) /\ (Active(e)' <=> Active(e))
    BY <1>1 DEF vars, Serves, Active, At
  <2>2. \A o \in Owners : Takes(o)' <=> Takes(o)
    BY <1>1 DEF vars, Takes
  <2>3. HolderInStep'
    <3> SUFFICES ASSUME NEW e \in Dispatches, Serves(e)', ~Over' PROVE InStep(sess[e])'
      BY DEF HolderInStep
    <3>1. InStep(sess[e])
      BY <1>1, <2>1 DEF SoleInv, HolderInStep, Over, vars
    <3> QED BY <1>1, <3>1 DEF InStep, Written, vars
  <2> QED BY <1>1, <2>1, <2>2, <2>3 DEF vars, SoleInv, AttemptsPast, OneHolder, PendingIsFree
<1>2. CASE Tick \/ Retry \/ requeue_stuck \/ purge_execution_claims \/ \E o \in Owners : Dequeue(o)
  <2>1. sess' = sess
    BY <1>2 DEF Tick, Retry, requeue_stuck, purge_execution_claims, Dequeue
  <2> QED BY <1>2, <2>1, SoleRow
<1>3. ASSUME NEW o \in Owners, Claim(o) PROVE SoleInv'
  BY <1>3, SoleClaim
<1>4. ASSUME NEW d \in Dispatches, SessionStep(d) \/ Retransmit(d) \/ Crash(d) PROVE SoleInv'
  BY <1>4, SoleRecord, SoleSleep, SoleWalk, SoleQuiet, SoleSettle DEF SessionStep
<1> QED BY <1>1, <1>2, <1>3, <1>4 DEF Next, Poll

\* At most one session is bound to the job throughout, if no job is requeued.
LEMMA SoleAlways ==
    ASSUME NoRequeue
    PROVE  Spec => [](StepsInv /\ SoleInv)
<1>1. Init => SoleInv
  <2> SUFFICES ASSUME Init PROVE SoleInv
    OBVIOUS
  <2>1. \A d \in Dispatches : ~Active(d) /\ ~Serves(d)
    BY DEF Init, Active, At, Serves, NoSession
  <2>2. \A o \in Owners : ~taking[o].busy /\ ~Takes(o)
    BY DEF Init, NotTaking, Takes
  <2> QED BY <2>1, <2>2 DEF SoleInv, AttemptsPast, OneHolder, PendingIsFree, HolderInStep
<1>2. StepsInv /\ SoleInv /\ [Next]_vars => SoleInv'
  BY SoleStep
<1> QED BY <1>1, <1>2, StepsInvAlways, PTL DEF Spec

(* Without an operator's requeue, the body of a committed step is not run  *)
(* again by the job's current attempt, whatever sessions of earlier        *)
(* attempts still do (record_step_result, recorded_match, the fence).      *)
THEOREM CommittedNotRerunOrdinarily ==
    ASSUME NoRequeue
    PROVE  Spec => []CommittedNotRerun
<1>1. StepsInv /\ SoleInv => CommittedNotRerun
  <2> SUFFICES ASSUME StepsInv, SoleInv, NEW d \in Dispatches, At(d, "body"),
       job.status = "Running",
                      sess[d].attempt = job.retry, NEW i \in DOMAIN steps
               PROVE  steps[i].key # sess[d].pending.key
    BY DEF CommittedNotRerun
  <2>1. Serves(d) /\ ~Over /\ sess[d].pc = "body"
    BY DEF Serves, Active, At, Over
  <2>2. sess[d].view = steps
    BY <2>1 DEF SoleInv, HolderInStep, InStep
  <2>3. ~HasKey(steps, sess[d].pending.key)
    BY <2>1, <2>2 DEF StepsInv, SessionsOK, SessionOK, AtTheEnd
  <2>4. i \in 1..Len(steps)
    BY DEF StepsInv, StepsOK
  <2> QED BY <2>3, <2>4 DEF HasKey
<1> QED BY <1>1, SoleAlways, PTL
=============================================================================
