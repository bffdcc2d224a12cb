-------------------------- MODULE ContentionProofs --------------------------
(***************************************************************************)
(* What processes on several hosts compete for, proved for any number of   *)
(* them: a distributed lock, a unique key, a dead letter, the slot of a    *)
(* schedule, and the caps on running jobs.                                 *)
(***************************************************************************)
EXTENDS DistributedLock, UniqueEnqueue, DeadLetterRetry, Periodic, ConcurrencyCaps,
        FiniteSetTheorems, TLAPS

-----------------------------------------------------------------------------
(* The lock.  MutualExclusion is not inductive: it says nothing of the     *)
(* stored row, nor of the clock a delayed call carries.  LockInv adds both:*)
(* an owner that relies on the lock is the one the row names, to the expiry*)
(* the row holds, and no call read a clock ahead of every host.            *)
(* A call that is granted leaves its owner, and nobody else, relying on the*)
(* row: acquire_lock, extend_lock and try_lead all write it this way.      *)
LEMMA GrantKeepsInv ==
    ASSUME LockInv, NEW o \in Owners, Granted(o), UNCHANGED <<now, gone>>,
           \A p \in Owners \ {o} : ~Holds(p)
    PROVE  LockInv'
<1> USE LockAssumption
<1>1. TypeOK'
  BY DEF LockInv, TypeOK, Granted, Told, End, NoCall, Ops
<1>2. StampsNotAhead'
  BY DEF LockInv, TypeOK, StampsNotAhead, Granted, End, NoCall
<1>3. HoldsWhatIsStored'
  <2> SUFFICES ASSUME NEW p \in Owners, Holds(p)'
               PROVE  row'.owner = p /\ row'.expires = until'[p]
    BY DEF HoldsWhatIsStored
  <2>1. CASE p = o
    BY <2>1 DEF LockInv, TypeOK, Granted, Told
  <2>2. CASE p # o
    <3>1. until'[p] = until[p]
      BY <2>2 DEF LockInv, TypeOK, Granted, Told
    <3>2. Holds(p)
      BY <3>1 DEF Holds
    <3> QED BY <3>2, <2>2
  <2> QED BY <2>1, <2>2
<1> QED BY <1>1, <1>2, <1>3 DEF LockInv

(* A call that is not granted, and everything else that only ends a call or*)
(* gives the lock up, keeps the invariant as long as the row stays.        *)
LEMMA QuietKeepsInv ==
    ASSUME LockInv, NEW o \in Owners, TypeOK', UNCHANGED <<now, row>>,
           call'[o].stamp <= now + MaxSkew,
           \A p \in Owners \ {o} : call'[p] = call[p] /\ until'[p] = until[p],
           until'[o] \in {0, until[o]}
    PROVE  LockInv'
<1> USE LockAssumption
<1>1. StampsNotAhead'
  BY DEF LockInv, TypeOK, StampsNotAhead
<1>2. HoldsWhatIsStored'
  <2> SUFFICES ASSUME NEW p \in Owners, Holds(p)'
               PROVE  row'.owner = p /\ row'.expires = until'[p]
    BY DEF HoldsWhatIsStored
  <2>1. until'[p] = until[p]
    <3>1. ~(until'[p] = 0)
      BY DEF Holds, LockInv, TypeOK
    <3> QED BY <3>1
  <2>2. Holds(p)
    BY <2>1 DEF Holds
  <2> QED BY <2>1, <2>2 DEF LockInv, HoldsWhatIsStored
<1> QED BY <1>1, <1>2 DEF LockInv

(* Every step of the specification keeps LockInv.                          *)
LEMMA LockNextInv == LockInv /\ [Next]_vars => LockInv'
<1> USE LockAssumption
<1> SUFFICES ASSUME LockInv, [Next]_vars PROVE LockInv'
  OBVIOUS
<1>1. CASE Tick
  <2>1. TypeOK' /\ StampsNotAhead'
    BY <1>1 DEF Tick, LockInv, TypeOK, StampsNotAhead
  <2>2. \A p \in Owners : Holds(p)' => Holds(p)
    BY <1>1 DEF Tick, LockInv, TypeOK, Holds
  <2> QED BY <1>1, <2>1, <2>2 DEF Tick, LockInv, HoldsWhatIsStored
<1>2. ASSUME NEW o \in Owners, Crash(o) PROVE LockInv'
  <2>1. TypeOK'
    BY <1>2 DEF Crash, LockInv, TypeOK, NoCall, Ops
  <2>2. call'[o].stamp <= now + MaxSkew
    BY <1>2 DEF Crash, LockInv, TypeOK, NoCall
  <2> QED BY <1>2, <2>1, <2>2, QuietKeepsInv DEF Crash, LockInv, TypeOK
<1>3. ASSUME NEW o \in Owners, NEW op \in Ops, Begin(o, op) PROVE LockInv'
  <2>1. TypeOK' /\ call'[o].stamp <= now + MaxSkew
    BY <1>3 DEF Begin, Start, LockInv, TypeOK, Ops
  <2> QED BY <1>3, <2>1, QuietKeepsInv DEF Begin, Start, LockInv, TypeOK
<1>4. ASSUME NEW o \in Owners, acquire_lock(o) PROVE LockInv'
  <2>1. CASE Takeable(call[o].stamp) /\ Granted(o)
    <3>1. \A p \in Owners \ {o} : ~Holds(p)
      BY <2>1 DEF Takeable, LockInv, TypeOK, StampsNotAhead, HoldsWhatIsStored, Holds
    <3> QED BY <1>4, <2>1, <3>1, GrantKeepsInv DEF acquire_lock
  <2>2. CASE End(o) /\ UNCHANGED <<row, until>>
    <3>1. TypeOK' /\ call'[o].stamp <= now + MaxSkew
      BY <1>4, <2>2 DEF acquire_lock, End, LockInv, TypeOK, NoCall, Ops
    <3> QED BY <1>4, <2>2, <3>1, QuietKeepsInv DEF acquire_lock, End, LockInv, TypeOK
  <2> QED BY <1>4, <2>1, <2>2 DEF acquire_lock
<1>5. ASSUME NEW o \in Owners, extend_lock(o) PROVE LockInv'
  <2>1. CASE Extendable(o) /\ Granted(o)
    <3>1. \A p \in Owners \ {o} : ~Holds(p)
      BY <2>1 DEF Extendable, LockInv, HoldsWhatIsStored
    <3> QED BY <1>5, <2>1, <3>1, GrantKeepsInv DEF extend_lock
  <2>2. CASE End(o) /\ Told(o, 0) /\ UNCHANGED row
    <3>1. TypeOK' /\ call'[o].stamp <= now + MaxSkew
      BY <1>5, <2>2 DEF extend_lock, End, Told, LockInv, TypeOK, NoCall, Ops
    <3> QED BY <1>5, <2>2, <3>1, QuietKeepsInv DEF extend_lock, End, Told, LockInv, TypeOK
  <2> QED BY <1>5, <2>1, <2>2 DEF extend_lock
<1>6. ASSUME NEW o \in Owners, try_lead(o) PROVE LockInv'
  <2>1. CASE Extendable(o) /\ Granted(o)
    <3>1. \A p \in Owners \ {o} : ~Holds(p)
      BY <2>1 DEF Extendable, LockInv, HoldsWhatIsStored
    <3> QED BY <1>6, <2>1, <3>1, GrantKeepsInv DEF try_lead
  <2>2. CASE Start(o, "acquire") /\ Told(o, 0) /\ UNCHANGED row
    <3>1. TypeOK' /\ call'[o].stamp <= now + MaxSkew
      BY <1>6, <2>2 DEF try_lead, Start, Told, LockInv, TypeOK, Ops
    <3> QED BY <1>6, <2>2, <3>1, QuietKeepsInv DEF try_lead, Start, Told, LockInv, TypeOK
  <2> QED BY <1>6, <2>1, <2>2 DEF try_lead
<1>7. ASSUME NEW o \in Owners, reap_expired_locks(o) PROVE LockInv'
  <2>1. TypeOK' /\ StampsNotAhead'
    BY <1>7 DEF reap_expired_locks, End, LockInv, TypeOK, StampsNotAhead, NoCall, NoRow, Ops
  <2>2. HoldsWhatIsStored'
    BY <1>7 DEF reap_expired_locks, LockInv, TypeOK, StampsNotAhead, HoldsWhatIsStored, Holds
  <2> QED BY <2>1, <2>2 DEF LockInv
<1>8. ASSUME NEW o \in Owners, release_lock(o) PROVE LockInv'
  <2>1. TypeOK' /\ StampsNotAhead'
    BY <1>8 DEF release_lock, Told, LockInv, TypeOK, StampsNotAhead, NoRow
  <2>2. HoldsWhatIsStored'
    BY <1>8 DEF release_lock, Told, LockInv, TypeOK, HoldsWhatIsStored, Holds
  <2> QED BY <2>1, <2>2 DEF LockInv
<1>9. CASE UNCHANGED vars
  BY <1>9 DEF vars, LockInv, TypeOK, StampsNotAhead, HoldsWhatIsStored, Holds
<1> QED BY <1>1, <1>2, <1>3, <1>4, <1>5, <1>6, <1>7, <1>8, <1>9 DEF Next, Serve

(* The rows of distributed_locks and what callers were told of them stay   *)
(* consistent in every behaviour of the lock operations.                   *)
THEOREM LockSafe == Spec => []LockInv
<1>1. Init => LockInv
  BY LockAssumption
     DEF Init, LockInv, TypeOK, StampsNotAhead, HoldsWhatIsStored, Holds, NoRow, NoCall, Ops
<1> QED BY <1>1, LockNextInv, PTL DEF Spec

(* acquire_lock, extend_lock, release_lock, reap_expired_locks and try_lead*)
(* never leave two owners relying on one lock, for any number of owners,   *)
(* any ttl and any clock skew the owners allow for.                        *)
THEOREM MutualExclusionAlways == Spec => []MutualExclusion
<1>1. LockInv => MutualExclusion
  BY DEF LockInv, HoldsWhatIsStored, MutualExclusion
<1> QED BY <1>1, LockSafe, PTL

-----------------------------------------------------------------------------
(* Unique enqueue.  A call that has been turned away n times has met n     *)
(* jobs that ended, and one more while it is about to read again: the      *)
(* winner that its insert tripped over was active, so it is none of those. *)
EndedOf(met, status) == {j \in met : status[j] = "Ended"}

UqCallOK(r, status) ==
    /\ r.met \subseteq UniqueIds /\ \A j \in r.met : status[j] # "Unborn"
    /\ r.at \in {"look", "insert", "reread"} => r.tries \in Nat /\ r.tries < MaxAttempts
    /\ r.at \in {"look", "insert"} => Cardinality(EndedOf(r.met, status)) >= r.tries
    /\ r.at = "reread" => Cardinality(r.met) >= r.tries + 1
    /\ r.at \in {"inserted", "existing"} => r.job \in r.met
    /\ r.at = "contended" => Cardinality(r.met) >= MaxAttempts

UniqueInv == UniqueTypeOK /\ \A c \in Callers : UqCallOK(uqCall[c], uqStatus)

(* Sets of jobs are finite, and a larger one has no smaller cardinality.   *)
LEMMA MetIsFinite ==
    ASSUME NEW S \in SUBSET UniqueIds, NEW T \in SUBSET S
    PROVE  /\ IsFiniteSet(S) /\ IsFiniteSet(T)
           /\ Cardinality(S) \in Nat /\ Cardinality(T) \in Nat /\ Cardinality(T) <= Cardinality(S)
<1>1. IsFiniteSet(UniqueIds)
  BY UniqueAssumption, FS_Interval DEF UniqueIds
<1>2. IsFiniteSet(S)
  BY <1>1, FS_Subset
<1> QED BY <1>2, FS_Subset, FS_CardinalityType

(* What a call has met only grows, and what has ended stays ended.         *)
LEMMA UqMeetsMore ==
    ASSUME NEW st, NEW st2, NEW r, NEW r2, UqCallOK(r, st),
           r2.at = r.at, r2.tries = r.tries, r2.job = r.job,
           r.met \subseteq r2.met, r2.met \subseteq UniqueIds,
           \A j \in r2.met : st2[j] # "Unborn",
           \A j \in UniqueIds : st[j] = "Ended" => st2[j] = "Ended",
           MaxAttempts \in Nat
    PROVE  UqCallOK(r2, st2)
<1>1. /\ EndedOf(r.met, st) \subseteq EndedOf(r2.met, st2)
      /\ EndedOf(r2.met, st2) \subseteq UniqueIds
  BY DEF EndedOf, UqCallOK
<1>2. Cardinality(EndedOf(r.met, st)) \in Nat /\ Cardinality(EndedOf(r2.met, st2)) \in Nat
      /\ Cardinality(EndedOf(r.met, st)) <= Cardinality(EndedOf(r2.met, st2))
  BY <1>1, MetIsFinite
<1>3. Cardinality(r.met) \in Nat /\ Cardinality(r2.met) \in Nat /\ Cardinality(r.met) <= Cardinality(r2.met)
  BY MetIsFinite
<1> QED BY <1>2, <1>3 DEF UqCallOK

(* A move of one caller keeps the invariant if it does so for its own row. *)
LEMMA UqGo ==
    ASSUME UniqueInv, NEW c \in Callers, NEW at, NEW tries, NEW job, NEW m,
         Go(c, at, tries, job),
           at \in {"look", "insert", "reread", "inserted", "existing", "contended"},
           tries \in 0..MaxAttempts, job \in UniqueIds \cup {NoJob},
           uqStatus' \in [UniqueIds -> {"Unborn", "Pending", "Running", "Ended"}],
           \A j \in UniqueIds : /\ uqStatus[j] = "Ended" => uqStatus'[j] = "Ended"
                                /\ uqStatus[j] # "Unborn" => uqStatus'[j] # "Unborn",
           m = IF uqCall[c].at = "idle" THEN Active ELSE uqCall[c].met \cup Active',
           UqCallOK([at |-> at, tries |-> tries, job |-> job, met |-> m], uqStatus')
    PROVE  UniqueInv'
<1> DEFINE r == [at |-> at, tries |-> tries, job |-> job, met |-> m]
           more(d) == [uqCall[d] EXCEPT !.met = @ \cup Active']
<1> USE UniqueAssumption
<1>0. Active' \subseteq UniqueIds /\ Active \subseteq UniqueIds /\ \A j \in Active' : uqStatus'[j] # "Unborn"
  BY DEF Active
<1>1. uqCall' = [d \in Callers |-> IF d = c THEN r ELSE IF Calling(d) THEN more(d) ELSE uqCall[d]]
  BY DEF Go
<1>2. ASSUME NEW d \in Callers
     PROVE UqCallOK(uqCall[d], uqStatus') /\ UqCallOK(more(d), uqStatus')
  <2>1. UqCallOK(uqCall[d], uqStatus) /\ uqCall[d].met \subseteq UniqueIds
    BY DEF UniqueInv, UqCallOK
  <2>2. \A j \in uqCall[d].met : uqStatus'[j] # "Unborn"
    BY <2>1 DEF UqCallOK
  <2>3. UqCallOK(uqCall[d], uqStatus')
    BY <2>1, <2>2, UqMeetsMore
  <2>4. /\ more(d).at = uqCall[d].at /\ more(d).tries = uqCall[d].tries /\ more(d).job = uqCall[d].job
        /\ more(d).met = uqCall[d].met \cup Active'
    BY DEF UniqueInv, UniqueTypeOK
  <2> HIDE DEF more
  <2>5. UqCallOK(more(d), uqStatus')
    <3>1. uqCall[d].met \subseteq more(d).met /\ more(d).met \subseteq UniqueIds
      BY <1>0, <2>1, <2>4
    <3>2. \A j \in more(d).met : uqStatus'[j] # "Unborn"
      BY <1>0, <2>2, <2>4
    <3> QED BY <2>1, <2>4, <3>1, <3>2, UqMeetsMore
  <2> QED BY <2>3, <2>5
<1>3. UniqueTypeOK'
  <2>1. m \subseteq UniqueIds
    BY <1>0 DEF UniqueInv, UniqueTypeOK
  <2> QED BY <1>0, <1>1, <2>1 DEF UniqueInv, UniqueTypeOK
<1>4. \A d \in Callers : UqCallOK(uqCall'[d], uqStatus')
  <2> HIDE DEF more, r
  <2>1. UqCallOK(r, uqStatus')
    BY DEF r
  <2> QED BY <1>1, <1>2, <2>1
<1> QED BY <1>3, <1>4 DEF UniqueInv

(* Every action keeps the invariant.                                       *)
LEMMA UniqueStep == UniqueInv /\ [UniqueNext]_uqVars => UniqueInv'
<1> SUFFICES ASSUME UniqueInv, [UniqueNext]_uqVars PROVE UniqueInv'
  OBVIOUS
<1> USE UniqueAssumption
<1>0. /\ uqStatus \in [UniqueIds -> {"Unborn", "Pending", "Running", "Ended"}]
      /\ \A c \in Callers : /\ UqCallOK(uqCall[c], uqStatus) /\ uqCall[c].tries \in 0..MaxAttempts
                            /\ uqCall[c].met \subseteq UniqueIds
  BY DEF UniqueInv, UniqueTypeOK
<1>1. ASSUME NEW c \in Callers, UqBegin(c) PROVE UniqueInv'
  <2>1. Go(c, "look", 0, NoJob) /\ uqStatus' = uqStatus /\ uqCall[c].at = "idle"
    BY <1>1 DEF UqBegin
  <2>2. EndedOf(Active, uqStatus) = {} /\ Active \subseteq UniqueIds
    BY DEF EndedOf, Active
  <2>3. UqCallOK([at |-> "look", tries |-> 0, job |-> NoJob, met |-> Active], uqStatus')
    BY <2>1, <2>2, FS_EmptySet DEF UqCallOK, Active
  <2> QED BY <1>0, <2>1, <2>3, UqGo
<1>2. ASSUME NEW c \in Callers, NEW j \in Active, Go(c, "existing", uqCall[c].tries, j),
             uqStatus' = uqStatus, uqCall[c].at \in {"look", "reread"}
      PROVE  UniqueInv'
  <2>1. /\ Active' = Active /\ j \in UniqueIds /\ uqCall[c].met \cup Active \subseteq UniqueIds
        /\ \A i \in uqCall[c].met \cup Active : uqStatus[i] # "Unborn"
    BY <1>0, <1>2 DEF Active, UqCallOK
  <2>2. UqCallOK([at |-> "existing", tries |-> uqCall[c].tries, job |-> j,
                  met |-> uqCall[c].met \cup Active'], uqStatus')
    BY <1>2, <2>1 DEF UqCallOK
  <2> QED BY <1>0, <1>2, <2>1, <2>2, UqGo
<1>3. ASSUME NEW c \in Callers, UqLook(c), Active = {}, Go(c, "insert", uqCall[c].tries, NoJob)
      PROVE  UniqueInv'
  <2>1. uqCall[c].at = "look" /\ uqStatus' = uqStatus /\ Active' = {}
    BY <1>3 DEF UqLook, Active
  <2>2. uqCall[c].met \cup Active' = uqCall[c].met
    BY <2>1
  <2>3. UqCallOK([at |-> "insert", tries |-> uqCall[c].tries, job |-> NoJob, met |-> uqCall[c].met],
                 uqStatus')
    BY <1>0, <2>1 DEF UqCallOK
  <2> QED BY <1>0, <1>3, <2>1, <2>2, <2>3, UqGo
<1>4. ASSUME NEW c \in Callers, NEW j \in UniqueIds, uqCall[c].at = "insert",
     uqStatus[j] = "Unborn",
             uqStatus' = [uqStatus EXCEPT ![j] = "Pending"], Go(c, "inserted", uqCall[c].tries, j)
      PROVE  UniqueInv'
  <2>1. /\ j \in Active' /\ Active' \subseteq UniqueIds
        /\ uqStatus' \in [UniqueIds -> {"Unborn", "Pending", "Running", "Ended"}]
        /\ \A i \in UniqueIds : /\ uqStatus[i] = "Ended" => uqStatus'[i] = "Ended"
                                /\ uqStatus[i] # "Unborn" => uqStatus'[i] # "Unborn"
        /\ \A i \in uqCall[c].met \cup Active' : uqStatus'[i] # "Unborn"
    BY <1>0, <1>4 DEF Active, UqCallOK
  <2>2. UqCallOK([at |-> "inserted", tries |-> uqCall[c].tries, job |-> j,
                  met |-> uqCall[c].met \cup Active'], uqStatus')
    BY <1>0, <2>1 DEF UqCallOK
  <2> QED BY <1>0, <1>4, <2>1, <2>2, UqGo
<1>5. ASSUME NEW c \in Callers, uqCall[c].at = "insert", Active # {}, uqStatus' = uqStatus,
             Go(c, "reread", uqCall[c].tries, NoJob)
      PROVE  UniqueInv'
  <2> DEFINE ended == EndedOf(uqCall[c].met, uqStatus)
             met   == uqCall[c].met \cup Active'
  <2>1. PICK j \in Active : TRUE
    BY <1>5
  <2>2. /\ Active' = Active /\ j \in UniqueIds /\ j \notin ended /\ j \in met
        /\ ended \subseteq met /\ met \subseteq UniqueIds
        /\ \A i \in met : uqStatus[i] # "Unborn"
    BY <1>0, <1>5 DEF Active, UqCallOK, EndedOf
  <2>3. /\ uqCall[c].tries \in Nat /\ uqCall[c].tries < MaxAttempts
        /\ Cardinality(ended) >= uqCall[c].tries
    BY <1>0, <1>5 DEF UqCallOK
  <2> HIDE DEF ended, met
  <2>4. IsFiniteSet(ended) /\ Cardinality(ended) \in Nat /\ Cardinality(met) \in Nat
        /\ ended \cup {j} \subseteq met
    BY <2>2, MetIsFinite
  <2>5. Cardinality(ended \cup {j}) = Cardinality(ended) + 1
    BY <2>2, <2>4, FS_AddElement
  <2>6. Cardinality(ended \cup {j}) <= Cardinality(met)
    BY <2>2, <2>4, MetIsFinite
  <2>7. Cardinality(met) >= uqCall[c].tries + 1
    BY <2>3, <2>4, <2>5, <2>6
  <2>8. UqCallOK([at |-> "reread", tries |-> uqCall[c].tries, job |-> NoJob, met |-> met], uqStatus')
    BY <1>5, <2>2, <2>3, <2>7 DEF UqCallOK
  <2>9. met = uqCall[c].met \cup Active'
    BY DEF met
  <2> QED BY <1>0, <1>5, <2>8, <2>9, UqGo
<1>6. ASSUME NEW c \in Callers, uqCall[c].at = "reread", Active = {}, uqStatus' = uqStatus,
             IF uqCall[c].tries + 1 < MaxAttempts
             THEN Go(c, "look", uqCall[c].tries + 1, NoJob)
             ELSE Go(c, "contended", MaxAttempts, NoJob)
      PROVE  UniqueInv'
  <2>1. /\ Active' = {} /\ uqCall[c].met \cup Active' = uqCall[c].met
    BY <1>6 DEF Active
  <2>2. EndedOf(uqCall[c].met, uqStatus) = uqCall[c].met
    BY <1>0, <1>6 DEF EndedOf, Active, UqCallOK
  <2>3. /\ Cardinality(uqCall[c].met) >= uqCall[c].tries + 1 /\ uqCall[c].tries \in Nat
        /\ uqCall[c].tries < MaxAttempts /\ Cardinality(uqCall[c].met) \in Nat
        /\ \A j \in uqCall[c].met : uqStatus[j] # "Unborn"
    BY <1>0, <1>6, MetIsFinite DEF UqCallOK
  <2>4. CASE uqCall[c].tries + 1 < MaxAttempts
    <3>1. UqCallOK([at |-> "look", tries |-> uqCall[c].tries + 1, job |-> NoJob,
                    met |-> uqCall[c].met], uqStatus')
      BY <1>0, <1>6, <2>2, <2>3, <2>4 DEF UqCallOK
    <3> QED BY <1>0, <1>6, <2>1, <2>3, <2>4, <3>1, UqGo
  <2>5. CASE ~(uqCall[c].tries + 1 < MaxAttempts)
    <3>1. UqCallOK([at |-> "contended", tries |-> MaxAttempts, job |-> NoJob,
                    met |-> uqCall[c].met], uqStatus')
      BY <1>0, <1>6, <2>3, <2>5 DEF UqCallOK
    <3> QED BY <1>0, <1>6, <2>1, <2>5, <3>1, UqGo
  <2> QED BY <2>4, <2>5
<1>7. ASSUME NEW c \in Callers, UqReturn(c) PROVE UniqueInv'
  <2>1. uqStatus' = uqStatus /\ uqCall' = [uqCall EXCEPT ![c] = UqIdle]
    BY <1>7 DEF UqReturn
  <2>2. UqCallOK(UqIdle, uqStatus)
    BY DEF UqCallOK, UqIdle
  <2>3. UniqueTypeOK'
    BY <2>1 DEF UniqueInv, UniqueTypeOK, UqIdle
  <2> QED BY <1>0, <2>1, <2>2, <2>3 DEF UniqueInv, UniqueTypeOK
<1>8. ASSUME NEW j \in UniqueIds, UqRun(j) PROVE UniqueInv'
  <2>1. /\ uqCall' = uqCall
        /\ uqStatus' \in [UniqueIds -> {"Unborn", "Pending", "Running", "Ended"}]
        /\ \A i \in UniqueIds : /\ uqStatus[i] = "Ended" => uqStatus'[i] = "Ended"
                                /\ uqStatus[i] # "Unborn" => uqStatus'[i] # "Unborn"
    BY <1>0, <1>8 DEF UqRun
  <2>2. ASSUME NEW c \in Callers PROVE UqCallOK(uqCall[c], uqStatus')
    <3>1. \A i \in uqCall[c].met : uqStatus'[i] # "Unborn"
      BY <1>0, <2>1 DEF UqCallOK
    <3> QED BY <1>0, <2>1, <3>1, UqMeetsMore
  <2> QED BY <2>1, <2>2 DEF UniqueInv, UniqueTypeOK
<1>9. CASE UNCHANGED uqVars
  BY <1>9 DEF uqVars, UniqueInv, UniqueTypeOK
<1>10. ASSUME NEW c \in Callers, UqLook(c) PROVE UniqueInv'
  BY <1>2, <1>3, <1>10 DEF UqLook
<1>11. ASSUME NEW c \in Callers, UqInsert(c) PROVE UniqueInv'
  BY <1>4, <1>5, <1>11 DEF UqInsert
<1>12. ASSUME NEW c \in Callers, UqReread(c) PROVE UniqueInv'
  BY <1>2, <1>6, <1>12 DEF UqReread
<1> QED BY <1>1, <1>7, <1>8, <1>9, <1>10, <1>11, <1>12 DEF UniqueNext

(* enqueue_unique_reporting: its three answers are true, whatever the      *)
(* number of callers and attempts.                                         *)
THEOREM AnswersAreTrueAlways == UniqueSpec => []AnswersAreTrue
<1>1. UniqueInit => UniqueInv
  BY UniqueAssumption DEF UniqueInit, UniqueInv, UniqueTypeOK, UqIdle, UqCallOK
<1>2. UniqueInv => AnswersAreTrue
  BY DEF UniqueInv, UqCallOK, AnswersAreTrue
<1> QED BY <1>1, <1>2, UniqueStep, PTL DEF UniqueSpec

-----------------------------------------------------------------------------
(* Dead letters.  A scheduler works off a list that may be old, but what   *)
(* it says of an entry's count stays true, for a count is written once,    *)
(* when the job is born.                                                   *)
ListedHaveRetriesLeft ==
    \A a \in AutoRetriers : \A j \in dlCall[a].todo \cup dlCall[a].row :
        line[j].state # "unborn" /\ line[j].count < AutoMax
CountedInTheLife ==
    \E j \in LineIds : Lives = {j} /\ autoDone <= line[j].count
LineRow == [state : {"unborn", "live", "dead", "retried", "succeeded", "purged"},
            count : Nat, shed : BOOLEAN, aged : BOOLEAN]
DeadLetterInv ==
    DeadLetterTypeOK /\ ListedHaveRetriesLeft /\ CountedInTheLife /\ autoDone <= AutoMax

(* Every action keeps the invariant: only a commit moves the life on, and  *)
(* it counts.                                                              *)
LEMMA DeadLetterStep == DeadLetterInv /\ [DeadLetterNext]_dlVars => DeadLetterInv'
<1> SUFFICES ASSUME DeadLetterInv, [DeadLetterNext]_dlVars PROVE DeadLetterInv'
  OBVIOUS
<1> USE LineAssumption DEF DeadLetterInv, DeadLetterTypeOK, ListedHaveRetriesLeft
<1>0. PICK l \in LineIds : Lives = {l} /\ autoDone <= line[l].count
  BY DEF CountedInTheLife
<1>1. ASSUME NEW j \in LineIds, DlSucceed(j) \/ DlFail(j) \/ DlAge(j) \/ DlPurge(j)
      PROVE  DeadLetterInv'
  <2>1. DeadLetterTypeOK'
    <3>1. CASE DlSucceed(j)
      BY <3>1 DEF DlSucceed
    <3>2. CASE DlFail(j)
      <4>1. PICK s \in BOOLEAN : line' = [line EXCEPT ![j].state = "dead", ![j].shed = s]
        BY <3>2 DEF DlFail
      <4>2. [line[j] EXCEPT !.state = "dead", !.shed = s] \in LineRow
        BY DEF LineRow
      <4> QED BY <3>2, <4>1, <4>2 DEF DlFail, LineRow
    <3>3. CASE DlAge(j)
      BY <3>3 DEF DlAge
    <3>4. CASE DlPurge(j)
      BY <3>4 DEF DlPurge
    <3> QED BY <1>1, <3>1, <3>2, <3>3, <3>4
  <2>2. /\ UNCHANGED <<dlCall, autoDone>>
        /\ \A i \in LineIds : /\ line'[i].count = line[i].count
                              /\ line[i].state # "unborn" => line'[i].state # "unborn"
    BY <1>1 DEF DlSucceed, DlFail, DlAge, DlPurge
  <2>3. Lives' = Lives
    BY <1>1 DEF DlSucceed, DlFail, DlAge, DlPurge, Lives
  <2>4. CountedInTheLife'
    BY <1>0, <2>2, <2>3 DEF CountedInTheLife
  <2>5. ListedHaveRetriesLeft'
    BY <2>2
  <2> QED BY <2>1, <2>2, <2>4, <2>5
<1>2. ASSUME NEW a \in AutoRetriers, DlList(a) PROVE DeadLetterInv'
  <2>1. Lives' = Lives /\ CountedInTheLife'
    BY <1>2 DEF DlList, Lives, CountedInTheLife
  <2> QED BY <1>2, <2>1 DEF DlList, DlIdle, Eligible
<1>3. ASSUME NEW a \in Operators, NEW j \in LineIds, DlChoose(a, j) PROVE DeadLetterInv'
  <2>1. Lives' = Lives /\ CountedInTheLife'
    BY <1>3 DEF DlChoose, Lives, CountedInTheLife
  <2> QED BY <1>3, <2>1 DEF DlChoose, DlIdle
<1>4. ASSUME NEW a \in AutoRetriers \cup Operators, NEW j \in LineIds,
             DlRead(a, j) \/ DlRollback(a, j)
      PROVE  DeadLetterInv'
  <2>1. Lives' = Lives /\ CountedInTheLife'
    BY <1>4 DEF DlRead, DlRollback, Lives, CountedInTheLife
  <2>2. /\ dlCall' \in [AutoRetriers \cup Operators -> [todo : SUBSET LineIds, row : SUBSET LineIds]]
        /\ \A b \in AutoRetriers \cup Operators :
               dlCall'[b].todo \cup dlCall'[b].row \subseteq dlCall[b].todo \cup dlCall[b].row
    BY SMTT(30), <1>4 DEF DlRead, DlRollback
  <2> QED BY <1>4, <2>1, <2>2 DEF DlRead, DlRollback
<1>5. ASSUME NEW a \in AutoRetriers \cup Operators, NEW j \in LineIds, NEW k \in LineIds,
             DlCommit(a, j, k)
      PROVE  DeadLetterInv'
  <2>1. /\ j # k /\ line[j].state = "dead" /\ line[k].state = "unborn" /\ j \in dlCall[a].row
        /\ line[j].count \in Nat /\ autoDone \in Nat
    BY <1>5 DEF DlCommit, Fresh
  <2>2. /\ line'[k].state = "live" /\ line'[k].count = line[j].count + 1
        /\ line'[j].state = "retried" /\ line'[j].count = line[j].count
        /\ \A i \in LineIds \ {j, k} : line'[i] = line[i]
        /\ line' \in [LineIds -> LineRow]
    <3>1. /\ [line[k] EXCEPT !.state = "live", !.count = line[j].count + 1] \in LineRow
          /\ [line[j] EXCEPT !.state = "retried"] \in LineRow
      <4>1. line[j] \in LineRow /\ line[k] \in LineRow /\ line[j].count + 1 \in Nat
        BY <2>1 DEF LineRow
      <4> QED BY ONLY <4>1 DEF LineRow
    <3>2. line' = [line EXCEPT ![k] = [line[k] EXCEPT !.state = "live", !.count = line[j].count + 1],
                               ![j] = [line[j] EXCEPT !.state = "retried"]]
      BY <1>5, <2>1 DEF DlCommit
    <3>3. line \in [LineIds -> LineRow]
      BY DEF LineRow
    <3> QED BY <2>1, <3>1, <3>2, <3>3 DEF LineRow
  <2>3. l = j
    BY <1>0, <2>1 DEF Lives
  <2>4. Lives' = {k}
    BY <1>0, <2>2, <2>3 DEF Lives
  <2>5. /\ autoDone' \in Nat /\ autoDone' <= autoDone + 1
        /\ autoDone' # autoDone => a \in AutoRetriers
    BY <1>5, <2>1 DEF DlCommit, Counted
  <2>6. autoDone' <= line[j].count + 1 /\ (autoDone' # autoDone => line[j].count < AutoMax)
    BY <1>0, <2>1, <2>3, <2>5
  <2>7. autoDone' <= AutoMax
    <3>1. CASE autoDone' = autoDone
      BY <3>1
    <3>2. CASE autoDone' # autoDone
      BY <2>1, <2>5, <2>6, <3>2
    <3> QED BY <3>1, <3>2
  <2>8. CountedInTheLife'
    BY <2>2, <2>4, <2>6 DEF CountedInTheLife
  <2>9. /\ dlCall' \in [AutoRetriers \cup Operators -> [todo : SUBSET LineIds, row : SUBSET LineIds]]
        /\ \A b \in AutoRetriers \cup Operators :
               dlCall'[b].todo \cup dlCall'[b].row \subseteq dlCall[b].todo \cup dlCall[b].row
    BY <1>5 DEF DlCommit
  <2>10. ListedHaveRetriesLeft'
    BY <2>1, <2>2, <2>9
  <2> QED BY <2>2, <2>5, <2>7, <2>8, <2>9, <2>10 DEF LineRow
<1>6. CASE UNCHANGED dlVars
  BY <1>6 DEF dlVars, CountedInTheLife, Lives
<1> QED BY <1>1, <1>2, <1>3, <1>4, <1>5, <1>6 DEF DeadLetterNext, DlRetry

(* retry_dead and auto_retry_dlq: one life, for any schedulers, operators  *)
(* and limit.                                                              *)
THEOREM OneLifeAlways == DeadLetterSpec => []OneLife
<1>1. DeadLetterInit => DeadLetterInv
  <2> SUFFICES ASSUME DeadLetterInit PROVE DeadLetterInv
    OBVIOUS
  <2>1. /\ 1 \in LineIds /\ line[1].state = "live" /\ line[1].count = 0
        /\ \A j \in LineIds \ {1} : line[j].state = "unborn"
    BY LineAssumption DEF DeadLetterInit, LineIds, DlUnborn
  <2>2. DeadLetterTypeOK
    BY LineAssumption DEF DeadLetterInit, DeadLetterTypeOK, LineIds, DlUnborn, DlIdle
  <2>3. Lives = {1}
    BY <2>1 DEF Lives
  <2>4. ListedHaveRetriesLeft
    BY DEF DeadLetterInit, ListedHaveRetriesLeft, DlIdle
  <2>5. CountedInTheLife
    <3>1. autoDone <= line[1].count
      BY <2>1 DEF DeadLetterInit
    <3> QED BY <2>1, <2>3, <3>1, Zenon DEF CountedInTheLife
  <2> QED BY <2>2, <2>4, <2>5, LineAssumption DEF DeadLetterInit, DeadLetterInv
<1>2. DeadLetterInv => OneLife
  BY DEF DeadLetterInv, CountedInTheLife, OneLife
<1> QED BY <1>1, <1>2, DeadLetterStep, PTL DEF DeadLetterSpec

-----------------------------------------------------------------------------
(* Periodic tasks.  A check about to move the schedule on has a job        *)
(* enqueued under its own stamp, and reads a cron that was once declared.  *)
AdvancesBehindItsJob ==
    \A s \in Firers : check[s].at = "advance" =>
        /\ check[s].cron \in Crons
        /\ \E f \in fired : f.stamp = check[s].stamp
PeriodicInv ==
    /\ PeriodicTypeOK /\ AdvancesBehindItsJob
    /\ \A s \in Firers : check[s].at = "fire" => check[s].cron \in Crons

(* next_run: a slot before the next run after p is not after p.            *)
LEMMA SlotBeforeNextRun ==
    ASSUME NEW c \in Nat \ {0}, NEW p \in Nat, NEW t \in Nat, t % c = 0, t < NextRun(c, p)
    PROVE  t <= p
<1>1. /\ t = c * (t \div c) + (t % c) /\ t \div c \in Nat
      /\ p = c * (p \div c) + (p % c) /\ p \div c \in Nat /\ p % c \in Nat
  BY Z3T(30)
<1>2. c * (t \div c) < c * ((p \div c) + 1)
  BY <1>1 DEF NextRun
<1>3. ASSUME NEW a \in Nat, NEW b \in Nat, c * a < c * (b + 1) PROVE c * a <= c * b
  <2>1. CASE a <= b
    BY <2>1, Z3T(30)
  <2>2. CASE a >= b + 1
    BY <1>3, <2>2, Z3T(30)
  <2> QED BY <2>1, <2>2
<1>4. c * (t \div c) <= c * (p \div c)
  BY <1>1, <1>2, <1>3
<1> QED BY <1>1, <1>4

(* next_run is a time.                                                     *)
LEMMA NextRunIsNat == ASSUME NEW c \in Nat, NEW p \in Nat, c # 0 PROVE NextRun(c, p) \in Nat
<1>1. p \div c \in Nat
  BY Z3T(30)
<1> QED BY <1>1 DEF NextRun

(* Every action keeps the invariant.                                       *)
LEMMA PeriodicStep == PeriodicInv /\ [PeriodicNext]_perVars => PeriodicInv'
<1> SUFFICES ASSUME PeriodicInv, [PeriodicNext]_perVars PROVE PeriodicInv'
  OBVIOUS
<1> USE PeriodicAssumption DEF PeriodicInv, PeriodicTypeOK, AdvancesBehindItsJob
<1> DEFINE Row == [cron : Crons, next : Nat, enabled : BOOLEAN]
<1>0. ASSUME schedule' \in Row, perNow' \in 0..MaxNow, UNCHANGED <<check, fired>>
     PROVE PeriodicInv'
  BY <1>0
<1>1. CASE PerTick \/ set_periodic_enabled
  <2>1. CASE PerTick
    BY <1>0, <2>1 DEF PerTick
  <2>2. CASE set_periodic_enabled
    <3>1. [schedule EXCEPT !.enabled = ~schedule.enabled] \in Row
      <4>1. (~schedule.enabled) \in BOOLEAN
        OBVIOUS
      <4> QED BY <4>1
    <3> QED BY <1>0, <2>2, <3>1 DEF set_periodic_enabled
  <2> QED BY <1>1, <2>1, <2>2
<1>2. ASSUME NEW c \in Crons, declare_periodic(c) PROVE PeriodicInv'
  <2>1. PICK n \in Nat : schedule' = [schedule EXCEPT !.cron = c, !.next = n]
    <3>1. schedule.next \in Nat /\ perNow \in Nat /\ c \in Nat /\ c # 0
      OBVIOUS
    <3>2. (IF c = schedule.cron THEN schedule.next ELSE NextRun(c, perNow)) \in Nat
      BY <3>1, NextRunIsNat
    <3> QED BY <1>2, <3>2 DEF declare_periodic
  <2>2. [schedule EXCEPT !.cron = c, !.next = n] \in Row
    OBVIOUS
  <2> QED BY <1>0, <1>2, <2>1, <2>2 DEF declare_periodic
<1>3. ASSUME NEW s \in Firers, ReadDue(s) PROVE PeriodicInv'
  BY <1>3 DEF ReadDue, PerIdle
<1>4. ASSUME NEW s \in Firers, fire_periodic(s) PROVE PeriodicInv'
  <2>1. CASE check' = [check EXCEPT ![s].at = "advance"]
    <3>1. /\ fired \subseteq fired' /\ fired' \subseteq [stamp : 0..MaxNow, slot : Nat]
          /\ \E f \in fired' : f.stamp = check[s].stamp
      <4> DEFINE new == [stamp |-> check[s].stamp, slot |-> check[s].slot]
      <4>1. new \in [stamp : 0..MaxNow, slot : Nat] /\ new.stamp = check[s].stamp
        OBVIOUS
      <4>2. CASE fired' = fired /\ \E f \in fired : f.stamp = check[s].stamp
        BY <4>2
      <4>3. CASE fired' = fired \cup {new}
        BY <4>1, <4>3
      <4>4. check' # [check EXCEPT ![s] = PerIdle]
        BY <2>1 DEF PerIdle
      <4> QED BY <1>4, <4>2, <4>3, <4>4 DEF fire_periodic, Enqueued
    <3>2. ASSUME NEW u \in Firers, check'[u].at = "advance"
          PROVE  check'[u].cron \in Crons /\ \E f \in fired' : f.stamp = check'[u].stamp
      <4>1. CASE u = s
        BY <1>4, <2>1, <3>1, <4>1 DEF fire_periodic
      <4>2. CASE u # s
        BY <2>1, <3>1, <3>2, <4>2
      <4> QED BY <4>1, <4>2
    <3> QED BY <1>4, <2>1, <3>1, <3>2 DEF fire_periodic
  <2>2. CASE fired' = fired /\ check' = [check EXCEPT ![s] = PerIdle]
    BY <1>4, <2>2 DEF fire_periodic, PerIdle
  <2> QED BY <1>4, <2>1, <2>2 DEF fire_periodic
<1>5. ASSUME NEW s \in Firers, update_periodic_schedule(s) PROVE PeriodicInv'
  BY <1>5, NextRunIsNat DEF update_periodic_schedule, PerIdle
<1>6. ASSUME NEW s \in Firers, PerCrash(s) PROVE PeriodicInv'
  BY <1>6 DEF PerCrash, PerIdle
<1>7. CASE UNCHANGED perVars
  BY <1>7 DEF perVars
<1> QED BY <1>1, <1>2, <1>3, <1>4, <1>5, <1>6, <1>7 DEF PeriodicNext

(* check_periodic: no slot is skipped by a check, for any schedules and    *)
(* any number of schedulers.                                               *)
THEOREM NoSlotIsSkipped == PeriodicSpec => NoSlotSkipped
<1> DEFINE Skips(s) == /\ check[s].at = "advance" /\ check'[s].at = "idle"
                       /\ check[s].cron = schedule.cron
           Kept(s) == Skips(s) => \A t \in schedule.next..(schedule'.next - 1) :
                          t % schedule.cron = 0 => \E f \in fired : f.stamp >= t
<1>1. PeriodicInit => PeriodicInv
  BY PeriodicAssumption, NextRunIsNat
     DEF PeriodicInit, PeriodicInv, PeriodicTypeOK, AdvancesBehindItsJob, PerIdle
<1>2. PeriodicInv /\ [PeriodicNext]_perVars => [\A s \in Firers : Kept(s)]_perVars
  <2> SUFFICES ASSUME PeriodicInv, [PeriodicNext]_perVars, NEW s \in Firers, Skips(s),
                      NEW t \in schedule.next..(schedule'.next - 1), t % schedule.cron = 0
               PROVE  \E f \in fired : f.stamp >= t
    OBVIOUS
  <2>0. /\ schedule \in [cron : Crons, next : Nat, enabled : BOOLEAN] /\ t \in Int
        /\ schedule.cron \in Nat \ {0} /\ schedule.next \in Nat /\ check[s].stamp \in Nat
    <3>1. /\ schedule \in [cron : Crons, next : Nat, enabled : BOOLEAN] /\ t \in Int
          /\ check[s].stamp \in Nat /\ schedule.next \in Nat /\ schedule.cron \in Crons
      BY PeriodicAssumption DEF PeriodicInv, PeriodicTypeOK
    <3> QED BY <3>1, PeriodicAssumption
  <2>1. CASE schedule' = [schedule EXCEPT !.next = NextRun(check[s].cron, check[s].stamp)]
    <3>1. schedule'.next = NextRun(schedule.cron, check[s].stamp) /\ schedule'.next \in Nat
      BY <2>0, <2>1, NextRunIsNat
    <3>2. t \in Nat /\ t < NextRun(schedule.cron, check[s].stamp)
      BY <2>0, <3>1
    <3>3. t <= check[s].stamp
      BY <2>0, <3>2, SlotBeforeNextRun
    <3>4. PICK f \in fired : f.stamp = check[s].stamp
      BY DEF PeriodicInv, AdvancesBehindItsJob
    <3> QED BY <2>0, <3>2, <3>3, <3>4
  <2>2. CASE schedule' = schedule
    BY <2>0, <2>2
  <2>3. \/ schedule' = schedule
        \/ schedule' = [schedule EXCEPT !.next = NextRun(check[s].cron, check[s].stamp)]
    <3>1. ASSUME NEW u \in Firers,
                 ReadDue(u) \/ fire_periodic(u) \/ update_periodic_schedule(u) \/ PerCrash(u)
          PROVE  schedule' = schedule \/ (u = s /\ update_periodic_schedule(s))
      BY <3>1 DEF ReadDue, fire_periodic, update_periodic_schedule, PerCrash, PerIdle,
        PeriodicInv, PeriodicTypeOK
    <3>2. CASE PerTick \/ set_periodic_enabled \/ \E c \in Crons : declare_periodic(c)
      BY <3>2 DEF PerTick, set_periodic_enabled, declare_periodic
    <3>3. CASE UNCHANGED perVars
      BY <3>3 DEF perVars
    <3> QED BY <3>1, <3>2, <3>3 DEF PeriodicNext, update_periodic_schedule
  <2> QED BY <2>1, <2>2, <2>3
<1> QED BY <1>1, <1>2, PeriodicStep, PTL DEF PeriodicSpec, NoSlotSkipped

-----------------------------------------------------------------------------
(* Concurrency caps.  Two invariants.  That a book stays within its budget *)
(* needs nothing but itself, and holds whatever the reaper does (BookInv). *)
(* That the caps hold is an argument about counts, and stands as long as   *)
(* the reaper takes no row out of a batch or a gate (CapsInv).  A row it   *)
(* takes from a pool leaves the counts and the dispatches they are         *)
(* compared with together.  Who has been counted against a scope: jobs a pool    *)
(* has, and jobs at a gate that got past the scope.  A scheduler's count   *)
(* may be old when it is used, and then does not contain what others have  *)
(* admitted since; but those counted later, when its own batch was already *)
(* Running.  So of any schedulers that have counted a scope, the count of  *)
(* one, the last, covers all that was admitted and all their batches.      *)
PastScope(s, j, c) == \E i \in DOMAIN ScopesOf[j] : i < gate[s].at /\ ScopesOf[j][i] = c
AdmittedBy(s, c) ==
    {j \in CapJobs : InScope(j, c) /\ (j \in inFlight[s] \/ (j \in gate[s].job /\ PastScope(s, j, c)))}
Admitted(c) == {j \in CapJobs : \E s \in Dispatchers : j \in AdmittedBy(s, c)}
InHands(c, S) == {j \in CapJobs : InScope(j, c) /\ \E s \in S : j \in InHand(s)}
Claimants(c, S) == Admitted(c) \cup InHands(c, S)
HaveCounted(c) == {s \in Dispatchers : counts[s][c] # Unread}

CapsTypes ==
    /\ capRow \in [CapJobs -> {"Pending", "Running", "Done"}]
    /\ batch \in [Dispatchers -> SUBSET CapJobs]
    /\ inFlight \in [Dispatchers -> SUBSET CapJobs]
    /\ gate \in [Dispatchers -> [job : SUBSET CapJobs, at : Nat]]
    /\ \A s \in Dispatchers : gate[s] = CapIdle \/ \E j \in CapJobs : gate[s].job = {j}
    /\ counts \in [Dispatchers -> [Scopes -> Nat \cup {Unread}]]

(* A job is in one place, and its row is Running.                          *)
HeldOnce ==
    \A s \in Dispatchers : \A j \in InHand(s) \cup inFlight[s] :
        /\ capRow[j] = "Running"
        /\ \A t \in Dispatchers : j \in InHand(t) \cup inFlight[t] => t = s
        /\ j \in batch[s] => j \notin gate[s].job
        /\ j \in InHand(s) => j \notin inFlight[s]

BookTypes ==
    /\ batch \in [Dispatchers -> SUBSET CapJobs]
    /\ inFlight \in [Dispatchers -> SUBSET CapJobs] /\ overrun \in [Dispatchers -> SUBSET CapJobs]
    /\ gate \in [Dispatchers -> [job : SUBSET CapJobs, at : Nat]]

Hands(s) == InHand(s) \cup Book(s)

WithinBudget == \A s \in Dispatchers : Cardinality(Hands(s)) <= MaxInFlight

BookInv == BookTypes /\ WithinBudget

(* A count covers what is left of its own batch.                           *)
CoversBatch ==
    \A c \in Scopes : \A s \in HaveCounted(c) : Cardinality(InHands(c, {s})) <= counts[s][c]

Fits(c, S) ==
    \E s \in S : Cardinality(Claimants(c, S)) <= Limit[c] \/ Cardinality(Claimants(c, S)) <= counts[s][c]

CountsCover ==
    \A c \in Scopes : /\ Cardinality(Admitted(c)) <= Limit[c]
                      /\ \A S \in SUBSET HaveCounted(c) : S # {} => Fits(c, S)

CapsInv == CapsTypes /\ HeldOnce /\ CoversBatch /\ CountsCover

(* Sets of jobs compare by inclusion.                                      *)
LEMMA FewerJobs ==
    ASSUME NEW A, NEW B \in SUBSET CapJobs, A \subseteq B
    PROVE  /\ Cardinality(A) \in Nat /\ Cardinality(B) \in Nat
           /\ Cardinality(A) <= Cardinality(B)
           /\ \A j \in B \ A : Cardinality(A) <= Cardinality(B) - 1
<1>1. IsFiniteSet(B)
  BY CapsAssumption, FS_Subset
<1>2. IsFiniteSet(A) /\ Cardinality(A) <= Cardinality(B)
  BY <1>1, FS_Subset
<1>3. Cardinality(A) \in Nat /\ Cardinality(B) \in Nat
  BY <1>1, <1>2, FS_CardinalityType
<1>4. ASSUME NEW j \in B \ A PROVE Cardinality(A) <= Cardinality(B) - 1
  <2>1. IsFiniteSet(B \ {j}) /\ Cardinality(B \ {j}) = Cardinality(B) - 1
    BY <1>1, FS_RemoveElement
  <2>2. A \in SUBSET (B \ {j})
    OBVIOUS
  <2> QED BY <2>1, <2>2, FS_Subset
<1> QED BY <1>2, <1>3, <1>4

(* Where nobody takes more and no count changes, a scope stays covered.    *)
LEMMA CoverKept ==
    ASSUME CapsInv, NEW c \in Scopes, HaveCounted(c)' \subseteq HaveCounted(c),
           \A t \in Dispatchers : AdmittedBy(t, c)' \subseteq AdmittedBy(t, c),
           \A t \in HaveCounted(c)' : InHand(t)' \subseteq InHand(t) /\ counts'[t][c] = counts[t][c]
    PROVE  /\ Cardinality(Admitted(c)') <= Limit[c]
           /\ \A S \in SUBSET HaveCounted(c)' : S # {} => Fits(c, S)'
           /\ \A s \in HaveCounted(c)' : Cardinality(InHands(c, {s})') <= counts'[s][c]
<1> Limit[c] \in Nat
  BY CapsAssumption
<1>1. Admitted(c)' \subseteq Admitted(c) /\ Admitted(c) \in SUBSET CapJobs
  BY DEF Admitted
<1>2. Cardinality(Admitted(c)') <= Limit[c]
  <2> HIDE DEF Admitted
  <2>1. Cardinality(Admitted(c)) <= Limit[c]
    BY DEF CapsInv, CountsCover
  <2> QED BY <1>1, <2>1, FewerJobs
<1>3. ASSUME NEW S \in SUBSET HaveCounted(c)', S # {} PROVE Fits(c, S)'
  <2>1. Claimants(c, S)' \subseteq Claimants(c, S) /\ Claimants(c, S) \in SUBSET CapJobs
    BY <1>1 DEF Claimants, InHands, InScope
  <2>2. S \in SUBSET HaveCounted(c)
    OBVIOUS
  <2>3. PICK s \in S : Cardinality(Claimants(c, S)) <= Limit[c] \/ Cardinality(Claimants(c, S)) <= counts[s][c]
    BY <1>3, <2>2 DEF CapsInv, CountsCover, Fits
  <2>4. counts'[s][c] = counts[s][c] /\ counts[s][c] \in Nat
    BY <2>2 DEF CapsInv, CapsTypes, HaveCounted
  <2>5. /\ Cardinality(Claimants(c, S)') \in Nat /\ Cardinality(Claimants(c, S)) \in Nat
        /\ Cardinality(Claimants(c, S)') <= Cardinality(Claimants(c, S))
    BY <2>1, FewerJobs
  <2>6. Cardinality(Claimants(c, S)') <= Limit[c] \/ Cardinality(Claimants(c, S)') <= counts'[s][c]
    BY <2>3, <2>4, <2>5
  <2> QED BY <2>6 DEF Fits
<1>4. ASSUME NEW s \in HaveCounted(c)' PROVE Cardinality(InHands(c, {s})') <= counts'[s][c]
  <2>1. InHands(c, {s})' \subseteq InHands(c, {s}) /\ InHands(c, {s}) \in SUBSET CapJobs
    BY <1>4 DEF InHands, InScope
  <2>2. Cardinality(InHands(c, {s})) <= counts[s][c] /\ counts'[s][c] = counts[s][c] /\ counts[s][c] \in Nat
    BY <1>4 DEF CapsInv, CoversBatch, CapsTypes, HaveCounted
  <2>3. /\ Cardinality(InHands(c, {s})') \in Nat /\ Cardinality(InHands(c, {s})) \in Nat
        /\ Cardinality(InHands(c, {s})') <= Cardinality(InHands(c, {s}))
    BY <2>1, FewerJobs
  <2> QED BY <2>2, <2>3
<1> QED BY <1>2, <1>3, <1>4

(* in_flight_remaining: a batch is no larger than what the budget leaves,  *)
(* and no other step of anybody puts more into a scheduler's hands.        *)
LEMMA BookStep == BookInv /\ [CapsNext]_capVars => BookInv'
<1> SUFFICES ASSUME BookInv, [CapsNext]_capVars PROVE BookInv'
  OBVIOUS
<1>0. \A t \in Dispatchers : Hands(t) \in SUBSET CapJobs
  BY DEF BookInv, BookTypes, Hands, InHand, Book
<1>1. ASSUME BookTypes', \A t \in Dispatchers : Hands(t)' \subseteq Hands(t) PROVE BookInv'
  <2> SUFFICES ASSUME NEW t \in Dispatchers PROVE Cardinality(Hands(t)') <= MaxInFlight
    BY <1>1 DEF BookInv, WithinBudget
  <2>1. /\ Cardinality(Hands(t)') \in Nat /\ Cardinality(Hands(t)) \in Nat
        /\ Cardinality(Hands(t)') <= Cardinality(Hands(t))
    BY <1>0, <1>1, FewerJobs
  <2>2. Cardinality(Hands(t)) <= MaxInFlight /\ MaxInFlight \in Nat
    BY CapsAssumption DEF BookInv, WithinBudget
  <2> QED BY <2>1, <2>2
<1>2. CASE UNCHANGED capVars
  BY <1>1, <1>2 DEF capVars, BookInv, BookTypes, Hands, InHand, Book
<1>3. ASSUME NEW s \in Dispatchers, NEW B \in SUBSET CapJobs, CapDequeue(s, B) PROVE BookInv'
  <2>1. BookTypes'
    BY <1>3 DEF CapDequeue, BookInv, BookTypes
  <2>2. /\ Hands(s)' = B \cup Book(s) /\ Book(s) \in SUBSET CapJobs
        /\ \A t \in Dispatchers : t # s => Hands(t)' = Hands(t)
    BY <1>3 DEF CapDequeue, BookInv, BookTypes, Hands, InHand, Book, CapIdle
  <2>3. IsFiniteSet(B) /\ IsFiniteSet(Book(s)) /\ IsFiniteSet(B \cap Book(s))
    BY <2>2, CapsAssumption, FS_Subset
  <2>4. Cardinality(B \cup Book(s)) = Cardinality(B) + Cardinality(Book(s)) - Cardinality(B \cap Book(s))
    BY <2>3, FS_Union
  <2>5. /\ Cardinality(B) \in Nat /\ Cardinality(Book(s)) \in Nat
        /\ Cardinality(B \cap Book(s)) \in Nat /\ MaxInFlight \in Nat
    BY <2>3, FS_CardinalityType, CapsAssumption
  <2>6. Cardinality(B) + Cardinality(Book(s)) <= MaxInFlight
    BY <1>3 DEF CapDequeue
  <2>7. Cardinality(B \cup Book(s)) <= MaxInFlight
    BY <2>4, <2>5, <2>6
  <2>8. ASSUME NEW t \in Dispatchers PROVE Cardinality(Hands(t)') <= MaxInFlight
    BY <2>2, <2>7 DEF BookInv, WithinBudget
  <2> QED BY <2>1, <2>8 DEF BookInv, WithinBudget
<1>4. ASSUME NEW s \in Dispatchers, NEW j \in CapJobs,
             CapTake(s, j) \/ CapCount(s, j) \/ CapPutBack(s, j) \/ CapAlreadyClaimed(s, j)
      PROVE  BookInv'
  <2>1. CASE CapTake(s, j)
    BY <1>1, <2>1 DEF CapTake, BookInv, BookTypes, Hands, InHand, Book
  <2>2. CASE CapCount(s, j)
    <3> DEFINE at == IF CountOf(s, ScopesOf[j][gate[s].at]) > Limit[ScopesOf[j][gate[s].at]]
                     THEN 0 ELSE gate[s].at + 1
    <3>1. gate' = [gate EXCEPT ![s].at = at]
      BY <2>2 DEF CapCount
    <3>2. at \in Nat
      BY DEF BookInv, BookTypes
    <3> HIDE DEF at
    <3>3. gate' \in [Dispatchers -> [job : SUBSET CapJobs, at : Nat]]
      BY <3>1, <3>2 DEF BookInv, BookTypes
    <3>4. \A t \in Dispatchers : gate'[t].job = gate[t].job
      BY <3>1 DEF BookInv, BookTypes
    <3>5. batch' = batch /\ inFlight' = inFlight /\ overrun' = overrun
      BY <2>2 DEF CapCount
    <3> QED BY <1>1, <3>3, <3>4, <3>5 DEF BookInv, BookTypes, Hands, InHand, Book
  <2>3. CASE CapPutBack(s, j) \/ CapAlreadyClaimed(s, j)
    <3>1. /\ gate' = [gate EXCEPT ![s] = CapIdle]
          /\ batch' = batch /\ inFlight' = inFlight /\ overrun' = overrun
      BY <2>3 DEF CapPutBack, CapAlreadyClaimed
    <3> QED BY <1>1, <3>1 DEF CapIdle, BookInv, BookTypes, Hands, InHand, Book
  <2> QED BY <1>4, <2>1, <2>2, <2>3
<1>5. ASSUME NEW s \in Dispatchers, NEW j \in CapJobs,
             CapSend(s, j) \/ CapReport(s, j) \/ CapSuperseded(s, j) \/ CapReap(s, j)
      PROVE  BookInv'
  <2>1. CASE CapSend(s, j)
    BY <1>1, <2>1 DEF CapSend, CapIdle, BookInv, BookTypes, Hands, InHand, Book
  <2>2. CASE CapReport(s, j)
    BY <1>1, <2>2 DEF CapReport, BookInv, BookTypes, Hands, InHand, Book
  <2>3. CASE CapSuperseded(s, j)
    BY <1>1, <2>3 DEF CapSuperseded, BookInv, BookTypes, Hands, InHand, Book
  <2>4. CASE CapReap(s, j)
    BY <1>1, <2>4 DEF CapReap, BookInv, BookTypes, Hands, InHand, Book
  <2> QED BY <1>5, <2>1, <2>2, <2>3, <2>4
<1> QED BY <1>2, <1>3, <1>4, <1>5 DEF CapsNext

(* An action that hands out nothing and leaves the counts alone.           *)
LEMMA QuietCaps ==
    ASSUME CapsInv, CapsTypes', HeldOnce', counts' = counts,
           \A t \in Dispatchers : /\ InHand(t)' \subseteq InHand(t)
                                  /\ inFlight'[t] \subseteq InHand(t) \cup inFlight[t]
                                  /\ \A c \in Scopes : AdmittedBy(t, c)' \subseteq AdmittedBy(t, c)
    PROVE  CapsInv'
<1>2. ASSUME NEW c \in Scopes PROVE HaveCounted(c)' = HaveCounted(c)
  BY DEF HaveCounted
<1>3. CoversBatch' /\ CountsCover'
  BY <1>2, CoverKept DEF CoversBatch, CountsCover, HaveCounted
<1> QED BY <1>3 DEF CapsInv

(* dequeue_batch: a fresh batch is read with no count loaded.              *)
LEMMA CapDequeueStep ==
    ASSUME CapsInv, NEW s \in Dispatchers, NEW B \in SUBSET CapJobs, CapDequeue(s, B)
    PROVE  CapsInv'
<1>1. CapsTypes'
  BY CapsAssumption DEF CapsInv, CapsTypes, CapDequeue, Flip, NoCounts
<1>2. /\ batch' = [batch EXCEPT ![s] = B] /\ gate' = gate /\ inFlight' = inFlight
      /\ batch[s] = {} /\ gate[s].job = {}
      /\ \A j \in CapJobs : capRow'[j] = IF j \in B THEN "Running" ELSE capRow[j]
      /\ \A j \in B : capRow[j] = "Pending"
  BY DEF CapDequeue, Flip, CapIdle
<1>3. HeldOnce'
  BY <1>2 DEF CapsInv, CapsTypes, HeldOnce, InHand
<1>5. ASSUME NEW c \in Scopes
      PROVE  /\ HaveCounted(c)' = HaveCounted(c) \ {s}
             /\ \A t \in Dispatchers : AdmittedBy(t, c)' \subseteq AdmittedBy(t, c)
             /\ \A t \in HaveCounted(c)' : InHand(t)' \subseteq InHand(t) /\ counts'[t][c] = counts[t][c]
  <2>1. counts' = [counts EXCEPT ![s] = NoCounts]
    BY DEF CapDequeue
  <2>2. HaveCounted(c)' = HaveCounted(c) \ {s} /\ \A t \in HaveCounted(c)' : counts'[t][c] = counts[t][c]
    BY <2>1 DEF HaveCounted, CapsInv, CapsTypes, NoCounts
  <2> QED BY <1>2, <2>2 DEF AdmittedBy, PastScope, InHand, HaveCounted, CapsInv, CapsTypes
<1>6. CoversBatch' /\ CountsCover'
  BY <1>5, CoverKept DEF CoversBatch, CountsCover, HaveCounted
<1> QED BY <1>1, <1>3, <1>6 DEF CapsInv

(* The next job of a batch enters the gate.                                *)
LEMMA CapTakeStep ==
    ASSUME CapsInv, NEW s \in Dispatchers, NEW j \in CapJobs, CapTake(s, j)
    PROVE  CapsInv'
<1>1. /\ batch' = [batch EXCEPT ![s] = batch[s] \ {j}] /\ gate' = [gate EXCEPT ![s].job = {j}]
      /\ inFlight' = inFlight /\ counts' = counts /\ capRow' = capRow
      /\ gate[s] = CapIdle /\ j \in batch[s]
  BY DEF CapTake
<1>2. gate' = [gate EXCEPT ![s] = [job |-> {j}, at |-> 1]]
  <2>1. [gate[s] EXCEPT !.job = {j}] = [job |-> {j}, at |-> 1]
    BY <1>1 DEF CapIdle
  <2> QED BY <1>1, <2>1
<1>3. CapsTypes'
  <2>1. gate' \in [Dispatchers -> [job : SUBSET CapJobs, at : Nat]]
    BY <1>2 DEF CapsInv, CapsTypes
  <2>2. ASSUME NEW t \in Dispatchers PROVE gate'[t] = CapIdle \/ \E k \in CapJobs : gate'[t].job = {k}
    BY <1>2 DEF CapsInv, CapsTypes
  <2>3. batch' \in [Dispatchers -> SUBSET CapJobs]
    BY <1>1 DEF CapsInv, CapsTypes
  <2> QED BY <1>1, <2>1, <2>2, <2>3 DEF CapsInv, CapsTypes
<1>4. gate'[s].job = {j} /\ gate'[s].at = 1 /\ gate[s].job = {} /\ gate[s].at = 1
  BY <1>1, <1>2 DEF CapsInv, CapsTypes, CapIdle
<1>5. \A t \in Dispatchers : t # s => gate'[t] = gate[t] /\ batch'[t] = batch[t]
  BY <1>1, <1>2 DEF CapsInv, CapsTypes
<1>6. \A t \in Dispatchers : InHand(t)' = InHand(t)
  BY <1>1, <1>4, <1>5 DEF InHand, CapsInv, CapsTypes
<1>7. HeldOnce'
  BY <1>1, <1>4, <1>5, <1>6 DEF CapsInv, CapsTypes, HeldOnce
<1>8. ASSUME NEW t \in Dispatchers, NEW c \in Scopes PROVE AdmittedBy(t, c)' \subseteq AdmittedBy(t, c)
  BY CapsAssumption, <1>1, <1>4, <1>5 DEF AdmittedBy, PastScope
<1> QED BY <1>1, <1>3, <1>6, <1>7, <1>8, QuietCaps

(* A job somebody else claimed leaves the gate.                            *)
LEMMA CapAlreadyClaimedStep ==
    ASSUME CapsInv, NEW s \in Dispatchers, NEW j \in CapJobs, CapAlreadyClaimed(s, j)
    PROVE  CapsInv'
<1>1. /\ batch' = batch /\ gate' = [gate EXCEPT ![s] = CapIdle]
      /\ inFlight' = inFlight /\ counts' = counts /\ capRow' = capRow
  BY DEF CapAlreadyClaimed
<1>2. CapsTypes' /\ gate'[s].job = {} /\ \A t \in Dispatchers : t # s => gate'[t] = gate[t]
  BY <1>1 DEF CapsInv, CapsTypes, CapIdle
<1>3. \A t \in Dispatchers : InHand(t)' \subseteq InHand(t)
  BY <1>1, <1>2 DEF InHand
<1>4. HeldOnce'
  BY <1>1, <1>2 DEF CapsInv, HeldOnce, InHand
<1>5. ASSUME NEW t \in Dispatchers, NEW c \in Scopes PROVE AdmittedBy(t, c)' \subseteq AdmittedBy(t, c)
  BY <1>1, <1>2 DEF AdmittedBy, PastScope
<1> QED BY <1>1, <1>2, <1>3, <1>4, <1>5, QuietCaps

(* A job that is sent is past all its scopes.                              *)
LEMMA CapSendStep ==
    ASSUME CapsInv, NEW s \in Dispatchers, NEW j \in CapJobs, CapSend(s, j)
    PROVE  CapsInv'
<1>1. /\ batch' = batch /\ gate' = [gate EXCEPT ![s] = CapIdle]
      /\ inFlight' = [inFlight EXCEPT ![s] = inFlight[s] \cup {j}]
      /\ counts' = counts /\ capRow' = capRow
      /\ gate[s].job = {j} /\ gate[s].at = Len(ScopesOf[j]) + 1
  BY DEF CapSend
<1>2. CapsTypes' /\ gate'[s].job = {} /\ \A t \in Dispatchers : t # s => gate'[t] = gate[t]
  BY <1>1 DEF CapsInv, CapsTypes, CapIdle
<1>3. /\ inFlight'[s] = inFlight[s] \cup {j}
      /\ \A t \in Dispatchers : t # s => inFlight'[t] = inFlight[t]
  BY <1>1 DEF CapsInv, CapsTypes
<1>4. \A t \in Dispatchers : /\ InHand(t)' \subseteq InHand(t)
                             /\ inFlight'[t] \subseteq InHand(t) \cup inFlight[t]
  BY <1>1, <1>2, <1>3 DEF InHand
<1>5. HeldOnce'
  BY <1>1, <1>2, <1>3 DEF CapsInv, HeldOnce, InHand
<1>6. \A c \in Scopes : InScope(j, c) => PastScope(s, j, c)
  <2>1. ScopesOf[j] \in Seq(Scopes)
    BY CapsAssumption
  <2> QED BY <1>1, <2>1 DEF PastScope, InScope
<1>7. ASSUME NEW t \in Dispatchers, NEW c \in Scopes PROVE AdmittedBy(t, c)' \subseteq AdmittedBy(t, c)
  BY <1>1, <1>2, <1>3, <1>6 DEF AdmittedBy, PastScope
<1> QED BY <1>1, <1>2, <1>4, <1>5, <1>7, QuietCaps

(* A finished job leaves the executors and its row stops Running.          *)
LEMMA CapReportStep ==
    ASSUME CapsInv, NEW s \in Dispatchers, NEW j \in CapJobs, CapReport(s, j)
    PROVE  CapsInv'
<1>1. PICK to \in {"Pending", "Done", capRow[j]} :
      /\ batch' = batch /\ gate' = gate /\ counts' = counts
      /\ inFlight' = [inFlight EXCEPT ![s] = inFlight[s] \ {j}]
      /\ capRow' = [capRow EXCEPT ![j] = to] /\ j \in inFlight[s]
  BY DEF CapReport
<1>2. CapsTypes'
  BY <1>1 DEF CapsInv, CapsTypes
<1>3. /\ inFlight'[s] = inFlight[s] \ {j} /\ \A t \in Dispatchers : t # s => inFlight'[t] = inFlight[t]
      /\ \A k \in CapJobs : k # j => capRow'[k] = capRow[k]
  BY <1>1 DEF CapsInv, CapsTypes
<1>4. \A t \in Dispatchers : InHand(t)' = InHand(t) /\ inFlight'[t] \subseteq inFlight[t]
                             /\ InHand(t) \cup inFlight[t] \subseteq CapJobs
  BY <1>1, <1>3 DEF InHand, CapsInv, CapsTypes
<1>5. \A t \in Dispatchers : j \notin (InHand(t) \cup inFlight[t])'
  BY <1>1, <1>3, <1>4 DEF CapsInv, HeldOnce
<1>6. HeldOnce'
  BY <1>1, <1>3, <1>4, <1>5 DEF CapsInv, HeldOnce
<1>7. ASSUME NEW t \in Dispatchers, NEW c \in Scopes PROVE AdmittedBy(t, c)' \subseteq AdmittedBy(t, c)
  BY <1>1, <1>4 DEF AdmittedBy, PastScope
<1> QED BY <1>1, <1>2, <1>4, <1>6, <1>7, QuietCaps

(* A row the reaper takes was in no batch and at no gate: if a pool has    *)
(* the job, it leaves the dispatches that count as its row stops Running.  *)
LEMMA CapReapStep ==
    ASSUME CapsInv, NEW r \in Dispatchers, NEW j \in CapJobs, CapReap(r, j), ~crossed'
    PROVE  CapsInv'
<1>1. PICK to \in {"Pending", "Done"} :
      /\ batch' = batch /\ gate' = gate /\ counts' = counts
      /\ inFlight' = [s \in Dispatchers |-> inFlight[s] \ {j}]
      /\ capRow' = [capRow EXCEPT ![j] = to] /\ \A s \in Dispatchers : j \notin InHand(s)
  BY DEF CapReap
<1>2. CapsTypes' /\ \A k \in CapJobs : k # j => capRow'[k] = capRow[k]
  BY <1>1 DEF CapsInv, CapsTypes
<1>3. \A t \in Dispatchers : /\ InHand(t)' = InHand(t) /\ inFlight'[t] = inFlight[t] \ {j}
                             /\ j \notin InHand(t) \cup inFlight'[t]
                             /\ InHand(t) \cup inFlight[t] \subseteq CapJobs
  BY <1>1 DEF InHand, CapsInv, CapsTypes
<1>4. HeldOnce'
  BY <1>1, <1>2, <1>3 DEF CapsInv, HeldOnce
<1>5. ASSUME NEW t \in Dispatchers, NEW c \in Scopes PROVE AdmittedBy(t, c)' \subseteq AdmittedBy(t, c)
  BY <1>1, <1>3 DEF AdmittedBy, PastScope
<1> QED BY <1>1, <1>2, <1>3, <1>4, <1>5, QuietCaps

(* A dropped result frees a record that did not count.                     *)
LEMMA CapsSame ==
    ASSUME CapsInv, UNCHANGED <<capRow, batch, gate, counts, inFlight>>
    PROVE  CapsInv'
<1>1. CapsTypes' /\ counts' = counts /\ \A t \in Dispatchers : InHand(t)' = InHand(t) /\ inFlight'[t] = inFlight[t]
  BY DEF CapsInv, CapsTypes, InHand
<1>2. HeldOnce'
  BY <1>1 DEF CapsInv, HeldOnce
<1>3. \A t \in Dispatchers, c \in Scopes : AdmittedBy(t, c)' = AdmittedBy(t, c)
  BY DEF AdmittedBy, PastScope
<1> QED BY <1>1, <1>2, <1>3, QuietCaps

(* Whatever anybody holds in a scope, a query counts.                      *)
LEMMA ClaimantsRun ==
    ASSUME CapsInv, NEW c \in Scopes, NEW S \in SUBSET Dispatchers,
           NEW C, \A j \in C : j \in CapJobs /\ InScope(j, c)
                               /\ \E t \in Dispatchers : j \in InHand(t) \cup inFlight[t]
    PROVE  /\ C \subseteq RunningIn(c) /\ RunningIn(c) \in SUBSET CapJobs
           /\ Cardinality(C) \in Nat /\ Cardinality(RunningIn(c)) \in Nat
           /\ Cardinality(C) <= Cardinality(RunningIn(c))
<1>1. C \subseteq RunningIn(c) /\ RunningIn(c) \in SUBSET CapJobs
  BY DEF RunningIn, CapsInv, HeldOnce
<1> QED BY <1>1, FewerJobs

(* GateCounts: a first count covers what every earlier counter still holds.*)
LEMMA CapCountStep ==
    ASSUME CapsInv, NEW s \in Dispatchers, NEW j \in CapJobs, CapCount(s, j)
    PROVE  CapsInv'
<1>1. PICK at : at = gate[s].at
  OBVIOUS
<1>2. PICK c \in Scopes : c = ScopesOf[j][at] /\ at \in DOMAIN ScopesOf[j] /\ at \in Nat \ {0}
  <2>1. ScopesOf[j] \in Seq(Scopes) /\ at \in DOMAIN ScopesOf[j]
    BY <1>1, CapsAssumption DEF CapCount
  <2> QED BY <2>1
<1>3. PICK n : n = CountOf(s, c)
  OBVIOUS
<1>4. PICK to : to = IF n > Limit[c] THEN 0 ELSE at + 1
  OBVIOUS
<1>5. /\ counts' = [counts EXCEPT ![s] = [counts[s] EXCEPT ![c] = n]]
      /\ gate' = [gate EXCEPT ![s] = [gate[s] EXCEPT !.at = to]]
      /\ capRow' = capRow /\ batch' = batch /\ inFlight' = inFlight /\ gate[s].job = {j}
  BY <1>1, <1>2, <1>3, <1>4 DEF CapCount
<1>6. Limit[c] \in Nat /\ to \in Nat
  BY CapsAssumption, <1>2, <1>4
<1>7. n \in Nat /\ n # Unread /\ (counts[s][c] # Unread => n = counts[s][c])
      /\ (counts[s][c] = Unread => n = Cardinality(RunningIn(c)))
  <2>1. Cardinality(RunningIn(c)) \in Nat
    <3>1. RunningIn(c) \subseteq RunningIn(c) /\ RunningIn(c) \in SUBSET CapJobs
      BY DEF RunningIn
    <3> QED BY <3>1, FewerJobs
  <2>2. n \in Nat /\ (counts[s][c] # Unread => n = counts[s][c])
        /\ (counts[s][c] = Unread => n = Cardinality(RunningIn(c)))
    BY <1>3, <2>1 DEF CountOf, CapsInv, CapsTypes
  <2> QED BY <2>2, CapsAssumption
<1>8. /\ \A t \in Dispatchers, d \in Scopes : counts'[t][d] = IF t = s /\ d = c THEN n ELSE counts[t][d]
      /\ counts' \in [Dispatchers -> [Scopes -> Nat \cup {Unread}]]
  BY <1>5, <1>7 DEF CapsInv, CapsTypes
<1>9. /\ gate'[s] = [job |-> {j}, at |-> to] /\ gate' \in [Dispatchers -> [job : SUBSET CapJobs, at : Nat]]
      /\ \A t \in Dispatchers : t # s => gate'[t] = gate[t]
  <2>1. [gate[s] EXCEPT !.at = to] = [job |-> {j}, at |-> to]
    <3>1. gate[s] \in [job : SUBSET CapJobs, at : Nat]
      BY DEF CapsInv, CapsTypes
    <3>2. gate[s] = [job |-> {j}, at |-> at]
      BY <1>1, <1>5, <3>1
    <3> QED BY <3>2
  <2> QED BY <1>5, <1>6, <2>1 DEF CapsInv, CapsTypes
<1>10. CapsTypes'
  BY <1>5, <1>8, <1>9 DEF CapsInv, CapsTypes
<1>11. \A t \in Dispatchers : gate'[t].job = gate[t].job /\ InHand(t)' = InHand(t)
  BY <1>5, <1>9 DEF InHand
<1>12. HeldOnce'
  BY <1>5, <1>11 DEF CapsInv, HeldOnce
<1>14. ASSUME NEW t \in Dispatchers, NEW d \in Scopes
       PROVE  /\ \A k \in AdmittedBy(t, d)' : k \in AdmittedBy(t, d) \/ (k = j /\ d = c /\ n <= Limit[c])
              /\ \A k \in AdmittedBy(t, d)' : k \in CapJobs /\ InScope(k, d) /\ k \in InHand(t) \cup inFlight[t]
  <2>1. CASE t # s
    BY <1>5, <1>9, <2>1 DEF AdmittedBy, PastScope, InHand
  <2>2. CASE t = s
    <3>1. ASSUME PastScope(s, j, d)' PROVE PastScope(s, j, d) \/ (d = c /\ n <= Limit[c])
      <4>1. PICK i \in DOMAIN ScopesOf[j] : i < to /\ ScopesOf[j][i] = d
        BY <1>9, <3>1 DEF PastScope
      <4>2. DOMAIN ScopesOf[j] \subseteq Nat \ {0}
        BY CapsAssumption
      <4>3. to = at + 1 /\ n <= Limit[c]
        BY <1>4, <1>6, <1>7, <4>1, <4>2
      <4>4. i = at \/ i < at
        BY <1>2, <4>1, <4>2, <4>3
      <4> QED BY <1>1, <1>2, <4>1, <4>3, <4>4 DEF PastScope
    <3> QED BY <1>5, <1>9, <2>2, <3>1 DEF AdmittedBy, InHand
  <2> QED BY <2>1, <2>2
<1>15. ASSUME NEW d \in Scopes
       PROVE  /\ Cardinality(Admitted(d)') <= Limit[d]
              /\ \A S \in SUBSET HaveCounted(d)' : S # {} => Fits(d, S)'
              /\ \A t \in HaveCounted(d)' : Cardinality(InHands(d, {t})') <= counts'[t][d]
  <2>0. \A t \in Dispatchers : InHand(t)' = InHand(t) /\ InHand(t) \in SUBSET CapJobs
    BY <1>11 DEF CapsInv, CapsTypes, InHand
  <2>1. CASE d # c \/ (n > Limit[c] /\ counts[s][c] # Unread)
    <3>1. HaveCounted(d)' = HaveCounted(d) /\ \A t \in HaveCounted(d) : counts'[t][d] = counts[t][d]
      BY <1>7, <1>8, <2>1 DEF HaveCounted
    <3>2. \A t \in Dispatchers : AdmittedBy(t, d)' \subseteq AdmittedBy(t, d)
      BY <1>6, <1>7, <1>14, <2>1
    <3>3. HaveCounted(d) \in SUBSET Dispatchers
      BY DEF HaveCounted
    <3> QED BY <2>0, <3>1, <3>2, <3>3, CoverKept
  <2>2. CASE d = c /\ counts[s][c] = Unread
    <3>1. /\ HaveCounted(c)' = HaveCounted(c) \cup {s} /\ counts'[s][c] = n /\ n = Cardinality(RunningIn(c))
          /\ \A t \in HaveCounted(c) : t \in Dispatchers /\ t # s /\ counts'[t][c] = counts[t][c]
      BY <1>7, <1>8, <2>2 DEF HaveCounted
    <3>2. ASSUME NEW S \in SUBSET Dispatchers
          PROVE  Cardinality(Claimants(c, S)') \in Nat /\ Cardinality(Claimants(c, S)') <= n
      <4>1. \A k \in Claimants(c, S)' : k \in CapJobs /\ InScope(k, c)
                                         /\ \E t \in Dispatchers : k \in InHand(t) \cup inFlight[t]
        BY <1>14, <2>0 DEF Claimants, Admitted, InHands, InScope
      <4> QED BY <3>1, <4>1, ClaimantsRun
    <3>3. Cardinality(Admitted(c)') <= Limit[c]
      <4>1. CASE n <= Limit[c]
        <5>1. Claimants(c, {})' = Admitted(c)'
          BY DEF Claimants, InHands
        <5> QED BY <1>6, <1>7, <3>2, <4>1, <5>1
      <4>2. CASE n > Limit[c]
        <5>1. Admitted(c)' \subseteq Admitted(c) /\ Admitted(c) \in SUBSET CapJobs
          BY <1>6, <1>7, <1>14, <4>2 DEF Admitted
        <5>2. Cardinality(Admitted(c)) <= Limit[c]
          BY DEF CapsInv, CountsCover
        <5>3. /\ Cardinality(Admitted(c)') \in Nat /\ Cardinality(Admitted(c)) \in Nat
              /\ Cardinality(Admitted(c)') <= Cardinality(Admitted(c))
          BY <5>1, FewerJobs
        <5> QED BY <1>6, <5>2, <5>3
      <4> QED BY <1>6, <1>7, <4>1, <4>2
    <3>4. ASSUME NEW S \in SUBSET HaveCounted(c)', S # {} PROVE Fits(c, S)'
      <4>0. S \in SUBSET Dispatchers /\ \A t \in S : t # s => t \in HaveCounted(c)
        BY <3>1
      <4>1. CASE n <= Limit[c] \/ s \in S
        <5>1. PICK t \in S : n <= Limit[c] \/ t = s
          BY <3>4, <4>1
        <5>2. Cardinality(Claimants(c, S)') <= Limit[c] \/ Cardinality(Claimants(c, S)') <= counts'[t][c]
          BY <1>6, <1>7, <3>1, <3>2, <4>0, <5>1
        <5> QED BY <5>2 DEF Fits
      <4>2. CASE n > Limit[c] /\ s \notin S
        <5>1. Claimants(c, S)' \subseteq Claimants(c, S) /\ Claimants(c, S) \in SUBSET CapJobs
          BY <1>6, <1>7, <1>14, <2>0, <4>0, <4>2 DEF Claimants, Admitted, InHands, InScope
        <5>2. PICK t \in S : Cardinality(Claimants(c, S)) <= Limit[c] \/ Cardinality(Claimants(c, S)) <= counts[t][c]
          BY <3>4, <4>0, <4>2 DEF CapsInv, CountsCover, Fits
        <5>3. /\ Cardinality(Claimants(c, S)') \in Nat /\ Cardinality(Claimants(c, S)) \in Nat
              /\ Cardinality(Claimants(c, S)') <= Cardinality(Claimants(c, S))
          BY <5>1, FewerJobs
        <5>4. counts'[t][c] = counts[t][c] /\ counts[t][c] \in Nat
          BY <3>1, <4>0, <4>2 DEF HaveCounted, CapsInv, CapsTypes
        <5>5. Cardinality(Claimants(c, S)') <= Limit[c] \/ Cardinality(Claimants(c, S)') <= counts'[t][c]
          BY <1>6, <5>2, <5>3, <5>4
        <5> QED BY <5>5 DEF Fits
      <4> QED BY <1>6, <1>7, <4>1, <4>2
    <3>5. ASSUME NEW t \in HaveCounted(c)' PROVE Cardinality(InHands(c, {t})') <= counts'[t][c]
      <4>1. InHands(c, {t})' = InHands(c, {t}) /\ InHands(c, {t}) \in SUBSET CapJobs /\ t \in Dispatchers
        BY <2>0, <3>1 DEF InHands, InScope
      <4>2. CASE t = s
        <5>1. \A k \in InHands(c, {t}) : k \in CapJobs /\ InScope(k, c)
                                         /\ \E u \in Dispatchers : k \in InHand(u) \cup inFlight[u]
          BY <4>1 DEF InHands
        <5>2. Cardinality(InHands(c, {t})) <= Cardinality(RunningIn(c))
          BY <5>1, ClaimantsRun
        <5> QED BY <3>1, <4>1, <4>2, <5>2
      <4>3. CASE t # s
        BY <3>1, <4>1, <4>3 DEF CapsInv, CoversBatch
      <4> QED BY <4>2, <4>3
    <3> QED BY <2>2, <3>3, <3>4, <3>5
  <2>3. CASE d = c /\ counts[s][c] # Unread /\ n <= Limit[c]
    <3>1. /\ HaveCounted(c)' = HaveCounted(c) /\ s \in HaveCounted(c) /\ n = counts[s][c]
          /\ \A t \in HaveCounted(c) : t \in Dispatchers /\ counts'[t][c] = counts[t][c] /\ counts[t][c] \in Nat
      <4>1. \A t \in Dispatchers : counts[t][c] \in Nat \cup {Unread}
        BY DEF CapsInv, CapsTypes
      <4> QED BY <1>7, <1>8, <2>3, <4>1 DEF HaveCounted
    <3>2. ASSUME NEW S \in SUBSET HaveCounted(c)
          PROVE  /\ Cardinality(Claimants(c, S)') \in Nat
                 /\ \/ Cardinality(Claimants(c, S)') <= Limit[c]
                    \/ \E t \in S : Cardinality(Claimants(c, S)') <= counts[t][c]
      <4>0. S \cup {s} \in SUBSET HaveCounted(c) /\ S \cup {s} # {} /\ S \in SUBSET Dispatchers
        BY <3>1 DEF HaveCounted
      <4>1. InScope(j, c) /\ j \in InHand(s)
        BY <1>2, <1>5 DEF InScope, InHand
      <4>2. Claimants(c, S)' \subseteq Claimants(c, S \cup {s}) /\ Claimants(c, S \cup {s}) \in SUBSET CapJobs
        BY <1>14, <2>0, <4>0, <4>1 DEF Claimants, Admitted, InHands, InScope
      <4>3. PICK t \in S \cup {s} : \/ Cardinality(Claimants(c, S \cup {s})) <= Limit[c]
                                   \/ Cardinality(Claimants(c, S \cup {s})) <= counts[t][c]
        BY <4>0 DEF CapsInv, CountsCover, Fits
      <4>4. /\ Cardinality(Claimants(c, S)') \in Nat /\ Cardinality(Claimants(c, S \cup {s})) \in Nat
            /\ Cardinality(Claimants(c, S)') <= Cardinality(Claimants(c, S \cup {s}))
        BY <4>2, FewerJobs
      <4> QED BY <1>6, <2>3, <3>1, <4>0, <4>3, <4>4
    <3>3. Cardinality(Admitted(c)') <= Limit[c]
      <4>1. Claimants(c, {})' = Admitted(c)' /\ {} \in SUBSET HaveCounted(c)
        BY DEF Claimants, InHands
      <4> QED BY <3>2, <4>1
    <3>4. ASSUME NEW S \in SUBSET HaveCounted(c)', S # {} PROVE Fits(c, S)'
      <4>1. PICK t \in S : \/ Cardinality(Claimants(c, S)') <= Limit[c]
                          \/ Cardinality(Claimants(c, S)') <= counts'[t][c]
        BY <3>1, <3>2, <3>4
      <4> QED BY <4>1 DEF Fits
    <3>5. ASSUME NEW t \in HaveCounted(c)' PROVE Cardinality(InHands(c, {t})') <= counts'[t][c]
      <4>1. InHands(c, {t})' = InHands(c, {t})
        BY <2>0, <3>1 DEF InHands, InScope
      <4> QED BY <3>1, <4>1 DEF CapsInv, CoversBatch
    <3> QED BY <2>3, <3>3, <3>4, <3>5
  <2> QED BY <1>6, <1>7, <2>1, <2>2, <2>3
<1>16. CoversBatch' /\ CountsCover'
  BY <1>15 DEF CoversBatch, CountsCover
<1> QED BY <1>10, <1>12, <1>16 DEF CapsInv

(* GateCounts::release: a loaded count gives back what the job took.       *)
LEMMA CapPutBackStep ==
    ASSUME CapsInv, NEW s \in Dispatchers, NEW j \in CapJobs, CapPutBack(s, j)
    PROVE  CapsInv'
<1>1. PICK to \in {"Pending", "Running", "Done"} :
      /\ batch' = batch /\ gate' = [gate EXCEPT ![s] = CapIdle] /\ inFlight' = inFlight
      /\ capRow' = [capRow EXCEPT ![j] = to] /\ gate[s].job = {j} /\ Release(s, j)
  BY DEF CapPutBack
<1>2. /\ gate'[s] = CapIdle /\ \A t \in Dispatchers : t # s => gate'[t] = gate[t]
      /\ \A k \in CapJobs : k # j => capRow'[k] = capRow[k]
      /\ capRow' \in [CapJobs -> {"Pending", "Running", "Done"}]
      /\ gate' \in [Dispatchers -> [job : SUBSET CapJobs, at : Nat]]
  BY <1>1 DEF CapsInv, CapsTypes, CapIdle
<1>3. \A t \in Dispatchers, c \in Scopes :
          counts'[t][c] = IF t = s /\ counts[s][c] # Unread /\ InScope(j, c)
                          THEN counts[s][c] - 1 ELSE counts[t][c]
  BY <1>1 DEF Release, CapsInv, CapsTypes
<1>4. /\ \A t \in Dispatchers : InHand(t)' = InHand(t) \ {j} /\ InHand(t) \in SUBSET CapJobs
      /\ j \in InHand(s) /\ \A t \in Dispatchers : j \notin inFlight[t] /\ (t # s => j \notin InHand(t))
      /\ \A t \in Dispatchers : j \notin batch[t] /\ InHand(t) \cup inFlight[t] \subseteq CapJobs
  <2>1. /\ j \in InHand(s) /\ \A t \in Dispatchers : j \notin inFlight[t] /\ (t # s => j \notin InHand(t))
        /\ \A t \in Dispatchers : j \notin batch[t]
    BY <1>1 DEF InHand, CapsInv, HeldOnce
  <2> QED BY <1>1, <1>2, <2>1 DEF InHand, CapIdle, CapsInv, CapsTypes
<1>5. ASSUME NEW c \in Scopes, counts[s][c] # Unread, InScope(j, c)
      PROVE  counts[s][c] \in Nat /\ counts[s][c] - 1 \in Nat /\ counts[s][c] - 1 # Unread
             /\ Cardinality(InHands(c, {s})') <= counts[s][c] - 1
  <2>1. InHands(c, {s}) \in SUBSET CapJobs /\ j \in InHands(c, {s})
        /\ InHands(c, {s})' \subseteq InHands(c, {s}) /\ j \notin InHands(c, {s})'
    BY <1>4, <1>5 DEF InHands, InScope
  <2>2. /\ Cardinality(InHands(c, {s})') \in Nat /\ Cardinality(InHands(c, {s})) \in Nat
        /\ Cardinality(InHands(c, {s})') <= Cardinality(InHands(c, {s})) - 1
    BY <2>1, FewerJobs
  <2>3. counts[s][c] \in Nat /\ Cardinality(InHands(c, {s})) <= counts[s][c]
    BY <1>5 DEF CapsInv, CapsTypes, CoversBatch, HaveCounted
  <2>4. counts[s][c] - 1 \in Nat /\ Cardinality(InHands(c, {s})') <= counts[s][c] - 1
    BY <2>2, <2>3
  <2> QED BY <2>3, <2>4, CapsAssumption
<1>6. CapsTypes'
  <2>1. ASSUME NEW t \in Dispatchers, NEW c \in Scopes PROVE counts'[t][c] \in Nat \cup {Unread}
    BY <1>3, <1>5 DEF CapsInv, CapsTypes
  <2>2. counts' \in [Dispatchers -> [Scopes -> Nat \cup {Unread}]]
    <3>1. counts' = [counts EXCEPT ![s] = [c \in Scopes |-> counts'[s][c]]]
      BY <1>1, <1>3 DEF Release, CapsInv, CapsTypes
    <3>2. [c \in Scopes |-> counts'[s][c]] \in [Scopes -> Nat \cup {Unread}]
      BY <2>1
    <3> QED BY <3>1, <3>2 DEF CapsInv, CapsTypes
  <2> QED BY <1>1, <1>2, <2>2 DEF CapsInv, CapsTypes
<1>7. HeldOnce'
  <2>1. \A t \in Dispatchers : gate'[t].job \subseteq gate[t].job
    BY <1>2 DEF CapIdle
  <2> QED BY <1>1, <1>2, <1>4, <2>1 DEF CapsInv, HeldOnce
<1>9. ASSUME NEW c \in Scopes
      PROVE  /\ HaveCounted(c)' = HaveCounted(c)
             /\ \A t \in Dispatchers : AdmittedBy(t, c)' \subseteq AdmittedBy(t, c) \ {j}
  <2>1. HaveCounted(c)' = HaveCounted(c)
    BY <1>3, <1>5 DEF HaveCounted
  <2>2. ASSUME NEW t \in Dispatchers PROVE AdmittedBy(t, c)' \subseteq AdmittedBy(t, c) \ {j}
    <3>1. CASE t = s
      BY <1>1, <1>2, <1>4, <3>1 DEF AdmittedBy, CapIdle
    <3>2. CASE t # s
      BY <1>1, <1>2, <1>4, <3>2 DEF AdmittedBy, PastScope, InHand
    <3> QED BY <3>1, <3>2
  <2> QED BY <2>1, <2>2
<1>10. ASSUME NEW c \in Scopes
       PROVE  /\ Cardinality(Admitted(c)') <= Limit[c]
              /\ \A S \in SUBSET HaveCounted(c)' : S # {} => Fits(c, S)'
              /\ \A t \in HaveCounted(c)' : Cardinality(InHands(c, {t})') <= counts'[t][c]
  <2>0. Limit[c] \in Nat /\ HaveCounted(c) \in SUBSET Dispatchers
    BY CapsAssumption DEF HaveCounted
  <2>1. CASE counts[s][c] = Unread \/ ~InScope(j, c)
    <3>1. \A t \in HaveCounted(c) : counts'[t][c] = counts[t][c]
      BY <1>3, <2>0, <2>1 DEF HaveCounted
    <3> QED BY <1>4, <1>9, <2>0, <3>1, CoverKept
  <2>2. CASE counts[s][c] # Unread /\ InScope(j, c)
    <3>1. /\ \A t \in HaveCounted(c) : t # s => counts'[t][c] = counts[t][c]
          /\ \A t \in HaveCounted(c) : counts[t][c] \in Nat
          /\ counts'[s][c] = counts[s][c] - 1 /\ s \in HaveCounted(c)
      BY <1>3, <2>0, <2>2 DEF HaveCounted, CapsInv, CapsTypes
    <3>2. Cardinality(Admitted(c)') <= Limit[c]
      <4>1. Admitted(c)' \subseteq Admitted(c) /\ Admitted(c) \in SUBSET CapJobs
        BY <1>9 DEF Admitted
      <4>2. Cardinality(Admitted(c)) <= Limit[c]
        BY DEF CapsInv, CountsCover
      <4>3. /\ Cardinality(Admitted(c)') \in Nat /\ Cardinality(Admitted(c)) \in Nat
            /\ Cardinality(Admitted(c)') <= Cardinality(Admitted(c))
        BY <4>1, FewerJobs
      <4> QED BY <2>0, <4>2, <4>3
    <3>3. ASSUME NEW S \in SUBSET HaveCounted(c)', S # {} PROVE Fits(c, S)'
      <4>0. S \in SUBSET HaveCounted(c) /\ S \in SUBSET Dispatchers
        BY <1>9, <2>0
      <4>1. /\ Claimants(c, S)' \subseteq Claimants(c, S) \ {j} /\ Claimants(c, S) \in SUBSET CapJobs
            /\ s \in S => j \in Claimants(c, S)
        BY <1>4, <1>9, <2>2, <4>0 DEF Claimants, Admitted, InHands, InScope
      <4>2. PICK t \in S : Cardinality(Claimants(c, S)) <= Limit[c] \/ Cardinality(Claimants(c, S)) <= counts[t][c]
        BY <3>3, <4>0 DEF CapsInv, CountsCover, Fits
      <4>3. /\ Cardinality(Claimants(c, S)') \in Nat /\ Cardinality(Claimants(c, S)) \in Nat
            /\ Cardinality(Claimants(c, S)') <= Cardinality(Claimants(c, S))
            /\ s \in S => Cardinality(Claimants(c, S)') <= Cardinality(Claimants(c, S)) - 1
        BY <4>1, FewerJobs
      <4>4. Cardinality(Claimants(c, S)') <= Limit[c] \/ Cardinality(Claimants(c, S)') <= counts'[t][c]
        BY <2>0, <3>1, <4>0, <4>2, <4>3
      <4> QED BY <4>4 DEF Fits
    <3>4. ASSUME NEW t \in HaveCounted(c)' PROVE Cardinality(InHands(c, {t})') <= counts'[t][c]
      <4>1. CASE t = s
        BY <1>5, <2>2, <3>1, <4>1
      <4>2. CASE t # s
        <5>1. InHands(c, {t})' = InHands(c, {t}) /\ t \in HaveCounted(c)
          BY <1>4, <1>9, <2>0, <3>4, <4>2 DEF InHands, InScope
        <5> QED BY <3>1, <4>2, <5>1 DEF CapsInv, CoversBatch
      <4> QED BY <4>1, <4>2
    <3> QED BY <3>2, <3>3, <3>4
  <2> QED BY <2>1, <2>2
<1>11. CoversBatch' /\ CountsCover'
  BY <1>10 DEF CoversBatch, CountsCover
<1> QED BY <1>6, <1>7, <1>11 DEF CapsInv

(* Every step of the schedulers keeps the invariant.                       *)
LEMMA CapsStep == (crossed \/ CapsInv) /\ [CapsNext]_capVars => (crossed \/ CapsInv)'
<1> SUFFICES ASSUME crossed \/ CapsInv, [CapsNext]_capVars, ~crossed' PROVE CapsInv'
  OBVIOUS
<1>1. CapsInv
  <2>1. ASSUME NEW s \in Dispatchers, NEW j \in CapJobs, CapReap(s, j), crossed PROVE crossed'
    BY <2>1 DEF CapReap
  <2>2. crossed => crossed'
    BY <2>1 DEF CapsNext, capVars, CapDequeue, CapTake, CapCount, CapPutBack, CapAlreadyClaimed,
      CapSend, CapReport, CapSuperseded
  <2> QED BY <2>2
<1>2. CASE UNCHANGED capVars
  BY <1>1, <1>2, CapsSame DEF capVars
<1>3. ASSUME NEW s \in Dispatchers, NEW j \in CapJobs, CapSuperseded(s, j) PROVE CapsInv'
  BY <1>1, <1>3, CapsSame DEF CapSuperseded
<1> QED BY <1>1, <1>2, <1>3, CapDequeueStep, CapTakeStep, CapCountStep, CapPutBackStep,
      CapAlreadyClaimedStep, CapSendStep, CapReportStep, CapReapStep DEF CapsNext

(* GateCounts: no scope has more dispatches in flight than its cap allows, *)
(* for any number of schedulers, jobs, scopes and batches, whenever each   *)
(* of them counts, however long it uses the count and whatever running     *)
(* jobs the reaper times out, as long as it takes no row from a dispatch   *)
(* in progress; and no book ever holds more than max_in_flight.            *)
THEOREM LimitsHoldAlways == CapsSpec => []LimitsHold
<1>1. CapsInit => BookInv /\ (crossed \/ CapsInv)
  <2> SUFFICES ASSUME CapsInit PROVE BookInv /\ CapsInv
    OBVIOUS
  <2>1. /\ \A s \in Dispatchers : InHand(s) = {} /\ inFlight[s] = {} /\ overrun[s] = {}
        /\ \A c \in Scopes : HaveCounted(c) = {} /\ Admitted(c) = {}
    BY DEF CapsInit, InHand, CapIdle, HaveCounted, NoCounts, Admitted, AdmittedBy
  <2>2. CapsTypes /\ HeldOnce
    BY <2>1 DEF CapsInit, CapsTypes, CapIdle, NoCounts, HeldOnce
  <2>3. Cardinality({}) = 0 /\ MaxInFlight \in Nat /\ \A c \in Scopes : Limit[c] \in Nat
    BY FS_EmptySet, CapsAssumption
  <2>4. BookInv
    <3>1. \A s \in Dispatchers : Hands(s) = {}
      BY <2>1 DEF Hands, Book
    <3>2. BookTypes
      BY DEF CapsInit, BookTypes, CapIdle
    <3> QED BY <2>3, <3>1, <3>2 DEF BookInv, WithinBudget
  <2>5. CoversBatch /\ CountsCover
    <3>1. \A c \in Scopes : \A S \in SUBSET HaveCounted(c) : S = {}
      BY <2>1
    <3>2. \A c \in Scopes : Cardinality(Admitted(c)) = 0 /\ 0 <= Limit[c]
      BY <2>1, <2>3
    <3>3. CoversBatch
      BY <2>1 DEF CoversBatch
    <3> QED BY <3>1, <3>2, <3>3 DEF CountsCover
  <2> QED BY <2>2, <2>4, <2>5 DEF CapsInv
<1>2. BookInv /\ (crossed \/ CapsInv) => LimitsHold
  <2> SUFFICES ASSUME BookInv, crossed \/ CapsInv PROVE LimitsHold
    OBVIOUS
  <2>1. ASSUME NEW c \in Scopes, CapsInv PROVE Cardinality({j \in Executing : InScope(j, c)}) <= Limit[c]
    <3>1. {j \in Executing : InScope(j, c)} \subseteq Admitted(c) /\ Admitted(c) \in SUBSET CapJobs
      BY <2>1 DEF Executing, Admitted, AdmittedBy, CapsInv, CapsTypes
    <3>2. Cardinality(Admitted(c)) <= Limit[c] /\ Limit[c] \in Nat
      BY <2>1, CapsAssumption DEF CapsInv, CountsCover
    <3>3. /\ Cardinality({j \in Executing : InScope(j, c)}) \in Nat /\ Cardinality(Admitted(c)) \in Nat
          /\ Cardinality({j \in Executing : InScope(j, c)}) <= Cardinality(Admitted(c))
      BY <3>1, FewerJobs
    <3> QED BY <3>2, <3>3
  <2>2. ASSUME NEW s \in Dispatchers PROVE Cardinality(Book(s)) <= MaxInFlight
    <3>1. Book(s) \subseteq Hands(s) /\ Hands(s) \in SUBSET CapJobs
      BY DEF Hands, Book, InHand, BookInv, BookTypes
    <3>2. Cardinality(Hands(s)) <= MaxInFlight /\ MaxInFlight \in Nat
      BY CapsAssumption DEF BookInv, WithinBudget
    <3>3. /\ Cardinality(Book(s)) \in Nat /\ Cardinality(Hands(s)) \in Nat
          /\ Cardinality(Book(s)) <= Cardinality(Hands(s))
      BY <3>1, FewerJobs
    <3> QED BY <3>2, <3>3
  <2> QED BY <2>1, <2>2 DEF LimitsHold
<1> QED BY <1>1, <1>2, BookStep, CapsStep, PTL DEF CapsSpec
=============================================================================
