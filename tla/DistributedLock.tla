-------------------------- MODULE DistributedLock ---------------------------
(***************************************************************************)
(* One row of distributed_locks, and the elections (try_lead) built on it. *)
(* acquire_lock, extend_lock and reap_expired_locks read the caller's clock*)
(* before they wait for their transaction: Begin is the reading, the rest  *)
(* of an operation is one transaction that uses it, however late.  Callers *)
(* are on different hosts, whose clocks run up to MaxSkew ahead of the     *)
(* slowest.                                                                *)
(***************************************************************************)
EXTENDS Naturals

CONSTANTS
    Owners,    \* owner_id values
    NoOne,     \* owner of a row that does not exist
    Ttl,       \* ttl_ms of every call
    MaxSkew,   \* how far apart two clocks may be
    MaxTime    \* bound on the clock

ASSUME LockAssumption ==
    /\ NoOne \notin Owners
    /\ Ttl \in Nat /\ MaxSkew \in Nat /\ MaxTime \in Nat

VARIABLES
    now,      \* the slowest clock
    row,      \* owner_id and expires_at
    call,     \* per owner: the operation under way and the clock it read
    until,    \* per owner: the expiry it was last told it holds the lock to, 0 if none
    gone      \* owners that crashed

vars == <<now, row, call, until, gone>>

Ops == {"none", "acquire", "extend", "lead", "reap"}
NoRow == [owner |-> NoOne, expires |-> 0]
NoCall == [op |-> "none", stamp |-> 0]

TypeOK ==
    /\ now \in Nat
    /\ row \in [owner : Owners \cup {NoOne}, expires : Nat]
    /\ call \in [Owners -> [op : Ops, stamp : Nat]]
    /\ until \in [Owners -> Nat]
    /\ gone \subseteq Owners

Init ==
    /\ now = 1 /\ row = NoRow
    /\ call = [o \in Owners |-> NoCall]
    /\ until = [o \in Owners |-> 0]
    /\ gone = {}

(* Past the bound the clock only runs out a lock that is still there.      *)
Tick ==
    /\ now < MaxTime \/ row.expires > now
    /\ now' = now + 1
    /\ UNCHANGED <<row, call, until, gone>>

Crash(o) ==
    /\ o \notin gone
    /\ gone' = gone \cup {o}
    /\ call' = [call EXCEPT ![o] = NoCall] /\ until' = [until EXCEPT ![o] = 0]
    /\ UNCHANGED <<now, row>>

Start(o, op) ==
    \E stamp \in now..(now + MaxSkew) : call' = [call EXCEPT ![o] = [op |-> op, stamp |-> stamp]]

Begin(o, op) ==
    /\ o \notin gone /\ call[o] = NoCall /\ op # "none"
    /\ op = "reap" \/ now + MaxSkew + Ttl <= MaxTime
    /\ Start(o, op)
    /\ UNCHANGED <<now, row, until, gone>>

End(o) == call' = [call EXCEPT ![o] = NoCall]

(* The owner is told it has the lock, to the expiry stored for it.         *)
Told(o, expires) == until' = [until EXCEPT ![o] = expires]

Granted(o) ==
    /\ row' = [owner |-> o, expires |-> call[o].stamp + Ttl]
    /\ Told(o, call[o].stamp + Ttl)
    /\ End(o)

(* Mutant: expiry is a courtesy.                                           *)
Takeable_AnyTime(stamp) == TRUE

(* No row, or one that is past its expiry.                                 *)
Takeable(stamp) == row.owner = NoOne \/ row.expires <= stamp

acquire_lock(o) ==
    /\ call[o].op = "acquire"
    /\ \/ Takeable(call[o].stamp) /\ Granted(o)
       \/ ~Takeable(call[o].stamp) /\ End(o) /\ UNCHANGED <<row, until>>
    /\ UNCHANGED <<now, gone>>

(* The row is the caller's; nothing is asked of its expiry.                *)
Extendable(o) == row.owner = o

extend_lock(o) ==
    /\ call[o].op = "extend"
    /\ \/ Extendable(o) /\ Granted(o)
       \/ ~Extendable(o) /\ End(o) /\ Told(o, 0) /\ UNCHANGED row
    /\ UNCHANGED <<now, gone>>

(* try_lead renews, and takes the lock only when there was nothing to      *)
(* renew: a call of its own, with its own reading of the clock.            *)
try_lead(o) ==
    /\ call[o].op = "lead"
    /\ \/ Extendable(o) /\ Granted(o)
       \/ ~Extendable(o) /\ Start(o, "acquire") /\ Told(o, 0) /\ UNCHANGED row
    /\ UNCHANGED <<now, gone>>

release_lock(o) ==
    /\ o \notin gone /\ call[o] = NoCall
    /\ row' = IF row.owner = o THEN NoRow ELSE row
    /\ Told(o, 0)
    /\ UNCHANGED <<now, call, gone>>

(* Mutant: only the reaper's own locks.                                    *)
reap_expired_locks_Own(o) ==
    /\ call[o].op = "reap"
    /\ row' = IF row.expires <= call[o].stamp /\ row.owner = o THEN NoRow ELSE row
    /\ End(o)
    /\ UNCHANGED <<now, until, gone>>

reap_expired_locks(o) ==
    /\ call[o].op = "reap"
    /\ row' = IF row.expires <= call[o].stamp THEN NoRow ELSE row
    /\ End(o)
    /\ UNCHANGED <<now, until, gone>>

Serve(o) == acquire_lock(o) \/ extend_lock(o) \/ try_lead(o) \/ reap_expired_locks(o)

Next ==
    \/ Tick
    \/ \E o \in Owners :
          Crash(o) \/ (\E op \in Ops : Begin(o, op)) \/ Serve(o) \/ release_lock(o)

Spec == Init /\ [][Next]_vars

(* Calls return, and every scheduler keeps sweeping (reap_stale).          *)
Fairness ==
    /\ WF_vars(Tick)
    /\ \A o \in Owners : WF_vars(Serve(o)) /\ SF_vars(Begin(o, "reap"))

FairSpec == Spec /\ Fairness

-----------------------------------------------------------------------------
(* An owner may rely on the lock while no clock has reached its expiry.    *)
Holds(o) == until[o] > now + MaxSkew

(* Two owners never rely on the lock at once, however long their calls were*)
(* delayed after reading the clock.                                        *)
MutualExclusion == \A o, p \in Owners : Holds(o) /\ Holds(p) => o = p

(* What an owner relies on is what is stored: nobody shortened it or took  *)
(* it away.                                                                *)
HoldsWhatIsStored == \A o \in Owners : Holds(o) => row.owner = o /\ row.expires = until[o]

(* The invariant of the proof: no call carries a clock ahead of them all.  *)
StampsNotAhead == \A o \in Owners : call[o].stamp <= now + MaxSkew
LockInv == TypeOK /\ StampsNotAhead /\ HoldsWhatIsStored

(* The lock of a crashed owner is freed, as long as one process lives.     *)
FreedAfterCrash ==
    \A o \in Owners : (o \in gone /\ row.owner = o) ~> (row.owner # o \/ gone = Owners)
=============================================================================
