------------------------------ MODULE MCContention ---------------------------
(***************************************************************************)
(* What several processes compete for: a lock or the leadership, a unique  *)
(* key, a dead letter to revive, a periodic slot to fire, a place under a  *)
(* concurrency cap.  They share no state, so a behaviour is a behaviour of *)
(* one of them: part says which.                                           *)
(***************************************************************************)
EXTENDS DistributedLock, UniqueEnqueue, DeadLetterRetry, Periodic, ConcurrencyCaps

VARIABLE part

contentionVars == <<vars, uqVars, dlVars, perVars, capVars, part>>

\* Three jobs of one queue; two of them are of the task that has a cap of its own.
JobScopes == [j \in CapJobs |-> IF j \in {"first", "second"} THEN <<"queue", "task">> ELSE <<"queue">>]
ScopeLimits == [queue |-> 2, task |-> 1]

ContentionInit ==
    /\ Init /\ UniqueInit /\ DeadLetterInit /\ PeriodicInit /\ CapsInit
    /\ part \in {"lock", "unique", "dead letters", "periodic", "caps"}
    /\ part # "periodic" => schedule.cron = 1   \* one start for the other parts

ContentionNext ==
    \/ part = "lock" /\ Next /\ UNCHANGED <<uqVars, dlVars, perVars, capVars, part>>
    \/ part = "unique" /\ UniqueNext /\ UNCHANGED <<vars, dlVars, perVars, capVars, part>>
    \/ part = "dead letters" /\ DeadLetterNext /\ UNCHANGED <<vars, uqVars, perVars, capVars, part>>
    \/ part = "periodic" /\ PeriodicNext /\ UNCHANGED <<vars, uqVars, dlVars, capVars, part>>
    \/ part = "caps" /\ CapsNext /\ UNCHANGED <<vars, uqVars, dlVars, perVars, part>>

\* Fairness of DistributedLock, in its own part.
ContentionFairness ==
    /\ WF_vars(part = "lock" /\ Tick)
    /\ \A o \in Owners : /\ WF_vars(part = "lock" /\ Serve(o))
                         /\ SF_vars(part = "lock" /\ Begin(o, "reap"))

ContentionSpec == ContentionInit /\ [][ContentionNext]_contentionVars /\ ContentionFairness
=============================================================================
