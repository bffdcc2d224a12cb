------------------------------ MODULE MCPools --------------------------------
(***************************************************************************)
(* The two ways a claimed job leaves the scheduler's process: pushed to an *)
(* HTTP target, or sent to an attached executor.  A dispatcher is one or   *)
(* the other and they share no state: part says which.                     *)
(***************************************************************************)
EXTENDS PushSettle, RemotePool

VARIABLE part

poolsVars == <<vars, poolVars, part>>

PoolsInit == Init /\ PoolInit /\ part \in {"push", "pool"} /\ (part = "push" => due = {})

PoolsNext ==
    \/ part = "push" /\ Next /\ UNCHANGED <<poolVars, part>>
    \/ part = "pool" /\ PoolNext /\ UNCHANGED <<vars, part>>

\* Fairness and PoolFairness, each in its own part.
PushFair ==
    /\ WF_vars(part = "push" /\ Tick) /\ WF_vars(part = "push" /\ ReapStep)
    /\ WF_vars(part = "push" /\ \E r \in sent : Drain(r))
    /\ \A d \in Dispatches : /\ WF_vars(part = "push" /\ TaskStep(d))
                             /\ WF_vars(part = "push" /\ CallStep(d))

PoolFair ==
    /\ WF_poolVars(part = "pool" /\ Placing) /\ WF_poolVars(part = "pool" /\ PumpStep)
    /\ \A c \in Conns : /\ WF_poolVars(part = "pool" /\ ReaderStep(c))
                        /\ WF_poolVars(part = "pool" /\ ExecutorStep(c))

PoolsSpec == PoolsInit /\ [][PoolsNext]_poolsVars /\ PushFair /\ PoolFair

(* Whatever the target, the executors and the network do, a dispatch does  *)
(* not stay open for good: pushed, it is decided (PushSettles); sent to an *)
(* executor, it is answered for or left to the reaper (EveryHandEnds).     *)
EveryDispatchEnds == PushSettles /\ EveryHandEnds
=============================================================================
