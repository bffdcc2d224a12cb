------------------------------ MODULE MCGates -------------------------------
(***************************************************************************)
(* What holds a pending job back: the debounce window, the jobs it depends *)
(* on and its task's circuit breaker.  They share no state, so a behaviour *)
(* is a behaviour of one of them: part says which.                         *)
(***************************************************************************)
EXTENDS CircuitBreaker, Debounce, Dependencies

VARIABLE part

gatesVars == <<vars, dbVars, depVars, part>>

DebounceOptions == {[window |-> 1, max_wait |-> 2], [window |-> 2, max_wait |-> 3]}

GatesInit ==
    /\ Init /\ DebounceInit /\ DependenciesInit
    /\ part \in {"breaker", "debounce", "dependencies"}

GatesNext ==
    \/ part = "breaker" /\ Next /\ UNCHANGED <<dbVars, depVars, part>>
    \/ part = "debounce" /\ DebounceNext /\ UNCHANGED <<vars, depVars, part>>
    \/ part = "dependencies" /\ DependenciesNext /\ UNCHANGED <<vars, dbVars, part>>

\* Fairness and DebounceFair, each of its own part.
Alone(p, A) == part = p /\ A

GatesFairness ==
    /\ WF_vars(Alone("breaker", Tick)) /\ WF_vars(Alone("breaker", NoReport))
    /\ \A c \in Callers : /\ WF_vars(Alone("breaker", Commit(c)))
                          /\ WF_vars(Alone("breaker", AllowProbe(c)))
                          /\ WF_vars(Alone("breaker", AllowTimeout(c)))
    /\ WF_dbVars(Alone("debounce", DbTick))
    /\ \A j \in DebounceIds : /\ WF_dbVars(Alone("debounce", DbDequeue(j)))
                              /\ WF_dbVars(Alone("debounce", DbClaim(j)))

GatesSpec == GatesInit /\ [][GatesNext]_gatesVars /\ GatesFairness

\* A job is held back for a while, never for good: an open breaker takes probes
\* again (allow), and calls that never stop do not put a debounced job off for
\* ever (enqueue_debounced).
NothingHeldForGood == NeverGatedForGood /\ DebouncedRuns
=============================================================================
