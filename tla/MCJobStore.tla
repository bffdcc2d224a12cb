----------------------------- MODULE MCJobStore -----------------------------
(* The store on its own: every transaction in every order.  MaxClaims and  *)
(* MaxRetry bound the counters the code leaves unbounded.                  *)
EXTENDS JobStore, TLC

CONSTANTS MaxClaims, MaxRetry, MaxDead

Symmetry == Permutations(Jobs) \cup Permutations(Owners)

StoreBound ==
    /\ minted <= MaxClaims
    /\ \A j \in Jobs : jobs[j].retry <= MaxRetry /\ dead[j] <= MaxDead
=============================================================================
