---------------------------- MODULE JobLifecycle ----------------------------
(***************************************************************************)
(* What a job promises the caller who enqueued it, without tables, claims  *)
(* or schedulers: one state per job, and an attempt counter.               *)
(*                                                                         *)
(*   Absent -> Pending <-> Running -> Complete                             *)
(*                \           \----> Dead | Cancelled                      *)
(*                 \---------------> Dead | Cancelled                      *)
(*                                                                         *)
(* JobStore implements this specification (theorem StoreImplementsLifecycle*)
(* in JobStoreProofs); the state names are those of JobStatus in job.rs.   *)
(***************************************************************************)
EXTENDS Naturals

CONSTANT Jobs

VARIABLES
    state,      \* [Jobs -> States]
    attempts    \* [Jobs -> Nat], the retries granted so far

vars == <<state, attempts>>

Live == {"Pending", "Running"}
Terminal == {"Complete", "Dead", "Cancelled"}
States == {"Absent"} \cup Live \cup Terminal

Init ==
    /\ state = [j \in Jobs |-> "Absent"]
    /\ attempts = [j \in Jobs |-> 0]

Submit(j) ==
    /\ state[j] = "Absent"
    /\ state' = [state EXCEPT ![j] = "Pending"]
    /\ UNCHANGED attempts

Start(j) ==
    /\ state[j] = "Pending"
    /\ state' = [state EXCEPT ![j] = "Running"]
    /\ UNCHANGED attempts

(* Success is accepted from a Running job only.                            *)
Finish(j) ==
    /\ state[j] = "Running"
    /\ state' = [state EXCEPT ![j] = "Complete"]
    /\ UNCHANGED attempts

(* A deferral, a rollback or an operator's requeue: no attempt is spent.   *)
GiveBack(j) ==
    /\ state[j] \in Live
    /\ state' = [state EXCEPT ![j] = "Pending"]
    /\ UNCHANGED attempts

Retry(j) ==
    /\ state[j] \in Live
    /\ state' = [state EXCEPT ![j] = "Pending"]
    /\ attempts' = [attempts EXCEPT ![j] = @ + 1]

GiveUp(j) ==
    /\ state[j] \in Live
    /\ \E t \in {"Dead", "Cancelled"} : state' = [state EXCEPT ![j] = t]
    /\ UNCHANGED attempts

Next ==
    \E j \in Jobs :
        \/ Submit(j) \/ Start(j) \/ Finish(j)
        \/ GiveBack(j) \/ Retry(j) \/ GiveUp(j)

Spec == Init /\ [][Next]_vars
=============================================================================
