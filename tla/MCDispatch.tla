----------------------------- MODULE MCDispatch -----------------------------
(* Dispatch for TLC: schedulers are interchangeable.                       *)
EXTENDS Dispatch, TLC

Symmetry == Permutations(Owners)
=============================================================================
