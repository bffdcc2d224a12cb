--------------------------- MODULE MCDurableSteps ---------------------------
(* DurableSteps for TLC: versions of a small task.                         *)
EXTENDS DurableSteps, TLC

Symmetry == Permutations(Owners)

Keyed(k) == [key |-> k, kind |-> "run", keyed |-> TRUE]
Run(k) == [key |-> k, kind |-> "run", keyed |-> FALSE]
Sleep(k) == [key |-> k, kind |-> "sleep", keyed |-> FALSE]

(* A keyed step and a keyed sleep, in any order on each dispatch.          *)
Loop == [loop |-> {Keyed("a"), [Sleep("nap") EXCEPT !.keyed = TRUE]}, walk |-> <<>>]

(* A step, a sleep and a step; and two later versions of that code, one    *)
(* with a step put in front of the sleep, one that runs what was a sleep.  *)
Walk == [loop |-> {}, walk |-> <<Run("r"), Sleep("nap"), Run("s")>>]
Longer == [loop |-> {}, walk |-> <<Run("r"), Run("s"), Sleep("nap")>>]
Rewritten == [loop |-> {}, walk |-> <<Run("r"), Run("nap")>>]

LoopCode == {Loop}
WalkCode == {Walk}
AllVersions == {Walk, Longer, Rewritten}
=============================================================================
