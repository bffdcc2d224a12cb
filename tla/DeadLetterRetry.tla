--------------------------- MODULE DeadLetterRetry --------------------------
(***************************************************************************)
(* The way back from the dead-letter queue: retry_dead, called by          *)
(* operators on entries they saw listed and by every scheduler's           *)
(* auto_retry_dlq on the entries its own listing found eligible.  The      *)
(* state is the lineage of one piece of work: the job as enqueued, its     *)
(* dead-letter entry, the new job a retry makes of it, and so on.  An id   *)
(* stands for a job and for the entry it may leave.                        *)
(***************************************************************************)
EXTENDS Naturals, FiniteSets

CONSTANTS
    LineMax,      \* bound on the jobs of the lineage
    AutoRetriers, \* schedulers with dlq_auto_retry_delay_ms set
    Operators,    \* callers of retry_dead who choose their own entries
    AutoMax       \* dlq_auto_retry_max

ASSUME LineAssumption ==
    /\ LineMax \in Nat \ {0} /\ AutoMax \in Nat
    /\ AutoRetriers \cap Operators = {}

(* Ids in the order they are minted; 1 is the job that was enqueued.       *)
LineIds == 1..LineMax

VARIABLES
    line,      \* per id: state, dlq_retry_count, and the entry's shed and aged
    dlCall,    \* per caller: entries still to retry, and the row it has read
    autoDone   \* auxiliary: retries made by schedulers

dlVars == <<line, dlCall, autoDone>>

DlUnborn == [state |-> "unborn", count |-> 0, shed |-> FALSE, aged |-> FALSE]
DlIdle == [todo |-> {}, row |-> {}]

DeadLetterTypeOK ==
    /\ line \in [LineIds -> [state : {"unborn", "live", "dead", "retried",
                                      "succeeded", "purged"},
                             count : Nat, shed : BOOLEAN, aged : BOOLEAN]]
    /\ dlCall \in [AutoRetriers \cup Operators ->
                      [todo : SUBSET LineIds, row : SUBSET LineIds]]
    /\ autoDone \in Nat

DeadLetterInit ==
    /\ line = [[j \in LineIds |-> DlUnborn] EXCEPT ![1].state = "live"]
    /\ dlCall = [a \in AutoRetriers \cup Operators |-> DlIdle]
    /\ autoDone = 0

-----------------------------------------------------------------------------
(* A run ends.  A failure carries the count in the job's metadata over to  *)
(* the entry's column; a job shed by an admission control leaves an entry  *)
(* marked shed.                                                            *)
DlSucceed(j) ==
    /\ line[j].state = "live"
    /\ line' = [line EXCEPT ![j].state = "succeeded"]
    /\ UNCHANGED <<dlCall, autoDone>>

DlFail(j) ==
    /\ line[j].state = "live"
    /\ \E s \in BOOLEAN : line' = [line EXCEPT ![j].state = "dead", ![j].shed = s]
    /\ UNCHANGED <<dlCall, autoDone>>

(* The entry's failed_at passes the auto-retry delay.                      *)
DlAge(j) ==
    /\ line[j].state = "dead" /\ ~line[j].aged
    /\ line' = [line EXCEPT ![j].aged = TRUE]
    /\ UNCHANGED <<dlCall, autoDone>>

(* delete_dead, purge_dead and the trims.                                  *)
DlPurge(j) ==
    /\ line[j].state = "dead"
    /\ line' = [line EXCEPT ![j].state = "purged"]
    /\ UNCHANGED <<dlCall, autoDone>>

(* list_dead_for_retry: aged, not shed, retries left.                      *)
Eligible ==
    {j \in LineIds : /\ line[j].state = "dead" /\ line[j].aged /\ ~line[j].shed
                     /\ line[j].count < AutoMax}

DlList(a) ==
    /\ dlCall[a] = DlIdle /\ Eligible # {}
    /\ dlCall' = [dlCall EXCEPT ![a].todo = Eligible]
    /\ UNCHANGED <<line, autoDone>>

(* An operator acts on an entry it has seen, however long ago.             *)
DlChoose(a, j) ==
    /\ dlCall[a] = DlIdle /\ line[j].state \notin {"unborn", "live"}
    /\ dlCall' = [dlCall EXCEPT ![a].todo = {j}]
    /\ UNCHANGED <<line, autoDone>>

(* retry_dead reads the row outside its transaction; one already gone is   *)
(* JobNotFound, and the listing goes on.                                   *)
DlRead(a, j) ==
    /\ j \in dlCall[a].todo /\ dlCall[a].row = {}
    /\ dlCall' = [dlCall EXCEPT ![a] =
           [todo |-> @.todo \ {j}, row |-> IF line[j].state = "dead" THEN {j} ELSE {}]]
    /\ UNCHANGED <<line, autoDone>>

Fresh(k) == line[k].state = "unborn" /\ \A i \in 1..(k - 1) : line[i].state # "unborn"
Counted(a) == autoDone' = autoDone + (IF a \in AutoRetriers THEN 1 ELSE 0)

(* Mutant: the delete's row count is not looked at.                        *)
DlCommit_Unchecked(a, j, k) ==
    /\ dlCall[a].row = {j} /\ Fresh(k)
    /\ line' = [line EXCEPT ![k].state = "live", ![k].count = line[j].count + 1,
                            ![j].state = "retried"]
    /\ dlCall' = [dlCall EXCEPT ![a].row = {}]
    /\ Counted(a)

(* One transaction: the new job in, the entry out.                         *)
DlCommit(a, j, k) ==
    /\ dlCall[a].row = {j} /\ line[j].state = "dead" /\ Fresh(k)
    /\ line' = [line EXCEPT ![k].state = "live", ![k].count = line[j].count + 1,
                            ![j].state = "retried"]
    /\ dlCall' = [dlCall EXCEPT ![a].row = {}]
    /\ Counted(a)

(* Nothing was deleted: the insert is rolled back.                         *)
DlRollback(a, j) ==
    /\ dlCall[a].row = {j} /\ line[j].state # "dead"
    /\ dlCall' = [dlCall EXCEPT ![a].row = {}]
    /\ UNCHANGED <<line, autoDone>>

DlRetry(a) ==
    \E j \in LineIds : \/ DlRead(a, j) \/ DlRollback(a, j)
                       \/ \E k \in LineIds : DlCommit(a, j, k)

DeadLetterNext ==
    \/ \E j \in LineIds : DlSucceed(j) \/ DlFail(j) \/ DlAge(j) \/ DlPurge(j)
    \/ \E a \in AutoRetriers : DlList(a) \/ DlRetry(a)
    \/ \E a \in Operators : DlRetry(a) \/ \E j \in LineIds : DlChoose(a, j)

DeadLetterSpec == DeadLetterInit /\ [][DeadLetterNext]_dlVars

-----------------------------------------------------------------------------
(* The work exists exactly once, whoever retries what at the same time: as *)
(* a live job, as a dead-letter entry, or settled by a success or a purge; *)
(* and schedulers never bring it back more often than dlq_auto_retry_max,  *)
(* over all the entries it leaves and all the schedulers that list them.   *)
Lives == {j \in LineIds : line[j].state \in {"live", "dead", "succeeded", "purged"}}
OneLife == (\E j \in Lives : Lives = {j}) /\ autoDone <= AutoMax
=============================================================================
