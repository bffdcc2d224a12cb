------------------------------ MODULE JobStore ------------------------------
(***************************************************************************)
(* The job tables of flexiq-core and the storage transactions that move a  *)
(* job between them: jobs (live rows), archived_jobs, execution_claims and *)
(* dead_letter.  Each action is one transaction of the diesel backends     *)
(* (storage/diesel_common, storage/sqlite).                                *)
(*                                                                         *)
(* Storage is shared: schedulers, bindings and the dashboard call it in    *)
(* any order, so Next lets every transaction happen whenever its own WHERE *)
(* clause matches, and nothing here relies on a caller being polite.  The  *)
(* schedulers that call it are in Dispatch, which EXTENDS this module.     *)
(*                                                                         *)
(* Abstractions: a row keeps the columns the properties tell apart; a      *)
(* claim's random 63-bit epoch is the number of claims minted so far,      *)
(* since the code only ever compares epochs for equality; payloads,        *)
(* namespaces and clocks are left out.                                     *)
(***************************************************************************)
EXTENDS Naturals

CONSTANTS
    Jobs,        \* job ids
    Owners,      \* worker ids a claim can name (claim_owner of a scheduler)
    None         \* no owner, no job

ASSUME NoneAssumption == None \notin Jobs \cup Owners

VARIABLES
    jobs,        \* the live rows: status, retry_count, cancel_requested
    archive,     \* archived_jobs: terminal status and retry_count, or NoArchive
    claims,      \* execution_claims: owner and epoch, or NoClaim
    dead,        \* dead_letter: how many entries name the job
    minted       \* claims won so far over all jobs, the source of epochs

storeVars == <<jobs, archive, claims, dead, minted>>

LiveStatus == {"Pending", "Running"}
TerminalStatus == {"Complete", "Dead", "Cancelled"}

Row == [status : {"Absent"} \cup LiveStatus, retry : Nat, cancel : BOOLEAN]
NoRow == [status |-> "Absent", retry |-> 0, cancel |-> FALSE]

ArchivedRow == [status : {"Absent"} \cup TerminalStatus, retry : Nat]
NoArchive == [status |-> "Absent", retry |-> 0]

Claim == [owner : Owners \cup {None}, epoch : Nat]
NoClaim == [owner |-> None, epoch |-> 0]

(* One type invariant for the tables.                                      *)
StoreTypeOK ==
    /\ jobs \in [Jobs -> Row]
    /\ archive \in [Jobs -> ArchivedRow]
    /\ claims \in [Jobs -> Claim]
    /\ dead \in [Jobs -> Nat]
    /\ minted \in Nat

StoreInit ==
    /\ jobs = [j \in Jobs |-> NoRow]
    /\ archive = [j \in Jobs |-> NoArchive]
    /\ claims = [j \in Jobs |-> NoClaim]
    /\ dead = [j \in Jobs |-> 0]
    /\ minted = 0

IsLive(j) == jobs[j].status \in LiveStatus
IsArchived(j) == archive[j].status # "Absent"

-----------------------------------------------------------------------------
(* Ids are fresh uuids: one is never enqueued twice, archived or not.      *)
enqueue(j) ==
    /\ ~IsLive(j) /\ ~IsArchived(j)
    /\ jobs' = [jobs EXCEPT ![j] = [NoRow EXCEPT !.status = "Pending"]]
    /\ UNCHANGED <<archive, claims, dead, minted>>

dequeue(j) ==
    /\ jobs[j].status = "Pending"
    /\ jobs' = [jobs EXCEPT ![j].status = "Running"]
    /\ UNCHANGED <<archive, claims, dead, minted>>

(* Mutant: the move forgets its second half.                               *)
archive_job_row_KeepsRow(j, status) ==
    /\ archive' = [archive EXCEPT ![j] = [status |-> status, retry |-> jobs[j].retry]]
    /\ claims' = [claims EXCEPT ![j] = NoClaim]
    /\ UNCHANGED jobs

(* Insert the archived row, delete the live row and delete the claim, in   *)
(* one transaction.                                                        *)
archive_job_row(j, status) ==
    /\ archive' = [archive EXCEPT ![j] = [status |-> status, retry |-> jobs[j].retry]]
    /\ jobs' = [jobs EXCEPT ![j] = NoRow]
    /\ claims' = [claims EXCEPT ![j] = NoClaim]

(* Mutant: one epoch for a whole batch of claims.                          *)
claim_execution_BatchEpoch(s, j) ==
    /\ claims[j] = NoClaim
    /\ minted' \in {minted, minted + 1}
    /\ claims' = [claims EXCEPT ![j] = [owner |-> s, epoch |-> minted']]
    /\ UNCHANGED <<jobs, archive, dead>>

(* Insert-only, and blind to the job row: a claim can be won on a job that *)
(* is no longer Running, or no longer live.                                *)
claim_execution(s, j) ==
    /\ claims[j] = NoClaim
    /\ minted' = minted + 1
    /\ claims' = [claims EXCEPT ![j] = [owner |-> s, epoch |-> minted']]
    /\ UNCHANGED <<jobs, archive, dead>>

(* Mutant: the transfer rewrites the owner and keeps the dead one's epoch. *)
reclaim_execution_SameEpoch(j, expected, s) ==
    /\ claims[j].owner = expected /\ expected # None
    /\ minted' = claims[j].epoch
    /\ claims' = [claims EXCEPT ![j].owner = s]
    /\ UNCHANGED <<jobs, archive, dead>>

(* Owner compare-and-swap that mints a new epoch for the rescuer.          *)
reclaim_execution(j, expected, s) ==
    /\ claims[j].owner = expected /\ expected # None
    /\ minted' = minted + 1
    /\ claims' = [claims EXCEPT ![j] = [owner |-> s, epoch |-> minted']]
    /\ UNCHANGED <<jobs, archive, dead>>

(* Deletes whatever claim the job has: the owner is not compared.          *)
complete_execution(j) ==
    /\ claims' = [claims EXCEPT ![j] = NoClaim]
    /\ UNCHANGED <<jobs, archive, dead, minted>>

(* The hourly age sweep; claimed_at is abstracted, so any claim may be old.*)
purge_execution_claims(j) ==
    /\ claims[j] # NoClaim
    /\ claims' = [claims EXCEPT ![j] = NoClaim]
    /\ UNCHANGED <<jobs, archive, dead, minted>>

(* Mutant: the Running filter of the row lookup is missing.                *)
complete_AnyLive(j) ==
    /\ IsLive(j)
    /\ archive_job_row(j, "Complete")
    /\ UNCHANGED <<dead, minted>>

complete(j) ==
    /\ jobs[j].status = "Running"
    /\ archive_job_row(j, "Complete")
    /\ UNCHANGED <<dead, minted>>

(* No status filter: a live row in any status goes back to Pending, loses  *)
(* its claim and spends an attempt.                                        *)
retry(j) ==
    /\ IsLive(j)
    /\ jobs' = [jobs EXCEPT ![j].status = "Pending", ![j].retry = @ + 1]
    /\ claims' = [claims EXCEPT ![j] = NoClaim]
    /\ UNCHANGED <<archive, dead, minted>>

(* No status filter either, and the claim is left alone.                   *)
reschedule(j) ==
    /\ IsLive(j)
    /\ jobs' = [jobs EXCEPT ![j].status = "Pending"]
    /\ UNCHANGED <<archive, claims, dead, minted>>

requeue_stuck(j) ==
    /\ jobs[j].status = "Running"
    /\ jobs' = [jobs EXCEPT ![j].status = "Pending", ![j].cancel = FALSE]
    /\ claims' = [claims EXCEPT ![j] = NoClaim]
    /\ UNCHANGED <<archive, dead, minted>>

request_cancel(j) ==
    /\ jobs[j].status = "Running"
    /\ jobs' = [jobs EXCEPT ![j].cancel = TRUE]
    /\ UNCHANGED <<archive, claims, dead, minted>>

(* cancel_job and the expiry of a job past its TTL: Pending rows only.     *)
cancel_pending(j) ==
    /\ jobs[j].status = "Pending"
    /\ archive_job_row(j, "Cancelled")
    /\ UNCHANGED <<dead, minted>>

(* The settle of a Cancelled result: any live row.                         *)
mark_cancelled(j) ==
    /\ IsLive(j)
    /\ archive_job_row(j, "Cancelled")
    /\ UNCHANGED <<dead, minted>>

(* The dead-letter entry is inserted from the caller's copy of the job,    *)
(* whatever has become of the row; the row is archived only if it is still *)
(* live.                                                                   *)
dead_letter(j) ==
    /\ IsLive(j) \/ IsArchived(j)
    /\ dead' = [dead EXCEPT ![j] = @ + 1]
    /\ IF IsLive(j) THEN archive_job_row(j, "Dead")
                    ELSE UNCHANGED <<jobs, archive, claims>>
    /\ UNCHANGED minted

-----------------------------------------------------------------------------
StoreNext ==
    \E j \in Jobs :
        \/ enqueue(j) \/ dequeue(j) \/ complete_execution(j)
        \/ purge_execution_claims(j) \/ complete(j) \/ retry(j)
        \/ reschedule(j) \/ requeue_stuck(j) \/ request_cancel(j)
        \/ cancel_pending(j) \/ mark_cancelled(j) \/ dead_letter(j)
        \/ \E s \in Owners : \/ claim_execution(s, j)
                             \/ \E o \in Owners : reclaim_execution(j, o, s)

StoreSpec == StoreInit /\ [][StoreNext]_storeVars

-----------------------------------------------------------------------------
(* A job id is never in jobs and in archived_jobs at once, whatever calls  *)
(* race: every move is one transaction whose row lookup decides it.        *)
LiveXorArchived == \A j \in Jobs : ~(IsLive(j) /\ IsArchived(j))

(* A claim's epoch was minted for it alone: no two claims held at once     *)
(* share one, and none names an epoch not minted yet.                      *)
ClaimEpochsDistinct ==
    /\ \A j \in Jobs : claims[j].epoch \in 0..minted
    /\ \A j, k \in Jobs :
           (claims[j] # NoClaim /\ claims[j].epoch = claims[k].epoch) => j = k

(* An archived outcome is final: no later call, late result or rescue      *)
(* changes it or brings the id back to life.                               *)
TerminalIsFinal ==
    [][\A j \in Jobs :
          IsArchived(j) => archive'[j] = archive[j] /\ jobs'[j] = jobs[j]]_storeVars

(* An accepted job is never lost: a live row leaves the jobs table only    *)
(* into the archive.                                                       *)
NeverVanishes ==
    [][\A j \in Jobs : IsLive(j) => IsLive(j)' \/ IsArchived(j)']_storeVars

(* The lifecycle a caller sees: get_job reads the live row, and falls back *)
(* to the archived one.                                                    *)
jobState == [j \in Jobs |-> IF IsLive(j) THEN jobs[j].status ELSE archive[j].status]
jobAttempts == [j \in Jobs |-> IF IsLive(j) THEN jobs[j].retry ELSE archive[j].retry]

Lifecycle == INSTANCE JobLifecycle WITH state <- jobState, attempts <- jobAttempts

(* Every transaction, in any order and from any caller, is a step of the   *)
(* lifecycle a job promises, or invisible to it.                           *)
ImplementsLifecycle == Lifecycle!Spec
=============================================================================
