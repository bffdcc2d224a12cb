--------------------------- MODULE JobStoreProofs ---------------------------
(***************************************************************************)
(* What the storage transactions guarantee for any number of jobs and      *)
(* callers, in any interleaving.                                           *)
(***************************************************************************)
EXTENDS JobStore, TLAPS

(* A deleted row is no row at all, and an epoch is 0 exactly where there   *)
(* is no claim.                                                            *)
CleanDeletes ==
    /\ \A j \in Jobs : ~IsLive(j) => jobs[j] = NoRow
    /\ \A j \in Jobs : ~IsArchived(j) => archive[j] = NoArchive
    /\ \A j \in Jobs : claims[j].owner = None <=> claims[j].epoch = 0

(* The inductive invariant: LiveXorArchived and ClaimEpochsDistinct need   *)
(* the types and CleanDeletes.                                             *)
StoreInv == StoreTypeOK /\ LiveXorArchived /\ CleanDeletes /\ ClaimEpochsDistinct

(* The tables are empty at first.                                          *)
LEMMA StoreInitInv == StoreInit => StoreInv
<1> SUFFICES ASSUME StoreInit PROVE StoreInv
  OBVIOUS
<1> USE DEF StoreInit, NoRow, NoArchive, NoClaim
<1>1. StoreTypeOK
  BY DEF StoreTypeOK, Row, ArchivedRow, Claim
<1>2. LiveXorArchived /\ CleanDeletes
  BY DEF LiveXorArchived, CleanDeletes, IsLive, IsArchived, LiveStatus
<1>3. ClaimEpochsDistinct
  BY DEF ClaimEpochsDistinct
<1> QED
  BY <1>1, <1>2, <1>3 DEF StoreInv

(* A transaction that rewrites one live row, or inserts it, and may revoke *)
(* the job's claim.                                                        *)
LEMMA RowRewrite ==
    ASSUME StoreInv, NEW j \in Jobs, ~IsArchived(j),
           NEW r \in Row, r.status \in LiveStatus,
           jobs' = [jobs EXCEPT ![j] = r],
           claims' = claims \/ claims' = [claims EXCEPT ![j] = NoClaim],
           UNCHANGED <<archive, dead, minted>>
    PROVE  StoreInv'
<1>1. StoreTypeOK'
  BY NoneAssumption DEF StoreInv, StoreTypeOK, Claim, NoClaim
<1>2. LiveXorArchived'
  BY DEF StoreInv, StoreTypeOK, LiveXorArchived, IsLive, IsArchived
<1>3. CleanDeletes'
  BY DEF StoreInv, StoreTypeOK, CleanDeletes, IsLive, IsArchived, NoClaim
<1>4. ClaimEpochsDistinct'
  BY DEF StoreInv, StoreTypeOK, CleanDeletes, ClaimEpochsDistinct, Claim, NoClaim
<1> QED
  BY <1>1, <1>2, <1>3, <1>4 DEF StoreInv

(* A transaction that archives a live row.                                 *)
LEMMA RowArchive ==
    ASSUME StoreInv, NEW j \in Jobs, IsLive(j), NEW status \in TerminalStatus,
           archive_job_row(j, status), dead' \in [Jobs -> Nat], UNCHANGED minted
    PROVE  StoreInv'
<1> USE DEF archive_job_row
<1>1. StoreTypeOK'
  BY NoneAssumption
  DEF StoreInv, StoreTypeOK, Row, NoRow, ArchivedRow, Claim, NoClaim
<1>2. LiveXorArchived'
  BY DEF StoreInv, StoreTypeOK, LiveXorArchived, IsLive, IsArchived, NoRow, LiveStatus
<1>3. CleanDeletes'
  BY DEF StoreInv, StoreTypeOK, CleanDeletes, IsLive, IsArchived, NoRow, NoClaim,
         LiveStatus, TerminalStatus
<1>4. ClaimEpochsDistinct'
  BY DEF StoreInv, StoreTypeOK, CleanDeletes, ClaimEpochsDistinct, Claim, NoClaim
<1> QED
  BY <1>1, <1>2, <1>3, <1>4 DEF StoreInv

(* A transaction that only deletes a claim.                                *)
LEMMA ClaimDelete ==
    ASSUME StoreInv, NEW j \in Jobs, claims' = [claims EXCEPT ![j] = NoClaim],
           UNCHANGED <<jobs, archive, dead, minted>>
    PROVE  StoreInv'
<1>1. StoreTypeOK'
  BY NoneAssumption DEF StoreInv, StoreTypeOK, Claim, NoClaim
<1>2. LiveXorArchived' /\ CleanDeletes'
  BY DEF StoreInv, StoreTypeOK, LiveXorArchived, CleanDeletes, IsLive, IsArchived, NoClaim
<1>3. ClaimEpochsDistinct'
  BY DEF StoreInv, StoreTypeOK, CleanDeletes, ClaimEpochsDistinct, Claim, NoClaim
<1> QED
  BY <1>1, <1>2, <1>3 DEF StoreInv

(* A transaction that writes a claim under a newly minted epoch.           *)
LEMMA ClaimMint ==
    ASSUME StoreInv, NEW j \in Jobs, NEW s \in Owners, minted' = minted + 1,
           claims' = [claims EXCEPT ![j] = [owner |-> s, epoch |-> minted']],
           UNCHANGED <<jobs, archive, dead>>
    PROVE  StoreInv'
<1>1. StoreTypeOK'
  BY DEF StoreInv, StoreTypeOK, Claim
<1>2. LiveXorArchived' /\ CleanDeletes'
  BY NoneAssumption
  DEF StoreInv, StoreTypeOK, LiveXorArchived, CleanDeletes, IsLive, IsArchived
<1>3. ClaimEpochsDistinct'
  BY DEF StoreInv, StoreTypeOK, CleanDeletes, ClaimEpochsDistinct, Claim, NoClaim
<1> QED
  BY <1>1, <1>2, <1>3 DEF StoreInv

(* Every transaction preserves the invariant.                              *)
LEMMA StoreNextInv == StoreInv /\ [StoreNext]_storeVars => StoreInv'
<1> SUFFICES ASSUME StoreInv, [StoreNext]_storeVars PROVE StoreInv'
  OBVIOUS
<1>1. CASE UNCHANGED storeVars
  BY <1>1 DEF storeVars, StoreInv, StoreTypeOK, LiveXorArchived, CleanDeletes,
              ClaimEpochsDistinct, IsLive, IsArchived
<1>2. ASSUME NEW j \in Jobs, IsLive(j) PROVE ~IsArchived(j) /\ jobs[j] \in Row
  BY <1>2 DEF StoreInv, StoreTypeOK, LiveXorArchived
<1>3. ASSUME NEW j \in Jobs, enqueue(j) PROVE StoreInv'
  <2>1. [NoRow EXCEPT !.status = "Pending"] \in Row
    BY DEF Row, NoRow, LiveStatus
  <2> QED
    BY <1>3, <2>1, RowRewrite DEF enqueue, NoRow, LiveStatus
<1>4. ASSUME NEW j \in Jobs, dequeue(j) \/ reschedule(j) PROVE StoreInv'
  <2>1. IsLive(j)
    BY <1>4 DEF dequeue, reschedule, IsLive, LiveStatus
  <2>2. PICK status \in LiveStatus :
            jobs' = [jobs EXCEPT ![j] = [jobs[j] EXCEPT !.status = status]]
    BY <1>4 DEF dequeue, reschedule, LiveStatus
  <2>3. [jobs[j] EXCEPT !.status = status] \in Row
    BY <1>2, <2>1, <2>2 DEF Row
  <2>4. [jobs[j] EXCEPT !.status = status].status \in LiveStatus
    BY <1>2, <2>1, <2>2 DEF Row
  <2>5. claims' = claims /\ UNCHANGED <<archive, dead, minted>>
    BY <1>4 DEF dequeue, reschedule
  <2>6. ~IsArchived(j)
    BY <1>2, <2>1
  <2> QED
    BY <2>2, <2>3, <2>4, <2>5, <2>6, RowRewrite
<1>5. ASSUME NEW j \in Jobs, retry(j) PROVE StoreInv'
  <2> DEFINE n == jobs[j].retry + 1
             r == [jobs[j] EXCEPT !.status = "Pending", !.retry = n]
  <2>1. jobs[j] \in Row /\ ~IsArchived(j)
    BY <1>2, <1>5 DEF retry
  <2>2. n \in Nat
    BY <2>1 DEF Row
  <2>3. jobs' = [jobs EXCEPT ![j] = r]
    BY <1>5 DEF retry, StoreInv, StoreTypeOK
  <2>4. claims' = [claims EXCEPT ![j] = NoClaim] /\ UNCHANGED <<archive, dead, minted>>
    BY <1>5 DEF retry
  <2> HIDE DEF n
  <2>5. r \in Row /\ r.status \in LiveStatus
    BY <2>1, <2>2 DEF Row, LiveStatus
  <2> HIDE DEF r
  <2> QED
    BY <2>1, <2>3, <2>4, <2>5, RowRewrite
<1>6. ASSUME NEW j \in Jobs, requeue_stuck(j) PROVE StoreInv'
  <2>1. IsLive(j)
    BY <1>6 DEF requeue_stuck, IsLive, LiveStatus
  <2>2. [jobs[j] EXCEPT !.status = "Pending", !.cancel = FALSE] \in Row
    BY <1>2, <2>1 DEF Row, LiveStatus
  <2>3. [jobs[j] EXCEPT !.status = "Pending", !.cancel = FALSE].status \in LiveStatus
    BY <1>2, <2>1 DEF Row, LiveStatus
  <2>4. jobs' = [jobs EXCEPT ![j] = [jobs[j] EXCEPT !.status = "Pending", !.cancel = FALSE]]
    BY <1>6 DEF requeue_stuck, StoreInv, StoreTypeOK
  <2> QED
    BY <1>2, <1>6, <2>1, <2>2, <2>3, <2>4, RowRewrite DEF requeue_stuck
<1>7. ASSUME NEW j \in Jobs, request_cancel(j) PROVE StoreInv'
  <2>1. IsLive(j)
    BY <1>7 DEF request_cancel, IsLive, LiveStatus
  <2>2. [jobs[j] EXCEPT !.cancel = TRUE] \in Row
    BY <1>2, <2>1 DEF Row, LiveStatus
  <2>3. [jobs[j] EXCEPT !.cancel = TRUE].status \in LiveStatus
    BY <1>2, <2>1 DEF Row, IsLive
  <2> QED
    BY <1>2, <1>7, <2>1, <2>2, <2>3, RowRewrite DEF request_cancel
<1>8. ASSUME NEW j \in Jobs, complete(j) \/ cancel_pending(j) \/ mark_cancelled(j)
      PROVE StoreInv'
  <2>1. IsLive(j)
    BY <1>8 DEF complete, cancel_pending, mark_cancelled, IsLive, LiveStatus
  <2>2. PICK status \in TerminalStatus : archive_job_row(j, status)
    BY <1>8 DEF complete, cancel_pending, mark_cancelled, TerminalStatus
  <2>3. UNCHANGED <<dead, minted>>
    BY <1>8 DEF complete, cancel_pending, mark_cancelled
  <2>4. dead' \in [Jobs -> Nat]
    BY <2>3 DEF StoreInv, StoreTypeOK
  <2> QED
    BY <2>1, <2>2, <2>3, <2>4, RowArchive
<1>9. ASSUME NEW j \in Jobs, dead_letter(j) PROVE StoreInv'
  <2>1. dead' \in [Jobs -> Nat] /\ UNCHANGED minted
    BY <1>9 DEF dead_letter, StoreInv, StoreTypeOK
  <2>2. CASE IsLive(j)
    BY <1>9, <2>1, <2>2, RowArchive DEF dead_letter, TerminalStatus
  <2>3. CASE ~IsLive(j)
    <3>1. UNCHANGED <<jobs, archive, claims, minted>>
      BY <1>9, <2>3 DEF dead_letter
    <3> QED
      BY <2>1, <3>1 DEF StoreInv, StoreTypeOK, LiveXorArchived, CleanDeletes,
                        ClaimEpochsDistinct, IsLive, IsArchived
  <2> QED
    BY <2>2, <2>3
<1>10. ASSUME NEW j \in Jobs, complete_execution(j) \/ purge_execution_claims(j)
       PROVE StoreInv'
  BY <1>10, ClaimDelete DEF complete_execution, purge_execution_claims
<1>11. ASSUME NEW j \in Jobs, NEW s \in Owners, claim_execution(s, j) PROVE StoreInv'
  BY <1>11, ClaimMint DEF claim_execution
<1>12. ASSUME NEW j \in Jobs, NEW s \in Owners, NEW o \in Owners, reclaim_execution(j, o, s)
       PROVE StoreInv'
  BY <1>12, ClaimMint DEF reclaim_execution
<1> QED
  BY <1>1, <1>3, <1>4, <1>5, <1>6, <1>7, <1>8, <1>9, <1>10, <1>11, <1>12 DEF StoreNext

(* The store invariant, and with it LiveXorArchived and                    *)
(* ClaimEpochsDistinct, for every set of jobs and callers.                 *)
THEOREM StoreSafe == StoreSpec => []StoreInv
<1>1. StoreInit => StoreInv
  BY StoreInitInv
<1>2. StoreInv /\ [StoreNext]_storeVars => StoreInv'
  BY StoreNextInv
<1> QED
  BY <1>1, <1>2, PTL DEF StoreSpec

(* A job id is live or archived, never both (LiveXorArchived).             *)
THEOREM LiveXorArchivedAlways == StoreSpec => []LiveXorArchived
<1>1. StoreInv => LiveXorArchived
  BY DEF StoreInv
<1> QED
  BY <1>1, StoreSafe, PTL

(* No two claims held at once share an epoch (ClaimEpochsDistinct).        *)
THEOREM ClaimEpochsDistinctAlways == StoreSpec => []ClaimEpochsDistinct
<1>1. StoreInv => ClaimEpochsDistinct
  BY DEF StoreInv
<1> QED
  BY <1>1, StoreSafe, PTL

-----------------------------------------------------------------------------
(* The three ways a transaction touches the job tables: it inserts a row,  *)
(* rewrites a live one, or archives a live one.                            *)
Inserted(j) ==
    /\ ~IsLive(j) /\ ~IsArchived(j)
    /\ jobs' = [jobs EXCEPT ![j] = [NoRow EXCEPT !.status = "Pending"]]
    /\ archive' = archive

Rewritten(j) ==
    /\ IsLive(j) /\ archive' = archive
    /\ \E r \in Row :
          /\ jobs' = [jobs EXCEPT ![j] = r]
          /\ r.status \in LiveStatus
          /\ r.retry = jobs[j].retry \/ (r.retry = jobs[j].retry + 1 /\ r.status = "Pending")
          /\ r.status = "Running" => r.retry = jobs[j].retry

Archived(j) ==
    /\ IsLive(j)
    /\ \E st \in TerminalStatus :
          /\ st = "Complete" => jobs[j].status = "Running"
          /\ archive' = [archive EXCEPT ![j] = [status |-> st, retry |-> jobs[j].retry]]
          /\ jobs' = [jobs EXCEPT ![j] = NoRow]

(* Every transaction is one of the three, on one job, or leaves both job   *)
(* tables alone.                                                           *)
LEMMA OneJobMoves ==
    ASSUME StoreInv, [StoreNext]_storeVars
    PROVE  \/ UNCHANGED <<jobs, archive>>
           \/ \E j \in Jobs : Inserted(j) \/ Rewritten(j) \/ Archived(j)
<1> DEFINE Goal == \/ UNCHANGED <<jobs, archive>>
                   \/ \E j \in Jobs : Inserted(j) \/ Rewritten(j) \/ Archived(j)
<1>0. \A j \in Jobs : jobs[j] \in Row
  BY DEF StoreInv, StoreTypeOK
<1>1. ASSUME UNCHANGED storeVars PROVE Goal
  BY <1>1 DEF storeVars
<1>2. ASSUME NEW j \in Jobs, enqueue(j) PROVE Goal
  BY <1>2 DEF enqueue, Inserted
<1>3. ASSUME NEW j \in Jobs, dequeue(j) PROVE Goal
  <2> DEFINE r == [jobs[j] EXCEPT !.status = "Running"]
  <2>1. r \in Row /\ r.status \in LiveStatus /\ r.retry = jobs[j].retry
    BY <1>0 DEF Row, LiveStatus
  <2>2. IsLive(j) /\ archive' = archive /\ jobs' = [jobs EXCEPT ![j] = r]
    BY <1>3 DEF dequeue, IsLive, LiveStatus
  <2> HIDE DEF r
  <2>3. Rewritten(j)
    BY <2>1, <2>2 DEF Rewritten
  <2> QED
    BY <2>3
<1>4. ASSUME NEW j \in Jobs, reschedule(j) PROVE Goal
  <2> DEFINE r == [jobs[j] EXCEPT !.status = "Pending"]
  <2>1. r \in Row /\ r.status \in LiveStatus /\ r.retry = jobs[j].retry
    BY <1>0 DEF Row, LiveStatus
  <2>2. IsLive(j) /\ archive' = archive /\ jobs' = [jobs EXCEPT ![j] = r]
    BY <1>4 DEF reschedule
  <2> HIDE DEF r
  <2>3. Rewritten(j)
    BY <2>1, <2>2 DEF Rewritten
  <2> QED
    BY <2>3
<1>5. ASSUME NEW j \in Jobs, retry(j) PROVE Goal
  <2> DEFINE n == jobs[j].retry + 1
             r == [jobs[j] EXCEPT !.status = "Pending", !.retry = n]
  <2>1. n \in Nat
    BY <1>0 DEF Row
  <2>2. IsLive(j) /\ archive' = archive /\ jobs' = [jobs EXCEPT ![j] = r]
    BY <1>5 DEF retry
  <2>3. n = jobs[j].retry + 1
    OBVIOUS
  <2> HIDE DEF n
  <2>4. r \in Row /\ r.status = "Pending" /\ r.retry = n
    BY <1>0, <2>1 DEF Row, LiveStatus
  <2> HIDE DEF r
  <2>5. Rewritten(j)
    BY <2>2, <2>3, <2>4 DEF Rewritten, LiveStatus
  <2> QED
    BY <2>5
<1>6. ASSUME NEW j \in Jobs, requeue_stuck(j) PROVE Goal
  <2> DEFINE r == [jobs[j] EXCEPT !.status = "Pending", !.cancel = FALSE]
  <2>1. r \in Row /\ r.status \in LiveStatus /\ r.retry = jobs[j].retry
    BY <1>0 DEF Row, LiveStatus
  <2>2. IsLive(j) /\ archive' = archive /\ jobs' = [jobs EXCEPT ![j] = r]
    BY <1>6 DEF requeue_stuck, IsLive, LiveStatus
  <2> HIDE DEF r
  <2>3. Rewritten(j)
    BY <2>1, <2>2 DEF Rewritten
  <2> QED
    BY <2>3
<1>7. ASSUME NEW j \in Jobs, request_cancel(j) PROVE Goal
  <2> DEFINE r == [jobs[j] EXCEPT !.cancel = TRUE]
  <2>1. r \in Row /\ r.status = jobs[j].status /\ r.retry = jobs[j].retry
    BY <1>0 DEF Row, LiveStatus
  <2>2. IsLive(j) /\ archive' = archive /\ jobs' = [jobs EXCEPT ![j] = r]
    BY <1>7 DEF request_cancel, IsLive, LiveStatus
  <2> HIDE DEF r
  <2>3. Rewritten(j)
    BY <2>1, <2>2 DEF Rewritten, IsLive
  <2> QED
    BY <2>3
<1>8. ASSUME NEW j \in Jobs, complete(j) \/ cancel_pending(j) \/ mark_cancelled(j) PROVE Goal
  <2>1. IsLive(j)
    BY <1>8 DEF complete, cancel_pending, mark_cancelled, IsLive, LiveStatus
  <2>2. PICK st \in TerminalStatus : /\ st = "Complete" => jobs[j].status = "Running"
                                     /\ archive_job_row(j, st)
    BY <1>8 DEF complete, cancel_pending, mark_cancelled, TerminalStatus
  <2>3. Archived(j)
    BY <2>1, <2>2 DEF Archived, archive_job_row
  <2> QED
    BY <2>3
<1>9. ASSUME NEW j \in Jobs, dead_letter(j) PROVE Goal
  <2>1. CASE IsLive(j)
    <3>1. archive_job_row(j, "Dead") /\ "Dead" \in TerminalStatus
      BY <1>9, <2>1 DEF dead_letter, TerminalStatus
    <3>2. Archived(j)
      BY <2>1, <3>1 DEF Archived, archive_job_row
    <3> QED
      BY <3>2
  <2>2. CASE ~IsLive(j)
    BY <1>9, <2>2 DEF dead_letter
  <2> QED
    BY <2>1, <2>2
<1>10. ASSUME NEW j \in Jobs, complete_execution(j) \/ purge_execution_claims(j) PROVE Goal
  BY <1>10 DEF complete_execution, purge_execution_claims
<1>11. ASSUME NEW j \in Jobs, NEW s \in Owners, claim_execution(s, j) PROVE Goal
  BY <1>11 DEF claim_execution
<1>12. ASSUME NEW j \in Jobs, NEW s \in Owners, NEW o \in Owners, reclaim_execution(j, o, s)
       PROVE Goal
  BY <1>12 DEF reclaim_execution
<1> HIDE DEF Goal
<1>13. Goal
  BY <1>1, <1>2, <1>3, <1>4, <1>5, <1>6, <1>7, <1>8, <1>9, <1>10, <1>11, <1>12 DEF StoreNext
<1> QED
  BY <1>13 DEF Goal

(* An archived outcome never changes and the id never comes back           *)
(* (TerminalIsFinal), whatever transactions follow.                        *)
THEOREM TerminalIsFinalAlways == StoreSpec => TerminalIsFinal
<1>1. StoreInv /\ [StoreNext]_storeVars =>
        \A j \in Jobs : IsArchived(j) => archive'[j] = archive[j] /\ jobs'[j] = jobs[j]
  <2> SUFFICES ASSUME StoreInv, [StoreNext]_storeVars, NEW k \in Jobs, IsArchived(k)
               PROVE  archive'[k] = archive[k] /\ jobs'[k] = jobs[k]
    OBVIOUS
  <2>1. ~IsLive(k)
    BY DEF StoreInv, LiveXorArchived
  <2>2. ASSUME NEW j \in Jobs, Inserted(j) \/ Rewritten(j) \/ Archived(j)
        PROVE  archive'[k] = archive[k] /\ jobs'[k] = jobs[k]
    <3>1. j # k
      BY <2>1, <2>2 DEF Inserted, Rewritten, Archived
    <3> QED
      BY <2>2, <3>1 DEF Inserted, Rewritten, Archived, StoreInv, StoreTypeOK
  <2> QED
    BY <2>2, OneJobMoves
<1> QED
  BY <1>1, StoreSafe, PTL DEF StoreSpec, TerminalIsFinal

(* A live job leaves the jobs table only into the archive (NeverVanishes). *)
THEOREM NeverVanishesAlways == StoreSpec => NeverVanishes
<1>1. StoreInv /\ [StoreNext]_storeVars =>
        \A j \in Jobs : IsLive(j) => IsLive(j)' \/ IsArchived(j)'
  <2> SUFFICES ASSUME StoreInv, [StoreNext]_storeVars, NEW k \in Jobs, IsLive(k)
               PROVE  IsLive(k)' \/ IsArchived(k)'
    OBVIOUS
  <2>1. CASE UNCHANGED <<jobs, archive>>
    BY <2>1 DEF IsLive
  <2>2. ASSUME NEW j \in Jobs, Inserted(j) PROVE IsLive(k)'
    BY <2>2 DEF Inserted, IsLive, StoreInv, StoreTypeOK
  <2>3. ASSUME NEW j \in Jobs, Rewritten(j) PROVE IsLive(k)'
    BY <2>3 DEF Rewritten, IsLive, StoreInv, StoreTypeOK
  <2>4. ASSUME NEW j \in Jobs, Archived(j) PROVE IsLive(k)' \/ IsArchived(k)'
    BY <2>4 DEF Archived, IsLive, IsArchived, TerminalStatus, StoreInv, StoreTypeOK
  <2> QED
    BY <2>1, <2>2, <2>3, <2>4, OneJobMoves
<1> QED
  BY <1>1, StoreSafe, PTL DEF StoreSpec, NeverVanishes

-----------------------------------------------------------------------------
(* What get_job shows of a job after a step that touched only job j.       *)
LEMMA ViewOfOne ==
    ASSUME NEW j \in Jobs,
           \A k \in Jobs \ {j} : jobs'[k] = jobs[k] /\ archive'[k] = archive[k]
    PROVE  /\ jobState' = [jobState EXCEPT ![j] = jobState'[j]]
           /\ jobAttempts' = [jobAttempts EXCEPT ![j] = jobAttempts'[j]]
BY DEF jobState, jobAttempts, IsLive

(* The storage transactions implement the lifecycle                        *)
(* (ImplementsLifecycle): what a caller sees of a job only ever takes the  *)
(* steps JobLifecycle allows.                                              *)
THEOREM StoreImplementsLifecycle == StoreSpec => ImplementsLifecycle
<1>1. StoreInit => Lifecycle!Init
  BY DEF StoreInit, Lifecycle!Init, jobState, jobAttempts, IsLive, LiveStatus, NoRow, NoArchive
<1>2. StoreInv /\ [StoreNext]_storeVars => [Lifecycle!Next]_Lifecycle!vars
  <2> SUFFICES ASSUME StoreInv, [StoreNext]_storeVars
               PROVE  [Lifecycle!Next]_Lifecycle!vars
    OBVIOUS
  <2>1. CASE UNCHANGED <<jobs, archive>>
    BY <2>1 DEF Lifecycle!vars, jobState, jobAttempts, IsLive
  <2>2. ASSUME NEW j \in Jobs, Inserted(j) PROVE Lifecycle!Submit(j)
    <3>1. \A k \in Jobs \ {j} : jobs'[k] = jobs[k] /\ archive'[k] = archive[k]
      BY <2>2 DEF Inserted
    <3>2. jobState[j] = "Absent" /\ jobAttempts[j] = 0
      BY <2>2 DEF Inserted, jobState, jobAttempts, StoreInv, CleanDeletes, NoArchive
    <3>3. jobState'[j] = "Pending" /\ jobAttempts'[j] = 0
      BY <2>2 DEF Inserted, jobState, jobAttempts, IsLive, LiveStatus, NoRow, StoreInv, StoreTypeOK
    <3>4. jobState' = [jobState EXCEPT ![j] = "Pending"]
      BY <3>1, <3>3, ViewOfOne
    <3>5. jobAttempts' = [jobAttempts EXCEPT ![j] = jobAttempts[j]]
      BY <3>1, <3>2, <3>3, ViewOfOne
    <3>6. jobAttempts' = jobAttempts
      BY <3>5 DEF jobAttempts
    <3> QED
      BY <3>2, <3>4, <3>6 DEF Lifecycle!Submit
  <2>3. ASSUME NEW j \in Jobs, Rewritten(j) PROVE [Lifecycle!Next]_Lifecycle!vars
    <3>1. PICK r \in Row :
             /\ jobs' = [jobs EXCEPT ![j] = r]
             /\ r.status \in LiveStatus
             /\ r.retry = jobs[j].retry \/ (r.retry = jobs[j].retry + 1 /\ r.status = "Pending")
             /\ r.status = "Running" => r.retry = jobs[j].retry
      BY <2>3 DEF Rewritten
    <3>2. \A k \in Jobs \ {j} : jobs'[k] = jobs[k] /\ archive'[k] = archive[k]
      BY <2>3, <3>1 DEF Rewritten
    <3>3. jobState[j] = jobs[j].status /\ jobAttempts[j] = jobs[j].retry /\ jobState[j] \in LiveStatus
      BY <2>3 DEF Rewritten, jobState, jobAttempts, IsLive
    <3>4. jobState'[j] = r.status /\ jobAttempts'[j] = r.retry
      BY <3>1 DEF jobState, jobAttempts, IsLive, StoreInv, StoreTypeOK
    <3>5. jobState' = [jobState EXCEPT ![j] = r.status] /\ jobAttempts' = [jobAttempts EXCEPT ![j] = r.retry]
      BY <3>2, <3>4, ViewOfOne
    <3>6. r.retry = jobs[j].retry => jobAttempts' = jobAttempts
      BY <3>3, <3>5 DEF jobAttempts
    <3>7. r.status = jobs[j].status => jobState' = jobState
      BY <3>3, <3>5 DEF jobState
    <3>8. CASE r.retry = jobs[j].retry /\ r.status = jobs[j].status
      BY <3>6, <3>7, <3>8 DEF Lifecycle!vars
    <3>9. CASE r.retry = jobs[j].retry /\ r.status # jobs[j].status /\ r.status = "Running"
      <4>1. jobState[j] = "Pending"
        BY <3>1, <3>3, <3>9 DEF LiveStatus
      <4>2. Lifecycle!Start(j)
        BY <3>5, <3>6, <3>9, <4>1 DEF Lifecycle!Start
      <4> QED
        BY <4>2 DEF Lifecycle!Next
    <3>10. CASE r.retry = jobs[j].retry /\ r.status = "Pending"
      <4>1. Lifecycle!GiveBack(j)
        BY <3>3, <3>5, <3>6, <3>10 DEF Lifecycle!GiveBack, Lifecycle!Live, LiveStatus
      <4> QED
        BY <4>1 DEF Lifecycle!Next
    <3>11. CASE r.retry = jobs[j].retry + 1 /\ r.status = "Pending"
      <4>1. Lifecycle!Retry(j)
        BY <3>3, <3>5, <3>11 DEF Lifecycle!Retry, Lifecycle!Live, LiveStatus
      <4> QED
        BY <4>1 DEF Lifecycle!Next
    <3> QED
      BY <3>1, <3>8, <3>9, <3>10, <3>11 DEF LiveStatus
  <2>4. ASSUME NEW j \in Jobs, Archived(j) PROVE Lifecycle!Next
    <3>1. PICK st \in TerminalStatus :
             /\ st = "Complete" => jobs[j].status = "Running"
             /\ archive' = [archive EXCEPT ![j] = [status |-> st, retry |-> jobs[j].retry]]
             /\ jobs' = [jobs EXCEPT ![j] = NoRow]
      BY <2>4 DEF Archived
    <3>2. \A k \in Jobs \ {j} : jobs'[k] = jobs[k] /\ archive'[k] = archive[k]
      BY <3>1
    <3>3. jobState[j] = jobs[j].status /\ jobAttempts[j] = jobs[j].retry /\ jobState[j] \in LiveStatus
      BY <2>4 DEF Archived, jobState, jobAttempts, IsLive
    <3>4. jobState'[j] = st /\ jobAttempts'[j] = jobs[j].retry
      BY <3>1 DEF jobState, jobAttempts, IsLive, LiveStatus, NoRow, StoreInv, StoreTypeOK
    <3>5. jobState' = [jobState EXCEPT ![j] = st] /\ jobAttempts' = [jobAttempts EXCEPT ![j] = jobs[j].retry]
      BY <3>2, <3>4, ViewOfOne
    <3>6. jobAttempts' = jobAttempts
      BY <3>3, <3>5 DEF jobAttempts
    <3>7. CASE st = "Complete"
      <4>1. Lifecycle!Finish(j)
        BY <3>1, <3>3, <3>5, <3>6, <3>7 DEF Lifecycle!Finish
      <4> QED
        BY <4>1 DEF Lifecycle!Next
    <3>8. CASE st \in {"Dead", "Cancelled"}
      <4>1. Lifecycle!GiveUp(j)
        BY <3>3, <3>5, <3>6, <3>8 DEF Lifecycle!GiveUp, Lifecycle!Live, LiveStatus
      <4> QED
        BY <4>1 DEF Lifecycle!Next
    <3> QED
      BY <3>7, <3>8 DEF TerminalStatus
  <2> QED
    BY <2>1, <2>2, <2>3, <2>4, OneJobMoves DEF Lifecycle!Next
<1> QED
  BY <1>1, <1>2, StoreSafe, PTL DEF StoreSpec, ImplementsLifecycle, Lifecycle!Spec
=============================================================================
