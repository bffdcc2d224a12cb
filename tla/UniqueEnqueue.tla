---------------------------- MODULE UniqueEnqueue ---------------------------
(***************************************************************************)
(* enqueue_unique_reporting: callers that ask for a job under one unique   *)
(* key of one namespace, against each other and against the scheduler that *)
(* ends jobs and so frees the key.  The lookup and the insert are two      *)
(* statements of one transaction; on Postgres another transaction can      *)
(* commit between them, and the partial unique index over Pending and      *)
(* Running rows decides at the insert.  SQLite holds the write lock over   *)
(* both, which is the special case where nothing comes between.            *)
(***************************************************************************)
EXTENDS Naturals, FiniteSets

CONSTANTS
    UniqueMax,      \* bound on the jobs inserted
    Callers,
    NoJob,
    MaxAttempts     \* MAX_ENQUEUE_ATTEMPTS, 3

ASSUME UniqueAssumption ==
    /\ UniqueMax \in Nat /\ MaxAttempts \in Nat \ {0}
    /\ NoJob \notin 1..UniqueMax

(* Ids in the order their inserts commit.                                  *)
UniqueIds == 1..UniqueMax

VARIABLES
    uqStatus,   \* per id: Unborn, Pending, Running or Ended
    uqCall      \* per caller: where its call stands, and what it has met

uqVars == <<uqStatus, uqCall>>

Active == {j \in UniqueIds : uqStatus[j] \in {"Pending", "Running"}}

(* met is every job active at some time since the call began, an auxiliary *)
(* field no action reads.                                                  *)
UqIdle == [at |-> "idle", tries |-> 0, job |-> NoJob, met |-> {}]

UniqueTypeOK ==
    /\ uqStatus \in [UniqueIds -> {"Unborn", "Pending", "Running", "Ended"}]
    /\ uqCall \in [Callers -> [at : {"idle", "look", "insert", "reread",
                                     "inserted", "existing", "contended"},
                               tries : 0..MaxAttempts,
                               job : UniqueIds \cup {NoJob},
                               met : SUBSET UniqueIds]]

UniqueInit ==
    /\ uqStatus = [j \in UniqueIds |-> "Unborn"]
    /\ uqCall = [c \in Callers |-> UqIdle]

-----------------------------------------------------------------------------
Calling(c) == uqCall[c].at \in {"look", "insert", "reread"}

(* A caller moves; every call under way has met the jobs now active.       *)
Go(c, at, tries, job) ==
    uqCall' = [d \in Callers |->
        IF d = c THEN [at |-> at, tries |-> tries, job |-> job,
                       met |-> IF uqCall[c].at = "idle" THEN Active
                               ELSE uqCall[c].met \cup Active']
        ELSE IF Calling(d) THEN [uqCall[d] EXCEPT !.met = @ \cup Active'] ELSE uqCall[d]]

UqBegin(c) ==
    /\ uqCall[c].at = "idle"
    /\ UNCHANGED uqStatus
    /\ Go(c, "look", 0, NoJob)

(* find_active_by_unique_key, inside the transaction.                      *)
UqLook(c) ==
    /\ uqCall[c].at = "look"
    /\ UNCHANGED uqStatus
    /\ \/ \E j \in Active : Go(c, "existing", uqCall[c].tries, j)
       \/ Active = {} /\ Go(c, "insert", uqCall[c].tries, NoJob)

(* The insert commits, or trips over the index: a job minted by a          *)
(* concurrent winner.                                                      *)
UqInsert(c) ==
    /\ uqCall[c].at = "insert"
    /\ \/ /\ Active = {}
          /\ \E j \in UniqueIds :
                 /\ uqStatus[j] = "Unborn" /\ \A i \in 1..(j - 1) : uqStatus[i] # "Unborn"
                 /\ uqStatus' = [uqStatus EXCEPT ![j] = "Pending"]
                 /\ Go(c, "inserted", uqCall[c].tries, j)
       \/ /\ Active # {}
          /\ UNCHANGED uqStatus
          /\ Go(c, "reread", uqCall[c].tries, NoJob)

(* Mutant: the violation is taken for proof that the winner is there, and  *)
(* whatever row the key last named is returned.                            *)
UqReread_AnyRow(c) ==
    /\ uqCall[c].at = "reread"
    /\ UNCHANGED uqStatus
    /\ \E j \in {k \in UniqueIds : uqStatus[k] # "Unborn"} :
           Go(c, "existing", uqCall[c].tries, j)

(* After a violation: the winner if it is still active, else its ending    *)
(* has freed the key and the insert is tried again, up to the bound.       *)
UqReread(c) ==
    /\ uqCall[c].at = "reread"
    /\ UNCHANGED uqStatus
    /\ \/ \E j \in Active : Go(c, "existing", uqCall[c].tries, j)
       \/ /\ Active = {}
          /\ IF uqCall[c].tries + 1 < MaxAttempts
             THEN Go(c, "look", uqCall[c].tries + 1, NoJob)
             ELSE Go(c, "contended", MaxAttempts, NoJob)

(* The caller has its answer and goes on.                                  *)
UqReturn(c) ==
    /\ uqCall[c].at \in {"inserted", "existing", "contended"}
    /\ uqCall' = [uqCall EXCEPT ![c] = UqIdle]
    /\ UNCHANGED uqStatus

(* Dispatch and retry keep the key; archiving frees it.                    *)
UqRun(j) ==
    /\ \/ uqStatus[j] = "Pending" /\ uqStatus' = [uqStatus EXCEPT ![j] = "Running"]
       \/ uqStatus[j] = "Running" /\ \E s \in {"Pending", "Ended"} :
                                         uqStatus' = [uqStatus EXCEPT ![j] = s]
       \/ uqStatus[j] = "Pending" /\ uqStatus' = [uqStatus EXCEPT ![j] = "Ended"]
    /\ UNCHANGED uqCall

UniqueNext ==
    \/ \E c \in Callers : \/ UqBegin(c) \/ UqLook(c) \/ UqInsert(c)
                          \/ UqReread(c) \/ UqReturn(c)
    \/ \E j \in UniqueIds : UqRun(j)

UniqueSpec == UniqueInit /\ [][UniqueNext]_uqVars

-----------------------------------------------------------------------------
(* What a caller is told is true.  The job it is given is never a phantom  *)
(* nor one that had ended before the call was made: it was active at some  *)
(* moment while the call was under way.  The key is reported contended     *)
(* only if as many different jobs as there are attempts held it, and       *)
(* ended, during the call.                                                 *)
AnswersAreTrue ==
    \A c \in Callers :
        /\ uqCall[c].at \in {"inserted", "existing"} => uqCall[c].job \in uqCall[c].met
        /\ uqCall[c].at = "contended" => Cardinality(uqCall[c].met) >= MaxAttempts
=============================================================================
