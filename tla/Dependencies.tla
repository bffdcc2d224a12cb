---------------------------- MODULE Dependencies ----------------------------
(***************************************************************************)
(* depends_on: the edges written with a job, the gate that holds it back   *)
(* at dequeue, the cascade that cancels what can no longer run, and the    *)
(* purge that forgets the past.  Each action is one transaction, or one    *)
(* statement outside any: validate_dependencies reads what the insert then *)
(* relies on (on Postgres another transaction may commit between them),    *)
(* cascade_cancel walks the edges one query at a time with no transaction, *)
(* and only its last step, the archiving of what it found, is one.  It is  *)
(* called after the transaction that archived the failed job has committed.*)
(***************************************************************************)
EXTENDS Naturals, FiniteSets

CONSTANTS
    DepCount,     \* how many jobs there may be
    MaxCascades,  \* bound on the cascades under way at once
    Retention     \* whether the retention sweep runs, which purges every terminal status
                  \* (purge_completed alone takes Complete rows only)

ASSUME DependenciesAssumption ==
    /\ DepCount \in Nat /\ MaxCascades \in Nat
    /\ Retention \in BOOLEAN

(* Ids are UUIDv7: a later job has a greater id.                           *)
DepJobs == 1..DepCount

VARIABLES
    depStatus,   \* per job: its row, live or archived
    depEdges,    \* job_dependencies: pairs <<job_id, depends_on_job_id>>
    wanted,      \* per job: the depends_on it was enqueued with
    entering,    \* jobs validated and not yet inserted
    cascades,    \* cascade_cancel calls under way: root, ids to visit, ids found
    completed,   \* auxiliary: jobs that have reached Complete
    excused      \* auxiliary: jobs whose ending cascades to nobody, or that came late

depVars == <<depStatus, depEdges, wanted, entering, cascades, completed, excused>>

DepTerminal == {"Complete", "Dead", "Cancelled"}

DependenciesTypeOK ==
    /\ depStatus \in [DepJobs -> {"Absent", "Pending", "Running", "Purged", "Forgotten"} \cup DepTerminal]
    /\ depEdges \subseteq DepJobs \X DepJobs
    /\ wanted \in [DepJobs -> SUBSET DepJobs]
    /\ entering \subseteq DepJobs
    /\ \A c \in cascades : /\ c.root \in DepJobs
                           /\ c.todo \subseteq c.found /\ c.found \subseteq DepJobs
    /\ completed \subseteq DepJobs /\ excused \subseteq DepJobs

DependenciesInit ==
    /\ depStatus = [j \in DepJobs |-> "Absent"]
    /\ depEdges = {} /\ wanted = [j \in DepJobs |-> {}]
    /\ entering = {} /\ cascades = {} /\ completed = {} /\ excused = {}

-----------------------------------------------------------------------------
(* validate_dependency: live, or archived Complete.                        *)
Acceptable(d) == depStatus[d] \in {"Pending", "Running", "Complete"}

validate_dependencies(j, deps) ==
    /\ depStatus[j] = "Absent" /\ j \notin entering
    /\ \A k \in 1..(j - 1) : k \in entering \/ depStatus[k] # "Absent"
    /\ \A d \in deps : Acceptable(d)
    /\ entering' = entering \cup {j}
    /\ wanted' = [wanted EXCEPT ![j] = deps]
    /\ UNCHANGED <<depStatus, depEdges, cascades, completed, excused>>

(* A job comes late when it names one that has ended badly since it was    *)
(* validated, or that a cascade under way has found already.               *)
CameLate(j) ==
    \E d \in wanted[j] : \/ depStatus[d] \in {"Dead", "Cancelled"}
                         \/ \E c \in cascades : d \in c.found

(* The row and its edges, in one transaction.                              *)
insert_job_with_deps(j) ==
    /\ j \in entering
    /\ depStatus' = [depStatus EXCEPT ![j] = "Pending"]
    /\ depEdges' = depEdges \cup {<<j, d>> : d \in wanted[j]}
    /\ entering' = entering \ {j}
    /\ excused' = IF CameLate(j) THEN excused \cup {j} ELSE excused
    /\ UNCHANGED <<wanted, cascades, completed>>

DependsOn(j) == {d \in DepJobs : <<j, d>> \in depEdges}
Dependents(d) == {j \in DepJobs : <<j, d>> \in depEdges}

(* Mutant: only the live table is counted.                                 *)
deps_satisfied_LiveOnly(j) == \A d \in DependsOn(j) : depStatus[d] \notin {"Pending", "Running"}

(* No edge names a row that is not Complete.  A dependency with no row in  *)
(* either table does not count.                                            *)
deps_satisfied(j) ==
    \A d \in DependsOn(j) : depStatus[d] \in {"Complete", "Absent", "Purged", "Forgotten"}

DepDequeue(j) ==
    /\ depStatus[j] = "Pending" /\ deps_satisfied(j)
    /\ depStatus' = [depStatus EXCEPT ![j] = "Running"]
    /\ UNCHANGED <<depEdges, wanted, entering, cascades, completed, excused>>

DepComplete(j) ==
    /\ depStatus[j] = "Running"
    /\ depStatus' = [depStatus EXCEPT ![j] = "Complete"]
    /\ completed' = completed \cup {j}
    /\ UNCHANGED <<depEdges, wanted, entering, cascades, excused>>

DepRetry(j) ==
    /\ depStatus[j] = "Running"
    /\ depStatus' = [depStatus EXCEPT ![j] = "Pending"]
    /\ UNCHANGED <<depEdges, wanted, entering, cascades, completed, excused>>

StartCascade(j) ==
    /\ Cardinality(cascades) < MaxCascades
    /\ cascades' = cascades \cup {[root |-> j, todo |-> {j}, found |-> {j}]}

(* cancel_job archives a Pending job, then cascades.                       *)
DepCancel(j) ==
    /\ depStatus[j] = "Pending"
    /\ depStatus' = [depStatus EXCEPT ![j] = "Cancelled"]
    /\ StartCascade(j)
    /\ UNCHANGED <<depEdges, wanted, entering, completed, excused>>

(* dead_letter archives the job if it is still live, and cascades either   *)
(* way: a settle from a stale copy cascades from a job that has completed. *)
DepDead(j) ==
    /\ depStatus[j] \in {"Pending", "Running"} \cup DepTerminal
    /\ depStatus' = [depStatus EXCEPT ![j] =
           IF @ \in {"Pending", "Running"} THEN "Dead" ELSE @]
    /\ StartCascade(j)
    /\ UNCHANGED <<depEdges, wanted, entering, completed, excused>>

(* Endings that cascade to nobody: a running job that honours its          *)
(* cancellation (mark_cancelled), a pending one found expired or cancelled *)
(* with its queue or task.                                                 *)
DepEndsAlone(j) ==
    /\ depStatus[j] \in {"Pending", "Running"}
    /\ depStatus' = [depStatus EXCEPT ![j] = "Cancelled"]
    /\ excused' = excused \cup {j}
    /\ UNCHANGED <<depEdges, wanted, entering, cascades, completed>>

(* Mutant: the dependents found are not visited in their turn.             *)
CascadeVisit_OneLevel(c, j) ==
    /\ j \in c.todo
    /\ cascades' = (cascades \ {c}) \cup
           {[c EXCEPT !.todo = @ \ {j}, !.found = @ \cup Dependents(j)]}
    /\ UNCHANGED <<depStatus, depEdges, wanted, entering, completed, excused>>

(* One query of the breadth-first walk.                                    *)
CascadeVisit(c, j) ==
    /\ j \in c.todo
    /\ cascades' = (cascades \ {c}) \cup
           {[c EXCEPT !.todo = (@ \ {j}) \cup (Dependents(j) \ c.found),
                      !.found = @ \cup Dependents(j)]}
    /\ UNCHANGED <<depStatus, depEdges, wanted, entering, completed, excused>>

(* The write transaction: what was found and is still Pending.             *)
CascadeWrite(c) ==
    /\ c.todo = {}
    /\ depStatus' = [j \in DepJobs |->
           IF j \in c.found \ {c.root} /\ depStatus[j] = "Pending"
           THEN "Cancelled" ELSE depStatus[j]]
    /\ cascades' = cascades \ {c}
    /\ UNCHANGED <<depEdges, wanted, entering, completed, excused>>

(* The process dies, or a query fails, between the archiving and the       *)
(* write: nothing resumes a cascade.                                       *)
CascadeLost(c) ==
    /\ cascades' = cascades \ {c}
    /\ excused' = excused \cup c.found
    /\ UNCHANGED <<depStatus, depEdges, wanted, entering, completed>>

(* purge_completed takes Complete rows, at any time.  The retention sweep  *)
(* takes every terminal status, after a window longer than an enqueue or a *)
(* cascade lasts.  The edges on either side go with the row.  Forgotten    *)
(* tells a row that had not completed from one that had.                   *)
DepPurge(j) ==
    /\ \/ depStatus[j] = "Complete"
       \/ Retention /\ depStatus[j] \in DepTerminal /\ entering = {} /\ cascades = {}
    /\ depStatus' = [depStatus EXCEPT ![j] = IF @ = "Complete" THEN "Purged" ELSE "Forgotten"]
    /\ depEdges' = {e \in depEdges : e[1] # j /\ e[2] # j}
    /\ UNCHANGED <<wanted, entering, cascades, completed, excused>>

DependenciesNext ==
    \/ \E j \in DepJobs :
           \/ \E deps \in SUBSET DepJobs : validate_dependencies(j, deps)
           \/ insert_job_with_deps(j) \/ DepDequeue(j) \/ DepComplete(j)
           \/ DepRetry(j) \/ DepCancel(j) \/ DepDead(j) \/ DepEndsAlone(j)
           \/ DepPurge(j)
    \/ \E c \in cascades : \/ \E j \in DepJobs : CascadeVisit(c, j)
                           \/ CascadeWrite(c) \/ CascadeLost(c)

DependenciesSpec == DependenciesInit /\ [][DependenciesNext]_depVars

-----------------------------------------------------------------------------
(* A job starts only when every job it was enqueued to wait for has        *)
(* completed, through retries, cascades, purges and enqueues that raced    *)
(* the ending of what they named.  The one way round it takes two faults:  *)
(* the job was stranded, and then retention forgot the row that held it.   *)
RunsAfterDependencies ==
    \A j \in DepJobs : depStatus[j] = "Running" =>
        \A d \in wanted[j] :
            \/ d \in completed
            \/ depStatus[d] = "Forgotten" /\ (j \in excused \/ d \in excused)

(* What the documentation says: a dependency counts as satisfied only once *)
(* it reaches Complete.                                                    *)
SatisfiedOnlyByComplete ==
    \A j \in DepJobs : depStatus[j] = "Running" => wanted[j] \subseteq completed

(* A walk that goes on from c.todo meets j.                                *)
WillFind(c, j) ==
    \/ j \in c.found
    \/ \A S \in SUBSET DepJobs :
           (c.todo \subseteq S /\ \A k \in S : Dependents(k) \subseteq S) => j \in S

(* A pending job whose dependency has ended badly is on the way to being   *)
(* cancelled by a cascade under way, unless one of three things happened:  *)
(* the ending was one that does not cascade, the cascade was lost half way,*)
(* or the job came late.  Nothing else strands a job.                      *)
StrandedOnlyByFault ==
    \A j \in DepJobs :
        depStatus[j] = "Pending" =>
            \A d \in DependsOn(j) :
                depStatus[d] \in {"Dead", "Cancelled"} =>
                    \/ j \in excused \/ d \in excused
                    \/ \E c \in cascades : WillFind(c, j)
=============================================================================
