---------------------------- MODULE WorkflowRun ----------------------------
(***************************************************************************)
(* One run of a static, fail-fast workflow: its row in workflow_runs, the  *)
(* row of each node in workflow_nodes and the job behind it.  Four kinds   *)
(* of actor write them with no transaction that spans two statements:      *)
(*   - submit_workflow, which enqueues a job and inserts a row per node;   *)
(*   - the queue, which runs a job when those it depends on completed;     *)
(*   - the tracker, which calls mark_workflow_node_result for each event   *)
(*     of a job that ended, on a pool of threads, one event per attempt;   *)
(*   - a caller of cancel_workflow_run.                                    *)
(* JOB_COMPLETED is emitted by the worker before the scheduler settles the *)
(* result; JOB_DEAD and JOB_CANCELLED by the drain that settled it.  The   *)
(* reaper's settlements reach no tracker.  Dependencies models the job     *)
(* store's own cascade step by step; here it is one step.                  *)
(***************************************************************************)
EXTENDS Naturals, FiniteSets

CONSTANTS
    WfCount,      \* nodes 1..WfCount, in topological order
    WfRetries,    \* per node: max_retries of its job
    FaultModes    \* bound: which of "crash", "cancel", "refuse", "meddle" one behaviour has

Nodes == 1..WfCount

ASSUME WorkflowAssumption ==
    /\ WfCount \in Nat \ {0} /\ WfRetries \in [Nodes -> Nat]
    /\ FaultModes \subseteq SUBSET {"crash", "cancel", "refuse", "meddle"}

\* An event of a job: the report of one of its attempts.
Events == UNION {{n} \X (0..WfRetries[n]) : n \in Nodes}

\* The call of cancel_workflow_run, next to the handlers of the events.
Canceller == <<0, 0>>
Actors == Events \cup {Canceller}

VARIABLES
    wfPreds,      \* the graph: predecessors of each node
    cacheHits,    \* nodes whose result is taken over from an earlier run
    mode,         \* the fault mode of this behaviour
    wfRun,        \* workflow_runs.state
    wfNode,       \* workflow_nodes.status, "none" before the row is inserted
    wfJob,        \* the node's job; "Reported": Running, JOB_COMPLETED is out
    attempt,      \* its retry_count
    submit,       \* submit_workflow: where it is, and at which node
    actor,        \* the handler of each event, and the canceller
    cancelled,    \* auxiliary: cancel_workflow_run was called
    started,      \* auxiliary: nodes whose job has started
    mishaps       \* auxiliary: what went wrong, see RunSettles and NodesTellTheTruth

wfVars == <<wfPreds, cacheHits, mode, wfRun, wfNode, wfJob, attempt, submit, actor,
            cancelled, started, mishaps>>

RunEnded == {"Completed", "Failed", "Cancelled"}

\* Mutant: a skipped node is not counted as over.
NodeEnded_NotSkipped == {"Completed", "Failed", "CacheHit"}

NodeEnded == {"Completed", "Failed", "Skipped", "CacheHit"}   \* is_terminal

Idle == [at |-> "idle", ok |-> TRUE, todo |-> {}, now |-> 0, verdict |-> "Completed"]

WorkflowTypeOK ==
    /\ wfRun \in {"Pending", "Running"} \cup RunEnded
    /\ wfNode \in [Nodes -> {"none", "Pending"} \cup NodeEnded]
    /\ wfJob \in [Nodes -> {"none", "Pending", "Running", "Reported", "Complete", "Dead", "Cancelled"}]
    /\ \A n \in Nodes : attempt[n] \in 0..WfRetries[n]
    /\ submit \in [at : {"job", "row", "finish", "abort", "done"}, node : 1..WfCount + 1]
    /\ actor \in [Actors -> [at : {"idle", "mark", "read", "cancel", "skip", "check", "write"},
                             ok : BOOLEAN, todo : SUBSET Nodes, now : 0..WfCount,
                             verdict : RunEnded]]
    /\ mishaps \subseteq {"aborted", "unborn", "regressed", "lost", "meddled", "partial",
                   "repeated", "overwritten", "unheard", "uncancelled", "unskipped"}

WorkflowInit ==
    /\ wfPreds \in {p \in [Nodes -> SUBSET Nodes] : \A n \in Nodes : \A m \in p[n] : m < n}
    /\ cacheHits \in {c \in SUBSET Nodes : \A n \in c : wfPreds[n] \subseteq c}
    /\ mode \in FaultModes
    /\ wfRun = "Pending" /\ wfNode = [n \in Nodes |-> "none"]
    /\ wfJob = [n \in Nodes |-> "none"] /\ attempt = [n \in Nodes |-> 0]
    /\ submit = [at |-> "job", node |-> 1]
    /\ actor = [e \in Actors |-> Idle]
    /\ cancelled = FALSE /\ started = {} /\ mishaps = {}

-----------------------------------------------------------------------------
(* submit_workflow: per node the job, then the row; at last Running.       *)

JobPreds(n) == wfPreds[n] \ cacheHits

NextNode == IF submit.node = WfCount THEN [at |-> "finish", node |-> WfCount + 1]
            ELSE [at |-> "job", node |-> submit.node + 1]

\* A cached node gets its row, in its final status, and no job.
SubmitCacheHit ==
    LET n == submit.node IN
    /\ submit.at = "job" /\ n \in cacheHits
    /\ wfNode' = [wfNode EXCEPT ![n] = "CacheHit"]
    /\ submit' = NextNode
    /\ UNCHANGED <<wfPreds, cacheHits, mode, wfRun, wfJob, attempt, actor, cancelled, started, mishaps>>

\* enqueue refuses a job that depends on one that is already dead or cancelled.
SubmitJob ==
    LET n == submit.node IN
    /\ submit.at = "job" /\ n \notin cacheHits
    /\ IF \E p \in JobPreds(n) : wfJob[p] \in {"Dead", "Cancelled"}
       THEN submit' = [submit EXCEPT !.at = "abort"] /\ UNCHANGED wfJob
       ELSE /\ wfJob' = [wfJob EXCEPT ![n] = "Pending"]
            /\ submit' = [submit EXCEPT !.at = "row"]
    /\ UNCHANGED <<wfPreds, cacheHits, mode, wfRun, wfNode, attempt, actor, cancelled, started, mishaps>>

SubmitRow ==
    /\ submit.at = "row"
    /\ wfNode' = [wfNode EXCEPT ![submit.node] = "Pending"]
    /\ submit' = NextNode
    /\ UNCHANGED <<wfPreds, cacheHits, mode, wfRun, wfJob, attempt, actor, cancelled, started, mishaps>>

\* A storage error on a write of the loop.
SubmitFails ==
    /\ "crash" \in mode /\ submit.at \in {"job", "row"}
    /\ submit' = [submit EXCEPT !.at = "abort"]
    /\ UNCHANGED <<wfPreds, cacheHits, mode, wfRun, wfNode, wfJob, attempt, actor, cancelled, started, mishaps>>

\* The last write, whatever state the run is in by now: a node's handler or
\* the canceller may have ended it.
SubmitEnds ==
    /\ submit.at \in {"finish", "abort"}
    /\ wfRun' = IF submit.at = "abort" THEN "Failed" ELSE "Running"
    /\ submit' = [submit EXCEPT !.at = "done"]
    /\ mishaps' = mishaps \cup (IF submit.at = "abort" THEN {"aborted"}
                               ELSE IF wfRun \in RunEnded THEN {"regressed"} ELSE {})
    /\ UNCHANGED <<wfPreds, cacheHits, mode, wfNode, wfJob, attempt, actor, cancelled, started>>

-----------------------------------------------------------------------------
(* The queue.                                                              *)

\* The jobs that wait for n's, directly or through others.
Downstream(n) ==
    {m \in Nodes : \A S \in SUBSET Nodes :
        (n \in S /\ \A k \in Nodes : JobPreds(k) \cap S # {} => k \in S) => m \in S} \ {n}

\* n's job ends as s, and its pending dependents are cancelled with it.
WithDependents(n, s) ==
    [m \in Nodes |-> IF m = n THEN s
                     ELSE IF m \in Downstream(n) /\ wfJob[m] = "Pending" THEN "Cancelled"
                     ELSE wfJob[m]]

Emit(n, k, ok) == actor' = [actor EXCEPT ![<<n, k>>] = [Idle EXCEPT !.at = "mark", !.ok = ok]]

JobStarts(n) ==
    /\ wfJob[n] = "Pending" /\ \A p \in JobPreds(n) : wfJob[p] = "Complete"
    /\ wfJob' = [wfJob EXCEPT ![n] = "Running"]
    /\ started' = started \cup {n}
    /\ UNCHANGED <<wfPreds, cacheHits, mode, wfRun, wfNode, attempt, submit, actor, cancelled, mishaps>>

JobReports(n) ==
    /\ wfJob[n] = "Running"
    /\ wfJob' = [wfJob EXCEPT ![n] = "Reported"]
    /\ Emit(n, attempt[n], TRUE)
    /\ UNCHANGED <<wfPreds, cacheHits, mode, wfRun, wfNode, attempt, submit, cancelled, started, mishaps>>

JobCompletes(n) ==
    /\ wfJob[n] = "Reported"
    /\ wfJob' = [wfJob EXCEPT ![n] = "Complete"]
    /\ UNCHANGED <<wfPreds, cacheHits, mode, wfRun, wfNode, attempt, submit, actor, cancelled, started, mishaps>>

\* A failure, or a worker lost before its result was settled.
JobRetries(n) ==
    /\ \/ wfJob[n] = "Running" /\ UNCHANGED mishaps
       \/ "crash" \in mode /\ wfJob[n] = "Reported" /\ mishaps' = mishaps \cup {"repeated"}
    /\ attempt[n] < WfRetries[n]
    /\ wfJob' = [wfJob EXCEPT ![n] = "Pending"]
    /\ attempt' = [attempt EXCEPT ![n] = @ + 1]
    /\ UNCHANGED <<wfPreds, cacheHits, mode, wfRun, wfNode, submit, actor, cancelled, started>>

\* The drain dead-letters a failed job and tells the tracker.
JobDies(n) ==
    /\ wfJob[n] = "Running" /\ attempt[n] = WfRetries[n]
    /\ wfJob' = WithDependents(n, "Dead")
    /\ Emit(n, attempt[n], FALSE)
    /\ UNCHANGED <<wfPreds, cacheHits, mode, wfRun, wfNode, attempt, submit, cancelled, started, mishaps>>

\* The reaper does so on a timeout or a lost worker, and throws its outcome away:
\* the tracker hears of none of it.  A worker that was only slow reports
\* afterwards, which is a report whose handler comes late.
JobReaped(n) ==
    /\ "crash" \in mode /\ wfJob[n] \in {"Running", "Reported"} /\ attempt[n] = WfRetries[n]
    /\ wfJob' = WithDependents(n, "Dead")
    /\ mishaps' = mishaps \cup {"unheard"} \cup (IF wfJob[n] = "Reported" THEN {"repeated"} ELSE {})
    /\ UNCHANGED <<wfPreds, cacheHits, mode, wfRun, wfNode, attempt, submit, actor, cancelled, started>>

\* Somebody asked for the running job to stop and it did: no cascade.
JobStops(n) ==
    /\ "meddle" \in mode /\ wfJob[n] = "Running"
    /\ wfJob' = [wfJob EXCEPT ![n] = "Cancelled"]
    /\ Emit(n, attempt[n], FALSE)
    /\ UNCHANGED <<wfPreds, cacheHits, mode, wfRun, wfNode, attempt, submit, cancelled, started, mishaps>>

\* An operator cancels a node's pending job behind the workflow's back: no
\* event is emitted for a job that never ran.
JobCancelled(n) ==
    /\ "meddle" \in mode /\ wfJob[n] = "Pending"
    /\ wfJob' = WithDependents(n, "Cancelled")
    /\ mishaps' = mishaps \cup {"meddled"}
    /\ UNCHANGED <<wfPreds, cacheHits, mode, wfRun, wfNode, attempt, submit, actor, cancelled, started>>

-----------------------------------------------------------------------------
(* mark_workflow_node_result and cancel_workflow_run.                      *)

Rows == {n \in Nodes : wfNode[n] # "none"}

Move(e, f) == actor' = [actor EXCEPT ![e] = f]

\* Mutant: a row that is already terminal is left as it is.
MarkNode_KeepsEnded(e) ==
    LET n == e[1] IN
    /\ actor[e].at = "mark" /\ wfNode[n] # "none"
    /\ wfNode' = IF wfNode[n] \in NodeEnded THEN wfNode
                 ELSE [wfNode EXCEPT ![n] = IF actor[e].ok THEN "Completed" ELSE "Failed"]
    /\ Move(e, [actor[e] EXCEPT !.at = IF actor[e].ok THEN "check" ELSE "read"])
    /\ UNCHANGED <<wfPreds, cacheHits, mode, wfRun, wfJob, attempt, submit, cancelled, started, mishaps>>

\* The node's own row.  Without one the call fails and the event is spent.
MarkNode(e) ==
    LET n == e[1] IN
    /\ actor[e].at = "mark"
    /\ IF wfNode[n] = "none"
       THEN Move(e, Idle) /\ mishaps' = mishaps \cup {"unborn"} /\ UNCHANGED wfNode
       ELSE /\ wfNode' = [wfNode EXCEPT ![n] = IF actor[e].ok THEN "Completed" ELSE "Failed"]
            /\ Move(e, [actor[e] EXCEPT !.at = IF actor[e].ok THEN "check" ELSE "read"])
            /\ UNCHANGED mishaps
    /\ UNCHANGED <<wfPreds, cacheHits, mode, wfRun, wfJob, attempt, submit, cancelled, started>>

CancelRun ==
    /\ "cancel" \in mode /\ ~cancelled
    /\ cancelled' = TRUE
    /\ Move(Canceller, [Idle EXCEPT !.at = "read", !.verdict = "Cancelled"])
    /\ UNCHANGED <<wfPreds, cacheHits, mode, wfRun, wfNode, wfJob, attempt, submit, started, mishaps>>

AfterSkip(e, todo) == IF todo # {} THEN "cancel" ELSE IF e = Canceller THEN "write" ELSE "check"

\* cascade_skip_pending_nodes goes through the rows as they were read here.
ReadPending(e) ==
    /\ actor[e].at = "read"
    /\ LET todo == {n \in Nodes : wfNode[n] = "Pending"} IN
           Move(e, [actor[e] EXCEPT !.todo = todo, !.at = AfterSkip(e, todo)])
    /\ mishaps' = IF Rows = Nodes THEN mishaps ELSE mishaps \cup {"partial"}
    /\ UNCHANGED <<wfPreds, cacheHits, mode, wfRun, wfNode, wfJob, attempt, submit, cancelled, started>>

\* Mutant: only the row is skipped, its job is left in the queue.
CancelJob_RowOnly(e, n) ==
    /\ actor[e].at = "cancel" /\ n \in actor[e].todo
    /\ Move(e, [actor[e] EXCEPT !.at = "skip", !.now = n, !.todo = @ \ {n}])
    /\ UNCHANGED <<wfPreds, cacheHits, mode, wfRun, wfNode, wfJob, attempt, submit, cancelled, started, mishaps>>

\* cancel_job ends a pending job and its dependents and leaves a running one alone.
CancelJob(e, n) ==
    /\ actor[e].at = "cancel" /\ n \in actor[e].todo
    /\ wfJob' = IF wfJob[n] = "Pending" THEN WithDependents(n, "Cancelled") ELSE wfJob
    /\ Move(e, [actor[e] EXCEPT !.at = "skip", !.now = n, !.todo = @ \ {n}])
    /\ UNCHANGED <<wfPreds, cacheHits, mode, wfRun, wfNode, attempt, submit, cancelled, started, mishaps>>

\* A cancel_job that fails is logged, and its row is skipped all the same.
CancelJobFails(e, n) ==
    /\ "refuse" \in mode /\ actor[e].at = "cancel" /\ n \in actor[e].todo
    /\ mishaps' = mishaps \cup (IF wfJob[n] = "Pending" THEN {"uncancelled"} ELSE {})
    /\ Move(e, [actor[e] EXCEPT !.at = "skip", !.now = n, !.todo = @ \ {n}])
    /\ UNCHANGED <<wfPreds, cacheHits, mode, wfRun, wfNode, wfJob, attempt, submit, cancelled, started>>

\* The row, whatever it says by now.
SkipNode(e) ==
    LET n == actor[e].now IN
    /\ actor[e].at = "skip"
    /\ wfNode' = [wfNode EXCEPT ![n] = "Skipped"]
    /\ mishaps' = IF wfNode[n] \in {"Completed", "Failed"} THEN mishaps \cup {"overwritten"} ELSE mishaps
    /\ Move(e, [actor[e] EXCEPT !.now = 0, !.at = AfterSkip(e, actor[e].todo)])
    /\ UNCHANGED <<wfPreds, cacheHits, mode, wfRun, wfJob, attempt, submit, cancelled, started>>

\* A row that could not be skipped is logged too, and the sweep goes on.
SkipNodeFails(e) ==
    /\ "refuse" \in mode /\ actor[e].at = "skip"
    /\ mishaps' = mishaps \cup {"unskipped"}
    /\ Move(e, [actor[e] EXCEPT !.now = 0, !.at = AfterSkip(e, actor[e].todo)])
    /\ UNCHANGED <<wfPreds, cacheHits, mode, wfRun, wfNode, wfJob, attempt, submit, cancelled, started>>

\* Mutant: the outcome is that of the node that happens to end last.
RunFailed_LastNode(e) == ~actor[e].ok

RunFailed(e) == (\E n \in Rows : wfNode[n] = "Failed") \/ ~actor[e].ok

\* The rows there are, read once more: all of them terminal ends the run.
CheckNodes(e) ==
    /\ actor[e].at = "check"
    /\ IF \A n \in Rows : wfNode[n] \in NodeEnded
       THEN /\ Move(e, [actor[e] EXCEPT !.at = "write",
                                        !.verdict = IF RunFailed(e) THEN "Failed" ELSE "Completed"])
            /\ mishaps' = IF Rows = Nodes THEN mishaps ELSE mishaps \cup {"partial"}
       ELSE Move(e, Idle) /\ UNCHANGED mishaps
    /\ UNCHANGED <<wfPreds, cacheHits, mode, wfRun, wfNode, wfJob, attempt, submit, cancelled, started>>

\* update_workflow_run_state looks at no earlier state.
WriteRun(e) ==
    /\ actor[e].at = "write"
    /\ wfRun' = actor[e].verdict
    /\ Move(e, Idle)
    /\ UNCHANGED <<wfPreds, cacheHits, mode, wfNode, wfJob, attempt, submit, cancelled, started, mishaps>>

\* The process dies, or the storage refuses a call: nothing sends the event again.
\* Bound: one event is lost.
ActorLost(e) ==
    /\ "crash" \in mode /\ "lost" \notin mishaps /\ actor[e].at # "idle"
    /\ Move(e, Idle)
    /\ mishaps' = mishaps \cup {"lost"}
    /\ UNCHANGED <<wfPreds, cacheHits, mode, wfRun, wfNode, wfJob, attempt, submit, cancelled, started>>

-----------------------------------------------------------------------------
SubmitStep == SubmitCacheHit \/ SubmitJob \/ SubmitRow \/ SubmitEnds
JobStep(n) == JobStarts(n) \/ JobReports(n) \/ JobCompletes(n) \/ JobRetries(n) \/ JobDies(n)
ActorStep(e) ==
    \/ MarkNode(e) \/ ReadPending(e) \/ SkipNode(e) \/ CheckNodes(e) \/ WriteRun(e)
    \/ \E n \in Nodes : CancelJob(e, n)

WorkflowNext ==
    \/ SubmitStep \/ SubmitFails \/ CancelRun
    \/ \E n \in Nodes : JobStep(n) \/ JobReaped(n) \/ JobStops(n) \/ JobCancelled(n)
    \/ \E e \in Actors : \/ ActorStep(e) \/ ActorLost(e) \/ SkipNodeFails(e)
                        \/ \E n \in Nodes : CancelJobFails(e, n)

\* The submitter, the workers and the tracker's threads go on.  A job is retried
\* no more often than its budget and a handler has finitely many steps, so that
\* it is enough that something goes on as long as something can.
WorkflowProgress ==
    SubmitStep \/ (\E n \in Nodes : JobStep(n)) \/ (\E e \in Actors : ActorStep(e))

WorkflowSpec == WorkflowInit /\ [][WorkflowNext]_wfVars /\ WF_wfVars(WorkflowProgress)

-----------------------------------------------------------------------------
(* What breaks the run for good, and only that: an event arrives before    *)
(* the row of its node is there (unborn) or is lost, the reaper ends a job *)
(* and tells nobody (unheard), submit_workflow writes Running over an      *)
(* outcome (regressed), somebody reads the rows before they are all there  *)
(* (partial), cannot write that a node is skipped (unskipped), or cancels  *)
(* a node's job directly (meddled).                                        *)
Derailed ==
    mishaps \cap {"unborn", "lost", "unheard", "regressed", "partial", "unskipped", "meddled"} # {}

\* A run with something to execute comes to an end and stays there, through
\* retries, failures, a result reported and lost before the last attempt, an
\* aborted submission, a cancellation and jobs that could not be cancelled,
\* unless derailed (mark_workflow_node_result, submit_workflow).
RunAtRest == cacheHits = Nodes \/ wfRun \in RunEnded \/ Derailed
RunSettles == <>[]RunAtRest

\* What test_cache_hit_is_terminal expects of an incremental run in which every
\* node is a cache hit: it completes too.
CacheHitsDoNotBlock == <>(wfRun \in RunEnded \/ Derailed)

Done(n) == wfNode[n] \in {"Completed", "CacheHit"}

\* A run that says Completed has every node done: no node failed, was skipped
\* or is still to come, however handlers interleave their reads and writes.
\* Excused are a verdict reached before all rows were there, a job whose
\* success was reported and then lost, and a cancelled run
\* (mark_workflow_node_result).
CompletedMeansDone ==
    wfRun = "Completed" /\ submit.at = "done" =>
        \/ \A n \in Nodes : Done(n)
        \/ cancelled \/ mishaps \cap {"partial", "repeated"} # {}

\* Once everything is quiet, a node whose job completed says so, unless its
\* event was lost or came too early, or a cascade that had read the row as
\* Pending marked it Skipped afterwards (cascade_skip_pending_nodes).
Quiet ==
    /\ submit.at = "done" /\ \A e \in Actors : actor[e].at = "idle"
    /\ \A n \in Nodes : wfJob[n] \notin {"Pending", "Running", "Reported"}
NodesTellTheTruth ==
    Quiet => \/ \A n \in Nodes : wfJob[n] = "Complete" => wfNode[n] = "Completed"
             \/ mishaps \cap {"unborn", "lost", "overwritten"} # {}

\* Fail-fast and cancellation: once the run has ended no further job of it
\* starts, although it is ended by several hands that cancel jobs one at a time
\* from rows read earlier.  An aborted submission, a cascade that read the rows
\* before they were all there, and a cancel_job that failed leave jobs behind
\* (cancel_workflow_run, cascade_skip_pending_nodes).
NothingStartsAfterEnd ==
    [][(wfRun \in RunEnded /\ submit.at = "done") =>
         (started' = started) \/ mishaps \cap {"aborted", "partial", "uncancelled"} # {}]_wfVars

\* What saga.mdx says of the state machine: Cancelled has no outgoing edge.
CancelledIsFinal == [][wfRun = "Cancelled" => wfRun' = "Cancelled"]_wfVars
=============================================================================
