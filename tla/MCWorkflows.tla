---------------------------- MODULE MCWorkflows -----------------------------
(***************************************************************************)
(* The two kinds of workflow run: a static one, which the core ends by     *)
(* itself, and one with a fan-out, which the tracker manages.  A run is of *)
(* one kind: kind says which.                                              *)
(***************************************************************************)
EXTENDS MCWorkflowRun, FanOut

VARIABLE kind

workflowsVars == <<wfVars, foVars, kind>>

\* The part that does not run starts in one of its initial states only.
StaticInit == WorkflowInit /\ FanOutInit /\ kind = "static"
ManagedInit ==
    /\ WorkflowInit /\ FanOutInit /\ kind = "managed"
    /\ wfPreds = [n \in Nodes |-> {}] /\ cacheHits = {} /\ mode = CHOOSE m \in FaultModes : TRUE

WorkflowsInit == StaticInit \/ ManagedInit

WorkflowsNext ==
    \/ kind = "static" /\ WorkflowNext /\ UNCHANGED <<foVars, kind>>
    \/ kind = "managed" /\ FanOutNext /\ UNCHANGED <<wfVars, kind>>

WorkflowsSpec ==
    /\ WorkflowsInit /\ [][WorkflowsNext]_workflowsVars
    /\ WF_wfVars(kind = "static" /\ WorkflowProgress)
    /\ WF_foVars(kind = "managed" /\ FanOutNext)

\* RunSettles for the one kind, FanOutSettles for the other: a run comes to an
\* end and stays there, but for the mishaps named in RunAtRest and FanOutAtRest
\* (mark_workflow_node_result, handle_job_result).
EveryRunSettles == <>[](IF kind = "static" THEN RunAtRest ELSE FanOutAtRest)
=============================================================================
