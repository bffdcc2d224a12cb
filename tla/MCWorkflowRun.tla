--------------------------- MODULE MCWorkflowRun ---------------------------
EXTENDS WorkflowRun

\* max_retries: the first step is retried once, the others are not.
Budget == [n \in 1..WfCount |-> IF n = 1 THEN 1 ELSE 0]
=============================================================================
