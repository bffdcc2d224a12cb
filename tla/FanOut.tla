------------------------------- MODULE FanOut -------------------------------
(***************************************************************************)
(* A run that the Python tracker manages: a source step, a fan-out over    *)
(* its result and the fan-in that collects it.  The children and the       *)
(* fan-in get their jobs at run time, from the handler of the event that   *)
(* calls for them, while the handlers of other events run on other threads *)
(* of the pool and submit_workflow is still registering the run.           *)
(*                                                                         *)
(* WorkflowRun takes mark_workflow_node_result apart statement by          *)
(* statement; here it is one step, and so is finalize_run_if_terminal.     *)
(* Retries, lost events, cancellation, gates, sub-workflows and            *)
(* compensation are left out.                                              *)
(***************************************************************************)
EXTENDS Naturals, FiniteSets

CONSTANT MaxKids   \* bound on the children of the fan-out

ASSUME FanOutAssumption == MaxKids \in Nat \ {0}

Source == 0
Kids   == 1..MaxKids
FanIn  == MaxKids + 1
Steps  == 0..MaxKids + 1   \* the nodes that have a job; the fan-out itself has none

VARIABLES
    registered,   \* _run_configs: the run is not there yet, is there, or was cleaned up
    knownJobs,    \* _job_to_run
    foRun,        \* workflow_runs.state
    row,          \* workflow_nodes.status of the steps, "none" before the insert
    parent,       \* ... and of the fan-out node
    job,          \* the jobs of the steps
    width,        \* the number of items the source returned
    hand,         \* per step, the handler of its event: where it is, whether it has a config
    made,         \* auxiliary: fan-in jobs created
    slips         \* auxiliary: what went wrong, see FanOutSettles

foVars == <<registered, knownJobs, foRun, row, parent, job, width, hand, made, slips>>

Over == {"Completed", "Failed", "Skipped"}
NoHand == [at |-> "idle", config |-> FALSE, failed |-> FALSE]

FanOutInit ==
    /\ registered = "no" /\ knownJobs = {} /\ foRun = "Running"
    /\ row = [s \in Steps |-> IF s \in Kids THEN "none" ELSE "Pending"]
    /\ parent = "Pending"
    /\ job = [s \in Steps |-> IF s = Source THEN "Pending" ELSE "none"]
    /\ width = 0 /\ hand = [s \in Steps |-> NoHand] /\ made = 0 /\ slips = {}

Goto(s, at) == hand' = [hand EXCEPT ![s].at = at]
Finish(s) == hand' = [hand EXCEPT ![s] = NoHand]
Slip(b, what) == slips' = IF b THEN slips \cup {what} ELSE slips

-----------------------------------------------------------------------------
(* register_run follows the submission, whose jobs are already running.    *)

RegisterConfig ==
    /\ registered = "no"
    /\ registered' = "yes"
    /\ UNCHANGED <<knownJobs, foRun, row, parent, job, width, hand, made, slips>>

RegisterJobs ==
    /\ registered = "yes" /\ Source \notin knownJobs
    /\ knownJobs' = knownJobs \cup {Source}
    /\ UNCHANGED <<registered, foRun, row, parent, job, width, hand, made, slips>>

-----------------------------------------------------------------------------
(* A job runs to its end, and its event is handed to the tracker.          *)

StepStarts(s) ==
    /\ job[s] = "Pending"
    /\ job' = [job EXCEPT ![s] = "Running"]
    /\ UNCHANGED <<registered, knownJobs, foRun, row, parent, width, hand, made, slips>>

StepEnds(s) ==
    /\ job[s] = "Running"
    /\ \E end \in {"Complete", "Dead"} : job' = [job EXCEPT ![s] = end]
    /\ Goto(s, "look")
    /\ UNCHANGED <<registered, knownJobs, foRun, row, parent, width, made, slips>>

\* The reaper ends a job, on a timeout or for a lost worker, and tells nobody.
StepReaped(s) ==
    /\ job[s] = "Running"
    /\ job' = [job EXCEPT ![s] = "Dead"]
    /\ Slip(TRUE, "unheard")
    /\ UNCHANGED <<registered, knownJobs, foRun, row, parent, width, hand, made>>

-----------------------------------------------------------------------------
(* handle_job_result.                                                      *)

\* A job the tracker has not heard of is taken for one of a static run.
LookUp(s) ==
    /\ hand[s].at = "look"
    /\ hand' = [hand EXCEPT ![s] = [NoHand EXCEPT !.at = "mark",
                                    !.config = s \in knownJobs /\ registered = "yes"]]
    /\ UNCHANGED <<registered, knownJobs, foRun, row, parent, job, width, made, slips>>

\* The rows after s has been marked, and after the core's own cascade if it is not held back.
Cascades(s) == job[s] = "Dead" /\ ~hand[s].config
Marked(s) == [t \in Steps |-> IF t = s THEN (IF job[s] = "Complete" THEN "Completed" ELSE "Failed")
                              ELSE IF Cascades(s) /\ row[t] = "Pending" THEN "Skipped" ELSE row[t]]
AllOver(r, p) == p \in Over /\ \A t \in Steps : r[t] \in Over \cup {"none"}
Verdict(r, p) == IF p = "Failed" \/ \E t \in Steps : r[t] = "Failed" THEN "Failed" ELSE "Completed"

\* What the handler goes on with.
Continue(s) ==
    IF s \in Kids THEN "kids"
    ELSE IF s = Source /\ job[s] = "Complete" THEN "expand" ELSE "successors"

\* mark_workflow_node_result fails when the row is missing: the event is spent.
MarkMissing(s) ==
    /\ hand[s].at = "mark" /\ row[s] = "none"
    /\ Finish(s) /\ Slip(TRUE, "unborn")
    /\ UNCHANGED <<registered, knownJobs, foRun, row, parent, job, width, made>>

MarkStep(s) ==
    LET r == Marked(s)
        p == IF Cascades(s) /\ parent = "Pending" THEN "Skipped" ELSE parent
        config == hand[s].config \/ registered = "yes"
    IN
    /\ hand[s].at = "mark" /\ row[s] # "none"
    /\ row' = r /\ parent' = p
    /\ job' = [t \in Steps |-> IF t # s /\ Cascades(s) /\ row[t] = "Pending" /\ job[t] = "Pending"
                               THEN "Cancelled" ELSE job[t]]
    /\ IF AllOver(r, p)
       THEN foRun' = Verdict(r, p) /\ registered' = "gone" /\ Finish(s)
       ELSE /\ IF config
               THEN hand' = [hand EXCEPT ![s].at = Continue(s), ![s].config = TRUE]
               ELSE Finish(s)
            /\ UNCHANGED <<foRun, registered>>
    /\ slips' = slips \cup (IF job[s] = "Dead" /\ ~hand[s].config /\ s \in Kids THEN {"cascaded"} ELSE {})
                      \cup (IF ~AllOver(r, p) /\ ~config THEN {"unmanaged"} ELSE {})
    /\ UNCHANGED <<knownJobs, width, made>>

-----------------------------------------------------------------------------
(* The source's handler: expand_fan_out.                                   *)

\* No items: the fan-out is done at once.
ExpandNone ==
    /\ hand[Source].at = "expand" /\ width = 0
    /\ parent' = "Completed"
    /\ Goto(Source, "fanin")
    /\ UNCHANGED <<registered, knownJobs, foRun, row, job, width, made, slips>>

\* The jobs come first, one enqueue at a time ...
EnqueueKid ==
    /\ hand[Source].at = "expand"
    /\ width' = width + 1
    /\ job' = [job EXCEPT ![width + 1] = "Pending"]
    /\ \E at \in {"rows"} \cup (IF width + 1 < MaxKids THEN {"expand"} ELSE {}) : Goto(Source, at)
    /\ UNCHANGED <<registered, knownJobs, foRun, row, parent, made, slips>>

\* ... then their rows, in one transaction ...
InsertRows ==
    /\ hand[Source].at = "rows"
    /\ row' = [s \in Steps |-> IF s \in 1..width THEN "Pending" ELSE row[s]]
    /\ Goto(Source, "count")
    /\ UNCHANGED <<registered, knownJobs, foRun, parent, job, width, made, slips>>

\* ... then the fan-out is Running, whatever it was ...
set_workflow_node_fan_out_count ==
    /\ hand[Source].at = "count"
    /\ parent' = "Running" /\ Slip(parent \in Over, "reopened")
    /\ Goto(Source, "learn")
    /\ UNCHANGED <<registered, knownJobs, foRun, row, job, width, made>>

\* ... and then the tracker learns whose jobs they are.
LearnKids ==
    /\ hand[Source].at = "learn"
    /\ knownJobs' = knownJobs \cup 1..width
    /\ Goto(Source, "successors")
    /\ UNCHANGED <<registered, foRun, row, parent, job, width, made, slips>>

-----------------------------------------------------------------------------
(* A child's handler: check_fan_out_completion, and the fan-in.            *)

KidRows == {k \in Kids : row[k] # "none"}

ReadKids(s) ==
    /\ hand[s].at = "kids"
    /\ IF \A k \in KidRows : row[k] \in Over
       THEN hand' = [hand EXCEPT ![s].at = "finalize", ![s].failed = \E k \in KidRows : row[k] = "Failed"]
       ELSE Finish(s)
    /\ UNCHANGED <<registered, knownJobs, foRun, row, parent, job, width, made, slips>>

\* Mutant: the update does not look at the status it replaces.
StillOpen_Always == TRUE

StillOpen == parent \notin Over

finalize_fan_out_parent(s) ==
    /\ hand[s].at = "finalize"
    /\ IF StillOpen
       THEN /\ parent' = IF hand[s].failed THEN "Failed" ELSE "Completed"
            /\ Goto(s, IF hand[s].failed THEN "successors" ELSE "fanin")
       ELSE Finish(s) /\ UNCHANGED parent
    /\ UNCHANGED <<registered, knownJobs, foRun, row, job, width, made, slips>>

\* create_deferred_job; a second job for the node is counted and not followed ...
CreateFanIn(s) ==
    /\ hand[s].at = "fanin"
    /\ job' = IF job[FanIn] = "none" THEN [job EXCEPT ![FanIn] = "Pending"] ELSE job
    /\ made' = made + 1
    /\ Goto(s, "learnFanIn")
    /\ UNCHANGED <<registered, knownJobs, foRun, row, parent, width, slips>>

\* ... whose job is known to the tracker only then.
LearnFanIn(s) ==
    /\ hand[s].at = "learnFanIn"
    /\ knownJobs' = knownJobs \cup {FanIn}
    /\ Goto(s, "successors")
    /\ UNCHANGED <<registered, foRun, row, parent, job, width, made, slips>>

-----------------------------------------------------------------------------
(* _evaluate_successors: what can no longer run is skipped, and with it    *)
(* what follows; what can run was started above.                           *)

SkipsFanOut(s) == s = Source /\ row[Source] # "Completed"
SkipsFanIn(s) == SkipsFanOut(s) \/ (s \in Kids /\ parent \in {"Failed", "Skipped"})

EvaluateSuccessors(s) ==
    /\ hand[s].at = "successors"
    /\ parent' = IF SkipsFanOut(s) THEN "Skipped" ELSE parent
    /\ row' = IF SkipsFanIn(s) THEN [row EXCEPT ![FanIn] = "Skipped"] ELSE row
    /\ job' = IF SkipsFanIn(s) /\ job[FanIn] = "Pending"
              THEN [job EXCEPT ![FanIn] = "Cancelled"] ELSE job
    /\ Goto(s, "close")
    /\ UNCHANGED <<registered, knownJobs, foRun, width, made, slips>>

\* _try_finalize, and the clean-up that goes with an end.
TryFinalize(s) ==
    /\ hand[s].at = "close"
    /\ IF AllOver(row, parent)
       THEN foRun' = Verdict(row, parent) /\ registered' = "gone"
       ELSE UNCHANGED <<foRun, registered>>
    /\ Finish(s)
    /\ UNCHANGED <<knownJobs, row, parent, job, width, made, slips>>

-----------------------------------------------------------------------------
Handle(s) ==
    \/ LookUp(s) \/ MarkMissing(s) \/ MarkStep(s) \/ ReadKids(s) \/ finalize_fan_out_parent(s)
    \/ CreateFanIn(s) \/ LearnFanIn(s) \/ EvaluateSuccessors(s) \/ TryFinalize(s)

FanOutNext ==
    \/ RegisterConfig \/ RegisterJobs
    \/ \E s \in Steps : StepStarts(s) \/ StepEnds(s) \/ StepReaped(s) \/ Handle(s)
    \/ ExpandNone \/ EnqueueKid \/ InsertRows \/ set_workflow_node_fan_out_count \/ LearnKids

FanOutSpec == FanOutInit /\ [][FanOutNext]_foVars /\ WF_foVars(FanOutNext)

-----------------------------------------------------------------------------
\* The run comes to an end in every order of the events, unless the first event
\* is handled before the run is registered (unmanaged), a child ends before its
\* row is inserted (unborn), the reaper ends a job and tells nobody (unheard), or
\* all of them end, and the fan-out with them, before expand_fan_out sets it to
\* Running (reopened).  (handle_job_result, expand_fan_out,
\* check_fan_out_completion.)
FanOutAtRest == foRun # "Running" \/ slips \cap {"unmanaged", "unborn", "unheard", "reopened"} # {}
FanOutSettles == <>[]FanOutAtRest

\* The children run their course: none is ended by a sibling's failure, as a
\* managed run holds the core's fail-fast cascade back, and the fan-in is created
\* at most once, when every child has completed, although each child's handler
\* reads the others' rows and acts on them later.  Excepted are a child that fails
\* before the tracker has learned of its job (LookUp: cascaded) and a fan-out that
\* was reopened (finalize_fan_out_parent).
FanInAwaitsAll ==
    /\ \A k \in Kids : job[k] = "Cancelled" => "cascaded" \in slips
    /\ made > 1 => "reopened" \in slips
    /\ job[FanIn] # "none" => \A k \in 1..width : job[k] = "Complete"

\* What check_fan_out_completion says of itself: it finalizes exactly once, even
\* across concurrent callers.
FinalizedOnce == made <= 1
=============================================================================
