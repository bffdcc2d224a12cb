--------------------------- MODULE WorkflowProofs ---------------------------
(***************************************************************************)
(* Proofs about workflow runs, for every graph, number of nodes, budget of *)
(* retries and mix of faults: what WorkflowRun says of the outcome of a    *)
(* run and of its nodes, and what FanOut says of the fan-in.               *)
(***************************************************************************)
EXTENDS WorkflowRun, FanOut, TLAPS

\* How a job ends without success, and with it.
Gone == {"Dead", "Cancelled"}
Succeeded == {"Reported", "Complete"}
\* submit_workflow is among its nodes.
Loop == {"job", "row"}

\* What WorkflowTypeOK leaves out.
WfTypes ==
    /\ WorkflowTypeOK
    /\ wfPreds \in [Nodes -> SUBSET Nodes] /\ cacheHits \subseteq Nodes
    /\ attempt \in [Nodes -> Nat] /\ cancelled \in BOOLEAN /\ started \subseteq Nodes

\* submit_workflow goes through the nodes in order: what it has not come to has
\* neither a row nor a job, and a cached node never has a job.
WfSubmit ==
    /\ submit.at \in Loop => submit.node \in Nodes
    /\ submit.at \in Loop => \A n \in Nodes : n >= submit.node => wfNode[n] = "none"
    /\ submit.at = "job" => wfJob[submit.node] = "none"
    /\ submit.at \in Loop => \A n \in Nodes : n > submit.node => wfJob[n] = "none"
    /\ \A n \in Nodes : wfNode[n] = "CacheHit" => n \in cacheHits
    /\ \A n \in cacheHits : wfJob[n] = "none"

\* What the event of a job says is so: a failure is final, and so is a success
\* unless the worker was lost after it had been reported.
EventTrue(e) ==
    /\ actor[e].at # "idle" => e[1] \in started
    /\ ~actor[e].ok => wfJob[e[1]] \in Gone
    /\ actor[e].ok => actor[e].at \in {"idle", "mark", "check", "write"}
    /\ actor[e].at = "mark" /\ actor[e].ok => "repeated" \in mishaps \/ wfJob[e[1]] \in Succeeded
WfEvents == \A e \in Events : EventTrue(e)

\* A cascade works on rows it has found Pending, and only while it cascades.
ActorTidy(e) ==
    /\ actor[e].at \in {"idle", "mark", "read", "check", "write"} => actor[e].todo = {} /\ actor[e].now = 0
    /\ actor[e].at = "cancel" => actor[e].now = 0
    /\ actor[e].at = "skip" => actor[e].now \in Nodes
    /\ \A n \in Nodes : n \in actor[e].todo \/ n = actor[e].now => wfNode[n] # "none"
WfActors == \A e \in Actors : ActorTidy(e)
WfCanceller ==
    /\ actor[Canceller].at \notin {"mark", "check"}
    /\ actor[Canceller].at # "idle" => cancelled /\ actor[Canceller].verdict = "Cancelled"

\* The job of n will not start for the first time any more, unless a cancel_job failed.
OutOfQueue(n) == n \in started \/ wfJob[n] # "Pending" \/ "uncancelled" \in mishaps

\* The row of a node against its job.
RowAgrees(n) ==
    /\ wfNode[n] = "Completed" => "repeated" \in mishaps \/ wfJob[n] \in Succeeded
    /\ wfNode[n] = "Failed" => wfJob[n] \in Gone
    /\ wfJob[n] \in {"Running", "Reported", "Complete", "Dead"} => n \in started
    /\ wfNode[n] \in NodeEnded => OutOfQueue(n)
    /\ \A e \in Actors : actor[e].now = n => OutOfQueue(n)
WfRows == \A n \in Nodes : RowAgrees(n)
\* The event of the k-th attempt of n's job.
Report(n, k) == <<n, k>>
\* A success is in the row, or the event that will put it there is at its first
\* statement.
Told(n) ==
    wfJob[n] \in Succeeded =>
        \/ wfNode[n] = "Completed" \/ actor[Report(n, attempt[n])].at = "mark"
        \/ mishaps \cap {"unborn", "lost", "overwritten"} # {}
WfTruth == \A n \in Nodes : Told(n)

\* What excuses a Completed run with a node that is not done.
Excused == cancelled \/ "repeated" \in mishaps
\* A node that failed and that no cascade has on its list: it stays Failed to the
\* end, so that no verdict after it can be Completed.
AnchoredAt(n) == wfNode[n] = "Failed" /\ \A e \in Actors : n \notin actor[e].todo /\ actor[e].now # n
Anchored == \E n \in Nodes : AnchoredAt(n)
\* Until there is one, nothing has failed or been skipped and nobody cascades.
Clean ==
    /\ \A n \in Nodes : wfNode[n] \notin {"Failed", "Skipped"}
    /\ \A e \in Events : actor[e].ok \/ actor[e].at = "mark"
WfAnchor == Excused \/ Anchored \/ Clean

\* A verdict, once reached, holds until it is written and after.
AllDone == \A n \in Nodes : Done(n)
AllClosed == \A n \in Nodes : wfNode[n] # "none" /\ OutOfQueue(n)
AllTaken == \A n \in Nodes : wfNode[n] # "none" /\ (OutOfQueue(n) \/ n \in actor[Canceller].todo)
Sure(v) == v = "Completed" => AllDone \/ Excused \/ "partial" \in mishaps
WfVerdict ==
    /\ \A e \in Actors : actor[e].at = "write" =>
          (AllClosed \/ "partial" \in mishaps) /\ Sure(actor[e].verdict)
    /\ wfRun \in RunEnded => AllClosed \/ mishaps \cap {"partial", "aborted"} # {}
    /\ Sure(wfRun)
    /\ actor[Canceller].at \in {"cancel", "skip"} => "partial" \in mishaps \/ AllTaken

\* The inductive invariant of WorkflowRun.
WfInv ==
    /\ WfTypes /\ WfSubmit /\ WfEvents /\ WfActors /\ WfCanceller
    /\ WfRows /\ WfTruth /\ WfAnchor /\ WfVerdict

-----------------------------------------------------------------------------
\* The events are pairs of a node and an attempt; none is the canceller.
LEMMA TupleFacts ==
    /\ \A e \in Events : e[1] \in Nodes /\ e # Canceller
    /\ \A n \in Nodes : \A k \in 0..WfRetries[n] : Report(n, k) \in Events /\ Report(n, k)[1] = n
<1> USE WorkflowAssumption
<1>1. ASSUME NEW e \in Events PROVE e[1] \in Nodes /\ e # Canceller
  <2>1. PICK n \in Nodes : e \in {n} \X (0..WfRetries[n])
    BY DEF Events
  <2>2. e[1] = n /\ n # 0
    BY <2>1 DEF Nodes
  <2> QED
    BY <2>2 DEF Canceller
<1>2. ASSUME NEW n \in Nodes, NEW k \in 0..WfRetries[n]
      PROVE  Report(n, k) \in Events /\ Report(n, k)[1] = n
  BY DEF Events, Report
<1> QED
  BY <1>1, <1>2

\* So that an actor is an event or the canceller.
LEMMA EventFacts ==
    /\ \A e \in Events : e \in Actors /\ e[1] \in Nodes /\ e # Canceller
    /\ \A e \in Actors : e # Canceller => e \in Events
    /\ Canceller \in Actors /\ 0 \notin Nodes
<1>1. 0 \notin Nodes
  BY WorkflowAssumption DEF Nodes
<1> QED
  BY <1>1, TupleFacts DEF Actors

\* The record of an actor, as WorkflowTypeOK has it.
ActorRec == [at : {"idle", "mark", "read", "cancel", "skip", "check", "write"},
             ok : BOOLEAN, todo : SUBSET Nodes, now : 0..WfCount, verdict : RunEnded]

\* One actor moves, the others stay.
LEMMA ActorMoves ==
    ASSUME WfTypes, NEW e \in Actors, NEW r \in ActorRec, actor' = [actor EXCEPT ![e] = r]
    PROVE  /\ actor' \in [Actors -> ActorRec] /\ actor'[e] = r
           /\ \A f \in Actors : f # e => actor'[f] = actor[f]
BY DEF WfTypes, WorkflowTypeOK, ActorRec

\* The record of an idle actor.
LEMMA IdleFacts ==
    /\ Idle \in ActorRec
    /\ Idle.at = "idle" /\ Idle.ok = TRUE /\ Idle.todo = {} /\ Idle.now = 0 /\ Idle.verdict = "Completed"
BY WorkflowAssumption DEF Idle, ActorRec, RunEnded

\* The event of an attempt of n's job is put into the hands of the tracker.
Emitted(n, f) ==
    /\ f \in Events /\ f[1] = n /\ f # Canceller
    /\ actor' \in [Actors -> ActorRec]
    /\ \A g \in Actors : g # f => actor'[g] = actor[g]
    /\ actor'[f].at = "mark" /\ actor'[f].todo = {} /\ actor'[f].now = 0

\* Emit leaves the event of that attempt at its first statement.
LEMMA EmitFacts ==
    ASSUME WfTypes, NEW n \in Nodes, NEW k \in 0..WfRetries[n], NEW ok \in BOOLEAN,
         Emit(n, k, ok)
    PROVE  Emitted(n, Report(n, k)) /\ (actor'[Report(n, k)].ok <=> ok)
<1>1. PICK f : f = Report(n, k)
  OBVIOUS
<1>2. f \in Events /\ f[1] = n
  BY <1>1, TupleFacts
<1>3. f \in Actors /\ f # Canceller
  BY <1>2, EventFacts
<1>4. PICK r : r = [Idle EXCEPT !.at = "mark", !.ok = ok]
  OBVIOUS
<1>5. r \in ActorRec /\ r.at = "mark" /\ r.ok = ok /\ r.todo = {} /\ r.now = 0
  BY <1>4, IdleFacts DEF ActorRec
<1>6. actor' = [actor EXCEPT ![f] = r]
  BY <1>1, <1>4 DEF Emit, Report
<1>7. /\ actor' \in [Actors -> ActorRec] /\ actor'[f] = r
      /\ \A g \in Actors : g # f => actor'[g] = actor[g]
  BY <1>3, <1>5, <1>6, ActorMoves
<1> QED
  BY <1>1, <1>2, <1>3, <1>5, <1>7 DEF Emitted

\* The current attempt has its event among the actors.
LEMMA AttemptFacts ==
    ASSUME WfTypes, NEW n \in Nodes
    PROVE  /\ attempt[n] \in 0..WfRetries[n]
           /\ Report(n, attempt[n]) \in Actors /\ Report(n, attempt[n])[1] = n
           /\ Report(n, attempt[n]) # Canceller
<1>1. WfRetries[n] \in Nat /\ attempt[n] \in 0..WfRetries[n]
  BY WorkflowAssumption DEF WfTypes, WorkflowTypeOK
<1>2. attempt[n] \in 0..WfRetries[n]
  BY <1>1
<1> QED
  BY <1>2, TupleFacts, EventFacts

\* The initial states satisfy the invariant.
LEMMA WfInitOK == WorkflowInit => WfInv
<1> SUFFICES ASSUME WorkflowInit PROVE WfInv
  OBVIOUS
<1> USE WorkflowAssumption
<1>1. WfTypes
  <2>1. Idle \in ActorRec
    BY DEF Idle, ActorRec, RunEnded
  <2>2. actor \in [Actors -> ActorRec]
    BY <2>1 DEF WorkflowInit
  <2>3. submit \in [at : {"job", "row", "finish", "abort", "done"}, node : 1..WfCount + 1]
    BY DEF WorkflowInit
  <2>4. \A n \in Nodes : attempt[n] \in 0..WfRetries[n]
    BY DEF WorkflowInit
  <2> QED
    BY <2>2, <2>3, <2>4 DEF WorkflowInit, WfTypes, WorkflowTypeOK, ActorRec
<1>2. WfSubmit /\ WfRows /\ WfTruth
  BY DEF WorkflowInit, WfSubmit, WfRows, RowAgrees, OutOfQueue, WfTruth, Told, Loop, Succeeded, Gone, Nodes,
         NodeEnded
<1>3. \A e \in Actors : actor[e] = Idle
  BY DEF WorkflowInit
<1>4. WfEvents /\ WfActors /\ WfCanceller
  BY <1>3, EventFacts DEF WorkflowInit, WfEvents, EventTrue, WfActors, ActorTidy, WfCanceller,
    Idle, Nodes
<1>5. WfAnchor /\ WfVerdict
  BY <1>3, EventFacts DEF WorkflowInit, WfAnchor, Clean, WfVerdict, Sure, Idle, RunEnded
<1> QED
  BY <1>1, <1>2, <1>4, <1>5 DEF WfInv

\* WfVerdict is kept by a step that undoes no end and no success, and brings nobody
\* to the write of the run but with a verdict that holds.
LEMMA VerdictFrame ==
    ASSUME WfVerdict, mishaps \subseteq mishaps', wfRun' = wfRun,
           AllClosed => AllClosed', AllDone => AllDone' \/ Excused', Excused => Excused',
           \A g \in Actors : actor'[g].at = "write" =>
               \/ actor[g].at = "write" /\ actor'[g].verdict = actor[g].verdict
               \/ (AllClosed' \/ "partial" \in mishaps') /\ Sure(actor[g].verdict)',
           (actor[Canceller].at \in {"cancel", "skip"} => "partial" \in mishaps \/ AllTaken)'
    PROVE  WfVerdict'
BY DEF WfVerdict, Sure

\* The loop of submit_workflow goes on to the next node, or is done.
LEMMA SubmitNextFacts ==
    ASSUME WfTypes, WfSubmit, submit.at \in Loop, submit' = NextNode
    PROVE  /\ submit' \in [at : {"job", "row", "finish", "abort", "done"}, node : 1..WfCount + 1]
           /\ submit'.at # "row"
           /\ submit'.at \in Loop => submit'.node = submit.node + 1 /\ submit'.node \in Nodes
           /\ submit.node \in Nodes /\ submit.node \in Nat
           /\ \A n \in Nodes : n \in Nat /\ (n >= submit.node + 1 => n > submit.node /\ n # submit.node)
<1>1. WfCount \in Nat /\ submit.node \in Nodes
  BY WorkflowAssumption DEF WfSubmit
<1>2. CASE submit.node = WfCount
  BY <1>1, <1>2 DEF NextNode, Loop, Nodes
<1>3. CASE submit.node # WfCount
  BY <1>1, <1>3 DEF NextNode, Nodes
<1> QED
  BY <1>2, <1>3

\* A cached node gets its row: it had none.
LEMMA SubmitCacheHitStep ==
    ASSUME WfInv, SubmitCacheHit
    PROVE  WfInv'
<1> USE WorkflowAssumption, EventFacts DEF WfInv, WfTypes
<1>0. /\ submit' \in [at : {"job", "row", "finish", "abort", "done"}, node : 1..WfCount + 1]
      /\ submit'.at # "row"
      /\ submit'.at \in Loop => submit'.node = submit.node + 1 /\ submit'.node \in Nodes
      /\ submit.node \in Nodes /\ submit.node \in Nat
      /\ \A n \in Nodes : n \in Nat /\ (n >= submit.node + 1 => n > submit.node /\ n # submit.node)
  BY SubmitNextFacts DEF SubmitCacheHit, Loop
<1>a. wfNode[submit.node] = "none"
  BY <1>0 DEF WfSubmit, SubmitCacheHit, Loop
<1>1. WfTypes'
  BY <1>0 DEF SubmitCacheHit, WorkflowTypeOK, NodeEnded
<1>2. WfSubmit'
  BY <1>0 DEF SubmitCacheHit, WfSubmit, Loop
<1>3. WfEvents'
  BY DEF SubmitCacheHit, WfEvents, EventTrue
<1>4. WfActors'
  BY DEF SubmitCacheHit, WfActors, ActorTidy
<1>5. WfCanceller'
  BY DEF SubmitCacheHit, WfCanceller
<1>6. WfRows'
  BY DEF SubmitCacheHit, WfSubmit, Loop, WfRows, RowAgrees, OutOfQueue
<1>7. WfTruth'
  BY <1>a DEF SubmitCacheHit, WfTruth, Told
<1>8. WfAnchor'
  BY <1>a DEF SubmitCacheHit, WfAnchor, Anchored, AnchoredAt, Clean, Excused, RunEnded
<1>9. WfVerdict'
  BY DEF SubmitCacheHit, WfVerdict, Sure, AllDone, AllClosed, AllTaken, OutOfQueue, Done, Excused, NodeEnded
<1> QED
  BY <1>1, <1>2, <1>3, <1>4, <1>5, <1>6, <1>7, <1>8, <1>9

\* A node gets its row: it had none, and no cascade can have skipped it.
LEMMA SubmitRowStep ==
    ASSUME WfInv, SubmitRow
    PROVE  WfInv'
<1> USE WorkflowAssumption, EventFacts DEF WfInv, WfTypes
<1>0. /\ submit' \in [at : {"job", "row", "finish", "abort", "done"}, node : 1..WfCount + 1]
      /\ submit'.at # "row"
      /\ submit'.at \in Loop => submit'.node = submit.node + 1 /\ submit'.node \in Nodes
      /\ submit.node \in Nodes /\ submit.node \in Nat
      /\ \A n \in Nodes : n \in Nat /\ (n >= submit.node + 1 => n > submit.node /\ n # submit.node)
  BY SubmitNextFacts DEF SubmitRow, Loop
<1>a. wfNode[submit.node] = "none"
  BY <1>0 DEF WfSubmit, SubmitRow, Loop
<1>1. WfTypes'
  BY <1>0 DEF SubmitRow, WorkflowTypeOK
<1>2. WfSubmit'
  BY <1>0 DEF SubmitRow, WfSubmit, Loop
<1>3. WfEvents'
  BY DEF SubmitRow, WfEvents, EventTrue
<1>4. WfActors'
  BY DEF SubmitRow, WfActors, ActorTidy
<1>5. WfCanceller'
  BY DEF SubmitRow, WfCanceller
<1>6. WfRows'
  BY DEF SubmitRow, WfRows, RowAgrees, OutOfQueue, NodeEnded
<1>7. WfTruth'
  BY <1>a DEF SubmitRow, WfTruth, Told
<1>8. WfAnchor'
  BY <1>a DEF SubmitRow, WfAnchor, Anchored, AnchoredAt, Clean, Excused
<1>9. WfVerdict'
  BY <1>a DEF SubmitRow, WfVerdict, Sure, AllDone, AllClosed, AllTaken, OutOfQueue, Done, Excused, NodeEnded
<1> QED
  BY <1>1, <1>2, <1>3, <1>4, <1>5, <1>6, <1>7, <1>8, <1>9

\* A node gets its job: it had none, so that nothing that ended comes back.
LEMMA SubmitJobStep ==
    ASSUME WfInv, SubmitJob
    PROVE  WfInv'
<1> USE WorkflowAssumption, EventFacts DEF WfInv, WfTypes
<1>0. submit.node \in Nodes /\ wfJob[submit.node] = "none" /\ wfNode[submit.node] = "none"
  BY DEF SubmitJob, WfSubmit, Loop, Nodes
<1>1. WfTypes'
  <2>1. /\ UNCHANGED <<wfPreds, cacheHits, mode, wfRun, wfNode, attempt, actor, cancelled, started, mishaps>>
        /\ wfJob' = wfJob \/ wfJob' = [wfJob EXCEPT ![submit.node] = "Pending"]
        /\ \E at \in {"row", "abort"} : submit' = [submit EXCEPT !.at = at]
    BY DEF SubmitJob
  <2> QED
    BY <2>1 DEF WorkflowTypeOK
<1>2. WfSubmit'
  BY DEF SubmitJob, WfActors, ActorTidy, WfSubmit, Loop, WorkflowTypeOK
<1>3. WfEvents'
  BY <1>0 DEF SubmitJob, WfActors, ActorTidy, WfEvents, EventTrue, WorkflowTypeOK, Gone,
    Succeeded
<1>4. WfActors'
  BY DEF SubmitJob, WfActors, ActorTidy, WfActors, ActorTidy
<1>5. WfCanceller'
  BY DEF SubmitJob, WfActors, ActorTidy, WfCanceller
<1>6. WfRows'
  <2> SUFFICES ASSUME NEW n \in Nodes PROVE RowAgrees(n)'
    BY DEF WfRows
  <2>1. RowAgrees(n)
    BY DEF WfRows
  <2>2. UNCHANGED <<wfNode, actor, started, mishaps>>
    BY DEF SubmitJob
  <2>3. CASE n = submit.node
    <3>1. wfNode[n] = "none" /\ \A e \in Actors : actor[e].now # n
      BY <2>3, <1>0 DEF WfActors, ActorTidy
    <3>2. wfJob'[n] \in {"none", "Pending"}
      BY <2>3, <1>0 DEF SubmitJob, WorkflowTypeOK
    <3> QED
      BY <3>1, <3>2, <2>2 DEF RowAgrees, NodeEnded
  <2>4. CASE n # submit.node
    <3>1. wfJob'[n] = wfJob[n]
      BY <2>4, <1>0 DEF SubmitJob, WorkflowTypeOK
    <3> QED
      BY <3>1, <2>1, <2>2 DEF RowAgrees, OutOfQueue
  <2> QED
    BY <2>3, <2>4
<1>7. WfTruth'
  BY DEF SubmitJob, WfActors, ActorTidy, WfTruth, Told, WorkflowTypeOK, Gone, Succeeded
<1>8. WfAnchor'
  BY DEF SubmitJob, WfActors, ActorTidy, WfAnchor, Anchored, AnchoredAt, Clean, Excused
<1>9. WfVerdict'
  <2>1. ~AllClosed /\ ~AllTaken
    BY <1>0 DEF AllClosed, AllTaken
  <2>2. UNCHANGED <<wfRun, wfNode, actor, cancelled, mishaps>>
    BY DEF SubmitJob
  <2> QED
    BY <2>1, <2>2 DEF WfVerdict, Sure, AllDone, Done, Excused
<1> QED
  BY <1>1, <1>2, <1>3, <1>4, <1>5, <1>6, <1>7, <1>8, <1>9

\* A storage error in the loop.
LEMMA SubmitFailsStep ==
    ASSUME WfInv, SubmitFails
    PROVE  WfInv'
<1> USE WorkflowAssumption, EventFacts DEF WfInv, WfTypes
<1>1. WfTypes'
  BY DEF SubmitFails, WorkflowTypeOK
<1>2. WfSubmit'
  BY DEF SubmitFails, WfSubmit, Loop
<1>3. WfEvents'
  BY DEF SubmitFails, WfEvents, EventTrue
<1>4. WfActors'
  BY DEF SubmitFails, WfActors, ActorTidy
<1>5. WfCanceller'
  BY DEF SubmitFails, WfCanceller
<1>6. WfRows'
  BY DEF SubmitFails, WfRows, RowAgrees, OutOfQueue
<1>7. WfTruth'
  BY DEF SubmitFails, WfTruth, Told
<1>8. WfAnchor'
  BY DEF SubmitFails, WfSubmit, Loop, WfAnchor, Anchored, AnchoredAt, Clean, Excused,
    WorkflowTypeOK, Gone, Succeeded, NodeEnded, RunEnded
<1>9. WfVerdict'
  BY DEF SubmitFails, WfVerdict, Sure, AllDone, AllClosed, AllTaken, OutOfQueue, Done, Excused
<1> QED
  BY <1>1, <1>2, <1>3, <1>4, <1>5, <1>6, <1>7, <1>8, <1>9

\* The last write of submit_workflow, whatever the run says by now.
LEMMA SubmitEndsStep ==
    ASSUME WfInv, SubmitEnds
    PROVE  WfInv'
<1> USE WorkflowAssumption, EventFacts DEF WfInv, WfTypes
<1>1. WfTypes'
  BY DEF SubmitEnds, WorkflowTypeOK, RunEnded
<1>2. WfSubmit'
  BY DEF SubmitEnds, WfSubmit, Loop
<1>3. WfEvents'
  BY DEF SubmitEnds, WfEvents, EventTrue
<1>4. WfActors'
  BY DEF SubmitEnds, WfActors, ActorTidy
<1>5. WfCanceller'
  BY DEF SubmitEnds, WfCanceller
<1>6. WfRows'
  BY DEF SubmitEnds, WfRows, RowAgrees, OutOfQueue
<1>7. WfTruth'
  BY DEF SubmitEnds, WfTruth, Told
<1>8. WfAnchor'
  BY DEF SubmitEnds, WfAnchor, Anchored, AnchoredAt, Clean, Excused
<1>9. WfVerdict'
  BY DEF SubmitEnds, WfVerdict, Sure, AllDone, AllClosed, AllTaken, OutOfQueue, Done, Excused, RunEnded
<1> QED
  BY <1>1, <1>2, <1>3, <1>4, <1>5, <1>6, <1>7, <1>8, <1>9

\* A job starts.
LEMMA JobStartsStep ==
    ASSUME WfInv, NEW n \in Nodes, JobStarts(n)
    PROVE  WfInv'
<1> USE WorkflowAssumption, EventFacts DEF WfInv, WfTypes
<1>1. WfTypes'
  BY DEF JobStarts, WorkflowTypeOK
<1>2. WfSubmit'
  BY DEF JobStarts, WfSubmit, Loop
<1>3. WfEvents'
  BY DEF JobStarts, WfEvents, EventTrue, Gone, Succeeded
<1>4. WfActors'
  BY DEF JobStarts, WfActors, ActorTidy
<1>5. WfCanceller'
  BY DEF JobStarts, WfCanceller
<1>6. WfRows'
  BY DEF JobStarts, WfRows, RowAgrees, OutOfQueue, Gone, Succeeded
<1>7. WfTruth'
  BY DEF JobStarts, WfTruth, Told, Gone, Succeeded
<1>8. WfAnchor'
  BY DEF JobStarts, WfAnchor, Anchored, AnchoredAt, Clean, Excused
<1>9. WfVerdict'
  BY DEF JobStarts, WfVerdict, Sure, AllDone, AllClosed, AllTaken, OutOfQueue, Done, Excused
<1> QED
  BY <1>1, <1>2, <1>3, <1>4, <1>5, <1>6, <1>7, <1>8, <1>9

\* A reported success is settled.
LEMMA JobCompletesStep ==
    ASSUME WfInv, NEW n \in Nodes, JobCompletes(n)
    PROVE  WfInv'
<1> USE WorkflowAssumption, EventFacts DEF WfInv, WfTypes
<1>1. WfTypes'
  BY DEF JobCompletes, WorkflowTypeOK
<1>2. WfSubmit'
  BY DEF JobCompletes, WfSubmit, Loop
<1>3. WfEvents'
  BY DEF JobCompletes, WfEvents, EventTrue, Gone, Succeeded
<1>4. WfActors'
  BY DEF JobCompletes, WfActors, ActorTidy
<1>5. WfCanceller'
  BY DEF JobCompletes, WfCanceller
<1>6. WfRows'
  BY DEF JobCompletes, WfRows, RowAgrees, OutOfQueue, Gone, Succeeded
<1>7. WfTruth'
  BY DEF JobCompletes, WfTruth, Told, Gone, Succeeded
<1>8. WfAnchor'
  BY DEF JobCompletes, WfAnchor, Anchored, AnchoredAt, Clean, Excused
<1>9. WfVerdict'
  BY DEF JobCompletes, WfVerdict, Sure, AllDone, AllClosed, AllTaken, OutOfQueue, Done, Excused
<1> QED
  BY <1>1, <1>2, <1>3, <1>4, <1>5, <1>6, <1>7, <1>8, <1>9

\* An operator cancels a pending job, and its dependents go with it.
LEMMA JobCancelledStep ==
    ASSUME WfInv, NEW n \in Nodes, JobCancelled(n)
    PROVE  WfInv'
<1> USE WorkflowAssumption, EventFacts DEF WfInv, WfTypes
<1>1. WfTypes'
  BY DEF JobCancelled, WithDependents, WorkflowTypeOK
<1>2. WfSubmit'
  BY DEF JobCancelled, WithDependents, WfSubmit, Loop
<1>3. WfEvents'
  BY DEF JobCancelled, WithDependents, WfEvents, EventTrue, Gone, Succeeded
<1>4. WfActors'
  BY DEF JobCancelled, WithDependents, WfActors, ActorTidy
<1>5. WfCanceller'
  BY DEF JobCancelled, WithDependents, WfCanceller
<1>6. WfRows'
  BY DEF JobCancelled, WithDependents, WfRows, RowAgrees, OutOfQueue, Gone, Succeeded
<1>7. WfTruth'
  BY DEF JobCancelled, WithDependents, WfTruth, Told, Gone, Succeeded
<1>8. WfAnchor'
  BY DEF JobCancelled, WithDependents, WfAnchor, Anchored, AnchoredAt, Clean, Excused
<1>9. WfVerdict'
  BY DEF JobCancelled, WithDependents, WfVerdict, Sure, AllDone, AllClosed, AllTaken, OutOfQueue, Done,
    Excused
<1> QED
  BY <1>1, <1>2, <1>3, <1>4, <1>5, <1>6, <1>7, <1>8, <1>9

\* An attempt is retried; if it had reported its success, that is a mishap.
LEMMA JobRetriesStep ==
    ASSUME WfInv, NEW n \in Nodes, JobRetries(n)
    PROVE  WfInv'
<1> USE WorkflowAssumption, EventFacts DEF WfInv, WfTypes
<1>1. WfTypes'
  <2>a. attempt' = [attempt EXCEPT ![n] = attempt[n] + 1] /\ attempt[n] < WfRetries[n]
    BY DEF JobRetries
  <2>b. attempt[n] \in Nat /\ WfRetries[n] \in Nat
    OBVIOUS
  <2>0. attempt[n] + 1 \in 0..WfRetries[n]
    BY <2>a, <2>b
  <2>1. attempt' \in [Nodes -> Nat] /\ \A m \in Nodes : attempt'[m] \in 0..WfRetries[m]
    BY <2>a, <2>b, <2>0 DEF WorkflowTypeOK
  <2>2. wfJob' \in [Nodes -> {"none", "Pending", "Running", "Reported", "Complete", "Dead", "Cancelled"}]
    BY DEF JobRetries, WorkflowTypeOK
  <2>3. mishaps' \subseteq {"aborted", "unborn", "regressed", "lost", "meddled", "partial",
                      "repeated", "overwritten", "unheard", "uncancelled", "unskipped"}
    <3>1. mishaps' = mishaps \/ mishaps' = mishaps \cup {"repeated"}
      BY DEF JobRetries
    <3>2. mishaps \subseteq {"aborted", "unborn", "regressed", "lost", "meddled", "partial",
                      "repeated", "overwritten", "unheard", "uncancelled", "unskipped"}
      BY DEF WorkflowTypeOK
    <3> QED
      BY <3>1, <3>2
  <2> QED
    BY <2>1, <2>2, <2>3 DEF JobRetries, WorkflowTypeOK
<1>2. WfSubmit'
  BY DEF JobRetries, WfSubmit, Loop
<1>3. WfEvents'
  BY DEF JobRetries, WfEvents, EventTrue, Gone, Succeeded
<1>4. WfActors'
  BY DEF JobRetries, WfActors, ActorTidy
<1>5. WfCanceller'
  BY DEF JobRetries, WfCanceller
<1>6. WfRows'
  BY DEF JobRetries, WfRows, RowAgrees, OutOfQueue, Gone, Succeeded
<1>7. WfTruth'
  BY DEF JobRetries, WfTruth, Told, WorkflowTypeOK, Gone, Succeeded
<1>8. WfAnchor'
  BY DEF JobRetries, WfAnchor, Anchored, AnchoredAt, Clean, Excused
<1>9. WfVerdict'
  BY DEF JobRetries, WfRows, RowAgrees, WfVerdict, Sure, AllDone, AllClosed, AllTaken, OutOfQueue, Done, Excused
<1> QED
  BY <1>1, <1>2, <1>3, <1>4, <1>5, <1>6, <1>7, <1>8, <1>9

\* A success is reported before it is settled.
LEMMA JobReportsStep ==
    ASSUME WfInv, NEW n \in Nodes, JobReports(n)
    PROVE  WfInv'
<1> USE WorkflowAssumption, EventFacts DEF WfInv, WfTypes
<1>0. n \in started
  BY DEF JobReports, WfRows, RowAgrees, OutOfQueue
<1>f. PICK f : Emitted(n, f) /\ actor'[f].ok /\ f = Report(n, attempt[n])
  BY AttemptFacts, EmitFacts DEF JobReports
<1>1. WfTypes'
  BY <1>f DEF JobReports, Emitted, WorkflowTypeOK, ActorRec
<1>2. WfSubmit'
  BY <1>f DEF JobReports, Emitted, WfSubmit, Loop
<1>3. WfEvents'
  BY <1>0, <1>f DEF JobReports, Emitted, WfEvents, EventTrue, WorkflowTypeOK, Gone, Succeeded
<1>4. WfActors'
  BY <1>f DEF JobReports, Emitted, WfActors, ActorTidy
<1>5. WfCanceller'
  BY <1>f DEF JobReports, Emitted, WfCanceller
<1>6. WfRows'
  BY <1>f DEF JobReports, Emitted, WfRows, RowAgrees, OutOfQueue, Gone, Succeeded
<1>7. WfTruth'
  BY <1>f, AttemptFacts DEF JobReports, Emitted, WfTruth, Told
<1>8. WfAnchor'
  <2>1. Excused => Excused'
    BY <1>f DEF Excused, JobReports, Emitted
  <2>2. Anchored => Anchored'
    BY <1>f DEF Anchored, AnchoredAt, JobReports, Emitted
  <2>3. Clean => Clean'
    BY <1>f DEF Clean, JobReports, Emitted
  <2> QED
    BY <2>1, <2>2, <2>3 DEF WfAnchor
<1>9. WfVerdict'
  BY <1>f DEF JobReports, Emitted, WfVerdict, Sure, AllDone, AllClosed, AllTaken, OutOfQueue, Done, Excused
<1> QED
  BY <1>1, <1>2, <1>3, <1>4, <1>5, <1>6, <1>7, <1>8, <1>9

\* A job ends without success: it has run, and an event says so.
Falls(n) ==
    /\ n \in Nodes /\ n \in started
    /\ wfJob[n] = "Running"
    /\ wfJob' \in [Nodes -> {"none", "Pending", "Running", "Reported", "Complete", "Dead", "Cancelled"}]
    /\ wfJob'[n] \in Gone
    /\ \A m \in Nodes : m # n => wfJob'[m] = wfJob[m] \/ (wfJob[m] = "Pending" /\ wfJob'[m] = "Cancelled")
    /\ UNCHANGED <<wfPreds, cacheHits, mode, wfRun, wfNode, attempt, submit, cancelled, started, mishaps>>

\* The end of a job without success.
LEMMA FallsStep ==
    ASSUME WfInv, NEW n, Falls(n), NEW f, Emitted(n, f), ~actor'[f].ok
    PROVE  WfInv'
<1> USE WorkflowAssumption, EventFacts DEF WfInv, WfTypes
<1>1. WfTypes'
  BY DEF Falls, Emitted, WorkflowTypeOK, ActorRec
<1>2. WfSubmit'
  BY DEF Falls, Emitted, WfSubmit, Loop
<1>3. WfEvents'
  <2> SUFFICES ASSUME NEW e \in Events PROVE EventTrue(e)'
    BY DEF WfEvents
  <2>1. EventTrue(e)
    BY DEF WfEvents
  <2>2. CASE e = f
    BY <2>2 DEF Falls, Emitted, EventTrue
  <2>3. CASE e # f
    BY <2>1, <2>3 DEF Falls, Emitted, EventTrue, Gone, Succeeded
  <2> QED
    BY <2>2, <2>3
<1>4. WfActors'
  BY DEF Falls, Emitted, WfActors, ActorTidy
<1>5. WfCanceller'
  BY DEF Falls, Emitted, WfCanceller
<1>6. WfRows'
  BY DEF Falls, Emitted, WfRows, RowAgrees, OutOfQueue, Gone, Succeeded
<1>7. WfTruth'
  BY AttemptFacts DEF Falls, Emitted, WfSubmit, Loop, WfTruth, Told, Gone, Succeeded, NodeEnded,
    RunEnded
<1>8. WfAnchor'
  <2>1. Excused => Excused'
    BY DEF Excused, Falls, Emitted
  <2>2. Anchored => Anchored'
    BY DEF Anchored, AnchoredAt, Falls, Emitted
  <2>3. Clean => Clean'
    BY DEF Clean, Falls, Emitted
  <2> QED
    BY <2>1, <2>2, <2>3 DEF WfAnchor
<1>9. WfVerdict'
  BY DEF Falls, Emitted, WfVerdict, Sure, AllDone, AllClosed, AllTaken, OutOfQueue, Done, Excused, Gone,
    Succeeded
<1> QED
  BY <1>1, <1>2, <1>3, <1>4, <1>5, <1>6, <1>7, <1>8, <1>9

\* A job that dies or is stopped ends so.
LEMMA JobEndsStep ==
    ASSUME WfInv, NEW n \in Nodes, JobStops(n) \/ JobDies(n)
    PROVE  WfInv'
<1> USE DEF WfInv, WfTypes
<1>1. Falls(n)
  BY ZenonT(60) DEF JobStops, JobDies, WithDependents, Falls, WorkflowTypeOK, WfRows, RowAgrees, OutOfQueue, Gone
<1>2. PICK k \in 0..WfRetries[n] : Emit(n, k, FALSE)
  BY AttemptFacts DEF JobStops, JobDies
<1>3. PICK f : Emitted(n, f) /\ ~actor'[f].ok
  BY <1>2, EmitFacts
<1> QED
  BY <1>1, <1>3, FallsStep

\* The reaper ends a job that has started, and its dependents go with it; no handler
\* hears of it.
LEMMA JobReapedStep ==
    ASSUME WfInv, NEW n \in Nodes, JobReaped(n)
    PROVE  WfInv'
<1> USE WorkflowAssumption, EventFacts DEF WfInv, WfTypes
<1>0. n \in started
  BY DEF JobReaped, WfRows, RowAgrees
<1>u. /\ UNCHANGED <<wfPreds, cacheHits, mode, wfRun, wfNode, attempt, submit, actor, cancelled, started>>
      /\ mishaps' = mishaps \cup {"unheard"} \/ mishaps' = mishaps \cup {"unheard"} \cup {"repeated"}
      /\ wfJob[n] = "Running" \/ "repeated" \in mishaps'
      /\ wfJob[n] \in {"Running", "Reported"}
  BY DEF JobReaped
<1>j. /\ wfJob' \in [Nodes -> {"none", "Pending", "Running", "Reported", "Complete", "Dead", "Cancelled"}]
      /\ wfJob'[n] = "Dead"
      /\ \A m \in Nodes : m # n => wfJob'[m] = wfJob[m] \/ (wfJob[m] = "Pending" /\ wfJob'[m] = "Cancelled")
  BY DEF JobReaped, WithDependents, WorkflowTypeOK
<1>1. WfTypes'
  BY <1>u, <1>j DEF WorkflowTypeOK
<1>2. WfSubmit'
  BY <1>u, <1>j DEF WfSubmit, Loop
<1>3. WfEvents'
  BY <1>u, <1>j DEF WfEvents, EventTrue, Gone, Succeeded
<1>4. WfActors' /\ WfCanceller'
  BY <1>u DEF WfActors, ActorTidy, WfCanceller
<1>5. WfRows'
  BY <1>0, <1>u, <1>j DEF WfRows, RowAgrees, OutOfQueue, Gone, Succeeded
<1>6. WfTruth'
  BY <1>u, <1>j DEF WfTruth, Told, Succeeded
<1>7. WfAnchor'
  BY <1>u DEF WfAnchor, Anchored, AnchoredAt, Clean, Excused
<1>8. WfVerdict'
  BY <1>0, <1>u, <1>j DEF WfVerdict, Sure, AllDone, AllClosed, AllTaken, OutOfQueue, Done, Excused
<1> QED
  BY <1>1, <1>2, <1>3, <1>4, <1>5, <1>6, <1>7, <1>8

\* cancel_workflow_run begins.
LEMMA CancelRunStep ==
    ASSUME WfInv, CancelRun
    PROVE  WfInv'
<1> USE WorkflowAssumption, EventFacts DEF WfInv, WfTypes
<1>p. PICK r : r = [Idle EXCEPT !.at = "read", !.verdict = "Cancelled"]
  OBVIOUS
<1>0. /\ r \in ActorRec /\ actor' = [actor EXCEPT ![Canceller] = r] /\ r.at = "read" /\ r.ok
      /\ r.todo = {} /\ r.now = 0 /\ r.verdict = "Cancelled"
  BY <1>p, IdleFacts DEF CancelRun, Move, ActorRec, RunEnded
<1>m. actor' \in [Actors -> ActorRec] /\ actor'[Canceller] = r /\ \A f \in Actors : f # Canceller => actor'[f] = actor[f]
  BY <1>0, ActorMoves
<1>1. WfTypes'
  BY <1>m DEF CancelRun, WorkflowTypeOK, ActorRec
<1>2. WfSubmit'
  BY DEF CancelRun, WfSubmit, Loop
<1>3. WfEvents'
  BY <1>0 DEF CancelRun, WfEvents, EventTrue
<1>4. WfActors'
  BY <1>0 DEF CancelRun, WfActors, ActorTidy
<1>5. WfCanceller'
  BY <1>0 DEF CancelRun, WfCanceller
<1>6. WfRows'
  BY <1>0 DEF CancelRun, WfRows, RowAgrees, OutOfQueue
<1>7. WfTruth'
  BY <1>0, AttemptFacts DEF CancelRun, WfTruth, Told
<1>8. WfAnchor'
  BY DEF CancelRun, WfAnchor, Anchored, AnchoredAt, Clean, Excused
<1>9. WfVerdict'
  BY <1>0 DEF CancelRun, WfVerdict, Sure, AllDone, AllClosed, AllTaken, OutOfQueue, Done, Excused
<1> QED
  BY <1>1, <1>2, <1>3, <1>4, <1>5, <1>6, <1>7, <1>8, <1>9

\* The verdict is written: it was sure when it was reached and is still.
LEMMA WriteRunStep ==
    ASSUME WfInv, NEW e \in Actors, WriteRun(e)
    PROVE  WfInv'
<1> USE WorkflowAssumption, EventFacts DEF WfInv, WfTypes
<1>0. PICK r \in ActorRec : actor' = [actor EXCEPT ![e] = r] /\ r = Idle
  BY IdleFacts DEF WriteRun, Move, ActorRec
<1>m. actor' \in [Actors -> ActorRec] /\ actor'[e] = r /\ \A f \in Actors : f # e => actor'[f] = actor[f]
  BY <1>0, ActorMoves
<1>1. WfTypes'
  BY <1>m DEF WriteRun, WorkflowTypeOK, ActorRec
<1>2. WfSubmit'
  BY DEF WriteRun, WfSubmit, Loop
<1>3. WfEvents'
  BY <1>0, IdleFacts DEF WriteRun, WfEvents, EventTrue
<1>4. WfActors'
  BY <1>0, IdleFacts DEF WriteRun, WfActors, ActorTidy
<1>5. WfCanceller'
  BY <1>0, IdleFacts DEF WriteRun, WfCanceller
<1>6. WfRows'
  BY <1>0, IdleFacts DEF WriteRun, WfRows, RowAgrees, OutOfQueue
<1>7. WfTruth'
  BY <1>0 DEF WriteRun, WfTruth, Told
<1>8. WfAnchor'
  BY <1>0, IdleFacts DEF WriteRun, WfSubmit, Loop, WfAnchor, Anchored, AnchoredAt, Clean,
    Excused
<1>9. WfVerdict'
  BY <1>0, IdleFacts DEF WriteRun, WfVerdict, Sure, AllDone, AllClosed, AllTaken, OutOfQueue, Done, Excused
<1> QED
  BY <1>1, <1>2, <1>3, <1>4, <1>5, <1>6, <1>7, <1>8, <1>9

\* A handler dies.
LEMMA ActorLostStep ==
    ASSUME WfInv, NEW e \in Actors, ActorLost(e)
    PROVE  WfInv'
<1> USE WorkflowAssumption, EventFacts DEF WfInv, WfTypes
<1>0. PICK r \in ActorRec : actor' = [actor EXCEPT ![e] = r] /\ r = Idle
  BY IdleFacts DEF ActorLost, Move, ActorRec
<1>m. actor' \in [Actors -> ActorRec] /\ actor'[e] = r /\ \A f \in Actors : f # e => actor'[f] = actor[f]
  BY <1>0, ActorMoves
<1>1. WfTypes'
  BY <1>m DEF ActorLost, WorkflowTypeOK, ActorRec
<1>2. WfSubmit'
  BY DEF ActorLost, WfSubmit, Loop
<1>3. WfEvents'
  BY <1>0, IdleFacts DEF ActorLost, WfEvents, EventTrue
<1>4. WfActors'
  BY <1>0, IdleFacts DEF ActorLost, WfActors, ActorTidy
<1>5. WfCanceller'
  BY <1>0, IdleFacts DEF ActorLost, WfCanceller
<1>6. WfRows'
  BY <1>0, IdleFacts DEF ActorLost, WfRows, RowAgrees, OutOfQueue
<1>7. WfTruth'
  BY DEF ActorLost, WfTruth, Told
<1>8. WfAnchor'
  BY <1>0, IdleFacts DEF ActorLost, WfAnchor, Anchored, AnchoredAt, Clean, Excused
<1>9. WfVerdict'
  BY <1>0, IdleFacts DEF ActorLost, WfVerdict, Sure, AllDone, AllClosed, AllTaken, OutOfQueue, Done, Excused
<1> QED
  BY <1>1, <1>2, <1>3, <1>4, <1>5, <1>6, <1>7, <1>8, <1>9

\* An event comes before its row is there.
LEMMA MarkUnbornStep ==
    ASSUME WfInv, NEW e \in Actors, MarkNode(e), wfNode[e[1]] = "none"
    PROVE  WfInv'
<1> USE WorkflowAssumption, EventFacts DEF WfInv, WfTypes
<1>0. PICK r \in ActorRec : actor' = [actor EXCEPT ![e] = r] /\ r = Idle
  BY IdleFacts DEF MarkNode, Move
<1>1. WfTypes'
  BY <1>0 DEF MarkNode, WorkflowTypeOK, ActorRec
<1>2. WfSubmit'
  BY DEF MarkNode, WfSubmit, Loop
<1>3. WfEvents'
  BY <1>0, IdleFacts DEF MarkNode, WfEvents, EventTrue
<1>4. WfActors'
  BY <1>0, IdleFacts DEF MarkNode, WfActors, ActorTidy
<1>5. WfCanceller'
  BY <1>0 DEF MarkNode, WfCanceller
<1>6. WfRows'
  BY <1>0, IdleFacts DEF MarkNode, WfRows, RowAgrees, OutOfQueue
<1>7. WfTruth'
  BY DEF MarkNode, WfTruth, Told
<1>8. WfAnchor'
  BY <1>0, IdleFacts DEF MarkNode, WfAnchor, Anchored, AnchoredAt, Clean, Excused
<1>9. WfVerdict'
  BY <1>0, IdleFacts DEF MarkNode, WfVerdict, Sure, AllDone, AllClosed, AllTaken, OutOfQueue, Done, Excused
<1> QED
  BY <1>1, <1>2, <1>3, <1>4, <1>5, <1>6, <1>7, <1>8, <1>9

\* A node is marked.  The first failure becomes the anchor: nobody cascades yet,
\* so that it is on nobody's list.
LEMMA MarkRowStep ==
    ASSUME WfInv, NEW e \in Actors, MarkNode(e), wfNode[e[1]] # "none"
    PROVE  WfInv'
<1> USE WorkflowAssumption, EventFacts DEF WfInv, WfTypes
<1>e. e \in Events /\ e[1] \in Nodes
  BY DEF MarkNode, WfCanceller
<1>p. PICK r : r = [actor[e] EXCEPT !.at = IF actor[e].ok THEN "check" ELSE "read"]
  OBVIOUS
<1>q. actor[e] \in ActorRec
  BY DEF WorkflowTypeOK, ActorRec
<1>0. /\ r \in ActorRec /\ actor' = [actor EXCEPT ![e] = r] /\ (r.ok <=> actor[e].ok) /\ r.todo = {} /\ r.now = 0
      /\ r.ok => r.at = "check"
      /\ ~r.ok => r.at = "read"
  BY <1>p, <1>q DEF MarkNode, Move, ActorRec, WfActors, ActorTidy
<1>m. actor' \in [Actors -> ActorRec] /\ actor'[e] = r /\ \A f \in Actors : f # e => actor'[f] = actor[f]
  BY <1>0, ActorMoves
<1>w. PICK v : v = IF actor[e].ok THEN "Completed" ELSE "Failed"
  OBVIOUS
<1>n. /\ wfNode' = [wfNode EXCEPT ![e[1]] = v] /\ v \in {"Completed", "Failed"}
      /\ actor[e].ok => v = "Completed"
      /\ ~actor[e].ok => v = "Failed"
  BY <1>w DEF MarkNode
<1>o. /\ wfNode' \in [Nodes -> {"none", "Pending"} \cup NodeEnded] /\ wfNode'[e[1]] = v
      /\ \A m \in Nodes : m # e[1] => wfNode'[m] = wfNode[m]
  BY <1>e, <1>n DEF WorkflowTypeOK, NodeEnded
<1>u. UNCHANGED <<wfPreds, cacheHits, mode, wfRun, wfJob, attempt, submit, cancelled, started, mishaps>>
  BY DEF MarkNode
<1>v. EventTrue(e) /\ actor[e].at = "mark"
  BY <1>e DEF WfEvents, MarkNode
<1>1. WfTypes'
  BY <1>m, <1>o, <1>u DEF WorkflowTypeOK, ActorRec
<1>2. WfSubmit'
  BY <1>n, <1>u DEF EventTrue, WfSubmit, Loop
<1>3. WfEvents'
  BY <1>0, <1>u, <1>v DEF EventTrue, WfEvents, EventTrue
<1>4. WfActors'
  BY <1>0, <1>n DEF EventTrue, WfActors, ActorTidy
<1>5. WfCanceller'
  BY <1>0, <1>u, <1>v DEF EventTrue, WfCanceller
<1>6. WfRows'
  BY <1>0, <1>n, <1>u, <1>v DEF EventTrue, WfRows, RowAgrees, OutOfQueue
<1>7. WfTruth'
  BY <1>0, <1>n, <1>o, <1>u, <1>v, AttemptFacts DEF EventTrue, WfTruth, Told, Gone, Succeeded
<1>8. WfAnchor'
  <2>1. Excused => Excused'
    BY <1>u DEF Excused
  <2>2. Anchored => Anchored' \/ Excused'
    <3> SUFFICES ASSUME NEW n \in Nodes, AnchoredAt(n), ~Excused' PROVE AnchoredAt(n)'
      BY DEF Anchored
    <3>1. n = e[1] => ~actor[e].ok
      BY <1>u, <1>v DEF AnchoredAt, WfRows, RowAgrees, OutOfQueue, EventTrue, Excused, Gone, Succeeded
    <3>2. wfNode'[n] = "Failed"
      BY <3>1, <1>n DEF AnchoredAt
    <3> QED
      BY <3>2, <1>0 DEF AnchoredAt
  <2>3. Clean => Clean' \/ Anchored' \/ Excused'
    <3> SUFFICES ASSUME Clean, ~Excused' PROVE Clean' \/ Anchored'
      OBVIOUS
    <3>1. CASE actor[e].ok
      BY <3>1, <1>0, <1>n DEF Clean
    <3>2. CASE ~actor[e].ok
      <4>1. \A g \in Events : actor[g].at \in {"idle", "mark", "check", "write"}
        BY DEF Clean, WfEvents, EventTrue
      <4>2. actor[Canceller].at = "idle"
        BY <1>u DEF Excused, WfCanceller
      <4>3. \A g \in Actors : actor[g].todo = {} /\ actor[g].now = 0
        BY <4>1, <4>2 DEF WfActors, ActorTidy
      <4>4. \A g \in Actors : actor'[g].todo = {} /\ actor'[g].now = 0
        BY <4>3, <1>0
      <4>5. AnchoredAt(e[1])'
        BY <3>2, <4>4, <1>n, <1>o DEF AnchoredAt
      <4> QED
        BY <4>5, <1>e DEF Anchored
    <3> QED
      BY <3>1, <3>2
  <2> QED
    BY <2>1, <2>2, <2>3 DEF WfAnchor
<1>9. WfVerdict'
  <2>1. AllClosed => AllClosed'
    BY <1>n, <1>o, <1>u DEF AllClosed, OutOfQueue
  <2>2. Excused => Excused'
    BY <1>u DEF Excused
  <2>3. AllDone => AllDone' \/ Excused'
    <3>1. ~actor[e].ok /\ Done(e[1]) => Excused'
      BY <1>u, <1>v DEF Done, EventTrue, WfRows, RowAgrees, OutOfQueue, WfSubmit, Gone, Succeeded, Excused
    <3> QED
      BY <3>1, <1>n DEF AllDone, Done
  <2>4. (actor[Canceller].at \in {"cancel", "skip"} => "partial" \in mishaps \/ AllTaken)'
    BY <1>e, <1>m, <1>n, <1>o, <1>u DEF WfVerdict, AllTaken, OutOfQueue
  <2>5. \A g \in Actors : actor'[g].at = "write" => actor[g].at = "write" /\ actor'[g].verdict = actor[g].verdict
    BY <1>0
  <2> QED
    BY <2>1, <2>2, <2>3, <2>4, <2>5, <1>u, VerdictFrame
<1> QED
  BY <1>1, <1>2, <1>3, <1>4, <1>5, <1>6, <1>7, <1>8, <1>9

\* A cascade reads the rows that are Pending, and the anchor is not one of them.
LEMMA ReadPendingStep ==
    ASSUME WfInv, NEW e \in Actors, ReadPending(e)
    PROVE  WfInv'
<1> USE WorkflowAssumption, EventFacts DEF WfInv, WfTypes
<1>t. PICK todo : todo = {n \in Nodes : wfNode[n] = "Pending"}
  OBVIOUS
<1>p. PICK r : r = [actor[e] EXCEPT !.todo = todo, !.at = AfterSkip(e, todo)]
  OBVIOUS
<1>q. actor[e] \in ActorRec /\ actor[e].at = "read" /\ actor[e].now = 0
  BY DEF WorkflowTypeOK, ActorRec, ReadPending, WfActors, ActorTidy
<1>s. /\ AfterSkip(e, todo) \in {"cancel", "write", "check"}
      /\ AfterSkip(e, todo) = "cancel" <=> todo # {}
      /\ AfterSkip(e, todo) = "write" => e = Canceller
      /\ AfterSkip(e, todo) = "check" => e # Canceller
  BY DEF AfterSkip
<1>0. /\ r \in ActorRec /\ actor' = [actor EXCEPT ![e] = r] /\ (r.ok <=> actor[e].ok) /\ r.now = 0
      /\ r.todo = {n \in Nodes : wfNode[n] = "Pending"} /\ r.verdict = actor[e].verdict
      /\ r.at \in {"cancel", "write", "check"}
      /\ (r.at = "cancel") <=> (r.todo # {})
      /\ (r.at = "write") => e = Canceller
      /\ (r.at = "check") => e # Canceller
  <2>1. r \in ActorRec /\ r.todo = todo /\ r.at = AfterSkip(e, todo) /\ r.ok = actor[e].ok /\ r.now = 0
        /\ r.verdict = actor[e].verdict
    BY <1>t, <1>p, <1>q, <1>s DEF ActorRec
  <2>2. actor' = [actor EXCEPT ![e] = r]
    BY <1>t, <1>p DEF ReadPending, Move
  <2> QED
    BY <2>1, <2>2, <1>t, <1>s
<1>m. actor' \in [Actors -> ActorRec] /\ actor'[e] = r /\ \A f \in Actors : f # e => actor'[f] = actor[f]
  BY <1>0, ActorMoves
<1>u. /\ UNCHANGED <<wfPreds, cacheHits, mode, wfRun, wfNode, wfJob, attempt, submit, cancelled, started>>
      /\ mishaps' = mishaps \/ mishaps' = mishaps \cup {"partial"}
      /\ Rows = Nodes \/ "partial" \in mishaps'
  BY DEF ReadPending
<1>1. WfTypes'
  BY <1>m, <1>u DEF WorkflowTypeOK, ActorRec
<1>2. WfSubmit'
  BY <1>u DEF Rows, WfSubmit, Loop
<1>3. WfEvents'
  BY <1>q, <1>0, <1>u DEF Rows, WfEvents, EventTrue
<1>4. WfActors'
  BY <1>0, <1>u DEF Rows, WfActors, ActorTidy
<1>5. WfCanceller'
  BY <1>q, <1>0, <1>u DEF Rows, WfCanceller
<1>6. WfRows'
  BY <1>0, <1>u DEF Rows, WfRows, RowAgrees, OutOfQueue
<1>7. WfTruth'
  BY <1>q, <1>0, <1>u DEF Rows, WfTruth, Told
<1>8. WfAnchor'
  BY <1>q, <1>0, <1>u DEF Rows, WfAnchor, Anchored, AnchoredAt, Clean, Excused
<1>9. WfVerdict'
  <2>1. (AllClosed => AllClosed') /\ (AllDone => AllDone') /\ (Excused => Excused')
    BY <1>u DEF AllClosed, OutOfQueue, AllDone, Done, Excused
  <2>2. r.at = "write" => (AllClosed' \/ "partial" \in mishaps') /\ r.verdict = "Cancelled"
    BY <1>q, <1>0, <1>u DEF AllClosed, OutOfQueue, WfRows, RowAgrees, Rows, WorkflowTypeOK, WfCanceller
  <2>3. (actor[Canceller].at \in {"cancel", "skip"} => "partial" \in mishaps \/ AllTaken)'
    <3>1. CASE e = Canceller
      BY <3>1, <1>0, <1>u DEF AllTaken, OutOfQueue, WfRows, RowAgrees, Rows, WorkflowTypeOK
    <3>2. CASE e # Canceller
      BY <3>2, <1>m, <1>u DEF AllTaken, OutOfQueue, WfVerdict
    <3> QED
      BY <3>1, <3>2
  <2>4. \A g \in Actors : actor'[g].at = "write" =>
               \/ actor[g].at = "write" /\ actor'[g].verdict = actor[g].verdict
               \/ (AllClosed' \/ "partial" \in mishaps') /\ Sure(actor[g].verdict)'
    BY <2>2, <1>m DEF Sure
  <2> QED
    BY <2>1, <2>3, <2>4, <1>u, VerdictFrame
<1> QED
  BY <1>1, <1>2, <1>3, <1>4, <1>5, <1>6, <1>7, <1>8, <1>9

\* A cascade cancels the job of the next node on its list, or fails to and goes on.
LEMMA CancelJobStep ==
    ASSUME WfInv, NEW e \in Actors, NEW n \in Nodes, CancelJob(e, n) \/ CancelJobFails(e, n)
    PROVE  WfInv'
<1> USE WorkflowAssumption, EventFacts DEF WfInv, WfTypes
<1>p. PICK r : r = [actor[e] EXCEPT !.at = "skip", !.now = n, !.todo = @ \ {n}]
  OBVIOUS
<1>q. actor[e] \in ActorRec /\ actor[e].at = "cancel" /\ actor[e].now = 0 /\ n \in actor[e].todo
  BY DEF WorkflowTypeOK, ActorRec, CancelJob, CancelJobFails, WfActors, ActorTidy
<1>0. /\ r \in ActorRec /\ actor' = [actor EXCEPT ![e] = r] /\ (r.ok <=> actor[e].ok) /\ r.now = n
      /\ r.todo = actor[e].todo \ {n} /\ r.verdict = actor[e].verdict /\ r.at = "skip"
  <2>1. n \in 0..WfCount
    BY DEF Nodes
  <2> QED
    BY <1>p, <1>q, <2>1 DEF CancelJob, CancelJobFails, Move, ActorRec
<1>m. actor' \in [Actors -> ActorRec] /\ actor'[e] = r /\ \A f \in Actors : f # e => actor'[f] = actor[f]
  BY <1>0, ActorMoves
<1>j. /\ wfJob' \in [Nodes -> {"none", "Pending", "Running", "Reported", "Complete", "Dead", "Cancelled"}]
      /\ wfJob'[n] # "Pending" \/ "uncancelled" \in mishaps'
      /\ \A m \in Nodes : wfJob'[m] = wfJob[m] \/ (wfJob[m] = "Pending" /\ wfJob'[m] = "Cancelled")
  BY DEF CancelJob, CancelJobFails, WithDependents, WorkflowTypeOK
<1>u. /\ UNCHANGED <<wfPreds, cacheHits, mode, wfRun, wfNode, attempt, submit, cancelled, started>>
      /\ mishaps' = mishaps \/ mishaps' = mishaps \cup {"uncancelled"}
  BY DEF CancelJob, CancelJobFails
<1>1. WfTypes'
  BY <1>m, <1>j, <1>u DEF WorkflowTypeOK, ActorRec
<1>2. WfSubmit'
  BY <1>j, <1>u DEF WfSubmit, Loop
<1>3. WfEvents'
  BY <1>q, <1>0, <1>j, <1>u DEF WfEvents, EventTrue, Gone, Succeeded
<1>4. WfActors'
  BY <1>q, <1>0, <1>u DEF WfActors, ActorTidy
<1>5. WfCanceller'
  BY <1>q, <1>0, <1>u DEF WfCanceller
<1>6. WfRows'
  BY <1>0, <1>j, <1>u DEF WfRows, RowAgrees, OutOfQueue, Gone, Succeeded
<1>7. WfTruth'
  BY <1>q, <1>0, <1>j, <1>u DEF WfTruth, Told, Gone, Succeeded
<1>8. WfAnchor'
  BY <1>q, <1>0, <1>u DEF WfAnchor, Anchored, AnchoredAt, Clean, Excused
<1>9. WfVerdict'
  BY <1>q, <1>0, <1>j, <1>u DEF WfVerdict, Sure, AllDone, AllClosed, AllTaken, OutOfQueue, Done, Excused
<1> QED
  BY <1>1, <1>2, <1>3, <1>4, <1>5, <1>6, <1>7, <1>8, <1>9

\* A cascade skips a row, whatever it says, or fails to and goes on.  There is an
\* anchor by then, or the run has been cancelled.
LEMMA SkipNodeStep ==
    ASSUME WfInv, NEW e \in Actors, SkipNode(e) \/ SkipNodeFails(e)
    PROVE  WfInv'
<1> USE WorkflowAssumption, EventFacts DEF WfInv, WfTypes
<1>a. PICK n : n = actor[e].now
  OBVIOUS
<1>q. actor[e] \in ActorRec /\ actor[e].at = "skip" /\ n \in Nodes /\ wfNode[n] # "none" /\ n \notin {0}
  BY <1>a DEF WorkflowTypeOK, ActorRec, SkipNode, SkipNodeFails, WfActors, ActorTidy
<1>p. PICK r : r = [actor[e] EXCEPT !.now = 0, !.at = AfterSkip(e, actor[e].todo)]
  OBVIOUS
<1>0. /\ r \in ActorRec /\ actor' = [actor EXCEPT ![e] = r] /\ (r.ok <=> actor[e].ok) /\ r.now = 0
      /\ r.todo = actor[e].todo /\ r.verdict = actor[e].verdict
      /\ r.at \in {"cancel", "write", "check"}
      /\ (r.at = "cancel") <=> (r.todo # {})
      /\ (r.at = "write") => e = Canceller
      /\ (r.at = "check") => e # Canceller
  <2>1. /\ AfterSkip(e, actor[e].todo) \in {"cancel", "write", "check"}
        /\ AfterSkip(e, actor[e].todo) = "cancel" <=> actor[e].todo # {}
        /\ AfterSkip(e, actor[e].todo) = "write" => e = Canceller
        /\ AfterSkip(e, actor[e].todo) = "check" => e # Canceller
    BY DEF AfterSkip
  <2>2. /\ r \in ActorRec /\ r.todo = actor[e].todo /\ r.at = AfterSkip(e, actor[e].todo)
        /\ r.ok = actor[e].ok /\ r.now = 0 /\ r.verdict = actor[e].verdict
    <3>1. PICK at : at = AfterSkip(e, actor[e].todo)
      OBVIOUS
    <3>2. at \in {"idle", "mark", "read", "cancel", "skip", "check", "write"} /\ 0 \in 0..WfCount
      BY <2>1, <3>1
    <3> QED
      BY <3>1, <3>2, <1>p, <1>q DEF ActorRec
  <2> QED
    BY <2>1, <2>2, <1>p DEF SkipNode, SkipNodeFails, Move
<1>m. actor' \in [Actors -> ActorRec] /\ actor'[e] = r /\ \A f \in Actors : f # e => actor'[f] = actor[f]
  BY ZenonT(60), <1>0, ActorMoves
<1>o. /\ wfNode' \in [Nodes -> {"none", "Pending"} \cup NodeEnded] 
      /\ wfNode'[n] = "Skipped" \/ wfNode'[n] = wfNode[n]
      /\ \A m \in Nodes : m # n => wfNode'[m] = wfNode[m]
  BY <1>a, <1>q DEF SkipNode, SkipNodeFails, WorkflowTypeOK, NodeEnded
<1>u. /\ UNCHANGED <<wfPreds, cacheHits, mode, wfRun, wfJob, attempt, submit, cancelled, started>>
      /\ \/ mishaps' = mishaps \/ mishaps' = mishaps \cup {"overwritten"}
         \/ mishaps' = mishaps \cup {"unskipped"}
      /\ wfNode[n] = "Completed" => wfNode'[n] = "Completed" \/ "overwritten" \in mishaps'
  BY <1>a DEF SkipNode, SkipNodeFails
<1>1. WfTypes'
  BY <1>m, <1>o, <1>u DEF WorkflowTypeOK, ActorRec
<1>2. WfSubmit'
  BY <1>q, <1>o, <1>u DEF WfSubmit, Loop
<1>3. WfEvents'
  BY <1>q, <1>0, <1>u DEF WfEvents, EventTrue
<1>4. WfActors'
  BY <1>0, <1>o DEF WfActors, ActorTidy
<1>5. WfCanceller'
  BY <1>q, <1>0, <1>u DEF WfCanceller
<1>6. WfRows'
  BY <1>a, <1>0, <1>o, <1>u DEF WfRows, RowAgrees, OutOfQueue
<1>7. WfTruth'
  BY <1>q, <1>0, <1>o, <1>u DEF WfTruth, Told
<1>8. WfAnchor'
  <2>1. Excused => Excused'
    BY <1>u DEF Excused
  <2>2. Anchored => Anchored'
    BY <1>a, <1>0, <1>o DEF Anchored, AnchoredAt
  <2>3. Clean => Excused
    BY <1>q DEF Clean, WfEvents, EventTrue, WfCanceller, Excused
  <2> QED
    BY <2>1, <2>2, <2>3 DEF WfAnchor
<1>9. WfVerdict'
  <2>1. AllClosed => AllClosed'
    BY <1>o, <1>q, <1>u DEF AllClosed, OutOfQueue
  <2>2. Excused => Excused'
    BY <1>u DEF Excused
  <2>3. Clean => Excused
    BY <1>q DEF Clean, WfEvents, EventTrue, WfCanceller, Excused
  <2>4. AllDone => Excused
    BY <2>3 DEF AllDone, Done, WfAnchor, Anchored, AnchoredAt
  <2>5. e = Canceller => (AllTaken => AllTaken') /\ (r.todo = {} => (AllTaken => AllClosed'))
    BY <1>0, <1>q, <1>o, <1>u DEF AllTaken, AllClosed, OutOfQueue, WfRows, RowAgrees
  <2>6. (actor[Canceller].at \in {"cancel", "skip"} => "partial" \in mishaps \/ AllTaken)'
    <3>1. CASE e = Canceller
      BY <3>1, <2>5, <1>q, <1>u DEF WfVerdict
    <3>2. CASE e # Canceller
      BY <3>2, <1>m, <1>o, <1>u DEF AllTaken, OutOfQueue, WfVerdict
    <3> QED
      BY <3>1, <3>2
  <2>7. r.at = "write" => (AllClosed' \/ "partial" \in mishaps') /\ r.verdict = "Cancelled"
    BY <2>5, <1>q, <1>0, <1>u DEF WfVerdict, WfCanceller
  <2>8. \A g \in Actors : actor'[g].at = "write" =>
               \/ actor[g].at = "write" /\ actor'[g].verdict = actor[g].verdict
               \/ (AllClosed' \/ "partial" \in mishaps') /\ Sure(actor[g].verdict)'
    BY <2>7, <1>m DEF Sure
  <2> QED
    BY <2>1, <2>2, <2>4, <2>6, <2>8, <1>u, VerdictFrame
<1> QED
  BY <1>1, <1>2, <1>3, <1>4, <1>5, <1>6, <1>7, <1>8, <1>9

\* All rows are read once more.  With an anchor the verdict is Failed; without one
\* nothing failed and nothing was skipped.
LEMMA CheckNodesStep ==
    ASSUME WfInv, NEW e \in Actors, CheckNodes(e)
    PROVE  WfInv'
<1> USE WorkflowAssumption, EventFacts DEF WfInv, WfTypes
<1>e. e \in Events /\ actor[e].at = "check" /\ actor[e].todo = {} /\ actor[e].now = 0 /\ actor[e] \in ActorRec
  BY DEF CheckNodes, WfCanceller, WfActors, ActorTidy, WorkflowTypeOK, ActorRec
<1>p. PICK r : r = IF \A n \in Rows : wfNode[n] \in NodeEnded
                   THEN [actor[e] EXCEPT !.at = "write", !.verdict = IF RunFailed(e) THEN "Failed" ELSE "Completed"]
                   ELSE Idle
  OBVIOUS
<1>0. /\ r \in ActorRec /\ actor' = [actor EXCEPT ![e] = r] /\ r.todo = {} /\ r.now = 0
      /\ r.at \in {"idle", "write"}
      /\ r.at = "idle" => r.ok
      /\ r.at = "write" => /\ (r.ok <=> actor[e].ok) /\ \A n \in Rows : wfNode[n] \in NodeEnded
                           /\ r.verdict = "Completed" => ~RunFailed(e)
  BY <1>e, <1>p, IdleFacts DEF CheckNodes, Move, ActorRec, RunEnded
<1>m. actor' \in [Actors -> ActorRec] /\ actor'[e] = r /\ \A f \in Actors : f # e => actor'[f] = actor[f]
  BY <1>0, ActorMoves
<1>u. /\ UNCHANGED <<wfPreds, cacheHits, mode, wfRun, wfNode, wfJob, attempt, submit, cancelled, started>>
      /\ mishaps' = mishaps \/ mishaps' = mishaps \cup {"partial"}
      /\ r.at = "write" => Rows = Nodes \/ "partial" \in mishaps'
  BY <1>p, IdleFacts DEF CheckNodes
<1>1. WfTypes'
  BY <1>m, <1>u DEF WorkflowTypeOK, ActorRec
<1>2. WfSubmit'
  BY <1>u DEF Rows, RunFailed, WfSubmit, Loop
<1>3. WfEvents'
  BY <1>e, <1>0, <1>u DEF Rows, RunFailed, WfEvents, EventTrue
<1>4. WfActors'
  BY <1>0, <1>u DEF Rows, RunFailed, WfActors, ActorTidy
<1>5. WfCanceller'
  BY <1>e, <1>0, <1>u DEF Rows, RunFailed, WfCanceller
<1>6. WfRows'
  BY <1>0, <1>u DEF Rows, RunFailed, WfRows, RowAgrees, OutOfQueue
<1>7. WfTruth'
  BY <1>e, <1>0, <1>u DEF Rows, RunFailed, WfTruth, Told
<1>8. WfAnchor'
  BY <1>e, <1>0, <1>u DEF Rows, RunFailed, WfAnchor, Anchored, AnchoredAt, Clean, Excused
<1>9. WfVerdict'
  <2>1. (AllClosed => AllClosed') /\ (AllDone => AllDone') /\ (Excused => Excused')
    BY <1>u DEF AllClosed, OutOfQueue, AllDone, Done, Excused
  <2>2. r.at = "write" => AllClosed' \/ "partial" \in mishaps'
    <3> SUFFICES ASSUME r.at = "write", Rows = Nodes, NEW n \in Nodes
                 PROVE  wfNode[n] # "none" /\ OutOfQueue(n)'
      BY <1>u DEF AllClosed
    <3>1. wfNode[n] # "none" /\ wfNode[n] \in NodeEnded
      BY <1>0 DEF Rows
    <3>2. OutOfQueue(n)
      BY <3>1 DEF WfRows, RowAgrees
    <3> QED
      BY <3>1, <3>2, <1>u DEF OutOfQueue
  <2>3. r.at = "write" /\ r.verdict = "Completed" => AllDone' \/ Excused' \/ "partial" \in mishaps'
    <3> SUFFICES ASSUME r.at = "write", r.verdict = "Completed", Rows = Nodes, ~Excused
         PROVE AllDone'
      BY <2>1, <1>u
    <3>1. Clean
      BY <1>0 DEF RunFailed, WfAnchor, Anchored, AnchoredAt
    <3> QED
      BY <3>1, <1>0, <1>u DEF AllDone, Done, Clean, NodeEnded
  <2>4. (actor[Canceller].at \in {"cancel", "skip"} => "partial" \in mishaps \/ AllTaken)'
    BY <1>e, <1>m, <1>u DEF AllTaken, OutOfQueue, WfVerdict
  <2>5. \A g \in Actors : actor'[g].at = "write" =>
               \/ actor[g].at = "write" /\ actor'[g].verdict = actor[g].verdict
               \/ (AllClosed' \/ "partial" \in mishaps') /\ Sure(actor[g].verdict)'
    BY <2>2, <2>3, <1>m DEF Sure
  <2> QED
    BY <2>1, <2>4, <2>5, <1>u, VerdictFrame
<1> QED
  BY <1>1, <1>2, <1>3, <1>4, <1>5, <1>6, <1>7, <1>8, <1>9

\* Every step keeps the invariant.
LEMMA WfStep == WfInv /\ [WorkflowNext]_wfVars => WfInv'
<1> SUFFICES ASSUME WfInv, [WorkflowNext]_wfVars PROVE WfInv'
  OBVIOUS
<1>1. CASE SubmitStep
  BY <1>1, SubmitCacheHitStep, SubmitJobStep, SubmitRowStep, SubmitEndsStep DEF SubmitStep
<1>2. CASE SubmitFails \/ CancelRun
  BY <1>2, SubmitFailsStep, CancelRunStep
<1>3. ASSUME NEW n \in Nodes, JobStep(n) \/ JobReaped(n) \/ JobStops(n) \/ JobCancelled(n)
      PROVE  WfInv'
  BY <1>3, JobReapedStep, JobStartsStep, JobReportsStep, JobCompletesStep, JobRetriesStep, JobEndsStep,
    JobCancelledStep
  DEF JobStep
<1>4. ASSUME NEW e \in Actors, \/ ActorStep(e) \/ ActorLost(e) \/ SkipNodeFails(e)
                               \/ \E n \in Nodes : CancelJobFails(e, n)
      PROVE  WfInv'
  BY <1>4, MarkUnbornStep, MarkRowStep, ReadPendingStep, CancelJobStep, SkipNodeStep,
    CheckNodesStep,
     WriteRunStep, ActorLostStep
  DEF ActorStep
<1>5. CASE UNCHANGED wfVars
  <2> USE <1>5 DEF wfVars
  <2>1. WfTypes' /\ WfSubmit' /\ WfEvents' /\ WfActors' /\ WfCanceller'
    BY DEF WfInv, WfTypes, WorkflowTypeOK, WfSubmit, WfEvents, EventTrue, WfActors, ActorTidy,
      WfCanceller
  <2>2. WfRows' /\ WfTruth' /\ WfAnchor'
    BY DEF WfInv, WfRows, RowAgrees, OutOfQueue, WfTruth, Told, WfAnchor, Anchored, AnchoredAt, Clean,
      Excused
  <2>3. WfVerdict'
    BY DEF WfInv, WfVerdict, Sure, AllDone, AllClosed, AllTaken, OutOfQueue, Done, Excused
  <2> QED
    BY <2>1, <2>2, <2>3 DEF WfInv
<1> QED
  BY <1>1, <1>2, <1>3, <1>4, <1>5 DEF WorkflowNext

\* The invariant holds throughout.
LEMMA WfInvariant == WorkflowSpec => []WfInv
BY WfInitOK, WfStep, PTL DEF WorkflowSpec

\* The state stays well typed.
THEOREM WorkflowTypeCorrect == WorkflowSpec => []WorkflowTypeOK
<1>1. WfInv => WorkflowTypeOK
  BY DEF WfInv, WfTypes
<1> QED
  BY <1>1, WfInvariant, PTL

\* A run that says Completed has every node done, for every graph and every order of
\* the handlers' statements (mark_workflow_node_result, cascade_skip_pending_nodes).
THEOREM CompletedMeansDoneAlways == WorkflowSpec => []CompletedMeansDone
<1>1. WfInv => CompletedMeansDone
  BY DEF WfInv, WfVerdict, Sure, AllDone, Excused, CompletedMeansDone
<1> QED
  BY <1>1, WfInvariant, PTL

\* Once everything is quiet, a node whose job completed says so, but for the mishaps
\* NodesTellTheTruth names (mark_workflow_node_result).
THEOREM NodesTellTheTruthAlways == WorkflowSpec => []NodesTellTheTruth
<1>1. WfInv => NodesTellTheTruth
  <2> SUFFICES ASSUME WfInv, Quiet, mishaps \cap {"unborn", "lost", "overwritten"} = {},
                      NEW n \in Nodes, wfJob[n] = "Complete"
               PROVE  wfNode[n] = "Completed"
    BY DEF NodesTellTheTruth
  <2>1. actor[Report(n, attempt[n])].at = "idle"
    BY AttemptFacts DEF Quiet, WfInv
  <2> QED
    BY <2>1 DEF WfInv, WfTruth, Told, Succeeded
<1> QED
  BY <1>1, WfInvariant, PTL

\* No job of a run starts once the run has ended, for every graph and every order of
\* the statements of submit_workflow, the handlers and the canceller.  The run may
\* end with rows that could not be skipped: what counts is that every job has left
\* the queue.  Excused are an aborted submission, a cascade that read the rows before
\* they were all there and a cancel_job that failed (cancel_workflow_run,
\* cascade_skip_pending_nodes).
THEOREM NothingStartsAfterEndAlways == WorkflowSpec => NothingStartsAfterEnd
<1>1. WfInv /\ [WorkflowNext]_wfVars =>
        [(wfRun \in RunEnded /\ submit.at = "done") =>
           (started' = started) \/ mishaps \cap {"aborted", "partial", "uncancelled"} # {}]_wfVars
  <2> SUFFICES ASSUME WfInv, WorkflowNext, wfRun \in RunEnded,
                      mishaps \cap {"aborted", "partial", "uncancelled"} = {}
               PROVE  started' = started
    OBVIOUS
  <2>1. ASSUME NEW n \in Nodes, JobStarts(n) PROVE started' = started
    <3>1. n \in started
      BY <2>1 DEF JobStarts, WfInv, WfVerdict, AllClosed, OutOfQueue
    <3> QED
      BY <3>1, <2>1 DEF JobStarts
  <2>2. ASSUME NEW n \in Nodes, JobStep(n) \/ JobReaped(n) \/ JobStops(n) \/ JobCancelled(n)
        PROVE  started' = started
    BY <2>1, <2>2 DEF JobStep, JobReports, JobCompletes, JobRetries, JobDies, JobReaped, JobStops,
      JobCancelled
  <2>3. ASSUME NEW e \in Actors, \/ ActorStep(e) \/ ActorLost(e) \/ SkipNodeFails(e)
                                 \/ \E n \in Nodes : CancelJobFails(e, n)
        PROVE  started' = started
    BY <2>3 DEF ActorStep, ActorLost, MarkNode, ReadPending, SkipNode, SkipNodeFails, CheckNodes,
      WriteRun, CancelJob, CancelJobFails
  <2>4. SubmitStep \/ SubmitFails \/ CancelRun => started' = started
    BY DEF SubmitStep, SubmitCacheHit, SubmitJob, SubmitRow, SubmitEnds, SubmitFails, CancelRun
  <2> QED
    BY <2>2, <2>3, <2>4 DEF WorkflowNext
<1> QED
  BY <1>1, WfInvariant, PTL DEF WorkflowSpec, NothingStartsAfterEnd

-----------------------------------------------------------------------------
(* FanOut.  The fan-in's job is created by whoever closes the fan-out, from *)
(* children's rows read earlier.  That is sound because a row that is       *)
(* Completed stays so, the rows are inserted all at once, and a child is     *)
(* skipped only after a sibling has failed.                                  *)

\* The record of a handler, and the types of the rest.
HandRec == [at : {"idle", "look", "mark", "expand", "rows", "count", "learn", "kids", "finalize",
                  "fanin", "learnFanIn", "successors", "close"},
            config : BOOLEAN, failed : BOOLEAN]
FoTypes ==
    /\ knownJobs \subseteq Steps
    /\ row \in [Steps -> {"none", "Pending"} \cup Over]
    /\ parent \in {"Pending", "Running"} \cup Over
    /\ job \in [Steps -> {"none", "Pending", "Running", "Complete", "Dead", "Cancelled"}]
    /\ width \in 0..MaxKids /\ made \in Nat
    /\ hand \in [Steps -> HandRec]

\* The fan-out has not been expanded: the source's handler has not inserted the
\* rows of the children.
Expanding == hand[Source].at \in {"expand", "rows"}
Unexpanded == job[Source] \in {"Pending", "Running"} \/ hand[Source].at \in {"look", "mark"}
FoWidth ==
    /\ \A k \in Kids : k > width => job[k] = "none" /\ row[k] = "none"
    /\ Unexpanded => width = 0
    /\ hand[Source].at = "expand" => width < MaxKids
    /\ Unexpanded \/ Expanding => \A k \in Kids : row[k] = "none"
    /\ ~(Unexpanded \/ Expanding) => \A k \in Kids : k <= width => row[k] # "none"

\* Where the handler of s can be.
HandOK(s) ==
    /\ hand[s].at # "idle" => job[s] \in {"Complete", "Dead"}
    /\ hand[s].at \in {"expand", "rows", "count", "learn"} => s = Source
    /\ hand[s].at \in {"kids", "finalize"} => s \in Kids /\ row[s] \in Over
    /\ hand[s].at = "fanin" => s # FanIn
FoHands == \A s \in Steps : HandOK(s)

\* The rows against the jobs; a child is skipped only if a sibling failed.
AnyFailed == \E k \in Kids : row[k] = "Failed"
RowTrue(s) ==
    /\ row[s] = "Completed" => job[s] = "Complete"
    /\ row[s] = "Failed" => job[s] = "Dead"
    /\ s \in Kids /\ row[s] = "Skipped" => AnyFailed
FoRows == \A s \in Steps : RowTrue(s)

\* Who is about to close the fan-out has read rows that still say so, and the fan-in
\* has a job only after that.
AllKids == \A k \in Kids : k <= width => row[k] = "Completed"
Joined == AllKids /\ ~Unexpanded /\ ~Expanding
FoFanIn ==
    /\ \A s \in Steps : hand[s].at = "finalize" => ~Unexpanded /\ ~Expanding
    /\ \A s \in Steps : hand[s].at = "finalize" /\ ~hand[s].failed => AllKids
    /\ \A s \in Steps : hand[s].at = "fanin" => Joined
    /\ job[FanIn] # "none" => Joined
    /\ \A k \in Kids : job[k] = "Cancelled" => "cascaded" \in slips

\* The fan-out is closed once, unless it is opened again.
Once ==
    /\ \A s, t \in Steps : hand[s].at = "fanin" /\ hand[t].at = "fanin" => s = t
    /\ \A s \in Steps : hand[s].at = "fanin" => made = 0 /\ parent \in Over
    /\ made <= 1 /\ (made = 1 => parent \in Over)
FoOnce ==
    /\ "reopened" \in slips \/ Once
    /\ job[FanIn] = "none" => made = 0

\* The inductive invariant of FanOut.
FoInv == FoTypes /\ FoWidth /\ FoHands /\ FoRows /\ FoFanIn /\ FoOnce

-----------------------------------------------------------------------------
\* The source, the children and the fan-in are the steps, and are told apart.
LEMMA StepSets ==
    /\ Source \in Steps /\ FanIn \in Steps /\ Source # FanIn /\ Source \notin Kids /\ FanIn \notin Kids
    /\ \A k \in Kids : k \in Steps /\ k \in Nat /\ 1 <= k /\ k <= MaxKids
    /\ \A s \in Steps : s \in Kids \/ s = Source \/ s = FanIn
    /\ \A w \in 0..MaxKids : \A k : k \in 1..w <=> k \in Kids /\ k <= w
    /\ MaxKids \in Nat /\ MaxKids > 0
BY FanOutAssumption DEF Source, FanIn, Steps, Kids

\* The handler of s is now at the given statement, and the others have not moved.
Moved(s, at) ==
    /\ hand' \in [Steps -> HandRec] /\ hand'[s].at = at
    /\ \A t \in Steps : t # s => hand'[t] = hand[t]

\* A handler goes to another statement.
LEMMA GotoMoves ==
    ASSUME FoTypes, NEW s \in Steps, NEW at, Goto(s, at),
           at \in {"idle", "look", "mark", "expand", "rows", "count", "learn", "kids", "finalize",
                   "fanin", "learnFanIn", "successors", "close"}
    PROVE  Moved(s, at)
<1>1. PICK r : r = [hand[s] EXCEPT !.at = at]
  OBVIOUS
<1>2. r \in HandRec /\ r.at = at
  BY <1>1 DEF FoTypes, HandRec
<1>3. hand' = [hand EXCEPT ![s] = r]
  BY <1>1 DEF Goto
<1> QED
  BY <1>2, <1>3 DEF Moved, FoTypes

\* A handler ends.
LEMMA FinishMoves ==
    ASSUME FoTypes, NEW s \in Steps, Finish(s)
    PROVE  Moved(s, "idle")
<1>1. NoHand \in HandRec /\ NoHand.at = "idle"
  BY DEF NoHand, HandRec
<1> QED
  BY <1>1 DEF Finish, Moved, FoTypes

\* The initial states satisfy the invariant.
LEMMA FoInitOK == FanOutInit => FoInv
<1> SUFFICES ASSUME FanOutInit PROVE FoInv
  OBVIOUS
<1> USE StepSets
<1>1. NoHand \in HandRec /\ NoHand.at = "idle"
  BY DEF NoHand, HandRec
<1>2. FoTypes
  BY <1>1 DEF FanOutInit, FoTypes
<1>3. \A s \in Steps : hand[s].at = "idle"
  BY <1>1 DEF FanOutInit
<1>4. FoWidth
  BY <1>3 DEF FanOutInit, FoWidth, Unexpanded, Expanding
<1>5. FoHands /\ FoRows
  BY <1>3 DEF FanOutInit, FoHands, HandOK, FoRows, RowTrue
<1>6. FoFanIn /\ FoOnce
  BY <1>3 DEF FanOutInit, FoFanIn, FoOnce, Once
<1> QED
  BY <1>2, <1>4, <1>5, <1>6 DEF FoInv

\* register_run touches neither rows nor jobs.
LEMMA RegisterStep ==
    ASSUME FoInv, RegisterConfig \/ RegisterJobs
    PROVE  FoInv'
<1> USE StepSets DEF FoInv
<1>1. FoTypes'
  BY DEF RegisterConfig, RegisterJobs, FoTypes
<1>2. FoWidth'
  BY DEF RegisterConfig, RegisterJobs, FoWidth, Unexpanded, Expanding, Over, FoTypes
<1>3. FoHands'
  BY DEF RegisterConfig, RegisterJobs, FoHands, HandOK
<1>4. FoRows'
  BY DEF RegisterConfig, RegisterJobs, FoRows, RowTrue, AnyFailed
<1>5. FoFanIn'
  BY DEF RegisterConfig, RegisterJobs, FoFanIn, Joined, AllKids, Unexpanded, Expanding
<1>6. FoOnce'
  BY DEF RegisterConfig, RegisterJobs, FoOnce, Once
<1> QED
  BY <1>1, <1>2, <1>3, <1>4, <1>5, <1>6

\* A job starts.
LEMMA StepStartsStep ==
    ASSUME FoInv, NEW s \in Steps, StepStarts(s)
    PROVE  FoInv'
<1> USE StepSets DEF FoInv
<1>1. FoTypes'
  BY DEF StepStarts, FoTypes
<1>2. FoWidth'
  BY DEF StepStarts, FoWidth, Unexpanded, Expanding
<1>3. FoHands'
  BY DEF StepStarts, FoHands, HandOK
<1>4. FoRows'
  BY DEF StepStarts, FoRows, RowTrue, AnyFailed
<1>5. FoFanIn'
  BY DEF StepStarts, FoFanIn, Joined, AllKids, Unexpanded, Expanding
<1>6. FoOnce'
  BY DEF StepStarts, FoOnce, Once
<1> QED
  BY <1>1, <1>2, <1>3, <1>4, <1>5, <1>6

\* A job ends, and its event is handed to the tracker.
LEMMA StepEndsStep ==
    ASSUME FoInv, NEW s \in Steps, StepEnds(s)
    PROVE  FoInv'
<1> USE StepSets DEF FoInv
<1>m. Moved(s, "look")
  BY GotoMoves DEF StepEnds
<1>1. FoTypes'
  <2>1. job' \in [Steps -> {"none", "Pending", "Running", "Complete", "Dead", "Cancelled"}]
    BY DEF StepEnds, FoTypes
  <2> QED
    BY <2>1, <1>m DEF StepEnds, Moved, FoTypes
<1>2. FoWidth'
  BY <1>m DEF StepEnds, Moved, FoWidth, Unexpanded, Expanding
<1>3. FoHands'
  BY <1>m DEF StepEnds, Moved, FoHands, HandOK, FoTypes
<1>4. FoRows'
  BY DEF StepEnds, FoRows, RowTrue, AnyFailed
<1>5. FoFanIn'
  BY <1>m DEF StepEnds, Moved, FoFanIn, Joined, AllKids, Unexpanded, Expanding
<1>6. FoOnce'
  BY <1>m DEF StepEnds, Moved, FoOnce, Once
<1> QED
  BY <1>1, <1>2, <1>3, <1>4, <1>5, <1>6

\* The reaper ends a job, and no handler begins.
LEMMA StepReapedStep ==
    ASSUME FoInv, NEW s \in Steps, StepReaped(s)
    PROVE  FoInv'
<1> USE StepSets DEF FoInv
<1>1. FoTypes'
  BY DEF StepReaped, FoTypes
<1>2. FoWidth'
  BY DEF StepReaped, FoWidth, Unexpanded, Expanding, FoTypes
<1>3. FoHands'
  BY DEF StepReaped, FoHands, HandOK
<1>4. FoRows'
  BY DEF StepReaped, FoRows, RowTrue, AnyFailed
<1>5. FoFanIn'
  BY DEF StepReaped, Slip, FoFanIn, Joined, AllKids, Unexpanded, Expanding
<1>6. FoOnce'
  BY DEF StepReaped, Slip, FoOnce, Once
<1> QED
  BY <1>1, <1>2, <1>3, <1>4, <1>5, <1>6

\* The tracker looks the job up.
LEMMA LookUpStep ==
    ASSUME FoInv, NEW s \in Steps, LookUp(s)
    PROVE  FoInv'
<1> USE StepSets DEF FoInv
<1>r. PICK r : r = [NoHand EXCEPT !.at = "mark", !.config = s \in knownJobs /\ registered = "yes"]
  OBVIOUS
<1>q. r \in HandRec /\ r.at = "mark"
  BY <1>r DEF NoHand, HandRec
<1>h. hand' = [hand EXCEPT ![s] = r]
  BY <1>r DEF LookUp
<1>m. Moved(s, "mark")
  BY <1>q, <1>h DEF Moved, FoTypes
<1>1. FoTypes'
  BY <1>m DEF LookUp, Moved, FoTypes
<1>2. FoWidth'
  BY DEF LookUp, FoWidth, Unexpanded, Expanding
<1>3. FoHands'
  BY DEF LookUp, FoHands, HandOK
<1>4. FoRows'
  BY DEF LookUp, FoRows, RowTrue, AnyFailed
<1>5. FoFanIn'
  BY DEF LookUp, FoFanIn, Joined, AllKids, Unexpanded, Expanding
<1>6. FoOnce'
  BY DEF LookUp, FoOnce, Once
<1> QED
  BY <1>1, <1>2, <1>3, <1>4, <1>5, <1>6

\* The event of a child comes before its row is there.
LEMMA MarkMissingStep ==
    ASSUME FoInv, NEW s \in Steps, MarkMissing(s)
    PROVE  FoInv'
<1> USE StepSets DEF FoInv
<1>m. Moved(s, "idle")
  BY FinishMoves DEF MarkMissing
<1>1. FoTypes'
  BY <1>m DEF MarkMissing, Moved, FoTypes
<1>2. FoWidth'
  BY <1>m DEF MarkMissing, Moved, FoWidth, Unexpanded, Expanding
<1>3. FoHands'
  BY <1>m DEF MarkMissing, Moved, FoHands, HandOK
<1>4. FoRows'
  BY DEF MarkMissing, FoRows, RowTrue, AnyFailed
<1>5. FoFanIn'
  BY <1>m DEF MarkMissing, Moved, Slip, FoFanIn, Joined, AllKids, Unexpanded, Expanding
<1>6. FoOnce'
  BY <1>m DEF MarkMissing, Moved, Slip, FoOnce, Once
<1> QED
  BY <1>1, <1>2, <1>3, <1>4, <1>5, <1>6

\* No items: the fan-in is next, and nobody has asked for it before.
LEMMA ExpandNoneStep ==
    ASSUME FoInv, ExpandNone
    PROVE  FoInv'
<1> USE StepSets DEF FoInv
<1>m. Moved(Source, "fanin")
  BY GotoMoves DEF ExpandNone
<1>1. FoTypes'
  BY <1>m DEF ExpandNone, Moved, FoTypes, Over
<1>2. FoWidth'
  BY DEF ExpandNone, FoWidth, Unexpanded, Expanding
<1>3. FoHands'
  BY <1>m DEF ExpandNone, Moved, FoHands, HandOK
<1>4. FoRows'
  BY DEF ExpandNone, FoRows, RowTrue, AnyFailed
<1>5. FoFanIn'
  BY <1>m DEF ExpandNone, Moved, FoFanIn, Joined, AllKids, Unexpanded, Expanding, FoHands,
    HandOK
<1>6. FoOnce'
  BY <1>m DEF ExpandNone, Moved, FoOnce, Once, Over, FoFanIn, Joined, Expanding
<1> QED
  BY <1>1, <1>2, <1>3, <1>4, <1>5, <1>6

\* A child gets its job; it has no row yet.
LEMMA EnqueueKidStep ==
    ASSUME FoInv, EnqueueKid
    PROVE  FoInv'
<1> USE StepSets DEF FoInv
<1>m. \/ Moved(Source, "rows")
      \/ width + 1 < MaxKids /\ Moved(Source, "expand")
  BY GotoMoves DEF EnqueueKid
<1>w. width' = width + 1 /\ width \in Nat /\ width < MaxKids /\ width + 1 \in Kids /\ width' \in 0..MaxKids
  BY DEF EnqueueKid, FoTypes, FoWidth, Kids
<1>j. /\ job' \in [Steps -> {"none", "Pending", "Running", "Complete", "Dead", "Cancelled"}]
      /\ job'[width + 1] = "Pending" /\ \A t \in Steps : t # width + 1 => job'[t] = job[t]
      /\ job[width + 1] = "none" /\ \A k \in Kids : row[k] = "none"
      /\ job[Source] \notin {"Pending", "Running"}
  BY DEF EnqueueKid, FoTypes, FoWidth, Expanding, FoHands, HandOK
<1>u. hand[Source].at = "expand" /\ UNCHANGED <<registered, knownJobs, foRun, row, parent, made, slips>>
  BY DEF EnqueueKid
<1>1. FoTypes'
  BY <1>m, <1>w, <1>j, <1>u DEF Moved, FoTypes
<1>2. FoWidth'
  BY <1>m, <1>w, <1>j, <1>u DEF Moved, FoWidth, Unexpanded, Expanding
<1>3. FoHands'
  BY <1>m, <1>j, <1>u DEF Moved, FoHands, HandOK
<1>4. FoRows'
  BY <1>j, <1>u DEF FoRows, RowTrue, AnyFailed
<1>5. FoFanIn'
  BY <1>m, <1>w, <1>j, <1>u DEF Moved, FoFanIn, Joined, AllKids, Unexpanded, Expanding
<1>6. FoOnce'
  BY <1>m, <1>j, <1>u DEF Moved, FoOnce, Once
<1> QED
  BY <1>1, <1>2, <1>3, <1>4, <1>5, <1>6

\* The rows of all children are inserted at once.
LEMMA InsertRowsStep ==
    ASSUME FoInv, InsertRows
    PROVE  FoInv'
<1> USE StepSets DEF FoInv
<1>m. Moved(Source, "count")
  BY GotoMoves DEF InsertRows
<1>1. FoTypes'
  BY <1>m DEF InsertRows, Moved, FoTypes
<1>2. FoWidth'
  BY <1>m DEF InsertRows, Moved, FoWidth, Unexpanded, Expanding, FoTypes
<1>3. FoHands'
  BY <1>m DEF InsertRows, Moved, FoHands, HandOK, Over, FoWidth, Expanding
<1>4. FoRows'
  BY DEF InsertRows, FoRows, RowTrue, AnyFailed, FoWidth, Expanding
<1>5. FoFanIn'
  BY <1>m DEF InsertRows, Moved, FoFanIn, Joined, AllKids, Unexpanded, Expanding
<1>6. FoOnce'
  BY <1>m DEF InsertRows, Moved, FoOnce, Once
<1> QED
  BY <1>1, <1>2, <1>3, <1>4, <1>5, <1>6

\* The fan-out is Running again, which is a slip if it was over.
LEMMA CountStep ==
    ASSUME FoInv, set_workflow_node_fan_out_count
    PROVE  FoInv'
<1> USE StepSets DEF FoInv
<1>m. Moved(Source, "learn")
  BY GotoMoves DEF set_workflow_node_fan_out_count
<1>1. FoTypes'
  BY <1>m DEF set_workflow_node_fan_out_count, Moved, FoTypes
<1>2. FoWidth'
  BY <1>m DEF set_workflow_node_fan_out_count, Moved, FoWidth, Unexpanded, Expanding
<1>3. FoHands'
  BY <1>m DEF set_workflow_node_fan_out_count, Moved, FoHands, HandOK
<1>4. FoRows'
  BY DEF set_workflow_node_fan_out_count, FoRows, RowTrue, AnyFailed
<1>5. FoFanIn'
  BY <1>m DEF set_workflow_node_fan_out_count, Slip, Moved, FoFanIn, Joined, AllKids,
    Unexpanded, Expanding
<1>6. FoOnce'
  BY <1>m DEF set_workflow_node_fan_out_count, Slip, Moved, FoOnce, Once
<1> QED
  BY <1>1, <1>2, <1>3, <1>4, <1>5, <1>6

\* The tracker learns of the children.
LEMMA LearnKidsStep ==
    ASSUME FoInv, LearnKids
    PROVE  FoInv'
<1> USE StepSets DEF FoInv
<1>m. Moved(Source, "successors")
  BY GotoMoves DEF LearnKids
<1>1. FoTypes'
  BY <1>m DEF LearnKids, Moved, FoTypes
<1>2. FoWidth'
  BY <1>m DEF LearnKids, Moved, FoWidth, Unexpanded, Expanding
<1>3. FoHands'
  BY <1>m DEF LearnKids, Moved, FoHands, HandOK
<1>4. FoRows'
  BY DEF LearnKids, FoRows, RowTrue, AnyFailed
<1>5. FoFanIn'
  BY <1>m DEF LearnKids, Moved, FoFanIn, Joined, AllKids, Unexpanded, Expanding, Over, FoTypes
<1>6. FoOnce'
  BY <1>m DEF LearnKids, Moved, FoOnce, Once
<1> QED
  BY <1>1, <1>2, <1>3, <1>4, <1>5, <1>6

\* A child's handler reads the rows of the children, which are all there: when all
\* are over and none failed, none was skipped either.
LEMMA ReadKidsStep ==
    ASSUME FoInv, NEW s \in Steps, ReadKids(s)
    PROVE  FoInv'
<1> USE StepSets DEF FoInv
<1>m. \/ Moved(s, "idle")
      \/ /\ Moved(s, "finalize") /\ \A k \in KidRows : row[k] \in Over
         /\ hand'[s].failed <=> \E k \in KidRows : row[k] = "Failed"
  <2>1. PICK r : r = [hand[s] EXCEPT !.at = "finalize", !.failed = \E k \in KidRows : row[k] = "Failed"]
    OBVIOUS
  <2>2. r \in HandRec /\ r.at = "finalize" /\ (r.failed <=> \E k \in KidRows : row[k] = "Failed")
    BY <2>1 DEF FoTypes, HandRec
  <2>3. CASE \A k \in KidRows : row[k] \in Over
    <3>1. hand' = [hand EXCEPT ![s] = r]
      BY <2>1, <2>3 DEF ReadKids
    <3> QED
      BY <3>1, <2>2, <2>3 DEF Moved, FoTypes
  <2>4. CASE ~\A k \in KidRows : row[k] \in Over
    BY <2>4, FinishMoves DEF ReadKids
  <2> QED
    BY <2>3, <2>4
<1>1. FoTypes'
  BY <1>m DEF ReadKids, Moved, FoTypes
<1>2. FoWidth'
  BY <1>m DEF ReadKids, Moved, FoWidth, Unexpanded, Expanding
<1>3. FoHands'
  BY <1>m DEF ReadKids, Moved, FoHands, HandOK
<1>4. FoRows'
  BY DEF ReadKids, FoRows, RowTrue, AnyFailed
<1>5. FoFanIn'
  BY <1>m DEF ReadKids, Moved, FoFanIn, Joined, AllKids, Unexpanded, Expanding, Over, KidRows,
    FoWidth, FoHands, HandOK, FoRows, RowTrue, AnyFailed
<1>6. FoOnce'
  BY <1>m DEF ReadKids, Moved, FoOnce, Once
<1> QED
  BY <1>1, <1>2, <1>3, <1>4, <1>5, <1>6

\* The fan-out is closed by one handler; the others find it over.
LEMMA FinalizeStep ==
    ASSUME FoInv, NEW s \in Steps, finalize_fan_out_parent(s)
    PROVE  FoInv'
<1> USE StepSets DEF FoInv
<1>m. \/ Moved(s, "idle")
      \/ parent \notin Over /\ Moved(s, "successors")
      \/ parent \notin Over /\ ~hand[s].failed /\ Moved(s, "fanin")
  BY GotoMoves, FinishMoves DEF finalize_fan_out_parent, StillOpen
<1>1. FoTypes'
  BY <1>m DEF finalize_fan_out_parent, StillOpen, Moved, FoTypes, Over
<1>2. FoWidth'
  BY <1>m DEF finalize_fan_out_parent, StillOpen, Moved, FoWidth, Unexpanded, Expanding
<1>3. FoHands'
  BY <1>m DEF finalize_fan_out_parent, StillOpen, Moved, FoHands, HandOK
<1>4. FoRows'
  BY DEF finalize_fan_out_parent, StillOpen, FoRows, RowTrue, AnyFailed
<1>5. FoFanIn'
  BY <1>m DEF finalize_fan_out_parent, StillOpen, Moved, FoFanIn, Joined, AllKids, Unexpanded,
    Expanding
<1>6. FoOnce'
  BY <1>m DEF finalize_fan_out_parent, StillOpen, Moved, FoOnce, Once, Over, FoTypes
<1> QED
  BY <1>1, <1>2, <1>3, <1>4, <1>5, <1>6

\* The handler that closed the fan-out creates the fan-in's job.
LEMMA CreateFanInStep ==
    ASSUME FoInv, NEW s \in Steps, CreateFanIn(s)
    PROVE  FoInv'
<1> USE StepSets DEF FoInv
<1>m. Moved(s, "learnFanIn")
  BY GotoMoves DEF CreateFanIn
<1>1. FoTypes'
  BY <1>m DEF CreateFanIn, Moved, FoTypes
<1>2. FoWidth'
  BY <1>m DEF CreateFanIn, Moved, FoWidth, Unexpanded, Expanding
<1>3. FoHands'
  BY <1>m DEF CreateFanIn, Moved, FoHands, HandOK
<1>4. FoRows'
  BY DEF CreateFanIn, FoRows, RowTrue, AnyFailed
<1>5. FoFanIn'
  BY <1>m DEF CreateFanIn, Moved, FoFanIn, Joined, AllKids, Unexpanded, Expanding
<1>6. FoOnce'
  BY <1>m DEF CreateFanIn, Moved, FoOnce, Once, FoTypes
<1> QED
  BY <1>1, <1>2, <1>3, <1>4, <1>5, <1>6

\* The tracker learns of the fan-in.
LEMMA LearnFanInStep ==
    ASSUME FoInv, NEW s \in Steps, LearnFanIn(s)
    PROVE  FoInv'
<1> USE StepSets DEF FoInv
<1>m. Moved(s, "successors")
  BY GotoMoves DEF LearnFanIn
<1>1. FoTypes'
  BY <1>m DEF LearnFanIn, Moved, FoTypes
<1>2. FoWidth'
  BY <1>m DEF LearnFanIn, Moved, FoWidth, Unexpanded, Expanding
<1>3. FoHands'
  BY <1>m DEF LearnFanIn, Moved, FoHands, HandOK
<1>4. FoRows'
  BY DEF LearnFanIn, FoRows, RowTrue, AnyFailed
<1>5. FoFanIn'
  BY <1>m DEF LearnFanIn, Moved, FoFanIn, Joined, AllKids, Unexpanded, Expanding
<1>6. FoOnce'
  BY <1>m DEF LearnFanIn, Moved, FoOnce, Once
<1> QED
  BY <1>1, <1>2, <1>3, <1>4, <1>5, <1>6

\* The successors that can no longer run are skipped: never a child.
LEMMA EvaluateStep ==
    ASSUME FoInv, NEW s \in Steps, EvaluateSuccessors(s)
    PROVE  FoInv'
<1> USE StepSets DEF FoInv
<1>m. Moved(s, "close")
  BY GotoMoves DEF EvaluateSuccessors
<1>1. FoTypes'
  BY <1>m DEF EvaluateSuccessors, Moved, FoTypes, Over
<1>2. FoWidth'
  BY <1>m DEF EvaluateSuccessors, Moved, FoWidth, Unexpanded, Expanding
<1>3. FoHands'
  BY <1>m DEF EvaluateSuccessors, Moved, FoHands, HandOK
<1>4. FoRows'
  BY DEF EvaluateSuccessors, FoRows, RowTrue, AnyFailed
<1>5. FoFanIn'
  BY <1>m DEF EvaluateSuccessors, Moved, FoFanIn, Joined, AllKids, Unexpanded, Expanding
<1>6. FoOnce'
  BY <1>m DEF EvaluateSuccessors, Moved, FoOnce, Once, Over
<1> QED
  BY <1>1, <1>2, <1>3, <1>4, <1>5, <1>6

\* The run ends if everything is over.
LEMMA TryFinalizeStep ==
    ASSUME FoInv, NEW s \in Steps, TryFinalize(s)
    PROVE  FoInv'
<1> USE StepSets DEF FoInv
<1>m. Moved(s, "idle")
  BY FinishMoves DEF TryFinalize
<1>1. FoTypes'
  BY <1>m DEF TryFinalize, Moved, FoTypes
<1>2. FoWidth'
  BY <1>m DEF TryFinalize, Moved, FoWidth, Unexpanded, Expanding
<1>3. FoHands'
  BY <1>m DEF TryFinalize, Moved, FoHands, HandOK
<1>4. FoRows'
  BY DEF TryFinalize, FoRows, RowTrue, AnyFailed
<1>5. FoFanIn'
  BY <1>m DEF TryFinalize, Moved, FoFanIn, Joined, AllKids, Unexpanded, Expanding
<1>6. FoOnce'
  BY <1>m DEF TryFinalize, Moved, FoOnce, Once
<1> QED
  BY <1>1, <1>2, <1>3, <1>4, <1>5, <1>6

\* A step is marked.  If the core cascades over children, the step is a child that
\* failed: before the expansion the source finds no rows to skip, and after the
\* fan-in has been created all children have completed.
LEMMA MarkStepStep ==
    ASSUME FoInv, NEW s \in Steps, MarkStep(s)
    PROVE  FoInv'
<1> USE StepSets DEF FoInv
<1>a. hand[s].at = "mark" /\ job[s] \in {"Complete", "Dead"} /\ row[s] # "none"
  BY DEF MarkStep, FoHands, HandOK
<1>b. s \notin Kids => \A k \in Kids : row[k] # "Pending"
  <2>1. s = Source => \A k \in Kids : row[k] = "none"
    BY <1>a DEF FoWidth, Unexpanded
  <2>2. s = FanIn => \A k \in Kids : row[k] \in {"none", "Completed"}
    BY <1>a DEF FoFanIn, Joined, AllKids, FoWidth, FoTypes
  <2> QED
    BY <2>1, <2>2
<1>m. \/ Moved(s, "idle") \/ Moved(s, "successors")
      \/ s \in Kids /\ Moved(s, "kids")
      \/ s = Source /\ Moved(s, "expand")
  <2>1. PICK r : r = [hand[s] EXCEPT !.at = Continue(s), !.config = TRUE]
    OBVIOUS
  <2>2. /\ Continue(s) \in {"kids", "expand", "successors"}
        /\ Continue(s) = "kids" => s \in Kids
        /\ Continue(s) = "expand" => s = Source
    BY DEF Continue
  <2>3. r \in HandRec /\ r.at = Continue(s)
    <3>1. PICK at : at = Continue(s)
      OBVIOUS
    <3>2. at \in {"kids", "expand", "successors"}
      BY <2>2, <3>1
    <3> QED
      BY <2>1, <3>1, <3>2 DEF FoTypes, HandRec
  <2>4. Finish(s) \/ hand' = [hand EXCEPT ![s] = r]
    BY <2>1 DEF MarkStep
  <2>5. hand' = [hand EXCEPT ![s] = r] => Moved(s, Continue(s))
    BY <2>3 DEF Moved, FoTypes
  <2> QED
    BY <2>2, <2>4, <2>5, FinishMoves
<1>r. /\ row' \in [Steps -> {"none", "Pending"} \cup Over]
      /\ job[s] = "Complete" => row'[s] = "Completed"
      /\ job[s] = "Dead" => row'[s] = "Failed"
      /\ \A t \in Steps : t # s => \/ row'[t] = row[t]
                                   \/ /\ row[t] = "Pending" /\ row'[t] = "Skipped"
                                      /\ t \in Kids => s \in Kids /\ job[s] = "Dead"
  BY <1>b DEF MarkStep, Marked, Cascades, FoTypes, Over
<1>j. /\ job' \in [Steps -> {"none", "Pending", "Running", "Complete", "Dead", "Cancelled"}] /\ job'[s] = job[s]
      /\ \A t \in Steps : t # s => \/ job'[t] = job[t]
                                   \/ /\ job[t] = "Pending" /\ job'[t] = "Cancelled" /\ row[t] = "Pending"
                                      /\ Cascades(s)
  BY DEF MarkStep, FoTypes
<1>c. /\ parent' = parent \/ (parent = "Pending" /\ parent' = "Skipped")
      /\ slips \subseteq slips' /\ UNCHANGED <<knownJobs, width, made>>
      /\ Cascades(s) /\ s \in Kids => "cascaded" \in slips'
  BY DEF MarkStep, Cascades
<1>1. FoTypes'
  BY <1>m, <1>r, <1>j, <1>c DEF Moved, FoTypes, Over
<1>2. FoWidth'
  BY <1>a, <1>m, <1>r, <1>j, <1>c DEF Moved, FoWidth, Unexpanded, Expanding
<1>3. FoHands'
  BY <1>a, <1>m, <1>r, <1>j DEF Moved, FoHands, HandOK
<1>4. FoRows'
  BY <1>a, <1>r, <1>j DEF FoRows, RowTrue, AnyFailed
<1>5. FoFanIn'
  <2>1. ~Unexpanded /\ ~Expanding => s # Source /\ (~Unexpanded /\ ~Expanding)'
    BY <1>a, <1>m, <1>j DEF Moved, Unexpanded, Expanding
  <2>2. AllKids => AllKids'
    BY <1>r, <1>c DEF AllKids, FoRows, RowTrue
  <2>3. Joined => Joined'
    BY <2>1, <2>2 DEF Joined
  <2>4. \A t \in Steps : hand'[t].at \in {"finalize", "fanin"} => hand'[t] = hand[t]
    BY <1>m DEF Moved
  <2>5. job'[FanIn] # "none" => job[FanIn] # "none"
    BY <1>j
  <2>6. \A k \in Kids : job'[k] = "Cancelled" => "cascaded" \in slips'
    BY <1>b, <1>j, <1>c DEF FoFanIn
  <2> QED
    BY <2>1, <2>2, <2>3, <2>4, <2>5, <2>6 DEF FoFanIn
<1>6. FoOnce'
  BY <1>m, <1>j, <1>c DEF Moved, FoOnce, Once, Over
<1> QED
  BY <1>1, <1>2, <1>3, <1>4, <1>5, <1>6

\* Every step keeps the invariant.
LEMMA FoStep == FoInv /\ [FanOutNext]_foVars => FoInv'
<1> SUFFICES ASSUME FoInv, [FanOutNext]_foVars PROVE FoInv'
  OBVIOUS
<1>1. CASE RegisterConfig \/ RegisterJobs
  BY <1>1, RegisterStep
<1>2. ASSUME NEW s \in Steps, StepStarts(s) \/ StepEnds(s) \/ StepReaped(s) \/ Handle(s)
      PROVE  FoInv'
  BY <1>2, StepStartsStep, StepEndsStep, StepReapedStep, LookUpStep, MarkMissingStep, MarkStepStep,
    ReadKidsStep, FinalizeStep,
     CreateFanInStep, LearnFanInStep, EvaluateStep, TryFinalizeStep
  DEF Handle
<1>3. CASE ExpandNone \/ EnqueueKid \/ InsertRows \/ set_workflow_node_fan_out_count \/ LearnKids
  BY <1>3, ExpandNoneStep, EnqueueKidStep, InsertRowsStep, CountStep, LearnKidsStep
<1>4. CASE UNCHANGED foVars
  <2> USE <1>4 DEF foVars
  <2>1. FoTypes' /\ FoWidth' /\ FoHands'
    BY DEF FoInv, FoTypes, FoWidth, Unexpanded, Expanding, FoHands, HandOK
  <2>2. FoRows' /\ FoFanIn' /\ FoOnce'
    BY DEF FoInv, FoRows, RowTrue, AnyFailed, FoFanIn, Joined, AllKids, Unexpanded, Expanding,
      FoOnce, Once
  <2> QED
    BY <2>1, <2>2 DEF FoInv
<1> QED
  BY <1>1, <1>2, <1>3, <1>4 DEF FanOutNext

\* For any number of children: the fan-in is created once, after all of them have
\* completed, and none is cancelled by a sibling's failure, but for the two slips
\* FanInAwaitsAll names (check_fan_out_completion, expand_fan_out).
THEOREM FanInAwaitsAllAlways == FanOutSpec => []FanInAwaitsAll
<1>1. FoInv => FanInAwaitsAll
  <2> SUFFICES ASSUME FoInv PROVE FanInAwaitsAll
    OBVIOUS
  <2>1. made > 1 => "reopened" \in slips
    BY DEF FoInv, FoTypes, FoOnce, Once
  <2>2. job[FanIn] # "none" => \A k \in 1..width : job[k] = "Complete"
    BY StepSets DEF FoInv, FoTypes, FoFanIn, Joined, AllKids, FoRows, RowTrue
  <2> QED
    BY <2>1, <2>2 DEF FoInv, FoFanIn, FanInAwaitsAll
<1> QED
  BY <1>1, FoInitOK, FoStep, PTL DEF FanOutSpec
=============================================================================
