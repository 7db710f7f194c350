-------------------------- MODULE TriggerScheduler --------------------------
(***************************************************************************)
(* The trigger scheduler of the Electron main process                      *)
(* (apps/desktop/src/main/workflow-trigger-scheduler.ts) over the workflow *)
(* engine of the data core.  A tick claims the due triggers and then, for  *)
(* each event of the claim's answer, asks for the run under the event's    *)
(* operation id, waits for the answer, and reports what it heard.  While   *)
(* it waits the person goes on working, the request may time out, and the  *)
(* application may stop.  The queue lives in memory only.                  *)
(***************************************************************************)
EXTENDS WorkflowEngine

CONSTANTS
    PageLimit,    \* events in one answer of workflow.triggers.claim
    MaxCrashes    \* bound on the times the application stops

ASSUME SchedulerAssumption == PageLimit \in Nat \ {0} /\ MaxCrashes \in Nat

VARIABLES
    sched,       \* the tick in progress
    crashes

schedVars == <<vars, sched, crashes>>

NoTick == [pc |-> "idle", queue |-> <<>>, status |-> "none"]
Head1  == Head(sched.queue)

SchedulerTypeOK ==
    /\ TypeOK
    /\ sched \in [pc : {"idle", "loop", "await", "finish"}, queue : Seq(EventIds),
                  status : {"none"} \cup TerminalStatus]
    /\ sched.pc # "idle" => sched.queue # <<>>
    /\ crashes \in 0..MaxCrashes

SchedulerInit == Init /\ sched = NoTick /\ crashes = 0

\* The loop over the events goes on with the queue q, or the tick is over.
ContinueWith(q) == sched' = IF q = <<>> THEN NoTick ELSE [NoTick EXCEPT !.pc = "loop", !.queue = q]

\* listPendingWorkflowTriggers, on the tables the claim has committed: the oldest
\* PageLimit pending events of live workflows, oldest first.
IsListing(q) ==
    LET pending == {e \in EventIds : /\ events'[e].status = "pending"
                                     /\ defs'[events'[e].workflow].status = "active"}
        listed  == {q[i] : i \in DOMAIN q} IN
    /\ listed \subseteq pending
    /\ Cardinality(listed) = Len(q)
    /\ pending = listed \/ Len(q) = PageLimit
    /\ \A i, j \in DOMAIN q : i < j => events'[q[i]].due <= events'[q[j]].due
    /\ \A e \in listed, f \in pending \ listed : events'[e].due <= events'[f].due

\* The tick starts; one that is still running is never overlapped by another.
Claim ==
    /\ sched.pc = "idle"
    /\ ClaimDue
    /\ \E n \in 0..Cardinality(EventIds) : \E q \in [1..n -> EventIds] :
          n <= PageLimit /\ IsListing(q) /\ ContinueWith(q)
    /\ UNCHANGED crashes

\* runtime.runWorkflow(event.workflowId, event.operationId): the event itself is not
\* read again, it comes from the claim's answer.
Ask ==
    /\ sched.pc = "loop"
    /\ RunWorkflow(events[Head1].workflow, Head1, "trigger")
    /\ sched' = [sched EXCEPT !.pc = "await"]
    /\ UNCHANGED crashes

\* The answer arrives.  An error or a run that waits for a person leaves the event for a
\* later tick.
Hear ==
    /\ sched.pc = "await" /\ reply # "none"
    /\ reply' = "none"
    /\ IF reply \in {"error", "awaiting-approval"} THEN ContinueWith(Tail(sched.queue))
       ELSE sched' = [sched EXCEPT !.pc = "finish",
                         !.status = IF reply = "running" THEN "failed" ELSE reply]
    /\ UNCHANGED <<tables, now, up, worker, crashes>>

\* The broker gives up after its time limit: the promise is rejected, system.cancel ends
\* the request's context, and a late answer finds nobody.
TimeOut ==
    /\ sched.pc = "await" /\ reply = "none" /\ worker.client = "trigger"
    /\ worker' = [worker EXCEPT !.client = "other",
                                !.ctx = IF @ = "live" THEN "cancelled" ELSE @]
    /\ ContinueWith(Tail(sched.queue))
    /\ UNCHANGED <<tables, now, up, reply, crashes>>

\* runtime.finishWorkflowTrigger, awaited outside the try: a refusal ends the tick.
Report ==
    /\ sched.pc = "finish"
    /\ IF CanFinish(Head1, sched.status, Head1)
       THEN FinishTrigger(Head1, sched.status, Head1) /\ ContinueWith(Tail(sched.queue))
       ELSE Serving /\ sched' = NoTick /\ UNCHANGED vars
    /\ UNCHANGED crashes

\* The data core is never restarted alone: both processes stop, and both start.
Stop == crashes < MaxCrashes /\ Crash /\ crashes' = crashes + 1 /\ sched' = NoTick

SchedulerStep == Claim \/ Ask \/ Hear \/ TimeOut \/ Report

SchedulerNext ==
    \/ SchedulerStep
    \/ Stop
    \/ (Execute \/ UserRequest \/ Environment \/ Restart) /\ UNCHANGED <<sched, crashes>>

(* Fairness.  The worker goroutine runs until its handler answers; the data core is     *)
(* opened again with the application; setInterval fires again and again and an answer   *)
(* that arrived settles its promise.  A request is only taken when the worker goroutine *)
(* is free, but the channel between them is first in, first out, so it is taken after   *)
(* finitely many others: strong fairness.                                               *)
Fairness ==
    /\ WF_schedVars(Execute /\ UNCHANGED <<sched, crashes>>)
    /\ WF_schedVars(Restart /\ UNCHANGED <<sched, crashes>>)
    /\ SF_schedVars(Claim) /\ SF_schedVars(Ask) /\ SF_schedVars(Report)
    /\ WF_schedVars(Hear)

SchedulerSpec == SchedulerInit /\ [][SchedulerNext]_schedVars /\ Fairness

-----------------------------------------------------------------------------
\* Every event that was ever claimed is delivered or cancelled, across time-outs, crashes
\* and whatever the person does, unless its run waits for a person: the person's answer
\* makes it wait no longer, and then this promise holds again.
EventuallyDelivered ==
    \A e \in EventIds :
        events[e].status = "pending" ~>
            \/ events[e].status # "pending"
            \/ PendingApprovals(<<events[e].workflow, e>>) # {}

\* An event is delivered with the run of its own operation id, made from the definition
\* version the event was claimed for, although the scheduler works on a copy of the
\* queue that may be out of date and the engine would take any run of the workflow.
DeliversItsOwnRun ==
    \A e \in EventIds : events[e].run # None =>
        /\ events[e].run = e
        /\ runs[<<events[e].workflow, e>>].version = events[e].version

\* "Workflow definition changed before the trigger ran": an event that was cancelled
\* without a run never gets one.
CancelledTriggerNeverRuns ==
    [][\A e \in EventIds :
         LET r == <<events[e].workflow, e>> IN
         events[e].status = "cancelled" /\ runs[r].status = "absent"
             => runs'[r].status = "absent"]_schedVars
=============================================================================
