---------------------- MODULE TriggerScheduler_proofs ----------------------
(***************************************************************************)
(* The trigger scheduler over the workflow engine, for every value of the  *)
(* constants.  A step of the scheduler is a step of the engine, or one of  *)
(* the three the engine does not know: a run that somebody waits for, the  *)
(* answer that is heard, and the time limit.  So the engine's invariants   *)
(* (WorkflowRuns_proofs and WorkflowTriggers_proofs) hold here too, and    *)
(* from them the promise of the scheduler follows.                         *)
(***************************************************************************)
EXTENDS TriggerScheduler, WorkflowTriggers_proofs

\* The copy of the queue names events that exist, whatever became of them since.
QueueInv ==
    /\ sched.pc = "finish" => sched.status \in TerminalStatus
    /\ \A i \in 1..Len(sched.queue) : events[sched.queue[i]].status # "absent"

ScheduleInv == SchedulerTypeOK /\ QueueInv

\* A run under the id of an event is a run of that event's workflow; nobody started one
\* before the event was there.
RunOfEvent(e) ==
    \A w \in Workflows : runs[<<w, e>>].status # "absent" =>
        events[e].status # "absent" /\ events[e].workflow = w

\* While the event may still be delivered, and when it was, that run has its version.  A
\* cancelled event may still be asked for, and then gets a run of a later version.
Dated(e) ==
    /\ events[e].status = "pending" \/ events[e].run # None
    /\ runs[<<events[e].workflow, e>>].status # "absent"
    => runs[<<events[e].workflow, e>>].version = events[e].version

OwnRun(e) == RunOfEvent(e) /\ Dated(e) /\ (events[e].run # None => events[e].run = e)

DeliveryInv == \A e \in EventIds : OwnRun(e)

EngineInv == TypeInv /\ AuditInv /\ EventInv

-----------------------------------------------------------------------------
(* The steps.                                                              *)

\* The event at the head of the copy exists, and so does its workflow.
LEMMA HeadExists ==
    ASSUME EngineInv, ScheduleInv, sched.pc # "idle"
    PROVE  /\ Head1 \in EventIds /\ Head1 \in Keys /\ events[Head1].status # "absent"
           /\ events[Head1].workflow \in Workflows
           /\ Tail(sched.queue) \in Seq(EventIds)
           /\ \A i \in 1..Len(Tail(sched.queue)) : events[Tail(sched.queue)[i]].status # "absent"
<1>1. sched.queue \in Seq(EventIds) /\ sched.queue # <<>>
  BY DEF ScheduleInv, SchedulerTypeOK
<1>2. Len(sched.queue) >= 1 /\ Head1 = sched.queue[1] /\ Head1 \in EventIds
  BY <1>1 DEF Head1
<1>3. events[Head1].status # "absent"
  BY <1>1, <1>2 DEF ScheduleInv, QueueInv
<1>4. /\ Tail(sched.queue) \in Seq(EventIds) /\ Len(Tail(sched.queue)) = Len(sched.queue) - 1
      /\ \A i \in 1..Len(Tail(sched.queue)) : Tail(sched.queue)[i] = sched.queue[i + 1]
  BY <1>1
<1>5. \A i \in 1..Len(Tail(sched.queue)) : i + 1 \in 1..Len(sched.queue)
  BY <1>1, <1>4
<1> QED
  BY <1>2, <1>3, <1>4, <1>5 DEF EngineInv, TypeInv, WellFormed, ScheduleInv, QueueInv, Keys

\* Every other step is one the engine takes without the scheduler.
LEMMA EngineStep ==
    ASSUME EngineInv, ScheduleInv, [SchedulerNext]_schedVars
    PROVE  [Next]_vars \/ Ask \/ Hear \/ TimeOut
<1>1. CASE Claim
  BY <1>1 DEF Claim, Next, TriggerRequest
<1>2. CASE Report
  <2>1. Head1 \in EventIds /\ Head1 \in Keys /\ sched.status \in TerminalStatus
    BY <1>2, HeadExists DEF Report, ScheduleInv, QueueInv
  <2>2. FinishTrigger(Head1, sched.status, Head1) \/ UNCHANGED vars
    BY <1>2 DEF Report
  <2> QED
    BY <2>1, <2>2 DEF Next, TriggerRequest
<1>3. CASE Stop
  BY <1>3 DEF Stop, Next
<1>4. CASE Execute \/ UserRequest \/ Environment \/ Restart
  BY <1>4 DEF Next
<1>5. CASE UNCHANGED schedVars
  BY <1>5 DEF schedVars
<1> QED
  BY <1>1, <1>2, <1>3, <1>4, <1>5 DEF SchedulerNext, SchedulerStep

\* Hearing an answer and giving up waiting write nothing and leave the handler where it is.
LEMMA NobodyWaits ==
    ASSUME EngineInv, Hear \/ TimeOut
    PROVE  /\ TypeInv' /\ AuditInv' /\ UNCHANGED <<tables, now, up>>
           /\ \A r \in RunIds : RunFinal(r)
<1>1. UNCHANGED <<defs, targets, events, runs, approvals, now, up>> /\ UNCHANGED <<tables, now, up>>
  BY DEF Hear, TimeOut, tables
<1>2. reply' \in Replies
  BY DEF Hear, TimeOut, EngineInv, TypeInv, TypeOK, Replies
<1>3. worker \in Worker
  BY DEF EngineInv, TypeInv, TypeOK
<1>4. /\ worker' \in Worker
      /\ worker'.phase = worker.phase /\ worker'.run = worker.run /\ worker'.plan = worker.plan
      /\ worker'.ord = worker.ord /\ worker'.att = worker.att /\ worker'.verdict = worker.verdict
  <2>1. CASE Hear
    BY <1>3, <2>1 DEF Hear
  <2>2. CASE TimeOut
    <3>1. \E c \in {"live", "cancelled", "failed"} :
             worker' = [worker EXCEPT !.client = "other", !.ctx = c]
      BY <1>3, <2>2 DEF TimeOut, Worker
    <3> QED
      BY <1>3, <3>1 DEF Worker
  <2> QED
    BY <2>1, <2>2
<1>5. TypeInv'
  BY <1>1, <1>2, <1>4 DEF EngineInv, TypeInv, TypeOK, WellFormed
<1>6. StepKind' = StepKind
      /\ OrdinalSucceeded(worker.run, worker.ord)' = OrdinalSucceeded(worker.run, worker.ord)
  BY <1>1, <1>4 DEF StepKind, OrdinalSucceeded
<1>7. HandlerInv'
  BY <1>1, <1>4, <1>6 DEF EngineInv, AuditInv, HandlerInv
<1>8. \A r \in RunIds : Kept(r)
  BY <1>1, NothingWritten DEF EngineInv
<1> QED
  BY <1>1, <1>5, <1>7, <1>8 DEF AuditInv, Kept

\* The engine's invariants hold under the scheduler.
LEMMA ScheduledEngine ==
    ASSUME EngineInv, ScheduleInv, [SchedulerNext]_schedVars
    PROVE  EngineInv' /\ \A r \in RunIds : RunFinal(r)
<1>1. CASE [Next]_vars
  BY <1>1, NextTyped, NextAudited, NextKeepsQueue DEF EngineInv
<1>2. CASE Ask
  <2>1. /\ Head1 \in Keys /\ events[Head1].workflow \in Workflows
        /\ RunWorkflow(events[Head1].workflow, Head1, "trigger")
    BY <1>2, HeadExists DEF Ask
  <2>2. TypeInv'
    BY <2>1, RunWorkflowTyped DEF EngineInv
  <2>3. AuditInv' /\ \A r \in RunIds : RunFinal(r)
    BY <2>1, RunWorkflowAudited DEF EngineInv, AuditInv, Kept
  <2>4. UNCHANGED <<defs, events>>
    BY <2>1 DEF RunWorkflow
  <2>5. EventInv'
    BY <2>3, <2>4, EventKept DEF EngineInv, EventInv, SameTrigger
  <2> QED
    BY <2>2, <2>3, <2>5 DEF EngineInv
<1>3. CASE Hear \/ TimeOut
  <2>1. /\ TypeInv' /\ AuditInv' /\ UNCHANGED <<defs, events>>
        /\ \A r \in RunIds : RunFinal(r)
    BY <1>3, NobodyWaits DEF tables
  <2>2. EventInv'
    BY <2>1, EventKept DEF EngineInv, EventInv, SameTrigger
  <2> QED
    BY <2>1, <2>2 DEF EngineInv
<1> QED
  BY <1>1, <1>2, <1>3, EngineStep

-----------------------------------------------------------------------------
(* The tick.                                                               *)

\* What one step may do to an event: nothing, cancel it, queue it, or finish it with the
\* run of its own id.
EventStep(e) ==
    /\ events[e].status # "absent" => /\ events'[e].status # "absent"
                                      /\ events'[e].workflow = events[e].workflow
                                      /\ events'[e].version = events[e].version
    /\ \/ events'[e].run = events[e].run
       \/ events[e].status = "absent" /\ events'[e].run = None
       \/ events[e].status = "pending" /\ events'[e].run = e
    /\ events'[e].status = "pending" => events[e].status \in {"absent", "pending"}

\* The tick reports the event at its head, with the run of that event.
LEMMA ReportStep ==
    ASSUME EngineInv, ScheduleInv, Report, NEW e \in EventIds
    PROVE  EventStep(e)
<1>1. events[e] \in Event /\ Head1 \in EventIds
  BY HeadExists DEF EngineInv, TypeInv, TypeOK, Report
<1>2. CASE UNCHANGED vars
  BY <1>1, <1>2 DEF vars, tables, EventStep
<1>3. CASE FinishTrigger(Head1, sched.status, Head1)
  <2>1. /\ events[Head1].status = "pending" /\ sched.status \in TerminalStatus
        /\ events' = [events EXCEPT ![Head1].status = sched.status, ![Head1].run = Head1]
    BY <1>3 DEF FinishTrigger, CanFinish, Report, ScheduleInv, QueueInv
  <2> HIDE DEF Head1
  <2> QED
    BY <1>1, <2>1 DEF EngineInv, TypeInv, TypeOK, Event, EventStep, TerminalStatus
<1> QED
  BY <1>2, <1>3 DEF Report

\* Cancelling leaves the run and the version of an event.
LEMMA CancelStep ==
    ASSUME EngineInv, NEW W, CancelPending(W), NEW e \in EventIds
    PROVE  EventStep(e)
<1>1. events[e] \in Event
  BY DEF EngineInv, TypeInv, TypeOK
<1> QED
  BY <1>1 DEF CancelPending, Event, EventStep

\* A claim takes free events.
LEMMA ClaimStep ==
    ASSUME EngineInv, ClaimDue, EventInv', NEW e \in EventIds
    PROVE  EventStep(e)
<1>1. CASE events'[e] = events[e]
  BY <1>1, CancelStep DEF EngineInv, EventStep
<1>2. CASE \E w \in Workflows : Queued(e, w)
  <2>1. events[e].status = "absent" /\ events'[e].status = "pending"
    BY <1>2 DEF Queued
  <2>2. events'[e].run = None
    BY <2>1 DEF EventInv, EventOK
  <2> QED
    BY <2>1, <2>2 DEF EventStep
<1> QED
  BY <1>1, <1>2, ClaimQueues

\* So does every step, of the person, the engine and the tick.
LEMMA EveryEventStep ==
    ASSUME EngineInv, ScheduleInv, EventInv', [SchedulerNext]_schedVars, NEW e \in EventIds
    PROVE  EventStep(e)
<1>1. CASE UNCHANGED events
  BY <1>1 DEF EventStep, EngineInv, TypeInv, TypeOK, Event, TerminalStatus
<1>2. CASE Claim
  BY <1>2, ClaimStep DEF Claim
<1>3. CASE Report
  BY <1>3, ReportStep
<1>4. CASE Ask \/ Hear \/ TimeOut \/ Stop \/ Execute \/ Environment \/ Restart \/ UNCHANGED schedVars
  BY <1>1, <1>4 DEF Ask, RunWorkflow, Hear, TimeOut, Stop, Crash,
     Execute, SkipSucceeded, PauseForApproval, StartAttempt, RecordUnresolved,
     FinishRecord, StepSucceeds, StepFails, RetryOrClose, ResultOverBudget, FinishRun, Resume,
     DurableElsewhere, Environment, Tick, BecomeOverdue, Interrupt, Restart,
     schedVars, vars, tables
<1>5. CASE UserRequest
  <2>1. ASSUME NEW v, NEW p, NEW t, SaveWorkflow(v, p, t) \/ DeleteWorkflow(v)
        PROVE  EventStep(e)
    BY <2>1, CancelStep DEF SaveWorkflow, DeleteWorkflow
  <2>2. ASSUME NEW gone, NEW shrunk, NEW s, RemoveTargets(gone, shrunk, s)
        PROVE  EventStep(e)
    <3>1. \E W : CancelPending(W)
      BY <2>2, Zenon DEF RemoveTargets
    <3> QED
      BY <3>1, CancelStep
  <2>3. ASSUME NEW S, NEW r, NEW o, NEW d, NEW w, NEW k, NEW t, NEW G, NEW s,
               \/ ExpireApprovals(S) \/ Approve(r, o) \/ CloseDecision(r, o, d)
               \/ RunWorkflow(w, k, "other") \/ SaveGroup(t, s) \/ ActivateVersion(t, G, s)
               \/ ArchiveThread(t) \/ DeleteThread(t)
        PROVE  UNCHANGED events
    BY <2>3, Zenon DEF ExpireApprovals, Approve, CloseDecision, RunWorkflow, SaveGroup,
                ActivateVersion, ArchiveThread, DeleteThread
  <2> QED
    BY <1>1, <1>5, <2>1, <2>2, <2>3 DEF UserRequest
<1> QED
  BY <1>2, <1>3, <1>4, <1>5 DEF SchedulerNext, SchedulerStep

\* Going on with a queue of events that are there.
LEMMA ContinueTyped ==
    ASSUME NEW q \in Seq(EventIds), ContinueWith(q),
           \A i \in 1..Len(q) : events'[q[i]].status # "absent"
    PROVE  /\ sched' \in [pc : {"idle", "loop", "await", "finish"}, queue : Seq(EventIds),
                          status : {"none"} \cup TerminalStatus]
           /\ sched'.pc # "idle" => sched'.queue # <<>>
           /\ QueueInv'
<1>1. CASE q = <<>>
  <2>1. sched' = NoTick
    BY <1>1 DEF ContinueWith
  <2>2. <<>> \in Seq(EventIds) /\ Len(<<>>) = 0
    OBVIOUS
  <2> QED
    BY <2>1, <2>2 DEF NoTick, QueueInv
<1>2. CASE q # <<>>
  <2>1. sched' = [NoTick EXCEPT !.pc = "loop", !.queue = q]
    BY <1>2 DEF ContinueWith
  <2>2. sched' = [pc |-> "loop", queue |-> q, status |-> "none"]
    BY <2>1 DEF NoTick
  <2> QED
    BY <1>2, <2>2 DEF QueueInv
<1> QED
  BY <1>1, <1>2

\* The tick keeps its bookkeeping.
LEMMA ScheduleKept ==
    ASSUME EngineInv, ScheduleInv, EngineInv', [SchedulerNext]_schedVars
    PROVE  ScheduleInv'
<1>1. \A e \in EventIds : events[e].status # "absent" => events'[e].status # "absent"
  BY EveryEventStep DEF EngineInv, EventStep
<1>2. TypeOK'
  BY DEF EngineInv, TypeInv
<1>3. CASE UNCHANGED <<sched, crashes>>
  <2>1. sched.queue \in Seq(EventIds)
    BY DEF ScheduleInv, SchedulerTypeOK
  <2>2. \A i \in 1..Len(sched.queue) : sched.queue[i] \in EventIds
    BY <2>1
  <2> QED
    BY <1>1, <1>2, <1>3, <2>2 DEF ScheduleInv, SchedulerTypeOK, QueueInv
<1>4. ASSUME NEW q \in Seq(EventIds), ContinueWith(q), crashes' = crashes,
             \A i \in 1..Len(q) : events'[q[i]].status # "absent"
      PROVE  ScheduleInv'
  BY <1>2, <1>4, ContinueTyped DEF ScheduleInv, SchedulerTypeOK
<1>5. sched.pc # "idle" =>
         /\ Tail(sched.queue) \in Seq(EventIds)
         /\ \A i \in 1..Len(Tail(sched.queue)) : events'[Tail(sched.queue)[i]].status # "absent"
  <2> DEFINE q == Tail(sched.queue)
  <2> SUFFICES ASSUME sched.pc # "idle"
               PROVE  q \in Seq(EventIds) /\ \A i \in 1..Len(q) : events'[q[i]].status # "absent"
    OBVIOUS
  <2>1. q \in Seq(EventIds) /\ \A i \in 1..Len(q) : events[q[i]].status # "absent"
    BY HeadExists
  <2> HIDE DEF q
  <2>2. \A i \in 1..Len(q) : q[i] \in EventIds
    BY <2>1
  <2> QED
    BY <1>1, <2>1, <2>2
<1>6. CASE Claim
  <2>1. PICK n \in 0..Cardinality(EventIds) : \E q \in [1..n -> EventIds] :
          n <= PageLimit /\ IsListing(q) /\ ContinueWith(q)
    BY <1>6 DEF Claim
  <2>2. PICK q \in [1..n -> EventIds] : n <= PageLimit /\ IsListing(q) /\ ContinueWith(q)
    BY <2>1
  <2>3. n \in Nat
    BY <2>2, SchedulerAssumption
  <2>4. q \in Seq(EventIds) /\ Len(q) = n /\ DOMAIN q = 1..n
    BY <2>2, <2>3
  <2>5. \A i \in 1..Len(q) : events'[q[i]].status = "pending"
    BY <2>2, <2>4 DEF IsListing
  <2> QED
    BY <1>4, <1>6, <2>2, <2>4, <2>5 DEF Claim
<1>7. CASE Ask
  <2>1. sched' = [sched EXCEPT !.pc = "await"] /\ crashes' = crashes /\ sched.pc = "loop"
    BY <1>7 DEF Ask
  <2>2. /\ sched \in [pc : {"idle", "loop", "await", "finish"}, queue : Seq(EventIds),
                      status : {"none"} \cup TerminalStatus]
        /\ sched.queue # <<>>
    BY <2>1 DEF ScheduleInv, SchedulerTypeOK
  <2>3. /\ sched' \in [pc : {"idle", "loop", "await", "finish"}, queue : Seq(EventIds),
                       status : {"none"} \cup TerminalStatus]
        /\ sched'.pc = "await" /\ sched'.queue = sched.queue
    BY <2>1, <2>2
  <2>4. events' = events
    BY <1>7 DEF Ask, RunWorkflow
  <2> QED
    BY <1>2, <2>1, <2>2, <2>3, <2>4 DEF ScheduleInv, SchedulerTypeOK, QueueInv
<1>8. CASE Hear
  <2>1. CASE reply \in {"error", "awaiting-approval"}
    BY <1>4, <1>5, <1>8, <2>1 DEF Hear
  <2>2. CASE reply \notin {"error", "awaiting-approval"}
    <3> DEFINE heard == IF reply = "running" THEN "failed" ELSE reply
    <3>1. /\ sched' = [sched EXCEPT !.pc = "finish", !.status = heard]
          /\ crashes' = crashes /\ sched.pc = "await" /\ events' = events
      BY <1>8, <2>2 DEF Hear, tables
    <3>2. heard \in TerminalStatus
      BY <1>8, <2>2 DEF Hear, EngineInv, TypeInv, TypeOK, Replies, TerminalStatus
    <3>3. /\ sched \in [pc : {"idle", "loop", "await", "finish"}, queue : Seq(EventIds),
                        status : {"none"} \cup TerminalStatus]
          /\ sched.queue # <<>>
      BY <3>1 DEF ScheduleInv, SchedulerTypeOK
    <3> HIDE DEF heard
    <3>4. /\ sched' \in [pc : {"idle", "loop", "await", "finish"}, queue : Seq(EventIds),
                         status : {"none"} \cup TerminalStatus]
          /\ sched'.pc = "finish" /\ sched'.queue = sched.queue /\ sched'.status = heard
      BY <3>1, <3>2, <3>3
    <3> QED
      BY <1>2, <3>1, <3>2, <3>3, <3>4 DEF ScheduleInv, SchedulerTypeOK, QueueInv
  <2> QED
    BY <2>1, <2>2
<1>9. CASE TimeOut
  BY <1>4, <1>5, <1>9 DEF TimeOut
<1>10. ASSUME sched' = NoTick, crashes' \in 0..MaxCrashes
       PROVE  ScheduleInv'
  <2>1. <<>> \in Seq(EventIds) /\ Len(<<>>) = 0
    OBVIOUS
  <2> QED
    BY <1>2, <1>10, <2>1 DEF ScheduleInv, SchedulerTypeOK, QueueInv, NoTick
<1>11. CASE Report
  BY <1>4, <1>5, <1>10, <1>11 DEF Report, ScheduleInv, SchedulerTypeOK
<1>12. CASE Stop
  <2>1. crashes' \in 0..MaxCrashes
    BY <1>12, SchedulerAssumption DEF Stop, ScheduleInv, SchedulerTypeOK
  <2> QED
    BY <1>10, <1>12, <2>1 DEF Stop
<1> QED
  BY <1>3, <1>6, <1>7, <1>8, <1>9, <1>11, <1>12 DEF SchedulerNext, SchedulerStep, schedVars

-----------------------------------------------------------------------------
(* The runs of the events.                                                 *)

\* Only the tick starts a run under the id of an event: the one at its head, for the
\* workflow of that event.
LEMMA EventRuns ==
    ASSUME EngineInv, ScheduleInv, [SchedulerNext]_schedVars, NEW e \in EventIds
    PROVE  \/ \A w \in Workflows : SameRow(<<w, e>>)
           \/ e = Head1 /\ events' = events /\ events[e].status # "absent"
              /\ Started(events[e].workflow, e)
<1>1. \A w \in Workflows : <<w, e>> \in RunIds
  BY DEF RunIds, Keys
<1>2. TypeInv
  BY DEF EngineInv
<1>3. CASE UNCHANGED runs
  BY <1>3 DEF SameRow
<1>4. CASE Ask
  <2>1. /\ Head1 \in Keys /\ events[Head1].workflow \in Workflows
        /\ events[Head1].status # "absent"
        /\ RunWorkflow(events[Head1].workflow, Head1, "trigger")
    BY <1>4, HeadExists DEF Ask
  <2>2. (\A r \in RunIds : SameRow(r)) \/ Started(events[Head1].workflow, Head1)
    BY <1>2, <2>1, RunWorkflowRows
  <2>3. events' = events
    BY <2>1 DEF RunWorkflow
  <2>4. CASE e # Head1 /\ Started(events[Head1].workflow, Head1)
    BY <1>1, <2>4 DEF Started
  <2> QED
    BY <1>1, <2>1, <2>2, <2>3, <2>4
<1>5. CASE Claim \/ Hear \/ TimeOut \/ Report \/ Stop \/ Environment \/ UNCHANGED schedVars
  <2>1. UNCHANGED runs
    BY <1>5, Zenon DEF Claim, ClaimDue, Hear, TimeOut, Report, FinishTrigger, Stop, Crash, Environment,
       Tick, BecomeOverdue, Interrupt, schedVars, vars, tables
  <2> QED
    BY <1>3, <2>1
<1>6. CASE Execute
  BY <1>1, <1>2, <1>6, ExecuteRows
<1>7. CASE Restart
  <2>1. \A r \in RunIds : runs'[r] = Recovered(r) /\ runs[r] \in Run
    BY <1>2, <1>7 DEF Restart, TypeInv, TypeOK
  <2> QED
    BY <1>1, <2>1 DEF Recovered, Run, SameRow
<1>8. CASE UserRequest
  <2>1. ASSUME NEW w \in Workflows, NEW k \in ManualKeys, RunWorkflow(w, k, "other")
        PROVE  \A v \in Workflows : SameRow(<<v, e>>)
    <3>1. k \in Keys /\ k # e
      BY WorkflowAssumption DEF Keys
    <3>2. (\A r \in RunIds : SameRow(r)) \/ Started(w, k)
      BY <1>2, <2>1, <3>1, RunWorkflowRows
    <3>3. \A v \in Workflows : <<v, e>> # <<w, k>>
      BY <3>1
    <3> QED
      BY <1>1, <3>2, <3>3 DEF Started
  <2>2. ASSUME NEW S, NEW q \in RunIds, NEW o \in Ordinals, NEW d,
               ExpireApprovals(S) \/ Approve(q, o) \/ CloseDecision(q, o, d)
        PROVE  \A v \in Workflows : SameRow(<<v, e>>)
    BY <1>1, <1>2, <2>2, DecisionRows
  <2>3. ASSUME NEW S, ExpireApprovals(S)
        PROVE  \A v \in Workflows : SameRow(<<v, e>>)
    BY <1>1, <1>2, <2>3, ClosedRunsRow DEF ExpireApprovals, SameRow
  <2>4. ASSUME NEW w, NEW p, NEW t, NEW G, NEW g, NEW s,
               \/ SaveWorkflow(w, p, t) \/ DeleteWorkflow(w) \/ SaveGroup(t, s)
               \/ ActivateVersion(t, G, s) \/ RemoveTargets(g, G, s)
               \/ ArchiveThread(t) \/ DeleteThread(t)
        PROVE  UNCHANGED runs
    BY <2>4, Zenon DEF SaveWorkflow, DeleteWorkflow, SaveGroup, ActivateVersion, RemoveTargets,
                ArchiveThread, DeleteThread
  <2> QED
    BY <1>3, <1>8, <2>1, <2>2, <2>3, <2>4 DEF UserRequest
<1> QED
  BY <1>4, <1>5, <1>6, <1>7, <1>8 DEF SchedulerNext, SchedulerStep

\* An event that is finished was pending, and its run has its version.
LEMMA OwnRunKept ==
    ASSUME EngineInv, ScheduleInv, EngineInv', DeliveryInv, [SchedulerNext]_schedVars,
           NEW e \in EventIds
    PROVE  OwnRun(e)'
<1>1. OwnRun(e) /\ EventOK(e) /\ EventOK(e)' /\ EventStep(e)
  BY EveryEventStep DEF EngineInv, DeliveryInv, EventInv
<1>2. /\ events[e].status # "absent" => events[e].workflow \in Workflows
      /\ events'[e].status # "absent" => events'[e].workflow \in Workflows
  BY DEF EngineInv, TypeInv, WellFormed
<1>3. /\ events[e].status = "absent" => events[e].run = None
      /\ events[e].run # None => events[e].status \in TerminalStatus
      /\ events'[e].run # None => events'[e].status \in TerminalStatus
  BY <1>1 DEF EventOK
<1>4. events'[e].run # None => events'[e].run = e
  BY <1>1 DEF EventStep, OwnRun
<1>5. CASE \A w \in Workflows : SameRow(<<w, e>>)
  <2>1. RunOfEvent(e)'
    BY <1>1, <1>5 DEF OwnRun, RunOfEvent, EventStep, SameRow
  <2>2. Dated(e)'
    <3> SUFFICES ASSUME events'[e].status = "pending" \/ events'[e].run # None,
                        runs'[<<events'[e].workflow, e>>].status # "absent"
                 PROVE  runs'[<<events'[e].workflow, e>>].version = events'[e].version
      BY DEF Dated
    <3>1. events'[e].status # "absent" /\ events'[e].workflow \in Workflows
      BY <1>2, <1>3 DEF TerminalStatus
    <3>2. /\ runs[<<events'[e].workflow, e>>].status # "absent"
          /\ runs'[<<events'[e].workflow, e>>].version = runs[<<events'[e].workflow, e>>].version
      BY <1>5, <3>1 DEF SameRow
    <3>3. events[e].status # "absent" /\ events[e].workflow = events'[e].workflow
      BY <1>1, <3>1, <3>2 DEF OwnRun, RunOfEvent
    <3>4. events[e].status = "pending" \/ events[e].run # None
      BY <1>1, <3>3 DEF EventStep
    <3>5. events'[e].version = events[e].version
      BY <1>1, <3>3 DEF EventStep
    <3> QED
      BY <1>1, <3>2, <3>3, <3>4, <3>5 DEF OwnRun, Dated
  <2> QED
    BY <1>4, <2>1, <2>2 DEF OwnRun
<1>6. CASE /\ events' = events /\ events[e].status # "absent"
           /\ Started(events[e].workflow, e)
  <2> DEFINE w == events[e].workflow
  <2>1. /\ w \in Workflows /\ defs[w].status = "active"
        /\ runs'[<<w, e>>].status # "absent" /\ runs'[<<w, e>>].version = defs[w].version
        /\ \A v \in Workflows : v # w => SameRow(<<v, e>>)
    <3>1. \A v \in Workflows : <<v, e>> \in RunIds /\ (v # w => <<v, e>> # <<w, e>>)
      BY DEF RunIds, Keys
    <3> QED
      BY <1>2, <1>6, <3>1 DEF Started
  <2>2. RunOfEvent(e)'
    BY <1>1, <1>6, <2>1 DEF OwnRun, RunOfEvent, SameRow
  <2>3. CASE events[e].status = "pending"
    <3>1. defs[w].version = events[e].version
      BY <1>1, <2>3 DEF EventOK
    <3> QED
      BY <1>4, <1>6, <2>1, <2>2, <3>1 DEF OwnRun, Dated
  <2>4. CASE events[e].run # None
    <3>1. events[e].run = e /\ events[e].status \in TerminalStatus
          /\ runs[<<w, e>>].status = events[e].status
      BY <1>1, <2>4 DEF OwnRun, EventOK
    <3>2. <<w, e>> \in RunIds /\ RunFinal(<<w, e>>)
      BY <2>1, ScheduledEngine DEF RunIds, Keys
    <3>3. runs'[<<w, e>>] = runs[<<w, e>>] /\ runs[<<w, e>>].status # "absent"
      BY <3>1, <3>2 DEF RunFinal, TerminalStatus
    <3>4. runs'[<<w, e>>].version = events[e].version
      BY <1>1, <2>4, <3>3 DEF OwnRun, Dated
    <3> QED
      BY <1>4, <1>6, <2>2, <3>4 DEF OwnRun, Dated
  <2>5. CASE events[e].status # "pending" /\ events[e].run = None
    BY <1>4, <1>6, <2>2, <2>5 DEF OwnRun, Dated
  <2> QED
    BY <2>3, <2>4, <2>5
<1> QED
  BY <1>5, <1>6, EventRuns

-----------------------------------------------------------------------------
(* The theorems.                                                           *)

LEMMA ScheduleStarts == SchedulerInit => EngineInv /\ ScheduleInv /\ DeliveryInv
<1> SUFFICES ASSUME SchedulerInit PROVE EngineInv /\ ScheduleInv /\ DeliveryInv
  OBVIOUS
<1>1. TypeInv /\ AuditInv
  BY InitTyped, InitAudited DEF SchedulerInit
<1>2. EventInv
  BY DEF SchedulerInit, Init, EventInv, EventOK, NoEvent
<1>3. ScheduleInv
  <2>1. <<>> \in Seq(EventIds) /\ Len(<<>>) = 0
    OBVIOUS
  <2> QED
    BY <1>1, <2>1, SchedulerAssumption
    DEF SchedulerInit, ScheduleInv, SchedulerTypeOK, QueueInv, NoTick, TypeInv
<1>4. ASSUME NEW e \in EventIds
      PROVE  OwnRun(e)
  <2>1. events[e] = NoEvent /\ \A w \in Workflows : runs[<<w, e>>] = NoRun
    BY DEF SchedulerInit, Init, RunIds, Keys
  <2> QED
    BY <2>1 DEF OwnRun, RunOfEvent, Dated, NoEvent, NoRun
<1> QED
  BY <1>1, <1>2, <1>3, <1>4 DEF EngineInv, DeliveryInv

LEMMA ScheduleInvariant == SchedulerSpec => [](EngineInv /\ ScheduleInv /\ DeliveryInv)
<1>1. SchedulerInit => EngineInv /\ ScheduleInv /\ DeliveryInv
  BY ScheduleStarts
<1>2. (EngineInv /\ ScheduleInv /\ DeliveryInv) /\ [SchedulerNext]_schedVars
      => (EngineInv /\ ScheduleInv /\ DeliveryInv)'
  <2> SUFFICES ASSUME EngineInv, ScheduleInv, DeliveryInv, [SchedulerNext]_schedVars
               PROVE  EngineInv' /\ ScheduleInv' /\ DeliveryInv'
    OBVIOUS
  <2>1. EngineInv'
    BY ScheduledEngine
  <2>2. ScheduleInv'
    BY <2>1, ScheduleKept
  <2>3. DeliveryInv'
    BY <2>1, OwnRunKept DEF DeliveryInv
  <2> QED
    BY <2>1, <2>2, <2>3
<1> QED
  BY <1>1, <1>2, PTL DEF SchedulerSpec

\* The scheduler keeps the tables of the engine in order although it is one more client
\* of theirs, with time limits and a copy of the queue that may be out of date.
THEOREM ScheduledTables ==
    SchedulerSpec => [](SchedulerTypeOK /\ ApprovalEvidence /\ TriggerEvidence)
<1>1. EngineInv /\ ScheduleInv => SchedulerTypeOK /\ ApprovalEvidence /\ TriggerEvidence
  BY DEF EngineInv, ScheduleInv, AuditInv, ApprovalOK, ApprovalEvidence, EventInv, EventOK,
         TriggerEvidence
<1> QED
  BY <1>1, ScheduleInvariant, PTL

\* An event is delivered with the run of its own operation id, made from the definition
\* version it was queued for, although the engine would take any run of the workflow and
\* the person may change the definition between the claim, the run and the report.
THEOREM DeliversOwn == SchedulerSpec => []DeliversItsOwnRun
<1>1. EngineInv /\ DeliveryInv => DeliversItsOwnRun
  <2> SUFFICES ASSUME EngineInv, DeliveryInv, NEW e \in EventIds, events[e].run # None
               PROVE  /\ events[e].run = e
                      /\ runs[<<events[e].workflow, e>>].version = events[e].version
    BY DEF DeliversItsOwnRun
  <2>1. OwnRun(e) /\ EventOK(e)
    BY DEF DeliveryInv, EngineInv, EventInv
  <2>2. runs[<<events[e].workflow, e>>].status \in TerminalStatus
    BY <2>1 DEF OwnRun, EventOK
  <2> QED
    BY <2>1, <2>2 DEF OwnRun, Dated, TerminalStatus
<1> QED
  BY <1>1, ScheduleInvariant, PTL
-----------------------------------------------------------------------------
(***************************************************************************)
(* The promise of the runs under the scheduler.  The engine's proofs of    *)
(* the order of the checkpoints, and of RunPromise, are about its own      *)
(* steps; here are the three that the scheduler adds.                      *)
(***************************************************************************)

OrderedInv == OrderInv /\ TriesInv /\ FreshInv

LEMMA EngineKeepsPromise ==
    ASSUME EngineInv, EngineInv', OrderedInv, [Next]_vars
    PROVE  OrderedInv' /\ [Promise!Next]_Promise!vars
<1>1. OrderInv'
  BY NextOrdered DEF EngineInv, OrderedInv
<1>2. TriesInv'
  BY AttemptStep, NextTried DEF EngineInv, OrderedInv
<1>3. FreshInv' /\ [Promise!Next]_Promise!vars
  BY StepKeepsPromise DEF EngineInv, OrderedInv, PromiseInv
<1> QED
  BY <1>1, <1>2, <1>3 DEF OrderedInv

\* A run that is begun for an event is begun like any other.
LEMMA AskKeepsPromise ==
    ASSUME EngineInv, EngineInv', ScheduleInv, OrderedInv, \A r \in RunIds : RunFinal(r), Ask
    PROVE  OrderedInv' /\ [Promise!Next]_Promise!vars
<1>1. /\ Head1 \in Keys /\ events[Head1].workflow \in Workflows
      /\ RunWorkflow(events[Head1].workflow, Head1, "trigger")
  BY HeadExists DEF Ask
<1>2. OrderInv'
  BY <1>1, RunWorkflowOrdered DEF EngineInv, OrderedInv
<1>3. worker'.phase = "idle" \/ worker'.att = 1
  BY <1>1 DEF RunWorkflow, Serving, Idle
<1>4. TriesInv'
  BY <1>3, NextTried DEF EngineInv, OrderedInv
<1>5. FreshInv'
  BY <1>1 DEF RunWorkflow, OrderedInv, FreshInv
<1>6. [Promise!Next]_Promise!vars
  BY <1>1, RunWorkflowKept DEF EngineInv
<1> QED
  BY <1>2, <1>4, <1>5, <1>6 DEF OrderedInv

\* Nobody's waiting, or having waited, is of any consequence for a run.
LEMMA WaitingKeepsPromise ==
    ASSUME EngineInv, EngineInv', OrderedInv, Hear \/ TimeOut
    PROVE  OrderedInv' /\ [Promise!Next]_Promise!vars
<1>1. UNCHANGED <<runs, approvals, defs>> /\ \A r \in RunIds : RunFinal(r)
  BY NobodyWaits DEF tables
<1>2. worker \in Worker
  BY DEF EngineInv, TypeInv, TypeOK
<1>3. /\ worker'.phase = worker.phase /\ worker'.run = worker.run /\ worker'.plan = worker.plan
      /\ worker'.ord = worker.ord /\ worker'.att = worker.att /\ worker'.verdict = worker.verdict
  <2>1. worker' = worker \/ \E c : worker' = [worker EXCEPT !.client = "other", !.ctx = c]
    BY DEF Hear, TimeOut
  <2> QED
    BY <1>2, <2>1 DEF Worker
<1>4. OrderInv'
  BY <1>1, <1>3, OtherOrdered DEF EngineInv, OrderedInv
<1>5. TriesInv' /\ FreshInv'
  BY <1>1, <1>3 DEF OrderedInv, TriesInv, FreshInv
<1>6. [Promise!Next]_Promise!vars
  BY <1>1, SilentKept
<1> QED
  BY <1>4, <1>5, <1>6 DEF OrderedInv

LEMMA SchedulerKeepsPromise ==
    ASSUME EngineInv, ScheduleInv, OrderedInv, [SchedulerNext]_schedVars
    PROVE  OrderedInv' /\ [Promise!Next]_Promise!vars
<1>1. EngineInv' /\ \A r \in RunIds : RunFinal(r)
  BY ScheduledEngine
<1> QED
  BY <1>1, EngineStep, EngineKeepsPromise, AskKeepsPromise, WaitingKeepsPromise

LEMMA ScheduledOrder == SchedulerSpec => []OrderedInv
<1>1. SchedulerInit => OrderedInv
  BY PromiseStarts, InitOrdered DEF SchedulerInit, OrderedInv
<1>2. EngineInv /\ ScheduleInv /\ OrderedInv /\ [SchedulerNext]_schedVars => OrderedInv'
  BY SchedulerKeepsPromise
<1> QED
  BY <1>1, <1>2, ScheduleInvariant, PTL DEF SchedulerSpec

\* Runs that the clock starts keep the order of their plan, and pass a review only as it was
\* answered, although the broker gives up on them while they go on and a later tick asks
\* for the same run again.
THEOREM ScheduledInOrder == SchedulerSpec => [](CheckpointsInOrder /\ ResumesReviewedPlan)
<1>1. EngineInv /\ OrderedInv => CheckpointsInOrder /\ ResumesReviewedPlan
  BY OrderImplies DEF EngineInv, OrderedInv
<1> QED
  BY <1>1, ScheduleInvariant, ScheduledOrder, PTL

\* What ended stays as it is under the scheduler too: no time limit, no second request for
\* the same run and no stale copy of the queue rewrites a run, an answer or a delivery.
THEOREM ScheduledEndIsFinal == SchedulerSpec => TerminalIsFinal
<1>1. ASSUME EngineInv, ScheduleInv, [SchedulerNext]_schedVars
      PROVE  [/\ \A r \in RunIds : runs[r].status \in TerminalStatus => runs'[r] = runs[r]
              /\ \A r \in RunIds, o \in Ordinals :
                    approvals[r][o].status \in ClosedApproval \cup {"approved"} =>
                        approvals'[r][o] = approvals[r][o]
              /\ \A e \in EventIds : events[e].status \in TerminalStatus =>
                    events'[e] = events[e]]_vars
  <2>1. \A r \in RunIds : RunFinal(r)
    BY <1>1, ScheduledEngine
  <2>2. ASSUME NEW e \in EventIds, events[e].status \in TerminalStatus
        PROVE  events'[e] = events[e]
    <3>1. CASE [Next]_vars
      BY <2>2, <3>1, <1>1, EventsFinal DEF EngineInv
    <3>2. CASE Ask \/ Hear \/ TimeOut
      BY <3>2 DEF Ask, RunWorkflow, Hear, TimeOut, tables
    <3> QED
      BY <1>1, <3>1, <3>2, EngineStep
  <2> QED
    BY <2>1, <2>2 DEF RunFinal
<1> QED
  BY <1>1, ScheduleInvariant, PTL DEF SchedulerSpec, TerminalIsFinal

\* The person is promised the same of the runs the clock starts as of the ones she starts:
\* the scheduler, with its time limits, its stale queue and its losses, is one more client
\* of an engine that implements RunPromise, and takes nothing from it.
THEOREM ScheduledRunsKeepPromise == SchedulerSpec => KeepsRunPromise
<1>1. SchedulerInit => Promise!Init
  BY PromiseStarts DEF SchedulerInit
<1>2. EngineInv /\ ScheduleInv /\ OrderedInv /\ [SchedulerNext]_schedVars
      => [Promise!Next]_Promise!vars
  BY SchedulerKeepsPromise
<1> QED
  BY <1>1, <1>2, ScheduleInvariant, ScheduledOrder, PTL
  DEF SchedulerSpec, KeepsRunPromise, Promise!Spec

-----------------------------------------------------------------------------
(***************************************************************************)
(* Definitions, conversations, due times, backups and the owners of runs   *)
(* under the scheduler.                                                    *)
(***************************************************************************)

HistoryInv == NoOrphanedWorkflow /\ ShownInv /\ DueInv /\ BackupInv

\* Beginning a run, hearing and giving up touch neither definitions, targets nor events.
LEMMA OnlyRuns ==
    ASSUME Ask \/ Hear \/ TimeOut
    PROVE  UNCHANGED <<defs, targets, events, now>>
BY DEF Ask, RunWorkflow, Hear, TimeOut, tables

\* The handler is inside no run unless it is at work; the rows of runs appear one by one.
LEMMA OnlyOneRun ==
    ASSUME EngineInv, ScheduleInv, BackupInv, Ask \/ Hear \/ TimeOut
    PROVE  RowsStep /\ (worker'.phase = "idle" => worker'.run = None)
<1>1. worker \in Worker /\ (worker.phase = "idle" => worker.run = None)
  BY DEF EngineInv, TypeInv, TypeOK, BackupInv
<1>2. CASE Ask
  <2>1. /\ Head1 \in Keys /\ events[Head1].workflow \in Workflows
        /\ RunWorkflow(events[Head1].workflow, Head1, "trigger")
    BY <1>2, HeadExists DEF Ask
  <2>2. RowsStep
    BY <2>1, RunWorkflowRows DEF EngineInv, RowsStep
  <2>3. worker'.phase = "idle" => worker'.run = None
    BY <1>1, <2>1 DEF RunWorkflow, Idle
  <2> QED
    BY <2>2, <2>3
<1>3. CASE Hear \/ TimeOut
  <2>1. runs' = runs
    BY <1>3 DEF Hear, TimeOut, tables
  <2>2. RowsStep
    BY <2>1 DEF RowsStep, SameRow
  <2>3. worker' = worker \/ \E c : worker' = [worker EXCEPT !.client = "other", !.ctx = c]
    BY <1>3 DEF Hear, TimeOut
  <2>4. worker'.phase = worker.phase /\ worker'.run = worker.run
    BY <1>1, <2>3 DEF Worker
  <2> QED
    BY <1>1, <2>2, <2>4
<1> QED
  BY <1>2, <1>3

LEMMA SchedulerKeepsHistory ==
    ASSUME EngineInv, ScheduleInv, HistoryInv, [SchedulerNext]_schedVars
    PROVE  HistoryInv'
<1>1. CASE [Next]_vars
  BY <1>1, NextKeepsOrphanFree, NextShown, NextKeepsDue, NextKeepsBackup DEF EngineInv, HistoryInv
<1>2. CASE Ask \/ Hear \/ TimeOut
  <2>1. UNCHANGED <<defs, targets, events, now>>
    BY <1>2, OnlyRuns
  <2>2. NoOrphanedWorkflow'
    BY <2>1 DEF HistoryInv, NoOrphanedWorkflow
  <2>3. ShownInv'
    BY <2>1 DEF HistoryInv, ShownInv, EntriesOK, ResultShown
  <2>4. DueInv'
    BY <2>1 DEF HistoryInv, DueInv, Behind
  <2>5. RowsStep /\ (worker'.phase = "idle" => worker'.run = None)
    BY <1>2, OnlyOneRun DEF HistoryInv
  <2>6. \A w \in Workflows : WithinLimits(w)'
    <3>1. \A w \in Workflows : EventsOf(w)' = EventsOf(w)
      BY <2>1 DEF EventsOf
    <3>2. \A w \in Workflows : IsFiniteSet(RunsOf(w))' /\ (Cardinality(RunsOf(w)) <= RunLimit)'
      BY <2>5, RunsWithinLimit DEF EngineInv, HistoryInv
    <3> QED
      BY <3>1, <3>2 DEF HistoryInv, BackupInv, WithinLimits
  <2>7. \A r \in RunIds : RunDated(r)'
    BY <2>5, RowsKeepDates DEF EngineInv, HistoryInv
  <2>8. /\ \A w \in Workflows : DefinitionKept(w)'
        /\ \A e \in EventIds : EventDated(e)'
    BY <2>1 DEF HistoryInv, BackupInv, DefinitionKept, EventDated, TriggerStateAccepted
  <2>9. BackupInv'
    BY <2>5, <2>6, <2>7, <2>8 DEF BackupInv
  <2> QED
    BY <2>2, <2>3, <2>4, <2>9 DEF HistoryInv
<1> QED
  BY <1>1, <1>2, EngineStep

LEMMA ScheduledHistory == SchedulerSpec => []HistoryInv
<1>1. SchedulerInit => HistoryInv
  <2>1. Init => NoOrphanedWorkflow
    BY DEF Init, NoOrphanedWorkflow, NoDefinition
  <2> QED
    BY <2>1, InitShown, InitDue, InitBackup DEF SchedulerInit, HistoryInv
<1>2. EngineInv /\ ScheduleInv /\ HistoryInv /\ [SchedulerNext]_schedVars => HistoryInv'
  BY SchedulerKeepsHistory
<1> QED
  BY <1>1, <1>2, ScheduleInvariant, PTL DEF SchedulerSpec

\* However often the scheduler reports, is refused and reports again after a restart, a
\* person sees a result once (WorkflowEngine.ShownOnce), and no workflow outlives its target.
THEOREM ScheduledShownOnce == SchedulerSpec => [](ShownOnce /\ NoOrphanedWorkflow)
<1>1. EngineInv /\ HistoryInv => ShownOnce /\ NoOrphanedWorkflow
  BY ShownImplies DEF EngineInv, HistoryInv
<1> QED
  BY <1>1, ScheduleInvariant, ScheduledHistory, PTL

\* The ticks of the scheduler catch up with a schedule by one run (WorkflowEngine.OneCatchUp),
\* however long the application slept, was down or waited for an answer.
THEOREM ScheduledCatchUp == SchedulerSpec => OneCatchUp
<1>1. ASSUME EngineInv, ScheduleInv, HistoryInv, [SchedulerNext]_schedVars
      PROVE  CatchUpStep
  <2>1. CASE [Next]_vars
    BY <1>1, <2>1, NextCatchesUp DEF EngineInv, HistoryInv
  <2>2. CASE Ask \/ Hear \/ TimeOut
    <3>1. defs' = defs
      BY <2>2, OnlyRuns
    <3> QED
      BY <3>1 DEF CatchUpStep
  <2> QED
    BY <1>1, <2>1, <2>2, EngineStep
<1> QED
  BY <1>1, ScheduleInvariant, ScheduledHistory, PTL DEF SchedulerSpec, OneCatchUp, CatchUpStep

\* What the scheduler has the engine write is restored like the rest (WorkflowBackup), at
\* any moment without a request under way.
THEOREM ScheduledBackupsRestore == SchedulerSpec => []QuietBackupRestores
<1>1. EngineInv /\ OrderedInv /\ HistoryInv => QuietBackupRestores
  BY QuietIsAccepted DEF EngineInv, OrderedInv, HistoryInv
<1> QED
  BY <1>1, ScheduleInvariant, ScheduledOrder, ScheduledHistory, PTL

\* A run of the scheduler has an owner too, unless one of the two known steps strands it
\* (WorkflowTriggers_proofs.Strands): giving up on a run leaves it to its handler.
THEOREM ScheduledRunsAreOwned == SchedulerSpec /\ [][~Strands]_vars => []RunsAreOwned
<1>1. SchedulerInit => OwnedInv
  BY DEF SchedulerInit, Init, NoRun, Owned, OwnedInv
<1>2. ASSUME EngineInv, ScheduleInv, OwnedInv, [SchedulerNext]_schedVars, [~Strands]_vars
      PROVE  OwnedInv'
  <2>1. CASE [Next]_vars
    BY <1>2, <2>1, NextOwned DEF EngineInv, OwnedInv
  <2>2. CASE Ask
    BY <1>2, <2>2, RunWorkflowOwned DEF Ask, EngineInv, OwnedInv
  <2>3. CASE Hear \/ TimeOut
    <3>1. UNCHANGED <<runs, approvals, up>> /\ worker \in Worker
      BY <1>2, <2>3 DEF Hear, TimeOut, tables, EngineInv, TypeInv, TypeOK
    <3>2. worker' = worker \/ \E c : worker' = [worker EXCEPT !.client = "other", !.ctx = c]
      BY <2>3 DEF Hear, TimeOut
    <3>3. worker'.phase = worker.phase /\ worker'.run = worker.run
      BY <3>1, <3>2 DEF Worker
    <3> QED
      BY <1>2, <3>1, <3>3 DEF OwnedInv, Owned, PendingApprovals
  <2> QED
    BY <1>2, <2>1, <2>2, <2>3, EngineStep
<1>3. OwnedInv => RunsAreOwned
  BY DEF Owned, OwnedInv, RunsAreOwned
<1> QED
  BY <1>1, <1>2, <1>3, ScheduleInvariant, PTL DEF SchedulerSpec
=============================================================================
