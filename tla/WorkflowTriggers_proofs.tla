---------------------- MODULE WorkflowTriggers_proofs ----------------------
(***************************************************************************)
(* Safety of definitions and of the trigger queue of WorkflowEngine, for   *)
(* every value of its constants that WorkflowAssumption allows.            *)
(***************************************************************************)
EXTENDS WorkflowRuns_proofs, WorkflowBackup, FiniteSetTheorems

-----------------------------------------------------------------------------
(* No active workflow loses its target or its thread.                      *)

\* The actions that touch neither definitions nor targets.
LEMMA OrphanFrame ==
    ASSUME NoOrphanedWorkflow, UNCHANGED <<defs, targets>>
    PROVE  NoOrphanedWorkflow'
BY DEF NoOrphanedWorkflow

\* Dropping or keeping definitions as they are never orphans one.
LEMMA RemoveTargetsKeeps ==
    ASSUME TypeInv, NoOrphanedWorkflow, NEW gone, NEW shrunk, NEW s \in Signatures,
           RemoveTargets(gone, shrunk, s)
    PROVE  NoOrphanedWorkflow'
<1> SUFFICES ASSUME NEW w \in Workflows, defs'[w].status = "active"
             PROVE  /\ targets'[TargetOf[w]].exists /\ targets'[TargetOf[w]].thread # "gone"
                    /\ defs'[w].bound
  BY DEF NoOrphanedWorkflow
<1>1. defs[w] \in Definition /\ TargetOf[w] \in Targets /\ targets[TargetOf[w]] \in Target
  BY ConstantTypes DEF TypeInv, TypeOK
<1>2. defs[w].status = "active" /\ TargetOf[w] \notin gone \cup shrunk
      /\ defs'[w].bound = defs[w].bound
  BY <1>1 DEF RemoveTargets, RetiredDefs, Definition
<1>3. targets'[TargetOf[w]] = targets[TargetOf[w]]
  BY <1>1, <1>2 DEF RemoveTargets
<1> QED
  BY <1>2, <1>3 DEF NoOrphanedWorkflow

LEMMA NextKeepsOrphanFree ==
    TypeInv /\ NoOrphanedWorkflow /\ [Next]_vars => NoOrphanedWorkflow'
<1> SUFFICES ASSUME TypeInv, NoOrphanedWorkflow, [Next]_vars
             PROVE  NoOrphanedWorkflow'
  OBVIOUS
<1>1. CASE Execute
  <2>1. UNCHANGED <<defs, targets>>
    BY <1>1 DEF Execute, SkipSucceeded, PauseForApproval, StartAttempt, RecordUnresolved,
                FinishRecord, StepSucceeds, StepFails, RetryOrClose, ResultOverBudget, FinishRun,
                Resume, DurableElsewhere
  <2> QED
    BY <2>1, OrphanFrame
<1>2. CASE UserRequest
  <2>1. ASSUME NEW w \in Workflows, NEW p \in Plans, NEW t \in Triggers, SaveWorkflow(w, p, t)
        PROVE  NoOrphanedWorkflow'
    BY <2>1 DEF SaveWorkflow, NoOrphanedWorkflow, TypeInv, TypeOK
  <2>2. ASSUME NEW w \in Workflows, DeleteWorkflow(w)
        PROVE  NoOrphanedWorkflow'
    BY <2>2 DEF DeleteWorkflow, NoOrphanedWorkflow, TypeInv, TypeOK, Definition
  <2>3. ASSUME NEW w \in Workflows, NEW k \in ManualKeys, RunWorkflow(w, k, "other")
        PROVE  NoOrphanedWorkflow'
    BY <2>3, OrphanFrame DEF RunWorkflow
  <2>4. ASSUME NEW t \in Targets, NEW s \in Signatures, NEW G \in SUBSET Groups,
               SaveGroup(t, s) \/ ActivateVersion(t, G, s)
        PROVE  NoOrphanedWorkflow'
    <3>1. defs' = defs /\ \A u \in Targets : /\ targets'[u].exists = targets[u].exists
                                             /\ targets'[u].thread = targets[u].thread
      <4>1. \A u \in Targets : targets[u] \in Target
        BY DEF TypeInv, TypeOK
      <4>2. CASE SaveGroup(t, s)
        BY <4>1, <4>2 DEF SaveGroup, TypeInv, TypeOK, Target
      <4>3. CASE ActivateVersion(t, G, s)
        BY <4>1, <4>3 DEF ActivateVersion, Target
      <4> QED
        BY <2>4, <4>2, <4>3
    <3> QED
      BY <3>1, ConstantTypes DEF NoOrphanedWorkflow
  <2>5. ASSUME NEW gone \in SUBSET Targets, NEW shrunk \in SUBSET Targets, NEW s \in Signatures,
               RemoveTargets(gone, shrunk, s)
        PROVE  NoOrphanedWorkflow'
    BY <2>5, RemoveTargetsKeeps
  <2>6. ASSUME NEW t \in Archivable, ArchiveThread(t)
        PROVE  NoOrphanedWorkflow'
    <3>1. defs' = defs /\ \A u \in Targets :
              /\ targets'[u].exists = targets[u].exists
              /\ targets[u].thread # "gone" => targets'[u].thread # "gone"
      BY <2>6 DEF ArchiveThread, TypeInv, TypeOK, Target
    <3> QED
      BY <3>1, ConstantTypes DEF NoOrphanedWorkflow
  <2>7. ASSUME NEW t \in Archivable, DeleteThread(t)
        PROVE  NoOrphanedWorkflow'
    <3>1. defs' = defs /\ \A u \in Targets : u # t => targets'[u] = targets[u]
      BY <2>7 DEF DeleteThread, TypeInv, TypeOK
    <3>2. \A w \in Workflows : defs[w].status = "active" => TargetOf[w] # t
      BY <2>7 DEF DeleteThread, NoOrphanedWorkflow
    <3> QED
      BY <3>1, <3>2, ConstantTypes DEF NoOrphanedWorkflow
  <2>8. ASSUME NEW S \in SUBSET OverdueApprovals, ExpireApprovals(S)
        PROVE  NoOrphanedWorkflow'
    BY <2>8, OrphanFrame DEF ExpireApprovals
  <2>9. ASSUME NEW r \in RunIds, NEW o \in Ordinals, NEW d \in {"approved", "rejected"},
               Approve(r, o) \/ CloseDecision(r, o, d)
        PROVE  NoOrphanedWorkflow'
    BY <2>9, OrphanFrame DEF Approve, CloseDecision
  <2> QED
    BY <1>2, <2>1, <2>2, <2>3, <2>4, <2>5, <2>6, <2>7, <2>8, <2>9 DEF UserRequest
<1>3. CASE TriggerRequest
  <2>1. CASE ClaimDue
    <3>1. targets' = targets /\ \A w \in Workflows : /\ defs'[w].status = defs[w].status
                                                     /\ defs'[w].bound = defs[w].bound
      <4>1. \A w \in Workflows : defs[w] \in Definition
        BY DEF TypeInv, TypeOK
      <4>2. defs' = [w \in Workflows |->
               IF ~IsDue(w) THEN defs[w]
               ELSE IF defs[w].trigger \in Scheduled
                    THEN [defs[w] EXCEPT !.nextDue = NextDue(defs[w].trigger, now)]
                    ELSE [defs[w] EXCEPT !.signature = targets[TargetOf[w]].signature]]
            /\ targets' = targets
        BY <2>1 DEF ClaimDue
      <4> QED
        BY <4>1, <4>2 DEF Definition
    <3> QED
      BY <3>1 DEF NoOrphanedWorkflow
  <2>2. ASSUME NEW e \in EventIds, RunWorkflow(events[e].workflow, e, "other")
        PROVE  NoOrphanedWorkflow'
    BY <2>2, OrphanFrame DEF RunWorkflow
  <2>3. ASSUME NEW e \in EventIds, NEW s \in TerminalStatus, NEW k \in Keys \cup {None},
               FinishTrigger(e, s, k)
        PROVE  NoOrphanedWorkflow'
    <3>1. defs' = defs /\ \A u \in Targets : /\ targets'[u].exists = targets[u].exists
                                             /\ targets'[u].thread = targets[u].thread
      BY <2>3 DEF FinishTrigger, TypeInv, TypeOK, Target
    <3> QED
      BY <3>1, ConstantTypes DEF NoOrphanedWorkflow
  <2> QED
    BY <1>3, <2>1, <2>2, <2>3 DEF TriggerRequest
<1>4. CASE Environment \/ Crash \/ Restart
  BY <1>4, OrphanFrame DEF Environment, Tick, BecomeOverdue, Interrupt, Crash, Restart, tables
<1>5. CASE UNCHANGED vars
  BY <1>5, OrphanFrame DEF vars, tables
<1> QED
  BY <1>1, <1>2, <1>3, <1>4, <1>5 DEF Next

\* An active workflow always has the target and the conversation thread it delivers into:
\* neither deletion, nor retention, nor a change of its group takes them from under it.
THEOREM NeverOrphaned == Spec => []NoOrphanedWorkflow
<1>1. Init => NoOrphanedWorkflow
  BY DEF Init, NoOrphanedWorkflow, NoDefinition
<1>2. TypeInv /\ NoOrphanedWorkflow /\ [Next]_vars => NoOrphanedWorkflow'
  BY NextKeepsOrphanFree
<1> QED
  BY <1>1, <1>2, TypeInvariant, PTL DEF Spec

-----------------------------------------------------------------------------
(* The queue and the runs it names.                                        *)

\* TriggerEvidence for one event.  What makes it inductive: an event that may still change
\* names no run, and the run a finished one names has ended, so its status stays.
EventOK(e) ==
    LET v == events[e] IN
    /\ v.status = "pending" =>
           /\ defs[v.workflow].status = "active"
           /\ defs[v.workflow].version = v.version /\ defs[v.workflow].trigger = v.kind
    /\ v.status \in {"absent", "pending"} => v.run = None
    /\ v.status = "succeeded" => v.run # None
    /\ v.run # None => /\ v.run \in Keys /\ v.status \in TerminalStatus
                       /\ runs[<<v.workflow, v.run>>].status = v.status

EventInv == \A e \in EventIds : EventOK(e)

\* What an event is about, in a definition.
SameTrigger(w) == /\ defs'[w].status = defs[w].status /\ defs'[w].version = defs[w].version
                  /\ defs'[w].trigger = defs[w].trigger

\* A row that is not written stays right: the run it names has ended for good.
LEMMA EventKept ==
    ASSUME TypeInv, EventInv, \A r \in RunIds : RunFinal(r), NEW e \in EventIds,
           events'[e] = events[e],
           events[e].status = "pending" => SameTrigger(events[e].workflow)
    PROVE  EventOK(e)'
<1>1. EventOK(e)
  BY DEF EventInv
<1>2. ASSUME events[e].run # None
      PROVE  runs'[<<events[e].workflow, events[e].run>>].status = events[e].status
  <2>1. /\ events[e].run \in Keys /\ events[e].status \in TerminalStatus
        /\ runs[<<events[e].workflow, events[e].run>>].status = events[e].status
    BY <1>1, <1>2 DEF EventOK
  <2>2. events[e].workflow \in Workflows
    BY <2>1 DEF TypeInv, WellFormed, TerminalStatus
  <2>3. <<events[e].workflow, events[e].run>> \in RunIds
    BY <2>1, <2>2 DEF RunIds
  <2> QED
    BY <2>1, <2>3 DEF RunFinal
<1> QED
  BY <1>1, <1>2 DEF EventOK, SameTrigger

\* Cancelling what the workflows of W have queued, when no other workflow's trigger changes.
LEMMA CancelKeepsQueue ==
    ASSUME TypeInv, EventInv, \A r \in RunIds : RunFinal(r), NEW W, CancelPending(W),
           \A w \in Workflows : w \notin W => SameTrigger(w)
    PROVE  EventInv'
<1> SUFFICES ASSUME NEW e \in EventIds PROVE EventOK(e)'
  BY DEF EventInv
<1>1. CASE events[e].status = "pending" /\ events[e].workflow \in W
  <2>1. events'[e].status = "cancelled" /\ events'[e].run = None
    BY <1>1 DEF CancelPending, TypeInv, TypeOK, Event, EventInv, EventOK
  <2> QED
    BY <2>1 DEF EventOK
<1>2. CASE ~(events[e].status = "pending" /\ events[e].workflow \in W)
  <2>1. events'[e] = events[e]
    BY <1>2 DEF CancelPending
  <2>2. events[e].status = "pending" => SameTrigger(events[e].workflow)
    BY <1>2 DEF TypeInv, WellFormed
  <2> QED
    BY <2>1, <2>2, EventKept
<1> QED
  BY <1>1, <1>2

\* Saving, deleting and retiring cancel what they make stale.
LEMMA RetirementKeepsQueue ==
    ASSUME TypeInv, EventInv, \A r \in RunIds : RunFinal(r),
           \/ \E w \in Workflows : \/ \E p \in Plans, t \in Triggers : SaveWorkflow(w, p, t)
                                   \/ DeleteWorkflow(w)
           \/ \E gone, shrunk \in SUBSET Targets, s \in Signatures : RemoveTargets(gone, shrunk, s)
    PROVE  EventInv'
<1>1. ASSUME NEW w \in Workflows, NEW p, NEW t, SaveWorkflow(w, p, t) \/ DeleteWorkflow(w)
      PROVE  EventInv'
  <2>1. CancelPending({w}) /\ \A v \in Workflows : v \notin {w} => defs'[v] = defs[v]
    BY <1>1 DEF SaveWorkflow, DeleteWorkflow, TypeInv, TypeOK
  <2> QED
    BY <2>1, CancelKeepsQueue DEF SameTrigger
<1>2. ASSUME NEW gone, NEW shrunk, NEW s, RemoveTargets(gone, shrunk, s)
      PROVE  EventInv'
  <2> DEFINE affected == {w \in Workflows : TargetOf[w] \in gone \cup shrunk}
  <2>1. CancelPending(affected)
    BY <1>2 DEF RemoveTargets
  <2>2. ASSUME NEW w \in Workflows, w \notin affected
        PROVE  SameTrigger(w)
    <3>1. defs[w] \in Definition
      BY DEF TypeInv, TypeOK
    <3> QED
      BY <1>2, <2>2, <3>1 DEF RemoveTargets, RetiredDefs, Definition, SameTrigger
  <2> HIDE DEF affected
  <2> QED
    BY <2>1, <2>2, CancelKeepsQueue
<1> QED
  BY <1>1, <1>2

\* A claim queues what is active now, under the version and the trigger it has now.
LEMMA ClaimKeepsQueue ==
    ASSUME TypeInv, EventInv, \A r \in RunIds : RunFinal(r), ClaimDue
    PROVE  EventInv'
<1> DEFINE due   == {w \in Workflows : IsDue(w)}
           fresh == {w \in due : ~AlreadyQueued(w)}
           free  == {f \in EventIds : events[f].status = "absent"}
           new(w) == [NoEvent EXCEPT !.status = "pending", !.workflow = w,
                          !.version = defs[w].version, !.kind = defs[w].trigger,
                          !.key = DedupeKey(w),
                          !.due = IF defs[w].trigger \in Scheduled
                                  THEN defs[w].nextDue ELSE now]
<1>1. PICK id \in [fresh -> free] : events' = [f \in EventIds |->
          IF \E w \in fresh : id[w] = f
          THEN new(CHOOSE x \in fresh : id[x] = f) ELSE events[f]]
  BY DEF ClaimDue
<1>2. ASSUME NEW w \in Workflows
      PROVE  SameTrigger(w)
  <2>1. defs[w] \in Definition
    BY DEF TypeInv, TypeOK
  <2>2. defs'[w] = IF ~IsDue(w) THEN defs[w]
                   ELSE IF defs[w].trigger \in Scheduled
                        THEN [defs[w] EXCEPT !.nextDue = NextDue(defs[w].trigger, now)]
                        ELSE [defs[w] EXCEPT !.signature = targets[TargetOf[w]].signature]
    BY DEF ClaimDue
  <2> QED
    BY <2>1, <2>2 DEF SameTrigger, Definition
<1>3. ASSUME NEW e \in EventIds
      PROVE  EventOK(e)'
  <2>1. CASE ~\E w \in fresh : id[w] = e
    <3>1. events'[e] = events[e]
      BY <1>1, <2>1
    <3>2. events[e].status = "pending" => SameTrigger(events[e].workflow)
      BY <1>2 DEF TypeInv, WellFormed
    <3> QED
      BY <3>1, <3>2, EventKept
  <2>2. CASE \E w \in fresh : id[w] = e
    <3> DEFINE v == CHOOSE x \in fresh : id[x] = e
    <3>1. events'[e] = new(v)
      BY <1>1, <2>2
    <3>2. v \in Workflows /\ IsDue(v)
      BY <2>2
    <3> HIDE DEF v
    <3>3. /\ events'[e].status = "pending" /\ events'[e].workflow = v
          /\ events'[e].version = defs[v].version /\ events'[e].kind = defs[v].trigger
          /\ events'[e].run = None
      BY <3>1 DEF NoEvent
    <3>4. defs[v].status = "active" /\ SameTrigger(v)
      BY <1>2, <3>2 DEF IsDue
    <3> QED
      BY <3>3, <3>4 DEF EventOK, SameTrigger
  <2> QED
    BY <2>1, <2>2
<1> QED
  BY <1>3 DEF EventInv

\* A trigger is finished with a run that ended the way that is reported.
LEMMA FinishKeepsQueue ==
    ASSUME TypeInv, EventInv, \A r \in RunIds : RunFinal(r),
           NEW e0 \in EventIds, NEW s \in TerminalStatus, NEW k \in Keys \cup {None},
           FinishTrigger(e0, s, k)
    PROVE  EventInv'
<1> SUFFICES ASSUME NEW e \in EventIds PROVE EventOK(e)'
  BY DEF EventInv
<1>1. UNCHANGED <<defs, runs>> /\ events[e0].status = "pending" /\ RunMatches(e0, s, k)
  BY DEF FinishTrigger, CanFinish
<1>2. CASE e # e0
  <2>1. events'[e] = events[e]
    BY <1>2 DEF FinishTrigger, TypeInv, TypeOK
  <2> QED
    BY <1>1, <2>1, EventKept DEF SameTrigger
<1>3. CASE e = e0
  <2>1. /\ events'[e].status = s /\ events'[e].run = k
        /\ events'[e].workflow = events[e].workflow
    BY <1>3 DEF FinishTrigger, TypeInv, TypeOK, Event
  <2> QED
    BY <1>1, <1>3, <2>1 DEF EventOK, RunMatches, TerminalStatus
<1> QED
  BY <1>2, <1>3

LEMMA NextKeepsQueue ==
    ASSUME TypeInv, AuditInv, EventInv, [Next]_vars
    PROVE  EventInv'
<1>1. \A r \in RunIds : RunFinal(r)
  BY NextAudited
<1>2. CASE UNCHANGED <<defs, events>>
  BY <1>1, <1>2, EventKept DEF SameTrigger, EventInv
<1>3. CASE Execute \/ Environment \/ Crash \/ Restart
  BY <1>2, <1>3 DEF Execute, SkipSucceeded, PauseForApproval, StartAttempt, RecordUnresolved,
     FinishRecord, StepSucceeds, StepFails, RetryOrClose, ResultOverBudget, FinishRun, Resume,
     DurableElsewhere, Environment, Tick, BecomeOverdue, Interrupt, Crash, Restart, tables
<1>4. CASE UserRequest
  BY <1>1, <1>2, <1>4, RetirementKeepsQueue DEF UserRequest, RunWorkflow, SaveGroup,
     ActivateVersion, ArchiveThread, DeleteThread, ExpireApprovals, Approve, CloseDecision
<1>5. CASE TriggerRequest
  BY <1>1, <1>2, <1>5, ClaimKeepsQueue, FinishKeepsQueue DEF TriggerRequest, RunWorkflow
<1> QED
  BY <1>2, <1>3, <1>4, <1>5 DEF Next, vars, tables

LEMMA EventInvariant == Spec => []EventInv
<1>1. Init => EventInv
  BY DEF Init, EventInv, EventOK, NoEvent
<1>2. TypeInv /\ AuditInv /\ EventInv /\ [Next]_vars => EventInv'
  BY NextKeepsQueue
<1> QED
  BY <1>1, <1>2, TypeInvariant, AuditInvariant, PTL DEF Spec

\* What is queued may always still run, under the version and the trigger it was queued
\* for, and what is finished agrees with the run it names, for good.
THEOREM QueueAgrees == Spec => []TriggerEvidence
<1>1. EventInv => TriggerEvidence
  BY DEF EventInv, EventOK, TriggerEvidence
<1> QED
  BY <1>1, EventInvariant, PTL

-----------------------------------------------------------------------------
(* What is shown in the conversations.                                     *)

\* A conversation shows an event once, after it came to its end, and only the
\* conversation of its workflow does.
EntriesOK(t) ==
    LET shown == targets[t].entries IN
    /\ \A i, j \in 1..Len(shown) : shown[i] = shown[j] => i = j
    /\ \A i \in 1..Len(shown) : /\ events[shown[i]].status \in TerminalStatus
                                /\ TargetOf[events[shown[i]].workflow] = t

\* A result is in the conversation of its workflow for as long as there is one.
ResultShown(e) ==
    LET t == targets[TargetOf[events[e].workflow]] IN
    events[e].status \in {"succeeded", "failed"} =>
        t.thread = "gone" \/ \E i \in 1..Len(t.entries) : t.entries[i] = e

ShownInv == /\ \A t \in Targets : EntriesOK(t)
            /\ \A e \in EventIds : ResultShown(e)

\* A step that reports nothing leaves each conversation as it is, or removes it.
Unreported ==
    /\ \A t \in Targets : \/ /\ targets'[t].entries = targets[t].entries
                             /\ targets[t].thread = "gone" => targets'[t].thread = "gone"
                          \/ targets'[t].entries = <<>> /\ targets'[t].thread = "gone"
    /\ \A e \in EventIds : events'[e].status \in {"succeeded", "failed"} =>
                               events'[e] = events[e]

LEMMA UnreportedKeepsShown ==
    ASSUME TypeInv, ShownInv, Unreported,
           \A e \in EventIds : events[e].status \in TerminalStatus => events'[e] = events[e]
    PROVE  ShownInv'
<1>1. ASSUME NEW t \in Targets
      PROVE  EntriesOK(t)'
  <2>1. CASE targets'[t].entries = targets[t].entries
    <3>1. EntriesOK(t) /\ targets[t].entries \in Seq(EventIds)
      BY DEF ShownInv, TypeInv, TypeOK, Target
    <3>2. \A i \in 1..Len(targets[t].entries) : targets[t].entries[i] \in EventIds
      BY <3>1
    <3> QED
      BY <2>1, <3>1, <3>2 DEF EntriesOK
  <2>2. CASE targets'[t].entries = <<>>
    BY <2>2 DEF EntriesOK
  <2> QED
    BY <2>1, <2>2 DEF Unreported
<1>2. ASSUME NEW e \in EventIds, events'[e].status \in {"succeeded", "failed"}
      PROVE  ResultShown(e)'
  <2>1. events'[e] = events[e] /\ events[e].workflow \in Workflows
    BY <1>2 DEF Unreported, TypeInv, WellFormed
  <2>2. TargetOf[events[e].workflow] \in Targets
    BY <2>1, ConstantTypes
  <2> QED
    BY <1>2, <2>1, <2>2 DEF ShownInv, ResultShown, Unreported
<1> QED
  BY <1>1, <1>2 DEF ShownInv, ResultShown

\* A report writes the one entry that its event has not had.
LEMMA ReportKeepsShown ==
    ASSUME TypeInv, ShownInv, NEW e0 \in EventIds, NEW s \in TerminalStatus,
           NEW k \in Keys \cup {None}, FinishTrigger(e0, s, k)
    PROVE  ShownInv'
<1> DEFINE t0  == TargetOf[events[e0].workflow]
           old == targets[t0].entries
<1>1. events[e0].status = "pending" /\ events[e0].workflow \in Workflows /\ t0 \in Targets
  BY ConstantTypes DEF FinishTrigger, CanFinish, TypeInv, WellFormed
<1>2. /\ targets' = [targets EXCEPT ![t0].entries = Append(old, e0)]
      /\ events' = [events EXCEPT ![e0].status = s, ![e0].run = k]
  BY DEF FinishTrigger
<1>3. targets[t0] \in Target /\ events[e0] \in Event /\ old \in Seq(EventIds)
  BY <1>1 DEF TypeInv, TypeOK, Target
<1> HIDE DEF t0
<1>4. /\ targets'[t0].entries = Append(old, e0)
      /\ \A t \in Targets : t # t0 => targets'[t] = targets[t]
      /\ \A t \in Targets : targets'[t].thread = targets[t].thread
  BY <1>1, <1>2, <1>3 DEF TypeInv, TypeOK, Target
<1>5. /\ events'[e0].status = s /\ events'[e0].workflow = events[e0].workflow
      /\ \A e \in EventIds : e # e0 => events'[e] = events[e]
  BY <1>2, <1>3 DEF TypeInv, TypeOK, Event
<1>6. \A t \in Targets : \A i \in 1..Len(targets[t].entries) :
          targets[t].entries[i] \in EventIds /\ targets[t].entries[i] # e0
  <2>1. \A t \in Targets : targets[t].entries \in Seq(EventIds)
    BY DEF TypeInv, TypeOK, Target
  <2> QED
    BY <1>1, <2>1 DEF ShownInv, EntriesOK, TerminalStatus
<1>7. /\ Len(Append(old, e0)) = Len(old) + 1 /\ Len(old) \in Nat
      /\ Append(old, e0)[Len(old) + 1] = e0
      /\ \A i \in 1..Len(old) : Append(old, e0)[i] = old[i]
  BY <1>3
<1>8. ASSUME NEW t \in Targets
      PROVE  EntriesOK(t)'
  <2>1. CASE t # t0
    BY <1>4, <1>5, <1>6, <2>1 DEF ShownInv, EntriesOK
  <2>2. CASE t = t0
    <3> DEFINE new == Append(old, e0)
    <3>1. \A i \in 1..Len(new) : i = Len(old) + 1 \/ i \in 1..Len(old)
      BY <1>7
    <3>2. \A i \in 1..Len(old) : /\ new[i] = old[i] /\ new[i] # e0 /\ new[i] \in EventIds
                                 /\ events'[new[i]] = events[old[i]]
      BY <1>1, <1>5, <1>6, <1>7
    <3>3. \A i, j \in 1..Len(old) : old[i] = old[j] => i = j
      BY <1>1 DEF ShownInv, EntriesOK
    <3>4. \A i \in 1..Len(old) : /\ events[old[i]].status \in TerminalStatus
                                 /\ TargetOf[events[old[i]].workflow] = t0
      BY <1>1 DEF ShownInv, EntriesOK
    <3>5. new[Len(old) + 1] = e0 /\ TargetOf[events'[e0].workflow] = t0
          /\ events'[e0].status \in TerminalStatus
      BY <1>5, <1>7 DEF t0
    <3>6. targets'[t].entries = new
      BY <1>4, <2>2
    <3> HIDE DEF new, old
    <3>7. \A i, j \in 1..Len(new) : new[i] = new[j] => i = j
      BY <3>1, <3>2, <3>3, <3>5
    <3>8. \A i \in 1..Len(new) : /\ events'[new[i]].status \in TerminalStatus
                                 /\ TargetOf[events'[new[i]].workflow] = t0
      BY <3>1, <3>2, <3>4, <3>5
    <3> QED
      BY <2>2, <3>6, <3>7, <3>8 DEF EntriesOK
  <2> QED
    BY <2>1, <2>2
<1>9. ASSUME NEW e \in EventIds
      PROVE  ResultShown(e)'
  <2>1. CASE e = e0
    <3>1. Len(old) + 1 \in 1..Len(Append(old, e0))
      BY <1>7
    <3>2. \E i \in 1..Len(targets'[t0].entries) : targets'[t0].entries[i] = e0
      BY <1>4, <1>7, <3>1
    <3> HIDE DEF old
    <3>3. TargetOf[events'[e].workflow] = t0
      BY <1>5, <2>1 DEF t0
    <3> QED
      BY <2>1, <3>2, <3>3 DEF ResultShown
  <2>2. CASE e # e0
    <3>1. events'[e] = events[e] /\ ResultShown(e)
      BY <1>5, <2>2 DEF ShownInv
    <3>2. CASE TargetOf[events[e].workflow] # t0
      <4>1. events[e].status # "absent" => TargetOf[events[e].workflow] \in Targets
        BY ConstantTypes DEF TypeInv, WellFormed
      <4> QED
        BY <1>4, <3>1, <3>2, <4>1 DEF ResultShown
    <3>3. CASE TargetOf[events[e].workflow] = t0
      <4>1. \A i \in 1..Len(old) : i \in 1..Len(Append(old, e0)) /\ Append(old, e0)[i] = old[i]
        BY <1>7
      <4> QED
        BY <1>1, <1>4, <3>1, <3>3, <4>1 DEF ResultShown
    <3> QED
      BY <3>2, <3>3
  <2> QED
    BY <2>1, <2>2
<1> QED
  BY <1>8, <1>9 DEF ShownInv

\* A claim makes pending events.
LEMMA ClaimUnreported ==
    ASSUME ClaimDue
    PROVE  Unreported
<1> DEFINE due   == {w \in Workflows : IsDue(w)}
           fresh == {w \in due : ~AlreadyQueued(w)}
           free  == {f \in EventIds : events[f].status = "absent"}
           new(w) == [NoEvent EXCEPT !.status = "pending", !.workflow = w,
                          !.version = defs[w].version, !.kind = defs[w].trigger,
                          !.key = DedupeKey(w),
                          !.due = IF defs[w].trigger \in Scheduled
                                  THEN defs[w].nextDue ELSE now]
<1>1. targets' = targets
  BY Zenon DEF ClaimDue
<1>2. PICK id \in [fresh -> free] : events' = [f \in EventIds |->
          IF \E w \in fresh : id[w] = f
          THEN new(CHOOSE x \in fresh : id[x] = f) ELSE events[f]]
  BY Zenon DEF ClaimDue
<1>3. \A w : new(w).status = "pending"
  BY DEF NoEvent
<1> HIDE DEF new, fresh
<1> QED
  BY <1>1, <1>2, <1>3 DEF Unreported

\* Cancelling, claiming and everything that is done to targets report nothing.
LEMMA NextUnreported ==
    ASSUME TypeInv, [Next]_vars,
           ~\E e \in EventIds, s \in TerminalStatus, k \in Keys \cup {None} : FinishTrigger(e, s, k)
    PROVE  Unreported
<1>1. CASE UNCHANGED <<targets, events>>
  BY <1>1 DEF Unreported
<1>2. CASE Execute \/ Environment \/ Crash \/ Restart \/ UNCHANGED vars
  BY <1>1, <1>2 DEF Execute, SkipSucceeded, PauseForApproval, StartAttempt, RecordUnresolved,
     FinishRecord, StepSucceeds, StepFails, RetryOrClose, ResultOverBudget, FinishRun, Resume,
     DurableElsewhere, Environment, Tick, BecomeOverdue, Interrupt, Crash, Restart, vars, tables
<1>3. ASSUME NEW W, CancelPending(W), NEW e \in EventIds, events'[e].status \in {"succeeded", "failed"}
      PROVE  events'[e] = events[e]
  <2>1. events[e] \in Event
    BY DEF TypeInv, TypeOK
  <2> QED
    BY <1>3, <2>1 DEF CancelPending, Event
<1>4. ASSUME NEW w \in Workflows, NEW p, NEW t, SaveWorkflow(w, p, t) \/ DeleteWorkflow(w)
      PROVE  Unreported
  BY <1>3, <1>4 DEF SaveWorkflow, DeleteWorkflow, Unreported
<1>5. ASSUME NEW gone, NEW shrunk, NEW s, RemoveTargets(gone, shrunk, s)
      PROVE  Unreported
  <2>1. \A t \in Targets : targets[t] \in Target
    BY DEF TypeInv, TypeOK
  <2>2. \E W : CancelPending(W)
    BY <1>5, Zenon DEF RemoveTargets
  <2>3. targets' = [t \in Targets |->
            IF t \in gone THEN [targets[t] EXCEPT !.exists = FALSE, !.thread = "gone",
                                                  !.entries = <<>>]
            ELSE IF t \in shrunk THEN [targets[t] EXCEPT !.signature = s]
            ELSE targets[t]]
    BY <1>5, Zenon DEF RemoveTargets
  <2>4. \A t \in Targets : \/ /\ targets'[t].entries = targets[t].entries
                              /\ targets[t].thread = "gone" => targets'[t].thread = "gone"
                           \/ targets'[t].entries = <<>> /\ targets'[t].thread = "gone"
    BY <2>1, <2>3 DEF Target
  <2>5. \A e \in EventIds : events'[e].status \in {"succeeded", "failed"} =>
                                events'[e] = events[e]
    BY <1>3, <2>2
  <2> QED
    BY <2>4, <2>5 DEF Unreported
<1>6. ASSUME NEW t \in Targets, NEW G, NEW s,
             SaveGroup(t, s) \/ ActivateVersion(t, G, s) \/ ArchiveThread(t) \/ DeleteThread(t)
      PROVE  Unreported
  <2>1. \A u \in Targets : targets[u] \in Target
    BY DEF TypeInv, TypeOK
  <2>2. events' = events
    BY <1>6 DEF SaveGroup, ActivateVersion, ArchiveThread, DeleteThread
  <2>3. \A u \in Targets : \/ /\ targets'[u].entries = targets[u].entries
                              /\ targets[u].thread = "gone" => targets'[u].thread = "gone"
                           \/ targets'[u].entries = <<>> /\ targets'[u].thread = "gone"
    <3>1. CASE SaveGroup(t, s)
      BY <2>1, <3>1 DEF SaveGroup, Target, TypeInv, TypeOK
    <3>2. CASE ActivateVersion(t, G, s)
      BY <2>1, <3>2 DEF ActivateVersion, Target
    <3>3. CASE ArchiveThread(t)
      BY <2>1, <3>3 DEF ArchiveThread, Target, TypeInv, TypeOK
    <3>4. CASE DeleteThread(t)
      BY <2>1, <3>4 DEF DeleteThread, Target, TypeInv, TypeOK
    <3> QED
      BY <1>6, <3>1, <3>2, <3>3, <3>4
  <2> QED
    BY <2>2, <2>3 DEF Unreported
<1>7. CASE ClaimDue
  BY <1>7, ClaimUnreported
<1>8. CASE UserRequest
  <2>1. Archivable \subseteq Targets
    BY WorkflowAssumption
  <2>2. ASSUME NEW S, NEW r, NEW o, NEW d, NEW w, NEW k,
               \/ ExpireApprovals(S) \/ Approve(r, o) \/ CloseDecision(r, o, d)
               \/ RunWorkflow(w, k, "other")
        PROVE  Unreported
    BY <1>1, <2>2 DEF ExpireApprovals, Approve, CloseDecision, RunWorkflow
  <2> QED
    BY <1>4, <1>5, <1>6, <1>8, <2>1, <2>2 DEF UserRequest
<1>9. CASE TriggerRequest
  <2>1. ASSUME NEW w, NEW k, RunWorkflow(w, k, "other")
        PROVE  Unreported
    BY <1>1, <2>1 DEF RunWorkflow
  <2> QED
    BY <1>7, <1>9, <2>1 DEF TriggerRequest
<1> QED
  BY <1>2, <1>8, <1>9 DEF Next

LEMMA InitShown == Init => ShownInv
<1> SUFFICES ASSUME Init PROVE ShownInv
  OBVIOUS
<1>1. \A t \in Targets : targets[t].entries = <<>>
  BY DEF Init
<1>2. \A e \in EventIds : events[e].status = "absent"
  BY DEF Init, NoEvent
<1> QED
  BY <1>1, <1>2 DEF ShownInv, EntriesOK, ResultShown

LEMMA NextShown == TypeInv /\ ShownInv /\ [Next]_vars => ShownInv'
BY EventsFinal, ReportKeepsShown, NextUnreported, UnreportedKeepsShown

LEMMA ShownInvariant == Spec => []ShownInv
BY InitShown, NextShown, TypeInvariant, PTL DEF Spec

LEMMA ShownImplies == TypeInv /\ ShownInv => ShownOnce
<1>1. ASSUME TypeInv, ShownInv
      PROVE  ShownOnce
  <2> SUFFICES ASSUME NEW e \in EventIds, events[e].status # "absent"
               PROVE  LET t == targets[TargetOf[events[e].workflow]]
                          shown == Cardinality({i \in DOMAIN t.entries : t.entries[i] = e}) IN
                      /\ shown <= 1
                      /\ events[e].status \in {"succeeded", "failed"} =>
                             t.thread = "gone" \/ shown = 1
                      /\ events[e].status = "pending" => shown = 0
    BY DEF ShownOnce
  <2> DEFINE u  == TargetOf[events[e].workflow]
             es == targets[u].entries
             at == {i \in DOMAIN es : es[i] = e}
  <2>1. u \in Targets
    BY <1>1, ConstantTypes DEF TypeInv, WellFormed
  <2>2. es \in Seq(EventIds) /\ EntriesOK(u) /\ ResultShown(e)
    BY <1>1, <2>1 DEF ShownInv, TypeInv, TypeOK, Target
  <2>3. DOMAIN es = 1..Len(es)
    BY <2>2
  <2>4. \A i, j \in at : i = j
    <3>1. \A i, j \in 1..Len(es) : es[i] = es[j] => i = j
      BY <2>2 DEF EntriesOK
    <3> HIDE DEF es
    <3> QED
      BY <2>3, <3>1
  <2>5. at = {} \/ \E i \in at : at = {i}
    BY <2>4
  <2>6. (at = {} /\ Cardinality(at) = 0) \/ (at # {} /\ Cardinality(at) = 1)
    <3>1. CASE at = {}
      BY <3>1, FS_EmptySet
    <3>2. CASE \E i \in at : at = {i}
      <4> HIDE DEF at
      <4>1. PICK i \in at : at = {i}
        BY <3>2
      <4> QED
        BY <4>1, FS_Singleton
    <3> HIDE DEF at
    <3> QED
      BY <2>5, <3>1, <3>2
  <2>7. events[e].status \in {"succeeded", "failed"} => targets[u].thread = "gone" \/ at # {}
    BY <2>2, <2>3 DEF ResultShown
  <2>8. events[e].status = "pending" => at = {}
    <3>1. \A i \in 1..Len(es) : events[es[i]].status \in TerminalStatus
      BY <2>2 DEF EntriesOK
    <3> HIDE DEF es
    <3> QED
      BY <2>3, <3>1 DEF TerminalStatus
  <2> QED
    <3> HIDE DEF at
    <3>1. Cardinality(at) <= 1
      BY <2>6
    <3>2. /\ events[e].status \in {"succeeded", "failed"} =>
                 targets[u].thread = "gone" \/ Cardinality(at) = 1
          /\ events[e].status = "pending" => Cardinality(at) = 0
      BY <2>6, <2>7, <2>8
    <3> QED
      BY <3>1, <3>2 DEF at
<1> QED
  BY <1>1

\* A person sees the result of a trigger once, whatever reports are repeated, refused or
\* late, and whatever happens to the workflow meanwhile.
THEOREM ResultsShownOnce == Spec => []ShownOnce
BY ShownImplies, TypeInvariant, ShownInvariant, PTL

-----------------------------------------------------------------------------
(* Due times.                                                              *)

\* The next due time is strictly later, also for a calendar mark that is now.
LEMMA NextDueLater ==
    ASSUME NEW kind, NEW t \in Nat
    PROVE  NextDue(kind, t) > t
<1>1. Every \in Nat \ {0}
  BY WorkflowAssumption
<1>2. (t \div Every + 1) * Every > t
  BY <1>1, Z3
<1> QED
  BY <1>1, <1>2 DEF NextDue

\* What has been queued for a due time lies behind the due time that is to come.
Behind(e) ==
    /\ events[e].status = "absent" => events[e].workflow = None
    /\ events[e].status # "absent" /\ events[e].kind \in Scheduled =>
           LET d == defs[events[e].workflow] IN
           /\ events[e].key <= now
           /\ d.status = "active" /\ d.trigger \in Scheduled => events[e].key < d.nextDue

DueInv == \A e \in EventIds : Behind(e)

\* A due time changes by a claim, or with the version of its definition.
SameDue(w) == /\ defs'[w].trigger = defs[w].trigger /\ defs'[w].nextDue = defs[w].nextDue
              /\ defs'[w].status = "active" => defs[w].status = "active"

\* A step that queues nothing and moves no due time but by a save.
LEMMA UnclaimedKeepsDue ==
    ASSUME TypeInv, DueInv, now' \in Nat, now' >= now,
           \A e \in EventIds : /\ events'[e].workflow = events[e].workflow
                               /\ events'[e].kind = events[e].kind
                               /\ events'[e].key = events[e].key
                               /\ events'[e].status = "absent" <=> events[e].status = "absent",
           \A w \in Workflows : \/ SameDue(w)
                                \/ \E kind : defs'[w].nextDue = NextDue(kind, now)
                                \/ defs'[w].trigger \notin Scheduled
    PROVE  DueInv'
<1> SUFFICES ASSUME NEW e \in EventIds PROVE Behind(e)'
  BY DEF DueInv
<1>1. events[e] \in Event /\ now \in Nat /\ Behind(e)
  BY DEF TypeInv, TypeOK, DueInv
<1>2. CASE events[e].status = "absent"
  BY <1>1, <1>2 DEF Behind
<1>3. CASE events[e].status # "absent" /\ events[e].kind \in Scheduled
  <2> DEFINE w == events[e].workflow
  <2>1. w \in Workflows /\ events[e].key \in Nat /\ events[e].key <= now
    BY <1>1, <1>3 DEF TypeInv, WellFormed, Event, Behind
  <2>2. events'[e].key <= now'
    BY <1>1, <2>1
  <2>3. ASSUME defs'[w].status = "active", defs'[w].trigger \in Scheduled
        PROVE  events'[e].key < defs'[w].nextDue
    <3>1. CASE SameDue(w)
      BY <1>1, <1>3, <2>3, <3>1 DEF SameDue, Behind
    <3>2. CASE \E kind : defs'[w].nextDue = NextDue(kind, now)
      <4>1. PICK kind : defs'[w].nextDue = NextDue(kind, now)
        BY <3>2
      <4>2. NextDue(kind, now) \in Nat /\ NextDue(kind, now) > now
        BY <1>1, NextDueNat, NextDueLater
      <4> QED
        BY <1>1, <2>1, <4>1, <4>2
    <3> QED
      BY <2>1, <2>3, <3>1, <3>2
  <2> QED
    BY <1>3, <2>2, <2>3 DEF Behind
<1> QED
  BY <1>2, <1>3 DEF Behind

\* The claim gives w the free event e.
Queued(e, w) ==
    /\ IsDue(w) /\ ~AlreadyQueued(w)
    /\ events[e].status = "absent" /\ events'[e].status = "pending"
    /\ events'[e].workflow = w /\ events'[e].kind = defs[w].trigger
    /\ events'[e].key = DedupeKey(w) /\ events'[e].version = defs[w].version

\* What a claim does: each due workflow that has nothing queued gets one event.
LEMMA ClaimQueues ==
    ASSUME ClaimDue
    PROVE  /\ \A e \in EventIds : events'[e] = events[e] \/ \E w \in Workflows : Queued(e, w)
           /\ \A w \in Workflows : IsDue(w) /\ ~AlreadyQueued(w) =>
                  \E e \in EventIds : /\ Queued(e, w)
                                      /\ \A f \in EventIds : Queued(f, w) => f = e
<1> DEFINE due   == {w \in Workflows : IsDue(w)}
           fresh == {w \in due : ~AlreadyQueued(w)}
           free  == {f \in EventIds : events[f].status = "absent"}
           new(w) == [NoEvent EXCEPT !.status = "pending", !.workflow = w,
                          !.version = defs[w].version, !.kind = defs[w].trigger,
                          !.key = DedupeKey(w),
                          !.due = IF defs[w].trigger \in Scheduled
                                  THEN defs[w].nextDue ELSE now]
<1>1. PICK id \in [fresh -> free] :
          /\ \A v, w \in fresh : id[v] = id[w] => v = w
          /\ events' = [f \in EventIds |->
                IF \E w \in fresh : id[w] = f
                THEN new(CHOOSE x \in fresh : id[x] = f) ELSE events[f]]
  BY Zenon DEF ClaimDue
<1>2. \A w : /\ new(w).status = "pending" /\ new(w).workflow = w
             /\ new(w).kind = defs[w].trigger /\ new(w).key = DedupeKey(w)
             /\ new(w).version = defs[w].version
  BY DEF NoEvent
<1>3. \A w : w \in fresh <=> w \in Workflows /\ IsDue(w) /\ ~AlreadyQueued(w)
  OBVIOUS
<1>4. \A w \in fresh : id[w] \in EventIds /\ events[id[w]].status = "absent"
  BY <1>1
<1> HIDE DEF new, fresh, due
<1>5. ASSUME NEW w \in fresh
      PROVE  events'[id[w]] = new(w)
  <2>1. (CHOOSE x \in fresh : id[x] = id[w]) = w
    BY <1>1
  <2> QED
    BY <1>1, <1>4, <2>1
<1>6. ASSUME NEW w \in fresh
      PROVE  Queued(id[w], w)
  BY <1>2, <1>3, <1>4, <1>5 DEF Queued
<1>7. ASSUME NEW e \in EventIds, events'[e] # events[e]
      PROVE  \E w \in fresh : id[w] = e
  BY <1>1, <1>7
<1>8. ASSUME NEW w \in fresh, NEW f \in EventIds, Queued(f, w)
      PROVE  f = id[w]
  <2>1. events'[f] # events[f]
    BY <1>8 DEF Queued
  <2>2. PICK v \in fresh : id[v] = f
    BY <1>7, <2>1
  <2>3. v = w
    BY <1>6, <1>8, <2>2 DEF Queued
  <2> QED
    BY <2>2, <2>3
<1>9. \A e \in EventIds : events'[e] = events[e] \/ \E w \in Workflows : Queued(e, w)
  BY <1>3, <1>6, <1>7
<1> QED
  BY <1>3, <1>4, <1>6, <1>8, <1>9

\* What it does to a definition.
LEMMA ClaimAdvances ==
    ASSUME TypeInv, ClaimDue, NEW w \in Workflows
    PROVE  /\ defs'[w].status = defs[w].status /\ defs'[w].trigger = defs[w].trigger
           /\ defs'[w].nextDue = IF IsDue(w) /\ defs[w].trigger \in Scheduled
                                 THEN NextDue(defs[w].trigger, now) ELSE defs[w].nextDue
           /\ now' = now
<1>1. defs[w] \in Definition
  BY DEF TypeInv, TypeOK
<1>2. defs'[w] = IF ~IsDue(w) THEN defs[w]
                 ELSE IF defs[w].trigger \in Scheduled
                      THEN [defs[w] EXCEPT !.nextDue = NextDue(defs[w].trigger, now)]
                      ELSE [defs[w] EXCEPT !.signature = targets[TargetOf[w]].signature]
  BY DEF ClaimDue
<1>3. now' = now
  BY DEF ClaimDue
<1> QED
  BY <1>1, <1>2, <1>3 DEF Definition

LEMMA ClaimKeepsDue ==
    ASSUME TypeInv, DueInv, ClaimDue
    PROVE  DueInv'
<1> SUFFICES ASSUME NEW e \in EventIds PROVE Behind(e)'
  BY DEF DueInv
<1>1. now \in Nat /\ Behind(e) /\ events[e] \in Event
  BY DEF TypeInv, TypeOK, DueInv
<1>2. CASE events'[e] = events[e]
  <2>1. CASE events[e].status = "absent"
    BY <1>1, <1>2, <2>1 DEF Behind
  <2>2. CASE events[e].status # "absent" /\ events[e].kind \in Scheduled
    <3> DEFINE w == events[e].workflow
    <3>1. w \in Workflows /\ events[e].key \in Nat
      BY <1>1, <2>2 DEF TypeInv, WellFormed, Event
    <3>2. \A kind : NextDue(kind, now) \in Nat /\ NextDue(kind, now) > now
      BY <1>1, NextDueNat, NextDueLater
    <3>3. now' = now /\ events[e].key <= now
      BY <1>1, <2>2, <3>1, ClaimAdvances DEF Behind
    <3>4. ASSUME defs'[w].status = "active", defs'[w].trigger \in Scheduled
          PROVE  events[e].key < defs'[w].nextDue
      <4>1. CASE IsDue(w)
        BY <1>1, <3>1, <3>2, <3>3, <3>4, <4>1, ClaimAdvances
      <4>2. CASE ~IsDue(w)
        BY <1>1, <2>2, <3>1, <3>4, <4>2, ClaimAdvances DEF Behind
      <4> QED
        BY <4>1, <4>2
    <3> QED
      BY <1>2, <2>2, <3>3, <3>4 DEF Behind
  <2> QED
    BY <1>2, <2>1, <2>2 DEF Behind
<1>3. ASSUME NEW w \in Workflows, Queued(e, w)
      PROVE  Behind(e)'
  <2>1. /\ events'[e].status = "pending" /\ events'[e].workflow = w /\ now' = now
        /\ events'[e].kind = defs[w].trigger /\ events'[e].key = DedupeKey(w)
    BY <1>3, ClaimAdvances DEF Queued
  <2>2. ASSUME defs[w].trigger \in Scheduled
        PROVE  /\ DedupeKey(w) \in Nat /\ DedupeKey(w) <= now
               /\ defs'[w].nextDue \in Nat /\ defs'[w].nextDue > now
    <3>1. IsDue(w) /\ defs[w].nextDue \in Nat /\ defs[w].nextDue <= now
      BY <1>3, <2>2 DEF Queued, IsDue, TypeInv, WellFormed, Scheduled
    <3>2. defs'[w].nextDue = NextDue(defs[w].trigger, now)
      BY <2>2, <3>1, ClaimAdvances
    <3> QED
      BY <1>1, <2>2, <3>1, <3>2, NextDueNat, NextDueLater DEF DedupeKey
  <2> QED
    BY <1>1, <2>1, <2>2 DEF Behind
<1> QED
  BY <1>2, <1>3, ClaimQueues

\* A step that is not a claim queues nothing, and moves a due time only by a new version.
SameEvents == \A e \in EventIds : /\ events'[e].workflow = events[e].workflow
                                  /\ events'[e].kind = events[e].kind
                                  /\ events'[e].key = events[e].key
                                  /\ events'[e].version = events[e].version
                                  /\ events'[e].status = "absent" <=> events[e].status = "absent"
Rearmed(w) == /\ defs'[w].version # defs[w].version
              /\ \/ \E kind : defs'[w].nextDue = NextDue(kind, now)
                 \/ defs'[w].trigger \notin Scheduled

LEMMA NextUnclaimed ==
    ASSUME TypeInv, [Next]_vars, ~ClaimDue
    PROVE  /\ SameEvents /\ now' \in Nat /\ now' >= now
           /\ \A w \in Workflows : SameDue(w) \/ Rearmed(w)
<1>1. now' \in Nat /\ now' >= now
  <2>1. now \in Nat
    BY DEF TypeInv, TypeOK
  <2>2. now' = now \/ now' = now + 1
    BY Zenon DEF Next, vars, tables, Execute, SkipSucceeded, PauseForApproval, StartAttempt,
       RecordUnresolved, FinishRecord, StepSucceeds, StepFails, RetryOrClose, ResultOverBudget,
       FinishRun, Resume, DurableElsewhere, UserRequest, SaveWorkflow, DeleteWorkflow, RunWorkflow,
       SaveGroup, ActivateVersion, RemoveTargets, ArchiveThread, DeleteThread, ExpireApprovals,
       Approve, CloseDecision, Environment, Tick, BecomeOverdue, Interrupt, TriggerRequest,
       FinishTrigger, Crash, Restart
  <2> QED
    BY <2>1, <2>2
<1>2. \A w \in Workflows : defs[w] \in Definition
  BY DEF TypeInv, TypeOK
<1>3. \A e \in EventIds : events[e] \in Event
  BY DEF TypeInv, TypeOK
<1>4. ASSUME NEW W, CancelPending(W)
      PROVE  SameEvents
  BY <1>3, <1>4 DEF CancelPending, Event, SameEvents
<1>5. events' = events => SameEvents
  BY DEF SameEvents
<1>6. defs' = defs => \A w \in Workflows : SameDue(w)
  BY DEF SameDue
<1>7. CASE UNCHANGED <<defs, events>>
  BY <1>1, <1>5, <1>6, <1>7
<1>8. CASE Execute \/ Environment \/ Crash \/ Restart \/ UNCHANGED vars
  BY <1>7, <1>8 DEF Execute, SkipSucceeded, PauseForApproval, StartAttempt, RecordUnresolved,
     FinishRecord, StepSucceeds, StepFails, RetryOrClose, ResultOverBudget, FinishRun, Resume,
     DurableElsewhere, Environment, Tick, BecomeOverdue, Interrupt, Crash, Restart, vars, tables
<1>9. ASSUME NEW v \in Workflows, NEW p \in Plans, NEW kind \in Triggers, SaveWorkflow(v, p, kind)
      PROVE  SameEvents /\ \A w \in Workflows : SameDue(w) \/ Rearmed(w)
  <2>1. SameEvents
    BY <1>4, <1>9 DEF SaveWorkflow
  <2>2. \A w \in Workflows : w # v => defs'[w] = defs[w]
    BY <1>9 DEF SaveWorkflow, TypeInv, TypeOK
  <2>3. /\ defs'[v].version = defs[v].version + 1 /\ defs'[v].trigger = kind
        /\ defs'[v].nextDue = IF kind \in Scheduled THEN NextDue(kind, now) ELSE None
    BY <1>9 DEF SaveWorkflow, TypeInv, TypeOK
  <2>4. defs[v].version \in Nat
    BY <1>2 DEF Definition
  <2>5. Rearmed(v)
    BY <2>3, <2>4 DEF Rearmed
  <2> QED
    BY <2>1, <2>2, <2>5 DEF SameDue
<1>10. ASSUME NEW v \in Workflows, DeleteWorkflow(v)
       PROVE  SameEvents /\ \A w \in Workflows : SameDue(w) \/ Rearmed(w)
  <2>1. SameEvents
    BY <1>4, <1>10 DEF DeleteWorkflow
  <2>2. \A w \in Workflows : SameDue(w)
    BY <1>2, <1>10 DEF DeleteWorkflow, TypeInv, TypeOK, Definition, SameDue
  <2> QED
    BY <2>1, <2>2
<1>11. ASSUME NEW gone, NEW shrunk, NEW s, RemoveTargets(gone, shrunk, s)
       PROVE  SameEvents /\ \A w \in Workflows : SameDue(w) \/ Rearmed(w)
  <2>1. \E W : CancelPending(W)
    BY <1>11, Zenon DEF RemoveTargets
  <2>2. defs' = [w \in Workflows |-> [RetiredDefs(gone \cup shrunk)[w] EXCEPT
                                         !.bound = @ /\ TargetOf[w] \notin gone]]
    BY <1>11, Zenon DEF RemoveTargets
  <2>3. \A w \in Workflows : SameDue(w)
    BY <1>2, <2>2 DEF RetiredDefs, Definition, SameDue
  <2> QED
    BY <1>4, <2>1, <2>3
<1>12. ASSUME NEW e \in EventIds, NEW s \in TerminalStatus, NEW k, FinishTrigger(e, s, k)
       PROVE  SameEvents /\ \A w \in Workflows : SameDue(w) \/ Rearmed(w)
  <2>1. /\ events[e].status = "pending" /\ defs' = defs
        /\ events' = [events EXCEPT ![e].status = s, ![e].run = k]
    BY <1>12 DEF FinishTrigger, CanFinish
  <2>2. SameEvents
    BY <1>3, <2>1 DEF TypeInv, TypeOK, Event, SameEvents, TerminalStatus
  <2> QED
    BY <1>6, <2>1, <2>2
<1>13. CASE UserRequest
  <2>1. ASSUME NEW S, NEW r, NEW o, NEW d, NEW w, NEW k, NEW t, NEW G, NEW s,
               \/ ExpireApprovals(S) \/ Approve(r, o) \/ CloseDecision(r, o, d)
               \/ RunWorkflow(w, k, "other") \/ SaveGroup(t, s) \/ ActivateVersion(t, G, s)
               \/ ArchiveThread(t) \/ DeleteThread(t)
        PROVE  UNCHANGED <<defs, events>>
    BY <2>1 DEF ExpireApprovals, Approve, CloseDecision, RunWorkflow, SaveGroup,
                ActivateVersion, ArchiveThread, DeleteThread
  <2> QED
    BY <1>1, <1>7, <1>9, <1>10, <1>11, <1>13, <2>1 DEF UserRequest
<1>14. CASE TriggerRequest
  <2>1. ASSUME NEW w, NEW k, RunWorkflow(w, k, "other")
        PROVE  UNCHANGED <<defs, events>>
    BY <2>1 DEF RunWorkflow
  <2> QED
    BY <1>1, <1>7, <1>12, <1>14, <2>1 DEF TriggerRequest
<1> QED
  BY <1>8, <1>13, <1>14 DEF Next

LEMMA InitDue == Init => DueInv
BY DEF Init, DueInv, Behind, NoEvent

LEMMA NextKeepsDue ==
    ASSUME TypeInv, DueInv, [Next]_vars
    PROVE  DueInv'
<1>1. CASE ClaimDue
  BY <1>1, ClaimKeepsDue
<1>2. CASE ~ClaimDue
  BY <1>2, NextUnclaimed, UnclaimedKeepsDue DEF SameEvents, Rearmed
<1> QED
  BY <1>1, <1>2

LEMMA DueInvariant == Spec => []DueInv
BY InitDue, NextKeepsDue, TypeInvariant, PTL DEF Spec

\* One event stands for the due time a claim leaves.
LEMMA ClaimStandsForOne ==
    ASSUME TypeInv, DueInv, ClaimDue, NEW w \in Workflows, defs[w].trigger \in Scheduled,
           defs'[w].nextDue # defs[w].nextDue
    PROVE  /\ defs'[w].nextDue > now
           /\ \E e \in EventIds :
                  /\ events[e].status = "absent"
                  /\ \A f \in EventIds : (/\ events'[f].workflow = w
                                          /\ events'[f].kind = defs[w].trigger
                                          /\ events'[f].key = defs[w].nextDue) <=> f = e
<1>1. IsDue(w) /\ defs'[w].nextDue = NextDue(defs[w].trigger, now)
  BY ClaimAdvances
<1>2. now \in Nat /\ None \notin Workflows
  BY WorkflowAssumption DEF TypeInv, TypeOK
<1>3. ~AlreadyQueued(w)
  <2> SUFFICES ASSUME NEW e \in EventIds, events[e].workflow = w,
                      events[e].kind = defs[w].trigger, events[e].key = DedupeKey(w)
               PROVE  FALSE
    BY DEF AlreadyQueued, EventsOf
  <2>1. events[e].status # "absent"
    BY <1>2 DEF DueInv, Behind
  <2>2. events[e].key < defs[w].nextDue
    BY <1>1, <2>1 DEF DueInv, Behind, IsDue
  <2>3. defs[w].nextDue \in Nat
    BY <1>1 DEF IsDue, TypeInv, WellFormed, Scheduled
  <2> QED
    BY <2>2, <2>3 DEF DedupeKey
<1>4. PICK e \in EventIds : Queued(e, w) /\ \A f \in EventIds : Queued(f, w) => f = e
  BY <1>1, <1>3, ClaimQueues
<1>5. DedupeKey(w) = defs[w].nextDue
  BY DEF DedupeKey
<1>6. ASSUME NEW f \in EventIds, events'[f].workflow = w, events'[f].kind = defs[w].trigger,
             events'[f].key = defs[w].nextDue
      PROVE  f = e
  <2>1. events'[f] # events[f]
    BY <1>3, <1>5, <1>6 DEF AlreadyQueued, EventsOf
  <2>2. PICK v \in Workflows : Queued(f, v)
    BY <2>1, ClaimQueues
  <2>3. v = w
    BY <1>6, <2>2 DEF Queued
  <2> QED
    BY <1>4, <2>2, <2>3
<1>7. events[e].status = "absent" /\ events'[e].workflow = w
      /\ events'[e].kind = defs[w].trigger /\ events'[e].key = defs[w].nextDue
  BY <1>4, <1>5 DEF Queued
<1>8. defs'[w].nextDue > now
  BY <1>1, <1>2, NextDueLater
<1> QED
  BY <1>6, <1>7, <1>8

\* What one step may do to a due time.
CatchUpStep ==
    \A w \in Workflows :
         LET due == defs[w].nextDue
             moved == /\ defs[w].version = defs'[w].version
                      /\ defs[w].trigger \in Scheduled /\ due # defs'[w].nextDue
             madeFor(e) == /\ events'[e].workflow = w /\ events'[e].kind = defs[w].trigger
                           /\ events'[e].key = due IN
         moved => /\ defs'[w].nextDue > now
                  /\ Cardinality({e \in EventIds : madeFor(e)}) = 1
                  /\ \E e \in EventIds : events[e].status = "absent" /\ madeFor(e)

LEMMA NextCatchesUp ==
    ASSUME TypeInv, DueInv, [Next]_vars
    PROVE  CatchUpStep
<1> SUFFICES ASSUME NEW w \in Workflows, defs[w].version = defs'[w].version,
                    defs[w].trigger \in Scheduled, defs[w].nextDue # defs'[w].nextDue
             PROVE  LET madeFor(e) == /\ events'[e].workflow = w
                                      /\ events'[e].kind = defs[w].trigger
                                      /\ events'[e].key = defs[w].nextDue IN
                    /\ defs'[w].nextDue > now
                    /\ Cardinality({e \in EventIds : madeFor(e)}) = 1
                    /\ \E e \in EventIds : events[e].status = "absent" /\ madeFor(e)
  BY DEF CatchUpStep
<1>1. ClaimDue
  BY NextUnclaimed DEF SameDue, Rearmed
<1>2. defs'[w].nextDue > now
  BY <1>1, ClaimStandsForOne
<1> DEFINE madeFor(e) == /\ events'[e].workflow = w /\ events'[e].kind = defs[w].trigger
                         /\ events'[e].key = defs[w].nextDue
<1>3. PICK e \in EventIds : /\ events[e].status = "absent"
                            /\ \A f \in EventIds : madeFor(f) <=> f = e
  BY <1>1, ClaimStandsForOne
<1> HIDE DEF madeFor
<1>4. {f \in EventIds : madeFor(f)} = {e}
  BY <1>3
<1>5. Cardinality({f \in EventIds : madeFor(f)}) = 1
  BY <1>4, FS_Singleton
<1>6. \E f \in EventIds : events[f].status = "absent" /\ madeFor(f)
  BY <1>3
<1> QED
  BY <1>2, <1>5, <1>6 DEF madeFor

\* After any sleep or downtime a schedule catches up with one run: a due time becomes
\* exactly one event, and the next one is strictly later than the present.
THEOREM CatchesUpOnce == Spec => OneCatchUp
BY NextCatchesUp, TypeInvariant, DueInvariant, PTL DEF Spec, OneCatchUp, CatchUpStep

-----------------------------------------------------------------------------
(* What a backup holds when nothing is under way.                          *)

\* A definition that was saved has a version and the state of its trigger, a run and an
\* event the version of one, and the audits of a workflow are within their limits.
DefinitionKept(w) == defs[w].status # "absent" =>
                         defs[w].version >= 1 /\ TriggerStateAccepted(defs[w])
RunDated(r)   == runs[r].status # "absent" => runs[r].version >= 1
EventDated(e) == events[e].status # "absent" => events[e].version <= defs[events[e].workflow].version
WithinLimits(w) == /\ IsFiniteSet(RunsOf(w)) /\ Cardinality(RunsOf(w)) <= RunLimit
                   /\ IsFiniteSet(EventsOf(w)) /\ Cardinality(EventsOf(w)) <= EventLimit

BackupInv ==
    /\ \A w \in Workflows : DefinitionKept(w) /\ WithinLimits(w)
    /\ \A r \in RunIds : RunDated(r)
    /\ \A e \in EventIds : EventDated(e)
    /\ worker.phase = "idle" => worker.run = None

\* The row of a run appears with its start and stays under its version.
SameRow(r) == /\ runs'[r].status = "absent" <=> runs[r].status = "absent"
              /\ runs'[r].version = runs[r].version

LEMMA SetStepRow ==
    ASSUME TypeInv, NEW status, SetStep(status), NEW r \in RunIds
    PROVE  SameRow(r)
<1>1. runs[r] \in Run
  BY DEF TypeInv, TypeOK
<1>2. \/ runs'[r] = runs[r]
      \/ runs'[r] = [runs[r] EXCEPT !.steps[<<worker.ord, worker.att>>] = status]
  BY DEF SetStep, TypeInv, TypeOK
<1> QED
  BY <1>1, <1>2 DEF Run, SameRow

LEMMA ClosedRunsRow ==
    ASSUME TypeInv, NEW S, NEW r \in RunIds
    PROVE  /\ ClosedRuns(S)[r] \in Run
           /\ ClosedRuns(S)[r].status = "absent" <=> runs[r].status = "absent"
           /\ ClosedRuns(S)[r].version = runs[r].version
<1>1. runs[r] \in Run
  BY DEF TypeInv, TypeOK
<1>2. runs[r].status \in {"absent", "running"} \cup TerminalStatus
  BY <1>1 DEF Run
<1> QED
  BY <1>1, <1>2 DEF ClosedRuns, Run, TerminalStatus

LEMMA ExecuteRows ==
    ASSUME TypeInv, Execute, NEW r \in RunIds
    PROVE  SameRow(r)
<1>1. \A s : SetStep(s) => SameRow(r)
  BY SetStepRow
<1>2. runs' = runs => SameRow(r)
  BY DEF SameRow
<1>3. CASE FinishRun
  <2>1. runs[r] \in Run /\ worker \in Worker
    BY DEF TypeInv, TypeOK
  <2>2. PICK v \in TerminalStatus : runs' = [runs EXCEPT ![worker.run].status = v]
    BY <1>3, <2>1 DEF FinishRun, Worker, TerminalStatus
  <2>3. runs[worker.run].status = "running"
    BY <1>3 DEF FinishRun
  <2> QED
    BY <2>1, <2>2, <2>3 DEF TypeInv, TypeOK, Run, SameRow, TerminalStatus
<1> QED
  BY <1>1, <1>2, <1>3 DEF Execute, SkipSucceeded, PauseForApproval, StartAttempt, RecordUnresolved,
     FinishRecord, StepSucceeds, StepFails, RetryOrClose, ResultOverBudget, Resume

LEMMA DecisionRows ==
    ASSUME TypeInv, NEW S, NEW q \in RunIds, NEW o \in Ordinals, NEW d,
           ExpireApprovals(S) \/ Approve(q, o) \/ CloseDecision(q, o, d),
           NEW r \in RunIds
    PROVE  SameRow(r)
<1>1. CASE ExpireApprovals(S)
  BY <1>1, ClosedRunsRow DEF ExpireApprovals, SameRow
<1>2. CASE CloseDecision(q, o, d)
  BY <1>2, ClosedRunsRow DEF CloseDecision, SameRow
<1>3. CASE Approve(q, o)
  <2> DEFINE table == ClosedRuns(OverdueApprovals)
  <2>1. \A x \in RunIds : /\ table[x] \in Run
                          /\ table[x].status = "absent" <=> runs[x].status = "absent"
                          /\ table[x].version = runs[x].version
    BY ClosedRunsRow
  <2>2. table = [x \in RunIds |-> table[x]]
    BY DEF ClosedRuns
  <2>3. runs' = [table EXCEPT ![q].steps =
                    [p \in StepRows |-> IF p[1] = o /\ @[p] = "running" THEN "succeeded" ELSE @[p]]]
    BY <1>3 DEF Approve
  <2> HIDE DEF table
  <2>4. /\ runs'[r].status = table[r].status /\ runs'[r].version = table[r].version
    BY <2>1, <2>2, <2>3 DEF Run
  <2> QED
    BY <2>1, <2>4 DEF SameRow
<1> QED
  BY <1>1, <1>2, <1>3

\* A run is started with the version of an active definition, within the limit.
Started(w, k) ==
    /\ defs[w].status = "active" /\ Cardinality(RunsOf(w)) < RunLimit
    /\ defs' = defs
    /\ runs'[<<w, k>>].status # "absent" /\ runs'[<<w, k>>].version = defs[w].version
    /\ \A r \in RunIds : r # <<w, k>> => SameRow(r)

LEMMA RunWorkflowRows ==
    ASSUME TypeInv, NEW w \in Workflows, NEW k \in Keys, NEW client, RunWorkflow(w, k, client)
    PROVE  (\A r \in RunIds : SameRow(r)) \/ Started(w, k)
<1>1. <<w, k>> \in RunIds
  BY DEF RunIds
<1>2. runs' = runs \/ /\ defs[w].status = "active" /\ Cardinality(RunsOf(w)) < RunLimit
                      /\ runs' = [runs EXCEPT ![<<w, k>>] = StartedRun(w)] /\ defs' = defs
  BY DEF RunWorkflow
<1>3. StartedRun(w).status = "running" /\ StartedRun(w).version = defs[w].version
  BY DEF StartedRun, NoRun
<1>4. CASE runs' = runs
  BY <1>4 DEF SameRow
<1>5. CASE /\ defs[w].status = "active" /\ Cardinality(RunsOf(w)) < RunLimit
           /\ runs' = [runs EXCEPT ![<<w, k>>] = StartedRun(w)] /\ defs' = defs
  <2>1. runs'[<<w, k>>] = StartedRun(w) /\ \A r \in RunIds : r # <<w, k>> => runs'[r] = runs[r]
    BY <1>1, <1>5 DEF TypeInv, TypeOK
  <2>2. \A r \in RunIds : r # <<w, k>> => SameRow(r)
    BY <2>1 DEF SameRow
  <2> QED
    BY <1>3, <1>5, <2>1, <2>2 DEF Started
<1> QED
  BY <1>2, <1>4, <1>5

\* No row appears, or that of one run.
RowsStep == \/ \A r \in RunIds : SameRow(r)
            \/ \E w \in Workflows, k \in Keys : Started(w, k)

LEMMA NextRows ==
    ASSUME TypeInv, [Next]_vars
    PROVE  RowsStep
<1> SUFFICES \/ \A r \in RunIds : SameRow(r)
             \/ \E w \in Workflows, k \in Keys : Started(w, k)
  BY DEF RowsStep
<1>1. CASE runs' = runs
  BY <1>1 DEF SameRow
<1>2. CASE Execute
  BY <1>2, ExecuteRows
<1>3. CASE UserRequest
  <2>1. ASSUME NEW w, NEW p, NEW t, NEW G, NEW g, NEW s,
               \/ SaveWorkflow(w, p, t) \/ DeleteWorkflow(w) \/ SaveGroup(t, s)
               \/ ActivateVersion(t, G, s) \/ RemoveTargets(g, G, s)
               \/ ArchiveThread(t) \/ DeleteThread(t)
        PROVE  runs' = runs
    BY <2>1, Zenon DEF SaveWorkflow, DeleteWorkflow, SaveGroup, ActivateVersion, RemoveTargets,
                ArchiveThread, DeleteThread
  <2> QED
    BY <1>1, <1>3, <2>1, DecisionRows, RunWorkflowRows, ConstantTypes DEF UserRequest, Keys
<1>4. CASE TriggerRequest
  <2>1. ASSUME NEW e \in EventIds, events[e].status # "absent",
               RunWorkflow(events[e].workflow, e, "other")
        PROVE  \/ \A r \in RunIds : SameRow(r)
               \/ \E w \in Workflows, k \in Keys : Started(w, k)
    BY <2>1, RunWorkflowRows DEF TypeInv, WellFormed, Keys
  <2>2. ASSUME ClaimDue \/ \E e, s, k : FinishTrigger(e, s, k)
        PROVE  runs' = runs
    BY <2>2, Zenon DEF ClaimDue, FinishTrigger
  <2> QED
    BY <1>1, <1>4, <2>1, <2>2 DEF TriggerRequest
<1>5. CASE Environment \/ Crash \/ UNCHANGED vars
  BY <1>1, <1>5 DEF Environment, Tick, BecomeOverdue, Interrupt, Crash, vars, tables
<1>6. CASE Restart
  <2>1. \A r \in RunIds : runs'[r] = Recovered(r) /\ runs[r] \in Run
    BY <1>6 DEF Restart, TypeInv, TypeOK
  <2> QED
    BY <2>1 DEF Recovered, Run, SameRow
<1> QED
  BY <1>2, <1>3, <1>4, <1>5, <1>6 DEF Next

\* One more run where there was room, or none.
LEMMA RunsWithinLimit ==
    ASSUME TypeInv, BackupInv, RowsStep, NEW w \in Workflows
    PROVE  IsFiniteSet(RunsOf(w))' /\ (Cardinality(RunsOf(w)) <= RunLimit)'
<1>1. IsFiniteSet(RunsOf(w)) /\ Cardinality(RunsOf(w)) <= RunLimit /\ RunLimit \in Nat
  BY WorkflowAssumption DEF BackupInv, WithinLimits
<1>2. \A k \in Keys : <<w, k>> \in RunIds
  BY DEF RunIds
<1>3. CASE \A r \in RunIds : SameRow(r)
  <2>1. RunsOf(w)' = RunsOf(w)
    BY <1>2, <1>3 DEF RunsOf, SameRow
  <2> QED
    BY <1>1, <2>1
<1>4. ASSUME NEW v \in Workflows, NEW k \in Keys, Started(v, k)
      PROVE  IsFiniteSet(RunsOf(w))' /\ (Cardinality(RunsOf(w)) <= RunLimit)'
  <2>1. CASE v # w
    <3>1. RunsOf(w)' = RunsOf(w)
      BY <1>2, <1>4, <2>1 DEF RunsOf, SameRow, Started
    <3> QED
      BY <1>1, <3>1
  <2>2. CASE v = w
    <3>1. RunsOf(w)' = RunsOf(w) \cup {k}
      BY <1>2, <1>4, <2>2 DEF RunsOf, SameRow, Started
    <3>2. Cardinality(RunsOf(w)) < RunLimit
      BY <1>4, <2>2 DEF Started
    <3>3. /\ IsFiniteSet(RunsOf(w) \cup {k}) /\ Cardinality(RunsOf(w)) \in Nat
          /\ Cardinality(RunsOf(w) \cup {k}) \in
                 {Cardinality(RunsOf(w)), Cardinality(RunsOf(w)) + 1}
      BY <1>1, FS_AddElement, FS_CardinalityType
    <3> QED
      BY <1>1, <3>1, <3>2, <3>3
  <2> QED
    BY <2>1, <2>2
<1> QED
  BY <1>3, <1>4 DEF RowsStep

\* The same of the events: a claim fails that would exceed the limit.
LEMMA EventsWithinLimit ==
    ASSUME TypeInv, BackupInv, DueInv, [Next]_vars, NEW w \in Workflows
    PROVE  IsFiniteSet(EventsOf(w))' /\ (Cardinality(EventsOf(w)) <= EventLimit)'
<1>1. /\ IsFiniteSet(EventsOf(w)) /\ Cardinality(EventsOf(w)) <= EventLimit
      /\ EventLimit \in Nat /\ Cardinality(EventsOf(w)) \in Nat
  BY WorkflowAssumption, FS_CardinalityType DEF BackupInv, WithinLimits
<1>2. CASE EventsOf(w)' = EventsOf(w)
  BY <1>1, <1>2
<1>3. CASE ~ClaimDue
  BY <1>2, <1>3, NextUnclaimed DEF SameEvents, EventsOf
<1>4. CASE ClaimDue
  <2>1. None \notin Workflows
    BY WorkflowAssumption
  <2>2. \A e \in EventIds : e \in EventsOf(w) => events'[e] = events[e]
    BY <1>4, <2>1, ClaimQueues DEF EventsOf, Queued, DueInv, Behind
  <2>3. \A e \in EventIds : e \in EventsOf(w)' => e \in EventsOf(w) \/ Queued(e, w)
    BY <1>4, ClaimQueues DEF EventsOf, Queued
  <2>4. CASE ~\E e \in EventIds : Queued(e, w)
    <3>1. EventsOf(w)' = EventsOf(w)
      BY <2>2, <2>3, <2>4 DEF EventsOf
    <3> QED
      BY <1>2, <3>1
  <2>5. CASE \E e \in EventIds : Queued(e, w)
    <3>1. IsDue(w) /\ ~AlreadyQueued(w)
      BY <2>5 DEF Queued
    <3>2. PICK e \in EventIds : Queued(e, w) /\ \A f \in EventIds : Queued(f, w) => f = e
      BY <1>4, <3>1, ClaimQueues
    <3>3. EventsOf(w)' = EventsOf(w) \cup {e}
      BY <2>2, <2>3, <3>2 DEF EventsOf, Queued
    <3>4. Cardinality(EventsOf(w)) < EventLimit
      <4>1. ~ClaimFails
        BY <1>4, Zenon DEF ClaimDue
      <4> QED
        BY <1>1, <3>1, <4>1 DEF ClaimFails
    <3>5. /\ IsFiniteSet(EventsOf(w) \cup {e})
          /\ Cardinality(EventsOf(w) \cup {e}) \in
                 {Cardinality(EventsOf(w)), Cardinality(EventsOf(w)) + 1}
      BY <1>1, FS_AddElement
    <3> QED
      BY <1>1, <3>3, <3>4, <3>5
  <2> QED
    BY <2>4, <2>5
<1> QED
  BY <1>3, <1>4

\* What may become of a definition: versions grow, and a trigger keeps its state.
DefinitionGrows(w) ==
    /\ defs'[w].version >= defs[w].version
    /\ defs'[w].status # "absent" =>
           \/ /\ defs[w].status # "absent" /\ defs'[w].version = defs[w].version
              /\ defs'[w].trigger = defs[w].trigger
              /\ defs'[w].nextDue = defs[w].nextDue /\ defs'[w].signature = defs[w].signature
           \/ defs'[w].version >= 1 /\ TriggerStateAccepted(defs'[w])

\* What a definition is armed with.
LEMMA TriggerStatesKnown ==
    ASSUME TypeInv, NEW kind, NEW w \in Workflows
    PROVE  NextDue(kind, now) # None /\ targets[TargetOf[w]].signature # None
<1>1. None \notin Nat /\ Signatures \subseteq Nat
  BY WorkflowAssumption
<1>2. NextDue(kind, now) \in Nat
  BY NextDueNat DEF TypeInv, TypeOK
<1>3. TargetOf[w] \in Targets
  BY ConstantTypes
<1>4. targets[TargetOf[w]].signature \in Signatures
  BY <1>3 DEF TypeInv, TypeOK, Target
<1> QED
  BY <1>1, <1>2, <1>4

LEMMA SaveGrows ==
    ASSUME TypeInv, NEW v \in Workflows, NEW p \in Plans, NEW kind \in Triggers,
           SaveWorkflow(v, p, kind), NEW w \in Workflows
    PROVE  DefinitionGrows(w)
<1>1. defs[w] \in Definition /\ now \in Nat
  BY DEF TypeInv, TypeOK
<1>2. CASE w # v
  BY <1>1, <1>2 DEF SaveWorkflow, TypeInv, TypeOK, Definition, DefinitionGrows
<1>3. CASE w = v
  <2>1. /\ defs'[w].version = defs[w].version + 1 /\ defs'[w].trigger = kind
        /\ defs'[w].nextDue = IF kind \in Scheduled THEN NextDue(kind, now) ELSE None
        /\ defs'[w].signature = IF kind = "dataset-version"
                                THEN targets[TargetOf[w]].signature ELSE None
    BY <1>3 DEF SaveWorkflow, TypeInv, TypeOK
  <2>2. NextDue(kind, now) # None /\ targets[TargetOf[w]].signature # None
    BY TriggerStatesKnown
  <2>3. TriggerStateAccepted(defs'[w])
    BY <2>1, <2>2 DEF TriggerStateAccepted, Scheduled
  <2>4. defs[w].version \in Nat
    BY <1>1 DEF Definition
  <2> QED
    BY <2>1, <2>3, <2>4 DEF DefinitionGrows
<1> QED
  BY <1>2, <1>3

LEMMA ClaimGrows ==
    ASSUME TypeInv, BackupInv, ClaimDue, NEW w \in Workflows
    PROVE  DefinitionGrows(w)
<1>1. defs[w] \in Definition /\ now \in Nat
  BY DEF TypeInv, TypeOK
<1>2. defs'[w] = IF ~IsDue(w) THEN defs[w]
                 ELSE IF defs[w].trigger \in Scheduled
                      THEN [defs[w] EXCEPT !.nextDue = NextDue(defs[w].trigger, now)]
                      ELSE [defs[w] EXCEPT !.signature = targets[TargetOf[w]].signature]
  BY DEF ClaimDue
<1>3. CASE ~IsDue(w)
  BY <1>1, <1>2, <1>3 DEF Definition, DefinitionGrows
<1>4. CASE IsDue(w)
  <2>1. /\ defs[w].status = "active" /\ defs[w].version >= 1 /\ TriggerStateAccepted(defs[w])
        /\ defs[w].trigger \in Scheduled \/ defs[w].trigger = "dataset-version"
    BY <1>4 DEF IsDue, BackupInv, DefinitionKept
  <2>2. NextDue(defs[w].trigger, now) # None /\ targets[TargetOf[w]].signature # None
    BY TriggerStatesKnown
  <2>3. /\ defs'[w].version = defs[w].version /\ defs'[w].trigger = defs[w].trigger
        /\ defs'[w].nextDue = IF defs[w].trigger \in Scheduled
                              THEN NextDue(defs[w].trigger, now) ELSE defs[w].nextDue
        /\ defs'[w].signature = IF defs[w].trigger \in Scheduled
                                THEN defs[w].signature ELSE targets[TargetOf[w]].signature
    BY <1>1, <1>2, <1>4 DEF Definition
  <2>4. TriggerStateAccepted(defs'[w])
    BY <2>1, <2>2, <2>3 DEF TriggerStateAccepted, Scheduled
  <2>5. defs[w].version \in Nat
    BY <1>1 DEF Definition
  <2> QED
    BY <2>1, <2>3, <2>4, <2>5 DEF DefinitionGrows
<1> QED
  BY <1>3, <1>4

LEMMA NextGrows ==
    ASSUME TypeInv, BackupInv, [Next]_vars, NEW w \in Workflows
    PROVE  DefinitionGrows(w)
<1>1. defs[w] \in Definition /\ defs[w].version \in Nat
  BY DEF TypeInv, TypeOK, Definition
<1>2. CASE defs' = defs
  BY <1>1, <1>2 DEF DefinitionGrows
<1>3. CASE Execute \/ Environment \/ Crash \/ Restart \/ UNCHANGED vars
  BY <1>2, <1>3 DEF Execute, SkipSucceeded, PauseForApproval, StartAttempt, RecordUnresolved,
     FinishRecord, StepSucceeds, StepFails, RetryOrClose, ResultOverBudget, FinishRun, Resume,
     DurableElsewhere, Environment, Tick, BecomeOverdue, Interrupt, Crash, Restart, vars, tables
<1>4. CASE UserRequest
  <2>1. ASSUME NEW v \in Workflows, DeleteWorkflow(v)
        PROVE  DefinitionGrows(w)
    BY <1>1, <2>1 DEF DeleteWorkflow, TypeInv, TypeOK, Definition, DefinitionGrows
  <2>2. ASSUME NEW gone, NEW shrunk, NEW s, RemoveTargets(gone, shrunk, s)
        PROVE  DefinitionGrows(w)
    <3>1. defs' = [x \in Workflows |-> [RetiredDefs(gone \cup shrunk)[x] EXCEPT
                                           !.bound = @ /\ TargetOf[x] \notin gone]]
      BY <2>2, Zenon DEF RemoveTargets
    <3> QED
      BY <1>1, <3>1 DEF RetiredDefs, Definition, DefinitionGrows
  <2>3. ASSUME NEW S, NEW r, NEW o, NEW d, NEW v, NEW k, NEW t, NEW G, NEW s,
               \/ ExpireApprovals(S) \/ Approve(r, o) \/ CloseDecision(r, o, d)
               \/ RunWorkflow(v, k, "other") \/ SaveGroup(t, s) \/ ActivateVersion(t, G, s)
               \/ ArchiveThread(t) \/ DeleteThread(t)
        PROVE  defs' = defs
    BY <2>3 DEF ExpireApprovals, Approve, CloseDecision, RunWorkflow, SaveGroup,
                ActivateVersion, ArchiveThread, DeleteThread
  <2> QED
    BY <1>2, <1>4, <2>1, <2>2, <2>3, SaveGrows DEF UserRequest
<1>5. CASE TriggerRequest
  <2>1. ASSUME NEW v, NEW k, NEW e, NEW s, NEW o,
               RunWorkflow(v, k, "other") \/ FinishTrigger(e, s, o)
        PROVE  defs' = defs
    BY <2>1 DEF RunWorkflow, FinishTrigger
  <2> QED
    BY <1>2, <1>5, <2>1, ClaimGrows DEF TriggerRequest
<1> QED
  BY <1>3, <1>4, <1>5 DEF Next

\* A run carries a version its definition had.
LEMMA RowsKeepDates ==
    ASSUME TypeInv, BackupInv, RowsStep, NEW r \in RunIds
    PROVE  RunDated(r)'
<1>1. RunDated(r) /\ \A w \in Workflows : DefinitionKept(w)
  BY DEF BackupInv
<1>2. CASE SameRow(r)
  BY <1>1, <1>2 DEF SameRow, RunDated
<1>3. ASSUME NEW w \in Workflows, NEW k \in Keys, Started(w, k), ~SameRow(r)
      PROVE  RunDated(r)'
  <2>1. r = <<w, k>>
    BY <1>3 DEF Started
  <2>2. defs[w].status = "active" /\ runs'[r].version = defs[w].version
    BY <1>3, <2>1 DEF Started
  <2>3. defs[w].version >= 1
    BY <1>1, <2>2 DEF DefinitionKept
  <2> QED
    BY <2>2, <2>3 DEF RunDated
<1> QED
  BY <1>2, <1>3 DEF RowsStep

\* So does an event.
LEMMA NextDatesEvents ==
    ASSUME TypeInv, BackupInv, [Next]_vars, NEW e \in EventIds
    PROVE  EventDated(e)'
<1>1. EventDated(e)
  BY DEF BackupInv
<1>2. \A w \in Workflows : /\ defs[w].version \in Nat /\ defs'[w].version \in Nat
                           /\ defs'[w].version >= defs[w].version
  BY NextGrows, NextTyped DEF DefinitionGrows, TypeInv, TypeOK, Definition
<1>3. CASE /\ events'[e].workflow = events[e].workflow /\ events'[e].version = events[e].version
           /\ events'[e].status = "absent" <=> events[e].status = "absent"
  <2> SUFFICES ASSUME events[e].status # "absent"
               PROVE  events'[e].version <= defs'[events'[e].workflow].version
    BY <1>3 DEF EventDated
  <2>1. events[e].workflow \in Workflows /\ events[e].version \in Nat
    BY DEF TypeInv, TypeOK, WellFormed, Event
  <2>2. events[e].version <= defs[events[e].workflow].version
    BY <1>1 DEF EventDated
  <2> QED
    BY <1>2, <1>3, <2>1, <2>2
<1>4. CASE ~ClaimDue
  BY <1>3, <1>4, NextUnclaimed DEF SameEvents
<1>5. CASE ClaimDue
  <2>1. CASE events'[e] = events[e]
    BY <1>3, <2>1
  <2>2. ASSUME NEW w \in Workflows, Queued(e, w)
        PROVE  EventDated(e)'
    BY <1>2, <2>2 DEF Queued, EventDated
  <2> QED
    BY <1>5, <2>1, <2>2, ClaimQueues
<1> QED
  BY <1>4, <1>5

\* A handler that has ended is inside no run.
LEMMA NextLeavesNoRun ==
    ASSUME TypeInv, BackupInv, [Next]_vars, worker'.phase = "idle"
    PROVE  worker'.run = None
<1>1. worker.phase = "idle" => worker.run = None
  BY DEF BackupInv
<1>2. worker \in Worker /\ Idle.run = None
  BY DEF TypeInv, TypeOK, Idle
<1>3. CASE worker' = worker \/ worker' = Idle
  BY <1>1, <1>2, <1>3
<1>4. CASE Execute
  <2>1. ASSUME NEW phase, NEW verdict, GoOn(phase, verdict)
        PROVE  worker'.phase = phase
    BY <1>2, <2>1 DEF GoOn, Worker
  <2>2. \A status : Answer(status) => worker' = Idle
    BY DEF Answer
  <2> QED
    BY <1>2, <1>3, <1>4, <2>1, <2>2 DEF Worker, Execute, SkipSucceeded, PauseForApproval,
       StartAttempt, RecordUnresolved, FinishRecord, StepSucceeds, StepFails, RetryOrClose,
       ResultOverBudget, FinishRun, Resume, Executing, AtStep
<1>5. ASSUME NEW w, NEW k, NEW client, RunWorkflow(w, k, client)
      PROVE  worker'.run = None
  BY <1>3, <1>5 DEF RunWorkflow, Idle
<1>6. ASSUME NEW r, NEW o, Approve(r, o)
      PROVE  worker'.run = None
  BY <1>6 DEF Approve, Idle
<1>7. CASE UserRequest
  BY <1>3, <1>5, <1>6, <1>7 DEF UserRequest, SaveWorkflow, DeleteWorkflow, SaveGroup,
     ActivateVersion, RemoveTargets, ArchiveThread, DeleteThread, ExpireApprovals, CloseDecision
<1>8. CASE TriggerRequest
  BY <1>3, <1>5, <1>8, Zenon DEF TriggerRequest, ClaimDue, FinishTrigger
<1>9. CASE Environment
  BY <1>2, <1>3, <1>9 DEF Environment, Tick, BecomeOverdue, Interrupt, Worker
<1>10. CASE Crash \/ Restart \/ UNCHANGED vars
  BY <1>3, <1>10 DEF Crash, Restart, vars
<1> QED
  BY <1>4, <1>7, <1>8, <1>9, <1>10 DEF Next

LEMMA InitBackup == Init => BackupInv
<1> SUFFICES ASSUME Init PROVE BackupInv
  OBVIOUS
<1>1. \A r \in RunIds : runs[r].status = "absent"
  BY DEF Init, NoRun
<1>2. \A e \in EventIds : events[e].status = "absent" /\ events[e].workflow = None
  BY DEF Init, NoEvent
<1>3. ASSUME NEW w \in Workflows PROVE RunsOf(w) = {} /\ EventsOf(w) = {}
  <2>1. \A k \in Keys : <<w, k>> \in RunIds
    BY DEF RunIds
  <2> QED
    BY <1>1, <1>2, <2>1, WorkflowAssumption DEF RunsOf, EventsOf
<1>4. \A w \in Workflows : WithinLimits(w)
  <2>1. RunLimit \in Nat /\ EventLimit \in Nat
    BY WorkflowAssumption
  <2>2. IsFiniteSet({}) /\ Cardinality({}) = 0
    BY FS_EmptySet
  <2> QED
    BY <1>3, <2>1, <2>2 DEF WithinLimits
<1>5. \A w \in Workflows : DefinitionKept(w)
  BY DEF Init, NoDefinition, DefinitionKept
<1>6. worker.run = None
  BY DEF Init, Idle
<1> QED
  BY <1>1, <1>2, <1>4, <1>5, <1>6 DEF BackupInv, RunDated, EventDated

LEMMA NextKeepsBackup ==
    ASSUME TypeInv, DueInv, BackupInv, [Next]_vars
    PROVE  BackupInv'
<1>1. ASSUME NEW w \in Workflows PROVE DefinitionKept(w)'
  <2>1. DefinitionKept(w) /\ DefinitionGrows(w)
    BY NextGrows DEF BackupInv
  <2> QED
    BY <2>1 DEF DefinitionGrows, DefinitionKept, TriggerStateAccepted
<1>2. \A w \in Workflows : WithinLimits(w)'
  BY NextRows, RunsWithinLimit, EventsWithinLimit DEF WithinLimits
<1> QED
  BY <1>1, <1>2, NextRows, RowsKeepDates, NextDatesEvents, NextLeavesNoRun DEF BackupInv

LEMMA BackupInvariant == Spec => []BackupInv
BY InitBackup, NextKeepsBackup, TypeInvariant, DueInvariant, PTL DEF Spec

\* Only the review's one attempt shares an ordinal with an approval.
LEMMA ReviewHasOneRow ==
    ASSUME TypeInv, AuditInv, OrderInv, NEW r \in RunIds, NEW p \in StepRows,
           approvals[r][p[1]].status # "absent", runs[r].steps[p] # "absent"
    PROVE  p[1] \in Ordinals /\ p = <<p[1], 1>>
<1>1. p[1] \in Ordinals /\ p[2] \in Attempts /\ p = <<p[1], p[2]>>
  BY DEF StepRows
<1>2. OrderOK(r) /\ ApprovalOK(r)
  BY DEF OrderInv, AuditInv
<1>3. runs[r].plan[p[1]].kind = "human-approval"
  BY <1>1, <1>2 DEF ApprovalOK
<1>4. ~(p[2] > 1)
  BY <1>2, <1>3 DEF OrderOK
<1>5. p[2] = 1
  BY <1>1, <1>4, WorkflowAssumption DEF Attempts
<1> QED
  BY <1>1, <1>5

LEMMA QuietIsAccepted ==
    TypeInv /\ AuditInv /\ OrderInv /\ EventInv /\ NoOrphanedWorkflow /\ BackupInv
    => QuietBackupRestores
<1>1. ASSUME TypeInv, AuditInv, OrderInv, EventInv, NoOrphanedWorkflow, BackupInv,
             Serving, RunsAreOwned, \A r \in RunIds : PendingApprovals(r) = {},
             \A w \in Workflows : defs[w].status # "absent" => defs[w].bound
      PROVE  BackupAccepted
  <2>1. DefinitionsAccepted
    BY <1>1 DEF DefinitionsAccepted, BackupInv, DefinitionKept, NoOrphanedWorkflow
  <2>2. ASSUME NEW r \in RunIds, runs[r].status # "absent"
        PROVE  /\ runs[r].status \in TerminalStatus
               /\ runs[r].version \in 1..defs[r[1]].version
               /\ \A p \in StepRows : runs[r].steps[p] # "running"
    <3>1. worker.run # r /\ PendingApprovals(r) = {} /\ up
      BY <1>1, <2>2, WorkflowAssumption DEF BackupInv, Serving
    <3>2. runs[r].status # "running"
      BY <1>1, <2>2, <3>1 DEF RunsAreOwned
    <3>3. runs[r] \in Run /\ r[1] \in Workflows
      BY <1>1, <2>2 DEF TypeInv, TypeOK, RunIds
    <3>4. runs[r].status \in TerminalStatus /\ runs[r].version \in Nat
      BY <2>2, <3>2, <3>3 DEF Run
    <3>5. defs[r[1]].version \in Nat
      BY <1>1, <3>3 DEF TypeInv, TypeOK, Definition
    <3>6. RunOK(r) /\ RunDated(r)
      BY <1>1, <2>2 DEF AuditInv, BackupInv
    <3> QED
      BY <2>2, <3>4, <3>5, <3>6 DEF RunOK, RunDated
  <2>3. RunsAccepted
    BY <1>1, <2>2 DEF RunsAccepted, BackupInv, WithinLimits
  <2>4. EventsAccepted
    BY <1>1 DEF EventsAccepted, BackupInv, WithinLimits, EventDated, EventInv, EventOK
  <2>5. ASSUME NEW r \in RunIds, NEW p \in StepRows,
               approvals[r][p[1]].status # "absent", runs[r].steps[p] # "absent"
        PROVE  LET a == approvals[r][p[1]] IN
               /\ a.version = runs[r].version
               /\ runs[r].plan[p[1]].kind = "human-approval"
               /\ a.status = "pending" => runs[r].status = "running" /\ runs[r].steps[p] = "running"
               /\ a.status = "approved" => runs[r].steps[p] = "succeeded"
               /\ a.status \in ClosedApproval =>
                      runs[r].status = "failed" /\ runs[r].steps[p] = "failed"
    <3>1. p[1] \in Ordinals /\ p = <<p[1], 1>>
      BY <1>1, <2>5, ReviewHasOneRow
    <3>2. ApprovalOK(r)
      BY <1>1, <2>5 DEF AuditInv
    <3> QED
      BY <2>5, <3>1, <3>2 DEF ApprovalOK
  <2>6. ApprovalsAccepted
    BY <2>5 DEF ApprovalsAccepted
  <2> QED
    BY <2>1, <2>3, <2>4, <2>6 DEF BackupAccepted
<1> QED
  BY <1>1 DEF QuietBackupRestores

\* A backup taken when nothing is under way, no run was stranded and every definition has
\* its thread is one that Restore accepts, after any history of saves, runs, decisions,
\* deletions, claims, reports, cancellations, crashes and recoveries.
THEOREM QuietBackupsRestore == Spec => []QuietBackupRestores
BY QuietIsAccepted, TypeInvariant, AuditInvariant, OrderInvariant, EventInvariant, NeverOrphaned,
   BackupInvariant, PTL

-----------------------------------------------------------------------------
(* What strands a run.                                                     *)

\* RunsAreOwned for one run; the handler that owns it is inside it.
Owned(r) == runs[r].status = "running" /\ up =>
                \/ worker.phase # "idle" /\ worker.run = r
                \/ PendingApprovals(r) # {}

OwnedInv == \A r \in RunIds : Owned(r)

\* The two answers that leave the run they are about as it is.
Strands == ResultOverBudget \/ (Resume /\ worker.ctx # "live")

\* A run whose status and approvals stay is owned as long as its handler is.
LEMMA OwnerStays ==
    ASSUME NEW r \in RunIds, Owned(r),
           runs'[r].status = runs[r].status \/ runs'[r].status # "running",
           approvals'[r] = approvals[r], up' => up,
           \/ worker' = worker \/ worker.phase = "idle"
           \/ worker'.phase # "idle" /\ worker'.run = worker.run
           \/ worker.run # r
    PROVE  Owned(r)'
BY DEF Owned, PendingApprovals

LEMMA ExecuteOwned ==
    ASSUME TypeInv, Execute, ~Strands, NEW r \in RunIds, Owned(r)
    PROVE  Owned(r)'
<1>1. /\ worker.phase # "idle" => worker.run \in RunIds
      /\ runs \in [RunIds -> Run] /\ approvals \in [RunIds -> [Ordinals -> Approval]]
  BY DEF TypeInv, TypeOK, WellFormed
<1> worker \in Worker
  BY DEF TypeInv, TypeOK
<1>2. ASSUME NEW status, SetStep(status)
      PROVE  runs'[r].status = runs[r].status
  BY <1>1, <1>2 DEF SetStep, Run
<1>3. \A phase, verdict : GoOn(phase, verdict) => worker'.phase = phase /\ worker'.run = worker.run
  BY <1>1 DEF GoOn, Worker
<1>4. CASE \/ SkipSucceeded \/ StartAttempt \/ RecordUnresolved \/ FinishRecord \/ StepSucceeds
           \/ StepFails \/ RetryOrClose
  <2>1. worker'.phase # "idle" /\ worker'.run = worker.run
    <3>1. ASSUME NEW phase \in {"loop", "executing", "recording", "retrying", "closing"},
                 NEW verdict, GoOn(phase, verdict)
          PROVE  worker'.phase # "idle" /\ worker'.run = worker.run
      BY <1>3, <3>1
    <3>2. CASE StartAttempt \/ RecordUnresolved \/ FinishRecord \/ StepFails
      BY <3>1, <3>2 DEF StartAttempt, RecordUnresolved, FinishRecord, StepFails
    <3>3. CASE SkipSucceeded \/ StepSucceeds
      BY <3>3 DEF SkipSucceeded, StepSucceeds, Executing, Worker
    <3>4. CASE RetryOrClose
      <4>1. CASE worker' = [worker EXCEPT !.phase = "loop", !.att = @ + 1]
        BY <4>1 DEF Worker
      <4> QED
        BY <3>1, <3>4, <4>1 DEF RetryOrClose
    <3> QED
      BY <1>4, <3>2, <3>3, <3>4
  <2>2. runs'[r].status = runs[r].status /\ approvals' = approvals /\ up' = up
    BY <1>2, <1>4 DEF SkipSucceeded, StartAttempt, RecordUnresolved, FinishRecord,
       StepSucceeds, StepFails, RetryOrClose, DurableElsewhere
  <2> QED
    BY <2>1, <2>2, OwnerStays
<1>5. CASE Resume
  <2>1. worker.ctx = "live"
    BY <1>5 DEF Strands
  <2>2. /\ worker'.phase # "idle" /\ worker'.run = worker.run
        /\ runs' = runs /\ approvals' = approvals /\ up' = up
    BY <1>3, <1>5, <2>1 DEF Resume, DurableElsewhere
  <2> QED
    BY <2>2, OwnerStays
<1>6. CASE PauseForApproval
  <2>1. SetStep("running") /\ worker.phase # "idle" /\ worker.ord <= Len(worker.plan) /\ up' = up
    BY <1>6 DEF PauseForApproval, AtStep, Executing, DurableElsewhere
  <2>2. worker.run \in RunIds /\ worker.ord \in Ordinals
    BY <2>1, SetStepAt
  <2>3. /\ approvals'[worker.run][worker.ord].status = "pending"
        /\ r # worker.run => approvals'[r] = approvals[r]
    BY <1>1, <1>6, <2>2 DEF PauseForApproval
  <2>4. CASE r = worker.run
    BY <2>2, <2>3, <2>4 DEF Owned, PendingApprovals
  <2>5. CASE r # worker.run
    BY <1>2, <2>1, <2>3, <2>5, OwnerStays
  <2> QED
    BY <2>4, <2>5
<1>7. CASE FinishRun
  <2>1. worker.phase # "idle" /\ approvals' = approvals /\ up' = up
    BY <1>7 DEF FinishRun, DurableElsewhere
  <2>2. PICK v \in TerminalStatus : runs' = [runs EXCEPT ![worker.run].status = v]
    <3>1. worker.verdict \in TerminalStatus /\ "succeeded" \in TerminalStatus
      BY DEF Worker, TerminalStatus
    <3>2. \/ runs' = [runs EXCEPT ![worker.run].status = "succeeded"]
          \/ runs' = [runs EXCEPT ![worker.run].status = worker.verdict]
      BY <1>7 DEF FinishRun
    <3> QED
      BY <3>1, <3>2
  <2>3. IF r = worker.run THEN runs'[r].status # "running" ELSE runs'[r] = runs[r]
    BY <1>1, <2>1, <2>2 DEF Run, TerminalStatus
  <2> QED
    BY <2>1, <2>3, OwnerStays DEF Owned
<1>8. ~ResultOverBudget
  BY DEF Strands
<1> QED
  BY <1>4, <1>5, <1>6, <1>7, <1>8 DEF Execute

\* A run that loses an approval by a decision or by expiry is closed with it.
LEMMA ClosedOrOwned ==
    ASSUME TypeInv, NEW S, NEW status, NEW table, NEW r \in RunIds,
           table[r] = approvals[r], ClosedRuns(S)[r].status = "running"
    PROVE  /\ runs[r].status = "running"
           /\ ClosedApprovals(S, status, table)[r] = approvals[r]
<1>1. runs[r] \in Run /\ approvals[r] \in [Ordinals -> Approval]
  BY DEF TypeInv, TypeOK
<1>2. ~\E o \in Ordinals : <<r, o>> \in S
  BY <1>1 DEF ClosedRuns, Run
<1>3. ClosedApprovals(S, status, table)[r] = [o \in Ordinals |-> approvals[r][o]]
  BY <1>2 DEF ClosedApprovals
<1> QED
  BY <1>1, <1>2, <1>3 DEF ClosedRuns

LEMMA DecisionOwned ==
    ASSUME TypeInv, NEW S, NEW q \in RunIds, NEW o \in Ordinals, NEW d,
           ExpireApprovals(S) \/ Approve(q, o) \/ CloseDecision(q, o, d),
           NEW r \in RunIds, Owned(r)
    PROVE  Owned(r)'
<1> SUFFICES ASSUME runs'[r].status = "running"
             PROVE  \/ worker'.phase # "idle" /\ worker'.run = r
                    \/ PendingApprovals(r)' # {}
  BY DEF Owned
<1>1. worker.phase = "idle" /\ up
  BY DEF ExpireApprovals, Approve, CloseDecision, Serving
<1>2. ASSUME runs[r].status = "running", approvals'[r] = approvals[r]
      PROVE  PendingApprovals(r)' # {}
  BY <1>1, <1>2 DEF Owned, PendingApprovals
<1> DEFINE late == ClosedApprovals(OverdueApprovals, "expired", approvals)
<1>3. ClosedRuns(OverdueApprovals)[r].status = "running" =>
          runs[r].status = "running" /\ late[r] = approvals[r]
  BY ClosedOrOwned
<1>4. CASE ExpireApprovals(S)
  BY <1>2, <1>4, ClosedOrOwned DEF ExpireApprovals
<1>5. CASE CloseDecision(q, o, d)
  <2> DEFINE T == {<<q, o>>} \cup OverdueApprovals
  <2>1. runs'[r] = ClosedRuns(T)[r]
    BY <1>5 DEF CloseDecision
  <2>2. ~\E p \in Ordinals : <<r, p>> \in T
    BY <2>1 DEF ClosedRuns, TypeInv, TypeOK, Run
  <2>3. runs[r].status = "running" /\ late[r] = approvals[r]
    BY <2>1, <2>2, <1>3 DEF ClosedRuns
  <2>4. ClosedRuns({<<q, o>>})[r].status = "running"
    BY <2>2, <2>3 DEF ClosedRuns
  <2>5. \A status : ClosedApprovals({<<q, o>>}, status, late)[r] = approvals[r]
    BY <2>3, <2>4, ClosedOrOwned
  <2>6. approvals'[r] = approvals[r]
    BY <1>5, <2>5 DEF CloseDecision
  <2> QED
    BY <1>2, <2>3, <2>6
<1>6. CASE Approve(q, o)
  <2>1. worker'.phase # "idle" /\ worker'.run = q
    BY <1>6 DEF Approve, Idle
  <2>2. CASE r # q
    <3>1. runs'[r] = ClosedRuns(OverdueApprovals)[r]
      BY <1>6, <2>2 DEF Approve, ClosedRuns
    <3>2. runs[r].status = "running" /\ late[r] = approvals[r]
      BY <1>3, <3>1
    <3>3. ClosedRuns({<<q, o>>})[r] = runs[r]
      BY <2>2 DEF ClosedRuns
    <3>4. approvals'[r] = approvals[r]
      BY <1>6, <3>2, <3>3, ClosedOrOwned DEF Approve
    <3> QED
      BY <1>2, <3>2, <3>4
  <2> QED
    BY <2>1, <2>2
<1> QED
  BY <1>4, <1>5, <1>6

LEMMA RunWorkflowOwned ==
    ASSUME TypeInv, NEW w, NEW k, NEW client, RunWorkflow(w, k, client), NEW r \in RunIds, Owned(r)
    PROVE  Owned(r)'
<1>1. worker.phase = "idle" /\ approvals' = approvals /\ up' = up
  BY DEF RunWorkflow, Serving
<1>2. \/ runs'[r] = runs[r]
      \/ worker'.phase # "idle" /\ worker'.run = r
  <2>1. CASE runs' = runs
    BY <2>1
  <2>2. CASE /\ runs' = [runs EXCEPT ![<<w, k>>] = StartedRun(w)]
             /\ worker' = [Idle EXCEPT !.phase = "loop", !.run = <<w, k>>, !.plan = defs[w].plan,
                                       !.client = client]
    BY <2>2 DEF Idle, TypeInv, TypeOK
  <2> QED
    BY <2>1, <2>2 DEF RunWorkflow
<1> QED
  BY <1>1, <1>2, OwnerStays DEF Owned

LEMMA NextOwned ==
    ASSUME TypeInv, [Next]_vars, ~Strands \/ UNCHANGED vars, NEW r \in RunIds, Owned(r)
    PROVE  Owned(r)'
<1>1. CASE UNCHANGED <<runs, approvals, up, worker>>
  BY <1>1, OwnerStays
<1>2. CASE UNCHANGED vars
  BY <1>1, <1>2 DEF vars, tables
<1>3. CASE Execute
  BY <1>2, <1>3, ExecuteOwned
<1>4. ASSUME NEW w, NEW k, NEW client, RunWorkflow(w, k, client)
      PROVE  Owned(r)'
  BY <1>4, RunWorkflowOwned
<1>5. CASE UserRequest
  <2>1. ASSUME NEW w, NEW p, NEW t, NEW G, NEW g, NEW s,
               \/ SaveWorkflow(w, p, t) \/ DeleteWorkflow(w) \/ SaveGroup(t, s)
               \/ ActivateVersion(t, G, s) \/ RemoveTargets(g, G, s)
               \/ ArchiveThread(t) \/ DeleteThread(t)
        PROVE  UNCHANGED <<runs, approvals, up, worker>>
    BY <2>1, Zenon DEF SaveWorkflow, DeleteWorkflow, SaveGroup, ActivateVersion, RemoveTargets,
                ArchiveThread, DeleteThread
  <2> QED
    BY <1>1, <1>4, <1>5, <2>1, DecisionOwned, ConstantTypes DEF UserRequest
<1>6. CASE TriggerRequest
  <2>1. ASSUME ClaimDue \/ \E e, s, k : FinishTrigger(e, s, k)
        PROVE  UNCHANGED <<runs, approvals, up, worker>>
    BY <2>1, Zenon DEF ClaimDue, FinishTrigger
  <2> QED
    BY <1>1, <1>4, <1>6, <2>1 DEF TriggerRequest
<1>7. CASE Environment
  <2>1. CASE Tick
    BY <1>1, <2>1 DEF Tick, tables
  <2>2. ASSUME NEW q \in RunIds, NEW o \in Ordinals, BecomeOverdue(q, o)
        PROVE  Owned(r)'
    <3>1. \A p \in Ordinals : approvals'[r][p].status = approvals[r][p].status
      BY <2>2 DEF BecomeOverdue, TypeInv, TypeOK, Approval
    <3>2. PendingApprovals(r)' = PendingApprovals(r)
      BY <3>1 DEF PendingApprovals
    <3> QED
      BY <2>2, <3>2 DEF BecomeOverdue, Owned
  <2>3. ASSUME NEW how, Interrupt(how)
        PROVE  Owned(r)'
    <3>1. worker'.phase = worker.phase /\ worker'.run = worker.run
      BY <2>3 DEF Interrupt, TypeInv, TypeOK, Worker
    <3> QED
      BY <2>3, <3>1 DEF Interrupt, tables, Owned, PendingApprovals
  <2> QED
    BY <1>7, <2>1, <2>2, <2>3 DEF Environment
<1>8. CASE Crash
  BY <1>8 DEF Crash, Owned
<1>9. CASE Restart
  <2>1. runs'[r] = Recovered(r) /\ runs[r] \in Run /\ approvals' = approvals
    BY <1>9 DEF Restart, TypeInv, TypeOK
  <2>2. runs'[r].status = "running" => PendingApprovals(r) # {}
    BY <2>1 DEF Recovered, Run
  <2> QED
    BY <2>1, <2>2 DEF Owned, PendingApprovals
<1> QED
  BY <1>2, <1>3, <1>5, <1>6, <1>7, <1>8, <1>9 DEF Next

\* A result over its budget and a resume whose context has ended are the only steps that
\* strand a run: as long as neither happens, a run that is not finished has its handler or
\* waits for a person, through every other failure, decision, crash and recovery.
THEOREM TwoStepsStrand == Spec /\ [][~Strands]_vars => []RunsAreOwned
<1>1. Init => OwnedInv
  BY DEF Init, NoRun, Owned, OwnedInv
<1>2. TypeInv /\ OwnedInv /\ [Next]_vars /\ [~Strands]_vars => OwnedInv'
  BY NextOwned DEF OwnedInv
<1>3. OwnedInv => RunsAreOwned
  BY DEF Owned, OwnedInv, RunsAreOwned
<1> QED
  BY <1>1, <1>2, <1>3, TypeInvariant, PTL DEF Spec
=============================================================================
