------------------------ MODULE WorkflowRuns_proofs ------------------------
(***************************************************************************)
(* Runs, checkpoints and approvals of WorkflowEngine, for every value of   *)
(* its constants that WorkflowAssumption allows. The proofs build on one   *)
(* another: types first, then the audit, then the order of the             *)
(* checkpoints, and at last that all of it implements RunPromise.          *)
(***************************************************************************)
EXTENDS WorkflowEngine, TLAPS

-----------------------------------------------------------------------------
(***************************************************************************)
(* Types. No step is attempted more often than its table can hold.         *)
(***************************************************************************)

\* TypeOK is not inductive by itself: an attempt may be repeated only because the handler
\* holds a plan of Plans and is inside one of its steps, a due time is a number only
\* because an active scheduled definition has one, and an event is finished in the thread
\* of its workflow only because every event has a workflow.
WellFormed ==
    /\ \A w \in Workflows : defs[w].status = "active" =>
          /\ defs[w].plan \in Plans
          /\ defs[w].trigger \in Triggers
          /\ defs[w].trigger \in Scheduled => defs[w].nextDue \in Nat
    /\ \A e \in EventIds : events[e].status # "absent" => events[e].workflow \in Workflows
    /\ worker.phase # "idle" => worker.run \in RunIds /\ worker.plan \in Plans
    /\ worker.phase \in {"executing", "retrying"} => worker.ord <= Len(worker.plan)

TypeInv == TypeOK /\ WellFormed

-----------------------------------------------------------------------------

\* A due time is a natural number.
LEMMA NextDueNat ==
    ASSUME NEW kind, NEW t \in Nat
    PROVE  NextDue(kind, t) \in Nat
<1>1. Every \in Nat \ {0}
  BY WorkflowAssumption
<1>2. t \div Every \in Nat
  BY <1>1
<1>3. (t \div Every + 1) * Every \in Nat
  BY <1>1, <1>2
<1> QED
  BY <1>1, <1>3 DEF NextDue

\* The constants have the types the tables need.
LEMMA ConstantTypes ==
    /\ 1 \in Attempts /\ 1 \in Ordinals /\ Attempts \subseteq Nat /\ Ordinals \subseteq Nat
    /\ TargetOf \in [Workflows -> Targets]
    /\ \A p \in Plans : /\ Len(p) \in Ordinals
                        /\ \A i \in 1..Len(p) : p[i].attempts \in Attempts
<1>1. \A p \in Plans : p \in Seq(StepDefs)
  BY WorkflowAssumption
<1>2. \A p \in Plans : \A i \in 1..Len(p) : p[i] \in StepDefs
  BY <1>1
<1>3. \A p \in Plans : \A i \in 1..Len(p) : p[i].attempts \in Attempts
  BY <1>2 DEF StepDefs
<1> QED
  BY <1>3, WorkflowAssumption DEF Attempts, Ordinals

\* The empty database is well typed.
LEMMA InitTyped == Init => TypeInv
<1> SUFFICES ASSUME Init PROVE TypeInv
  OBVIOUS
<1>1. defs \in [Workflows -> Definition]
  BY DEF Init, Definition, NoDefinition
<1>2. targets \in [Targets -> Target]
  <2>1. targets \in [Targets -> [exists : {TRUE}, signature : Signatures,
                                 thread : {"open"}, entries : {<<>>}]]
    BY DEF Init
  <2>2. <<>> \in Seq(EventIds)
    OBVIOUS
  <2> QED
    BY <2>1, <2>2 DEF Target
<1>3. events \in [EventIds -> Event]
  BY DEF Init, Event, NoEvent
<1>4. runs \in [RunIds -> Run]
  BY DEF Init, Run, NoRun
<1>5. approvals \in [RunIds -> [Ordinals -> Approval]]
  BY DEF Init, Approval, NoApproval
<1>6. worker \in Worker /\ reply \in Replies /\ now \in Nat /\ up \in BOOLEAN
  BY ConstantTypes DEF Init, Worker, Idle, TerminalStatus, Replies
<1>7. WellFormed
  BY DEF Init, WellFormed, NoDefinition, NoEvent, Idle
<1> QED
  BY <1>1, <1>2, <1>3, <1>4, <1>5, <1>6, <1>7 DEF TypeInv, TypeOK

-----------------------------------------------------------------------------
(* Typing of the pieces the actions are made of.                           *)

\* Cancelling what is queued changes statuses only.
LEMMA CancelTyped ==
    ASSUME TypeInv, NEW W, CancelPending(W)
    PROVE  /\ events' \in [EventIds -> Event]
           /\ \A e \in EventIds : events'[e].workflow = events[e].workflow
           /\ \A e \in EventIds : events'[e].status # "absent" => events[e].status # "absent"
BY DEF TypeInv, TypeOK, CancelPending, Event, TerminalStatus

\* A checkpoint of the run the handler is inside.
LEMMA SetStepTyped ==
    ASSUME TypeInv, NEW s \in {"running"} \cup TerminalStatus, SetStep(s)
    PROVE  runs' \in [RunIds -> Run]
<1>1. ASSUME NEW r \in RunIds
      PROVE  runs'[r] \in Run
  <2>1. runs[r] \in Run
    BY DEF TypeInv, TypeOK
  <2>2. /\ runs'[r].status = runs[r].status /\ runs'[r].version = runs[r].version
        /\ runs'[r].plan = runs[r].plan
        /\ \/ runs'[r] = runs[r]
           \/ runs'[r] = [runs[r] EXCEPT !.steps[<<worker.ord, worker.att>>] = s]
    BY <1>1, <2>1 DEF SetStep, TypeInv, TypeOK, Run
  <2> QED
    BY <2>1, <2>2 DEF Run
<1> QED
  BY <1>1 DEF SetStep, TypeInv, TypeOK

\* Closing approvals keeps the shape of the three tables it writes.
LEMMA ClosingTyped ==
    ASSUME TypeInv, NEW S, NEW status \in ClosedApproval \cup {"approved"},
           NEW table \in [RunIds -> [Ordinals -> Approval]]
    PROVE  /\ ClosedApprovals(S, status, table) \in [RunIds -> [Ordinals -> Approval]]
           /\ ClosedRuns(S) \in [RunIds -> Run]
<1>1. ASSUME NEW r \in RunIds, NEW o \in Ordinals
      PROVE  ClosedApprovals(S, status, table)[r][o] \in Approval
  BY DEF ClosedApprovals, Approval
<1>2. ASSUME NEW r \in RunIds
      PROVE  ClosedRuns(S)[r] \in Run
  <2>1. runs[r] \in Run
    BY DEF TypeInv, TypeOK
  <2> QED
    BY <2>1 DEF ClosedRuns, Run, TerminalStatus
<1> QED
  BY <1>1, <1>2 DEF ClosedApprovals, ClosedRuns

-----------------------------------------------------------------------------
(* Each action keeps TypeInv.                                              *)

\* The actions on definitions and targets.
LEMMA SaveWorkflowTyped ==
    ASSUME TypeInv, NEW w \in Workflows, NEW plan \in Plans, NEW kind \in Triggers,
           SaveWorkflow(w, plan, kind)
    PROVE  TypeInv'
<1>1. /\ events' \in [EventIds -> Event]
      /\ \A e \in EventIds : events'[e].workflow = events[e].workflow
      /\ \A e \in EventIds : events'[e].status # "absent" => events[e].status # "absent"
  BY CancelTyped DEF SaveWorkflow
<1>2. NextDue(kind, now) \in Nat
  BY NextDueNat DEF TypeInv, TypeOK
<1>3. targets[TargetOf[w]].signature \in Signatures
  BY ConstantTypes DEF TypeInv, TypeOK, Target
<1>4. defs'[w] \in Definition /\ defs'[w].plan \in Plans /\ defs'[w].trigger \in Triggers
      /\ (defs'[w].trigger \in Scheduled => defs'[w].nextDue \in Nat)
  BY <1>2, <1>3 DEF SaveWorkflow, TypeInv, TypeOK, Definition
<1>5. defs' \in [Workflows -> Definition] /\ \A v \in Workflows : v # w => defs'[v] = defs[v]
  BY <1>4 DEF SaveWorkflow, TypeInv, TypeOK
<1> QED
  BY <1>1, <1>4, <1>5 DEF SaveWorkflow, TypeInv, TypeOK, WellFormed

LEMMA DeleteWorkflowTyped ==
    ASSUME TypeInv, NEW w \in Workflows, DeleteWorkflow(w)
    PROVE  TypeInv'
<1>1. /\ events' \in [EventIds -> Event]
      /\ \A e \in EventIds : events'[e].workflow = events[e].workflow
      /\ \A e \in EventIds : events'[e].status # "absent" => events[e].status # "absent"
  BY CancelTyped DEF DeleteWorkflow
<1>2. defs' \in [Workflows -> Definition] /\ \A v \in Workflows : v # w => defs'[v] = defs[v]
  BY DEF DeleteWorkflow, TypeInv, TypeOK, Definition
<1>3. defs'[w].status = "deleted"
  BY DEF DeleteWorkflow, TypeInv, TypeOK, Definition
<1> QED
  BY <1>1, <1>2, <1>3 DEF DeleteWorkflow, TypeInv, TypeOK, WellFormed

LEMMA RemoveTargetsTyped ==
    ASSUME TypeInv, NEW gone, NEW shrunk, NEW s \in Signatures, RemoveTargets(gone, shrunk, s)
    PROVE  TypeInv'
<1> DEFINE affected == {w \in Workflows : TargetOf[w] \in gone \cup shrunk}
<1>1. /\ events' \in [EventIds -> Event]
      /\ \A e \in EventIds : events'[e].workflow = events[e].workflow
      /\ \A e \in EventIds : events'[e].status # "absent" => events[e].status # "absent"
  <2>1. CancelPending(affected)
    BY DEF RemoveTargets
  <2> QED
    BY <2>1, CancelTyped
<1>2. ASSUME NEW w \in Workflows
      PROVE  /\ defs'[w] \in Definition
             /\ defs'[w].status = "active" =>
                    /\ defs[w].status = "active"
                    /\ defs'[w].plan = defs[w].plan /\ defs'[w].trigger = defs[w].trigger
                    /\ defs'[w].nextDue = defs[w].nextDue
  <2>1. defs[w] \in Definition
    BY DEF TypeInv, TypeOK
  <2> QED
    BY <2>1 DEF RemoveTargets, RetiredDefs, Definition
<1>3. ASSUME NEW t \in Targets
      PROVE  targets'[t] \in Target
  <2>1. targets[t] \in Target
    BY DEF TypeInv, TypeOK
  <2>2. <<>> \in Seq(EventIds)
    OBVIOUS
  <2> QED
    BY <2>1, <2>2 DEF RemoveTargets, Target
<1>4. defs' \in [Workflows -> Definition] /\ targets' \in [Targets -> Target]
  BY <1>2, <1>3 DEF RemoveTargets
<1>5. UNCHANGED <<runs, approvals, now, up, worker, reply>>
  BY DEF RemoveTargets
<1> QED
  BY <1>1, <1>2, <1>4, <1>5 DEF TypeInv, TypeOK, WellFormed

\* The actions that only change signatures and threads.
LEMMA TargetsTyped ==
    ASSUME TypeInv, NEW t \in Targets, NEW s \in Signatures, NEW G,
           SaveGroup(t, s) \/ ActivateVersion(t, G, s) \/ ArchiveThread(t) \/ DeleteThread(t)
    PROVE  TypeInv'
<1>1. ASSUME NEW u \in Targets
      PROVE  targets'[u] \in Target
  <2>1. targets[u] \in Target
    BY DEF TypeInv, TypeOK
  <2>2. <<>> \in Seq(EventIds)
    OBVIOUS
  <2>3. CASE SaveGroup(t, s)
    BY <2>1, <2>3 DEF SaveGroup, Target, TypeInv, TypeOK
  <2>4. CASE ActivateVersion(t, G, s)
    BY <2>1, <2>4 DEF ActivateVersion, Target
  <2>5. CASE ArchiveThread(t)
    BY <2>1, <2>5 DEF ArchiveThread, Target, TypeInv, TypeOK
  <2>6. CASE DeleteThread(t)
    BY <2>1, <2>2, <2>6 DEF DeleteThread, Target, TypeInv, TypeOK
  <2> QED
    BY <2>3, <2>4, <2>5, <2>6
<1>2. targets' \in [Targets -> Target]
  BY <1>1 DEF SaveGroup, ActivateVersion, ArchiveThread, DeleteThread, TypeInv, TypeOK
<1>3. UNCHANGED <<defs, events, runs, approvals, now, up, worker, reply>>
  BY DEF SaveGroup, ActivateVersion, ArchiveThread, DeleteThread
<1> QED
  BY <1>2, <1>3 DEF TypeInv, TypeOK, WellFormed

\* The trigger queue.
LEMMA ClaimDueTyped ==
    ASSUME TypeInv, ClaimDue
    PROVE  TypeInv'
<1> DEFINE due   == {w \in Workflows : IsDue(w)}
           fresh == {w \in due : ~AlreadyQueued(w)}
           free  == {e \in EventIds : events[e].status = "absent"}
<1>1. ASSUME NEW w \in due
      PROVE  /\ defs[w].status = "active" /\ defs[w].trigger \in Triggers
             /\ defs[w].version \in Nat
             /\ targets[TargetOf[w]].signature \in Signatures
             /\ DedupeKey(w) \in Nat
             /\ defs[w].trigger \in Scheduled => defs[w].nextDue \in Nat
  <2>1. targets[TargetOf[w]].signature \in Signatures
    BY ConstantTypes DEF TypeInv, TypeOK, Target
  <2>2. defs[w].status = "active" /\ defs[w].trigger \in Triggers /\ defs[w].version \in Nat
        /\ (defs[w].trigger \in Scheduled => defs[w].nextDue \in Nat)
    BY DEF IsDue, TypeInv, TypeOK, WellFormed, Definition
  <2>3. Signatures \subseteq Nat
    BY WorkflowAssumption
  <2> QED
    BY <2>1, <2>2, <2>3 DEF DedupeKey
<1>2. PICK id \in [fresh -> free] : events' = [e \in EventIds |->
              IF \E w \in fresh : id[w] = e
              THEN LET w == CHOOSE x \in fresh : id[x] = e IN
                   [NoEvent EXCEPT !.status = "pending", !.workflow = w,
                        !.version = defs[w].version, !.kind = defs[w].trigger,
                        !.key = DedupeKey(w),
                        !.due = IF defs[w].trigger \in Scheduled
                                THEN defs[w].nextDue ELSE now]
              ELSE events[e]]
  BY DEF ClaimDue
<1>3. ASSUME NEW e \in EventIds
      PROVE  /\ events'[e] \in Event
             /\ events'[e].status # "absent" => events'[e].workflow \in Workflows
  <2>1. CASE ~\E w \in fresh : id[w] = e
    BY <1>2, <2>1 DEF TypeInv, TypeOK, WellFormed
  <2>2. CASE \E w \in fresh : id[w] = e
    <3> DEFINE v == CHOOSE x \in fresh : id[x] = e
    <3>1. v \in due
      BY <2>2
    <3>2. events'[e] = [NoEvent EXCEPT !.status = "pending", !.workflow = v,
                        !.version = defs[v].version, !.kind = defs[v].trigger,
                        !.key = DedupeKey(v),
                        !.due = IF defs[v].trigger \in Scheduled
                                THEN defs[v].nextDue ELSE now]
      BY <1>2, <2>2
    <3>3. now \in Nat /\ v \in Workflows
      BY <3>1 DEF TypeInv, TypeOK
    <3>4. /\ defs[v].trigger \in Triggers /\ defs[v].version \in Nat /\ DedupeKey(v) \in Nat
          /\ defs[v].trigger \in Scheduled => defs[v].nextDue \in Nat
      BY <1>1, <3>1
    <3> HIDE DEF v
    <3> QED
      BY <3>2, <3>3, <3>4 DEF Event, NoEvent
  <2> QED
    BY <2>1, <2>2
<1>4. ASSUME NEW w \in Workflows
      PROVE  /\ defs'[w] \in Definition
             /\ defs'[w].status = defs[w].status /\ defs'[w].plan = defs[w].plan
             /\ defs'[w].trigger = defs[w].trigger
             /\ defs'[w].status = "active" /\ defs'[w].trigger \in Scheduled =>
                    defs'[w].nextDue \in Nat
  <2>1. defs[w] \in Definition
    BY DEF TypeInv, TypeOK
  <2>2. NextDue(defs[w].trigger, now) \in Nat
    BY NextDueNat DEF TypeInv, TypeOK
  <2>3. targets[TargetOf[w]].signature \in Signatures
    BY ConstantTypes DEF TypeInv, TypeOK, Target
  <2>4. CASE w \notin due
    BY <2>1, <2>4 DEF ClaimDue, TypeInv, WellFormed
  <2>5. CASE w \in due /\ defs[w].trigger \in Scheduled
    BY <2>1, <2>2, <2>5 DEF ClaimDue, Definition
  <2>6. CASE w \in due /\ defs[w].trigger \notin Scheduled
    BY <2>1, <2>3, <2>6 DEF ClaimDue, Definition
  <2> QED
    BY <2>4, <2>5, <2>6
<1>5. events' \in [EventIds -> Event] /\ defs' \in [Workflows -> Definition]
  BY <1>2, <1>3, <1>4 DEF ClaimDue
<1>6. UNCHANGED <<targets, runs, approvals, now, up, worker, reply>>
  BY DEF ClaimDue
<1> HIDE DEF due, fresh, free
<1> QED
  BY <1>3, <1>4, <1>5, <1>6 DEF TypeInv, TypeOK, WellFormed

LEMMA FinishTriggerTyped ==
    ASSUME TypeInv, NEW e \in EventIds, NEW s \in TerminalStatus, NEW k \in Keys \cup {None},
           FinishTrigger(e, s, k)
    PROVE  TypeInv'
<1>1. events[e].status # "absent" /\ TargetOf[events[e].workflow] \in Targets
  <2>1. events[e].status # "absent"
    BY DEF FinishTrigger, CanFinish
  <2> QED
    BY <2>1, ConstantTypes DEF TypeInv, WellFormed
<1> DEFINE t == TargetOf[events[e].workflow]
<1>2. targets'[t] \in Target
  <2>1. targets[t] \in Target
    BY <1>1 DEF TypeInv, TypeOK
  <2>2. Append(targets[t].entries, e) \in Seq(EventIds)
    BY <2>1 DEF Target
  <2> QED
    BY <1>1, <2>1, <2>2 DEF FinishTrigger, TypeInv, TypeOK, Target
<1>3. targets' \in [Targets -> Target]
  BY <1>2 DEF FinishTrigger, TypeInv, TypeOK
<1>4. events'[e] \in Event /\ events'[e].workflow = events[e].workflow
  BY DEF FinishTrigger, TypeInv, TypeOK, Event
<1>5. /\ events' \in [EventIds -> Event]
      /\ \A f \in EventIds : events'[f].workflow = events[f].workflow
      /\ \A f \in EventIds : events'[f].status # "absent" => events[f].status # "absent"
  BY <1>1, <1>4 DEF FinishTrigger, TypeInv, TypeOK
<1>6. UNCHANGED <<defs, runs, approvals, now, up, worker, reply>>
  BY DEF FinishTrigger
<1> QED
  BY <1>3, <1>5, <1>6 DEF TypeInv, TypeOK, WellFormed

\* The run loop.
LEMMA IdleTyped == Idle \in Worker
BY ConstantTypes DEF Worker, Idle, TerminalStatus

LEMMA RunWorkflowTyped ==
    ASSUME TypeInv, NEW w \in Workflows, NEW k \in Keys, NEW client \in {"trigger", "other"},
           RunWorkflow(w, k, client)
    PROVE  TypeInv'
<1> DEFINE r == <<w, k>>
<1>1. r \in RunIds /\ runs[r].status \in {"running"} \cup TerminalStatus \cup {"absent"}
  BY DEF RunIds, TypeInv, TypeOK, Run
<1>2. RunView(r) \in Replies \cup {"absent"}
  BY <1>1 DEF RunView, Replies
<1>3. UNCHANGED <<defs, targets, events, approvals, now, up>>
  BY DEF RunWorkflow
<1>4. CASE UNCHANGED <<runs, worker>>
  <2>1. reply' \in Replies
    BY <1>2, <1>4 DEF RunWorkflow, RunView, Replies, TypeInv, TypeOK
  <2> QED
    BY <1>3, <1>4, <2>1 DEF TypeInv, TypeOK, WellFormed
<1>5. CASE ~UNCHANGED <<runs, worker>>
  <2>1. /\ defs[w].status = "active"
        /\ runs' = [runs EXCEPT ![r] = StartedRun(w)]
        /\ worker' = [Idle EXCEPT !.phase = "loop", !.run = r, !.plan = defs[w].plan,
                                  !.client = client]
        /\ reply' \in Replies
    BY <1>5 DEF RunWorkflow, TypeInv, TypeOK, Replies
  <2>2. defs[w].plan \in Plans /\ defs[w].version \in Nat
    BY <2>1 DEF TypeInv, TypeOK, WellFormed, Definition
  <2>3. runs' \in [RunIds -> Run]
    BY <1>1, <2>1, <2>2 DEF StartedRun, TypeInv, TypeOK, Run, NoRun
  <2>4. /\ worker' \in Worker /\ worker'.run \in RunIds /\ worker'.plan \in Plans
        /\ worker'.phase = "loop"
    <3> HIDE DEF r
    <3>1. worker' \in Worker
      BY <1>1, <2>1, <2>2, IdleTyped DEF Worker
    <3> QED
      BY <1>1, <2>1, <2>2, <3>1 DEF Idle
  <2> QED
    BY <1>3, <2>1, <2>3, <2>4 DEF TypeInv, TypeOK, WellFormed
<1> QED
  BY <1>4, <1>5

\* Going back to idle is always well typed.
LEMMA AnswerTyped ==
    ASSUME TypeInv, NEW s \in Replies, Answer(s)
    PROVE  worker' = Idle /\ worker' \in Worker /\ worker'.phase = "idle" /\ reply' \in Replies
BY ConstantTypes DEF Answer, Worker, Idle, TerminalStatus, TypeInv, TypeOK

LEMMA ExecuteTyped ==
    ASSUME TypeInv, Execute
    PROVE  TypeInv'
<1>1. DurableElsewhere
  BY DEF Execute, SkipSucceeded, PauseForApproval, StartAttempt, RecordUnresolved, FinishRecord,
         StepSucceeds, StepFails, RetryOrClose, ResultOverBudget, FinishRun, Resume
<1>2. worker \in Worker /\ reply \in Replies
  BY DEF TypeInv, TypeOK
<1>3. worker.phase # "idle" => worker.run \in RunIds /\ worker.plan \in Plans
  BY DEF TypeInv, WellFormed
<1> SUFFICES /\ runs' \in [RunIds -> Run] /\ approvals' \in [RunIds -> [Ordinals -> Approval]]
             /\ worker' \in Worker /\ reply' \in Replies
             /\ worker'.phase # "idle" => worker'.run \in RunIds /\ worker'.plan \in Plans
             /\ worker'.phase \in {"executing", "retrying"} => worker'.ord <= Len(worker'.plan)
  BY <1>1 DEF DurableElsewhere, TypeInv, TypeOK, WellFormed
<1>4. CASE SkipSucceeded
  BY <1>2, <1>3, <1>4 DEF SkipSucceeded, Executing, Worker, TypeInv, TypeOK
<1>5. CASE PauseForApproval
  <2>1. runs' \in [RunIds -> Run]
    BY <1>5, SetStepTyped DEF PauseForApproval
  <2>2. worker.run \in RunIds
    BY <1>3, <1>5 DEF PauseForApproval, AtStep, Executing
  <2>3. runs[worker.run].version \in Nat
    BY <2>2 DEF TypeInv, TypeOK, Run
  <2>4. approvals' \in [RunIds -> [Ordinals -> Approval]]
    BY <1>5, <2>3 DEF PauseForApproval, TypeInv, TypeOK, Approval
  <2> QED
    BY <1>5, <2>1, <2>4, AnswerTyped DEF PauseForApproval, Replies
<1>6. CASE StartAttempt
  <2>1. runs' \in [RunIds -> Run]
    BY <1>6, SetStepTyped DEF StartAttempt
  <2> QED
    BY <1>2, <1>3, <1>6, <2>1 DEF StartAttempt, AtStep, Executing, GoOn, Worker, TypeInv, TypeOK
<1>7. CASE RecordUnresolved
  <2>1. runs' \in [RunIds -> Run]
    BY <1>7, SetStepTyped DEF RecordUnresolved
  <2> QED
    BY <1>2, <1>3, <1>7, <2>1
    DEF RecordUnresolved, AtStep, Executing, GoOn, Worker, TerminalStatus, TypeInv, TypeOK
<1>8. CASE FinishRecord
  <2>1. runs' \in [RunIds -> Run]
    BY <1>2, <1>8, SetStepTyped DEF FinishRecord, Worker
  <2> QED
    BY <1>2, <1>3, <1>8, <2>1 DEF FinishRecord, Executing, GoOn, Worker, TypeInv, TypeOK
<1>9. CASE StepSucceeds
  <2>1. runs' \in [RunIds -> Run]
    BY <1>9, SetStepTyped DEF StepSucceeds, TerminalStatus
  <2>2. worker' = [worker EXCEPT !.phase = "loop", !.ord = @ + 1, !.att = 1]
        /\ UNCHANGED <<approvals, reply>> /\ worker.phase # "idle"
    BY <1>9 DEF StepSucceeds, Executing
  <2>3. worker' \in Worker
    <3>1. 1 \in Attempts /\ worker.ord + 1 \in Nat \ {0}
      BY <1>2, ConstantTypes DEF Worker
    <3> QED
      BY <1>2, <2>2, <3>1 DEF Worker
  <2> QED
    BY <1>2, <1>3, <2>1, <2>2, <2>3 DEF Worker, TypeInv, TypeOK
<1>10. CASE StepFails
  <2>1. (IF worker.ctx = "live" THEN "failed" ELSE worker.ctx) \in TerminalStatus
    BY <1>2 DEF Worker, TerminalStatus
  <2>2. runs' \in [RunIds -> Run]
    BY <1>10, <2>1, SetStepTyped DEF StepFails
  <2> QED
    BY <1>2, <1>3, <1>10, <2>2
    DEF StepFails, Executing, GoOn, Worker, TypeInv, TypeOK, WellFormed
<1>11. CASE RetryOrClose
  <2>1. (IF worker.ctx = "live" THEN "failed" ELSE worker.ctx) \in TerminalStatus
    BY <1>2 DEF Worker, TerminalStatus
  <2>2. worker.plan[worker.ord].attempts \in Attempts
    BY <1>2, <1>3, <1>11, ConstantTypes DEF RetryOrClose, Executing, Worker, TypeInv, WellFormed
  <2>3. worker.att < worker.plan[worker.ord].attempts => worker.att + 1 \in Attempts
    <3>1. worker.att \in Attempts
      BY <1>2 DEF Worker
    <3> QED
      BY <2>2, <3>1, WorkflowAssumption DEF Attempts
  <2> QED
    BY <1>2, <1>3, <1>11, <2>1, <2>3 DEF RetryOrClose, Executing, GoOn, Worker, TypeInv, TypeOK
<1>12. CASE ResultOverBudget
  BY <1>12, AnswerTyped DEF ResultOverBudget, Replies, TypeInv, TypeOK
<1>13. CASE FinishRun
  <2> DEFINE done    == worker.phase = "loop" /\ worker.ord > Len(worker.plan)
             verdict == IF done THEN "succeeded" ELSE worker.verdict
  <2>1. verdict \in TerminalStatus
    BY <1>2 DEF Worker, TerminalStatus
  <2>2. runs' \in [RunIds -> Run]
    BY <1>13, <2>1 DEF FinishRun, TypeInv, TypeOK, Run
  <2>3. Answer(verdict) /\ UNCHANGED approvals
    BY <1>13 DEF FinishRun
  <2> QED
    BY <2>1, <2>2, <2>3, AnswerTyped DEF Replies, TypeInv, TypeOK
<1>14. CASE Resume
  <2>1. CASE worker.ctx = "live"
    BY <1>2, <1>3, <1>14, <2>1 DEF Resume, Executing, GoOn, Worker, TypeInv, TypeOK
  <2>2. CASE worker.ctx # "live"
    BY <1>14, <2>2, AnswerTyped DEF Resume, Replies, TypeInv, TypeOK
  <2> QED
    BY <2>1, <2>2
<1> QED
  BY <1>4, <1>5, <1>6, <1>7, <1>8, <1>9, <1>10, <1>11, <1>12, <1>13, <1>14 DEF Execute

\* Approvals.
LEMMA ExpireTyped ==
    ASSUME TypeInv, NEW S, ExpireApprovals(S)
    PROVE  TypeInv'
<1>1. approvals \in [RunIds -> [Ordinals -> Approval]] /\ "expired" \in ClosedApproval
  BY DEF TypeInv, TypeOK, ClosedApproval
<1> QED
  BY <1>1, ClosingTyped DEF ExpireApprovals, TypeInv, TypeOK, WellFormed

LEMMA DecisionTyped ==
    ASSUME TypeInv, NEW r \in RunIds, NEW o \in Ordinals, NEW decision,
           CloseDecision(r, o, decision) \/ Approve(r, o)
    PROVE  TypeInv'
<1>1. approvals \in [RunIds -> [Ordinals -> Approval]] /\ "expired" \in ClosedApproval
  BY DEF TypeInv, TypeOK, ClosedApproval
<1>2. CASE CloseDecision(r, o, decision)
  <2> DEFINE table  == ClosedApprovals(OverdueApprovals, "expired", approvals)
             status == IF StillBound(r, o) THEN "rejected" ELSE "cancelled"
  <2>1. table \in [RunIds -> [Ordinals -> Approval]] /\ status \in ClosedApproval
    BY <1>1, ClosingTyped DEF ClosedApproval
  <2>2. approvals' = ClosedApprovals({<<r, o>>}, status, table)
        /\ runs' = ClosedRuns({<<r, o>>} \cup OverdueApprovals)
        /\ UNCHANGED <<defs, targets, events, now, up, worker, reply>>
    BY <1>2 DEF CloseDecision
  <2> HIDE DEF table, status
  <2>3. approvals' \in [RunIds -> [Ordinals -> Approval]] /\ runs' \in [RunIds -> Run]
    BY <2>1, <2>2, ClosingTyped
  <2> QED
    BY <2>2, <2>3 DEF TypeInv, TypeOK, WellFormed
<1>3. CASE Approve(r, o)
  <2> DEFINE table  == ClosedApprovals(OverdueApprovals, "expired", approvals)
             closed == ClosedRuns(OverdueApprovals)
  <2>1. table \in [RunIds -> [Ordinals -> Approval]] /\ closed \in [RunIds -> Run]
    BY <1>1, ClosingTyped
  <2>2. /\ approvals' = ClosedApprovals({<<r, o>>}, "approved", table)
        /\ runs' = [closed EXCEPT ![r].steps =
              [p \in StepRows |-> IF p[1] = o /\ @[p] = "running" THEN "succeeded" ELSE @[p]]]
        /\ worker' = [Idle EXCEPT !.phase = "approved", !.run = r, !.plan = defs[r[1]].plan]
        /\ UNCHANGED <<defs, targets, events, now, up, reply>>
    BY <1>3 DEF Approve
  <2>3. defs[r[1]].plan \in Plans
    <3>1. r[1] \in Workflows
      BY DEF RunIds
    <3> QED
      BY <1>3, <3>1 DEF Approve, StillBound, TypeInv, WellFormed
  <2>4. worker' \in Worker /\ worker'.run \in RunIds /\ worker'.plan \in Plans
        /\ worker'.phase = "approved"
    <3>1. worker' \in Worker
      BY <2>2, <2>3, IdleTyped DEF Worker
    <3> QED
      BY <2>2, <2>3, <3>1 DEF Idle
  <2> HIDE DEF table, closed
  <2>5. runs' \in [RunIds -> Run]
    BY <2>1, <2>2 DEF Run, TerminalStatus
  <2>6. approvals' \in [RunIds -> [Ordinals -> Approval]]
    BY <2>1, <2>2, ClosingTyped
  <2> QED
    BY <2>2, <2>4, <2>5, <2>6 DEF TypeInv, TypeOK, WellFormed
<1> QED
  BY <1>2, <1>3

\* Time, interrupts, crashes and recovery.
LEMMA EnvironmentTyped ==
    ASSUME TypeInv, Environment \/ Crash \/ Restart
    PROVE  TypeInv'
<1>1. CASE Tick
  BY <1>1 DEF Tick, tables, TypeInv, TypeOK, WellFormed
<1>2. ASSUME NEW r \in RunIds, NEW o \in Ordinals, BecomeOverdue(r, o)
      PROVE  TypeInv'
  <2>1. approvals' \in [RunIds -> [Ordinals -> Approval]]
    <3>1. approvals[r] \in [Ordinals -> Approval] /\ approvals[r][o] \in Approval
      BY DEF TypeInv, TypeOK
    <3>2. [approvals[r][o] EXCEPT !.overdue = TRUE] \in Approval
      BY <3>1 DEF Approval
    <3>3. [approvals[r] EXCEPT ![o].overdue = TRUE] \in [Ordinals -> Approval]
      BY <3>1, <3>2
    <3>4. approvals' = [approvals EXCEPT ![r] = [approvals[r] EXCEPT ![o].overdue = TRUE]]
      BY <1>2 DEF BecomeOverdue
    <3> QED
      BY <3>3, <3>4 DEF TypeInv, TypeOK
  <2> QED
    BY <1>2, <2>1 DEF BecomeOverdue, TypeInv, TypeOK, WellFormed
<1>3. ASSUME NEW how \in Interrupts, Interrupt(how)
      PROVE  TypeInv'
  <2>1. how \in {"cancelled", "failed"}
    BY WorkflowAssumption
  <2>2. worker' = [worker EXCEPT !.ctx = how] /\ worker \in Worker
    BY <1>3 DEF Interrupt, TypeInv, TypeOK
  <2>3. /\ worker' \in Worker /\ worker'.phase = worker.phase /\ worker'.run = worker.run
        /\ worker'.plan = worker.plan /\ worker'.ord = worker.ord
    BY <2>1, <2>2 DEF Worker
  <2>4. UNCHANGED <<tables, now, up, reply>>
    BY <1>3 DEF Interrupt
  <2> QED
    BY <2>3, <2>4 DEF tables, TypeInv, TypeOK, WellFormed
<1>4. CASE Crash
  <2>1. worker' \in Worker /\ worker'.phase = "idle" /\ reply' \in Replies
    BY <1>4, ConstantTypes DEF Crash, Worker, Idle, TerminalStatus, Replies
  <2> QED
    BY <1>4, <2>1 DEF Crash, tables, TypeInv, TypeOK, WellFormed
<1>5. CASE Restart
  <2>1. ASSUME NEW r \in RunIds
        PROVE  Recovered(r) \in Run
    <3>1. runs[r] \in Run
      BY DEF TypeInv, TypeOK
    <3> QED
      BY <3>1 DEF Recovered, Run, TerminalStatus
  <2>2. runs' \in [RunIds -> Run]
    BY <1>5, <2>1 DEF Restart
  <2> QED
    BY <1>5, <2>2 DEF Restart, TypeInv, TypeOK, WellFormed
<1> QED
  BY <1>1, <1>2, <1>3, <1>4, <1>5 DEF Environment

-----------------------------------------------------------------------------
(* Type correctness.                                                       *)

LEMMA NextTyped == TypeInv /\ [Next]_vars => TypeInv'
<1> SUFFICES ASSUME TypeInv, [Next]_vars PROVE TypeInv'
  OBVIOUS
<1>1. CASE Execute
  BY <1>1, ExecuteTyped
<1>2. CASE UserRequest
  <2>1. ASSUME NEW w \in Workflows, NEW p \in Plans, NEW t \in Triggers, SaveWorkflow(w, p, t)
        PROVE  TypeInv'
    BY <2>1, SaveWorkflowTyped
  <2>2. ASSUME NEW w \in Workflows, DeleteWorkflow(w)
        PROVE  TypeInv'
    BY <2>2, DeleteWorkflowTyped
  <2>3. ASSUME NEW w \in Workflows, NEW k \in ManualKeys, RunWorkflow(w, k, "other")
        PROVE  TypeInv'
    <3>1. k \in Keys
      BY DEF Keys
    <3> QED
      BY <2>3, <3>1, RunWorkflowTyped
  <2>4. ASSUME NEW t \in Targets, NEW s \in Signatures, NEW G \in SUBSET Groups,
               SaveGroup(t, s) \/ ActivateVersion(t, G, s)
        PROVE  TypeInv'
    BY <2>4, TargetsTyped
  <2>5. ASSUME NEW gone \in SUBSET Targets, NEW shrunk \in SUBSET Targets, NEW s \in Signatures,
               RemoveTargets(gone, shrunk, s)
        PROVE  TypeInv'
    BY <2>5, RemoveTargetsTyped
  <2>6. ASSUME NEW t \in Archivable, ArchiveThread(t) \/ DeleteThread(t)
        PROVE  TypeInv'
    <3>1. t \in Targets /\ targets[t].signature \in Signatures
      BY WorkflowAssumption DEF TypeInv, TypeOK, Target
    <3> QED
      BY <2>6, <3>1, TargetsTyped
  <2>7. ASSUME NEW S \in SUBSET OverdueApprovals, ExpireApprovals(S)
        PROVE  TypeInv'
    BY <2>7, ExpireTyped
  <2>8. ASSUME NEW r \in RunIds, NEW o \in Ordinals, NEW d \in {"approved", "rejected"},
               Approve(r, o) \/ CloseDecision(r, o, d)
        PROVE  TypeInv'
    BY <2>8, DecisionTyped
  <2> QED
    BY <1>2, <2>1, <2>2, <2>3, <2>4, <2>5, <2>6, <2>7, <2>8 DEF UserRequest
<1>3. CASE TriggerRequest
  <2>1. CASE ClaimDue
    BY <2>1, ClaimDueTyped
  <2>2. ASSUME NEW e \in EventIds, events[e].status # "absent",
               RunWorkflow(events[e].workflow, e, "other")
        PROVE  TypeInv'
    <3>1. events[e].workflow \in Workflows /\ e \in Keys
      BY <2>2 DEF TypeInv, WellFormed, Keys
    <3> QED
      BY <2>2, <3>1, RunWorkflowTyped
  <2>3. ASSUME NEW e \in EventIds, NEW s \in TerminalStatus, NEW k \in Keys \cup {None},
               FinishTrigger(e, s, k)
        PROVE  TypeInv'
    BY <2>3, FinishTriggerTyped
  <2> QED
    BY <1>3, <2>1, <2>2, <2>3 DEF TriggerRequest
<1>4. CASE Environment \/ Crash \/ Restart
  BY <1>4, EnvironmentTyped
<1>5. CASE UNCHANGED vars
  BY <1>5 DEF vars, tables, TypeInv, TypeOK, WellFormed
<1> QED
  BY <1>1, <1>2, <1>3, <1>4, <1>5 DEF Next

\* Every table of the engine keeps its type, through every handler, crash and recovery:
\* no attempt is ever numbered beyond the attempts its step allows, and a running handler
\* always holds a run that exists and a plan that was saved.
THEOREM TypeInvariant == Spec => []TypeInv
<1>1. Init => TypeInv
  BY InitTyped
<1>2. TypeInv /\ [Next]_vars => TypeInv'
  BY NextTyped
<1> QED
  BY <1>1, <1>2, PTL DEF Spec

\* TypeOK, which the run workflow_runs checks on a small instance.
THEOREM TypeCorrect == Spec => []TypeOK
<1>1. TypeInv => TypeOK
  BY DEF TypeInv
<1> QED
  BY <1>1, TypeInvariant, PTL

-----------------------------------------------------------------------------
(***************************************************************************)
(* The audit: approvals agree with the runs and checkpoints they belong    *)
(* to, and what has ended stays as it is.                                  *)
(***************************************************************************)

\* The handler that is inside a run is alone with it: the run is running under the plan
\* the handler holds, nobody is asked about it, and its only running checkpoint is the
\* one the handler is busy with.
HandlerInv ==
    worker.phase # "idle" =>
        /\ up
        /\ runs[worker.run].status = "running" /\ runs[worker.run].plan = worker.plan
        /\ \A o \in Ordinals : approvals[worker.run][o].status # "pending"
        /\ \A p \in StepRows : runs[worker.run].steps[p] = "running" <=>
               /\ worker.phase \in {"executing", "recording"}
               /\ p = <<worker.ord, worker.att>>
        /\ worker.phase = "approved" => worker.att = 1
        /\ worker.phase = "recording" => worker.verdict # "succeeded"
        /\ \/ worker.phase \in {"executing", "recording", "retrying"}
           \/ worker.phase = "loop" /\ worker.att # 1
           => /\ worker.ord <= Len(worker.plan) /\ StepKind = "query"
              /\ ~OrdinalSucceeded(worker.run, worker.ord)

\* A run that does not exist has no rows; one that has ended has no running checkpoint;
\* and one of the definition's version has the definition's plan.
RunOK(r) ==
    /\ runs[r].status = "absent" => /\ \A p \in StepRows : runs[r].steps[p] = "absent"
                                    /\ \A o \in Ordinals : approvals[r][o].status = "absent"
    /\ runs[r].status \in TerminalStatus => \A p \in StepRows : runs[r].steps[p] # "running"
    /\ runs[r].status # "absent" =>
           /\ runs[r].plan \in Plans
           /\ runs[r].version <= defs[r[1]].version
           /\ runs[r].version = defs[r[1]].version => runs[r].plan = defs[r[1]].plan

\* ApprovalEvidence for one run, and the checkpoint of a review that waits is the only
\* one running, so one decision closes the run completely.
ApprovalOK(r) ==
    \A o \in Ordinals :
        LET a == approvals[r][o]
            step == runs[r].steps[<<o, 1>>] IN
        /\ a.status # "absent" => /\ a.version = runs[r].version
                                  /\ o <= Len(runs[r].plan)
                                  /\ runs[r].plan[o].kind = "human-approval"
        /\ a.status = "pending"  => /\ runs[r].status = "running" /\ step = "running"
                                    /\ \A p \in StepRows : runs[r].steps[p] = "running" =>
                                           p = <<o, 1>>
        /\ a.status = "approved" => step = "succeeded"
        /\ a.status \in ClosedApproval => runs[r].status = "failed" /\ step = "failed"

AuditInv == HandlerInv /\ \A r \in RunIds : RunOK(r) /\ ApprovalOK(r)

\* What one step may not do to a run and its approvals that have ended.
RunFinal(r) ==
    /\ runs[r].status \in TerminalStatus => runs'[r] = runs[r]
    /\ \A o \in Ordinals : approvals[r][o].status \in ClosedApproval \cup {"approved"} =>
           approvals'[r][o] = approvals[r][o]

\* What every step must do to the run r.
Kept(r) == RunOK(r)' /\ ApprovalOK(r)' /\ RunFinal(r)

-----------------------------------------------------------------------------
(* The pieces.                                                             *)

\* A run whose rows and whose definition's plan stay is as good as it was.
LEMMA RunKept ==
    ASSUME NEW r \in RunIds, RunOK(r), ApprovalOK(r),
           runs'[r] = runs[r], \A o \in Ordinals : approvals'[r][o] = approvals[r][o],
           defs'[r[1]].version = defs[r[1]].version, defs'[r[1]].plan = defs[r[1]].plan
    PROVE  Kept(r)
BY DEF RunOK, ApprovalOK, RunFinal, Kept

\* A step that writes no run and no approval.
LEMMA NothingWritten ==
    ASSUME AuditInv, UNCHANGED <<runs, approvals>>,
           \A w \in Workflows : defs'[w].version = defs[w].version /\ defs'[w].plan = defs[w].plan
    PROVE  \A r \in RunIds : Kept(r)
BY RunKept DEF AuditInv, RunIds

\* The runs the handler is not inside are kept by whatever it does.
LEMMA OthersKept ==
    ASSUME AuditInv, DurableElsewhere, NEW r \in RunIds,
           runs'[r] = runs[r], approvals'[r] = approvals[r]
    PROVE  Kept(r)
BY RunKept DEF AuditInv, DurableElsewhere

\* What SetStep does to the one row it writes, and that it writes no other.
LEMMA SetStepAt ==
    ASSUME TypeInv, worker.phase # "idle", worker.ord <= Len(worker.plan), NEW s, SetStep(s)
    PROVE  /\ worker.run \in RunIds /\ worker.ord \in Ordinals
           /\ <<worker.ord, worker.att>> \in StepRows
           /\ \A r \in RunIds : r # worker.run => runs'[r] = runs[r]
           /\ runs'[worker.run].status = runs[worker.run].status
           /\ runs'[worker.run].version = runs[worker.run].version
           /\ runs'[worker.run].plan = runs[worker.run].plan
           /\ \A p \in StepRows : runs'[worker.run].steps[p] =
                  IF p = <<worker.ord, worker.att>> THEN s ELSE runs[worker.run].steps[p]
<1>1. /\ worker.run \in RunIds /\ worker.plan \in Plans
      /\ worker.ord \in Nat \ {0} /\ worker.att \in Attempts
  BY DEF TypeInv, TypeOK, WellFormed, Worker
<1>2. worker.ord \in Ordinals
  <2>1. Len(worker.plan) \in Ordinals
    BY <1>1, ConstantTypes
  <2>2. MaxSteps \in Nat
    BY WorkflowAssumption
  <2> QED
    BY <1>1, <2>1, <2>2 DEF Ordinals
<1>3. <<worker.ord, worker.att>> \in StepRows
  BY <1>1, <1>2 DEF StepRows
<1>4. runs[worker.run] \in Run /\ runs \in [RunIds -> Run]
  BY <1>1 DEF TypeInv, TypeOK
<1>5. runs' = [runs EXCEPT ![worker.run].steps[<<worker.ord, worker.att>>] = s]
  BY DEF SetStep
<1> QED
  BY <1>1, <1>2, <1>3, <1>4, <1>5 DEF Run

\* A checkpoint of a query step neither touches a review nor ends the run.
LEMMA QueryCheckpoint ==
    ASSUME TypeInv, AuditInv, worker.phase # "idle", worker.ord <= Len(worker.plan),
           StepKind = "query", NEW s, SetStep(s), UNCHANGED approvals, DurableElsewhere
    PROVE  \A r \in RunIds : Kept(r)
<1> SUFFICES ASSUME NEW r \in RunIds PROVE Kept(r)
  OBVIOUS
<1>1. CASE r # worker.run
  BY <1>1, OthersKept, SetStepAt
<1>2. CASE r = worker.run
  <2>1. /\ runs[r].status = "running" /\ runs[r].plan = worker.plan
        /\ \A o \in Ordinals : approvals[r][o].status # "pending"
        /\ RunOK(r) /\ ApprovalOK(r)
    BY <1>2 DEF AuditInv, HandlerInv
  <2>2. /\ runs'[r].status = "running" /\ runs'[r].version = runs[r].version
        /\ runs'[r].plan = runs[r].plan
        /\ approvals' = approvals /\ defs' = defs
    BY <1>2, <2>1, SetStepAt DEF DurableElsewhere
  <2>3. RunOK(r)'
    BY <2>1, <2>2 DEF RunOK, TerminalStatus
  <2>4. RunFinal(r)
    BY <2>1, <2>2 DEF RunFinal, TerminalStatus
  <2>5. ASSUME NEW o \in Ordinals, approvals[r][o].status = "approved"
        PROVE  runs'[r].steps[<<o, 1>>] = "succeeded"
    <3>1. runs[r].plan[o].kind = "human-approval" /\ runs[r].steps[<<o, 1>>] = "succeeded"
      BY <2>1, <2>5 DEF ApprovalOK
    <3>2. o # worker.ord
      BY <2>1, <3>1 DEF StepKind
    <3>3. <<o, 1>> \in StepRows /\ <<o, 1>> # <<worker.ord, worker.att>>
      BY <3>2, ConstantTypes DEF StepRows
    <3> QED
      BY <1>2, <3>1, <3>3, SetStepAt
  <2>6. ASSUME NEW o \in Ordinals
        PROVE  approvals[r][o].status \notin ClosedApproval
    BY <2>1, <2>6 DEF ApprovalOK
  <2>7. ApprovalOK(r)'
    BY <2>1, <2>2, <2>5, <2>6 DEF ApprovalOK
  <2> QED
    BY <2>3, <2>4, <2>7 DEF Kept
<1> QED
  BY <1>1, <1>2

-----------------------------------------------------------------------------
(* The steps of the handler.                                               *)

\* What the handler may rely on at a commit inside a step of its plan.
LEMMA RowsAfterSetStep ==
    ASSUME TypeInv, AuditInv, worker.phase # "idle", worker.ord <= Len(worker.plan),
           NEW s, SetStep(s)
    PROVE  /\ \A p \in StepRows : runs'[worker.run].steps[p] = "running" <=>
                  s = "running" /\ p = <<worker.ord, worker.att>>
           /\ s # "succeeded" /\ ~OrdinalSucceeded(worker.run, worker.ord) =>
                  \A a \in Attempts : runs'[worker.run].steps[<<worker.ord, a>>] # "succeeded"
<1>1. \A p \in StepRows : runs[worker.run].steps[p] = "running" =>
          p = <<worker.ord, worker.att>>
  BY DEF AuditInv, HandlerInv
<1>2. \A a \in Attempts : <<worker.ord, a>> \in StepRows
  BY SetStepAt DEF StepRows
<1> QED
  BY <1>1, <1>2, SetStepAt DEF OrdinalSucceeded

\* A checkpoint of a query step, after which the handler is busy with the same attempt or
\* done with it.
LEMMA SameAttempt ==
    ASSUME TypeInv, AuditInv, worker.phase # "idle", worker.ord <= Len(worker.plan),
           StepKind = "query", ~OrdinalSucceeded(worker.run, worker.ord),
           NEW s, SetStep(s), UNCHANGED approvals, DurableElsewhere,
           NEW phase, NEW verdict, GoOn(phase, verdict),
           phase = "recording" => verdict # "succeeded",
           \/ s = "running" /\ phase \in {"executing", "recording"}
           \/ s \in {"failed", "cancelled"} /\ phase \in {"retrying", "closing"}
    PROVE  HandlerInv' /\ \A r \in RunIds : Kept(r)
<1>1. worker \in Worker
  BY DEF TypeInv, TypeOK
<1>2. /\ worker'.phase = phase /\ worker'.run = worker.run /\ worker'.plan = worker.plan
      /\ worker'.ord = worker.ord /\ worker'.att = worker.att /\ worker'.verdict = verdict
  BY <1>1 DEF GoOn, Worker
<1>3. /\ runs'[worker.run].status = "running" /\ runs'[worker.run].plan = worker.plan
      /\ up' /\ \A o \in Ordinals : approvals'[worker.run][o].status # "pending"
  BY SetStepAt DEF AuditInv, HandlerInv, DurableElsewhere
<1>4. ~OrdinalSucceeded(worker.run, worker.ord)'
  BY <1>2, RowsAfterSetStep DEF OrdinalSucceeded
<1>5. \A p \in StepRows : runs'[worker'.run].steps[p] = "running" <=>
          phase \in {"executing", "recording"} /\ p = <<worker'.ord, worker'.att>>
  BY <1>2, RowsAfterSetStep
<1>6. StepKind' = "query"
  BY <1>2 DEF StepKind
<1>7. HandlerInv'
  BY <1>2, <1>3, <1>4, <1>5, <1>6 DEF HandlerInv
<1> QED
  BY <1>7, QueryCheckpoint

LEMMA CheckpointsAudited ==
    ASSUME TypeInv, AuditInv, StartAttempt \/ RecordUnresolved \/ FinishRecord \/ StepFails
    PROVE  HandlerInv' /\ \A r \in RunIds : Kept(r)
<1>1. worker \in Worker
  BY DEF TypeInv, TypeOK
<1>2. CASE StartAttempt
  BY <1>2, SameAttempt DEF StartAttempt, AtStep, Executing
<1>3. CASE RecordUnresolved
  <2> DEFINE verdict == IF worker.ctx = "live" THEN "failed" ELSE worker.ctx
  <2>1. verdict # "succeeded"
    BY <1>1 DEF Worker
  <2>2. /\ AtStep("query") /\ SetStep("running") /\ GoOn("recording", verdict)
        /\ UNCHANGED approvals /\ DurableElsewhere
    BY <1>3 DEF RecordUnresolved
  <2> HIDE DEF verdict
  <2> QED
    BY <2>1, <2>2, SameAttempt DEF AtStep, Executing
<1>4. CASE FinishRecord
  <2>1. /\ worker.ord <= Len(worker.plan) /\ StepKind = "query"
        /\ ~OrdinalSucceeded(worker.run, worker.ord) /\ worker.phase # "idle"
        /\ worker.verdict # "succeeded"
    BY <1>4 DEF FinishRecord, Executing, AuditInv, HandlerInv
  <2>2. worker.verdict \in {"failed", "cancelled"}
    BY <1>1, <2>1 DEF Worker, TerminalStatus
  <2> QED
    BY <1>4, <2>1, <2>2, SameAttempt DEF FinishRecord
<1>5. CASE StepFails
  <2> DEFINE s == IF worker.ctx = "live" THEN "failed" ELSE worker.ctx
  <2>1. s \in {"failed", "cancelled"}
    BY <1>1 DEF Worker
  <2>2. /\ worker.ord <= Len(worker.plan) /\ StepKind = "query"
        /\ ~OrdinalSucceeded(worker.run, worker.ord) /\ worker.phase # "idle"
    BY <1>5 DEF StepFails, Executing, AuditInv, HandlerInv
  <2>3. SetStep(s) /\ GoOn("retrying", worker.verdict) /\ UNCHANGED approvals /\ DurableElsewhere
    BY <1>5 DEF StepFails
  <2> HIDE DEF s
  <2> QED
    BY <2>1, <2>2, <2>3, SameAttempt
<1> QED
  BY <1>2, <1>3, <1>4, <1>5

LEMMA StepSucceedsAudited ==
    ASSUME TypeInv, AuditInv, StepSucceeds
    PROVE  HandlerInv' /\ \A r \in RunIds : Kept(r)
<1>1. /\ worker.ord <= Len(worker.plan) /\ StepKind = "query" /\ worker.phase # "idle"
      /\ SetStep("succeeded") /\ UNCHANGED approvals /\ DurableElsewhere
  BY DEF StepSucceeds, Executing, AuditInv, HandlerInv
<1>2. /\ worker'.phase = "loop" /\ worker'.run = worker.run /\ worker'.plan = worker.plan
      /\ worker'.att = 1
  BY DEF StepSucceeds, TypeInv, TypeOK, Worker
<1>3. /\ runs'[worker.run].status = "running" /\ runs'[worker.run].plan = worker.plan
      /\ up' /\ \A o \in Ordinals : approvals'[worker.run][o].status # "pending"
      /\ \A p \in StepRows : runs'[worker.run].steps[p] # "running"
  BY <1>1, SetStepAt, RowsAfterSetStep DEF AuditInv, HandlerInv, DurableElsewhere
<1>4. HandlerInv'
  BY <1>2, <1>3 DEF HandlerInv
<1> QED
  BY <1>1, <1>4, QueryCheckpoint

\* The steps that commit nothing.
LEMMA SilentStepsAudited ==
    ASSUME TypeInv, AuditInv, SkipSucceeded \/ RetryOrClose \/ ResultOverBudget \/ Resume
    PROVE  HandlerInv' /\ \A r \in RunIds : Kept(r)
<1>1. UNCHANGED <<runs, approvals, defs, up>> /\ up /\ worker.phase # "idle"
  BY DEF SkipSucceeded, RetryOrClose, ResultOverBudget, Resume, DurableElsewhere, Executing
<1>2. \A r \in RunIds : Kept(r)
  BY <1>1, NothingWritten
<1> SUFFICES HandlerInv'
  BY <1>2
<1>3. CASE worker' = Idle
  BY <1>3 DEF HandlerInv, Idle
<1>4. CASE worker' # Idle
  <2>1. worker \in Worker /\ HandlerInv
    BY DEF TypeInv, TypeOK, AuditInv
  <2>2. CASE SkipSucceeded
    <3>1. worker'.phase = "loop" /\ worker'.run = worker.run /\ worker'.plan = worker.plan
          /\ worker'.att = worker.att /\ worker.phase = "loop"
      BY <2>1, <2>2 DEF SkipSucceeded, Executing, Worker
    <3>2. worker.att = 1
      BY <2>1, <2>2, <3>1 DEF SkipSucceeded, HandlerInv
    <3> QED
      BY <1>1, <2>1, <3>1, <3>2 DEF HandlerInv
  <2>3. CASE RetryOrClose
    <3>1. /\ worker'.phase \in {"loop", "closing"} /\ worker'.run = worker.run
          /\ worker'.plan = worker.plan /\ worker'.ord = worker.ord
          /\ worker.phase = "retrying"
      BY <2>1, <2>3 DEF RetryOrClose, GoOn, Executing, Worker
    <3>2. /\ worker.ord <= Len(worker.plan) /\ StepKind = "query"
          /\ ~OrdinalSucceeded(worker.run, worker.ord)
      BY <2>1, <3>1 DEF HandlerInv
    <3>3. StepKind' = StepKind /\ ~OrdinalSucceeded(worker.run, worker.ord)'
      BY <1>1, <3>1, <3>2 DEF StepKind, OrdinalSucceeded
    <3> QED
      BY <1>1, <2>1, <3>1, <3>2, <3>3 DEF HandlerInv
  <2>4. CASE Resume
    <3>1. /\ worker'.phase = "loop" /\ worker'.run = worker.run /\ worker'.plan = worker.plan
          /\ worker'.att = worker.att /\ worker.phase = "approved"
      BY <1>4, <2>1, <2>4 DEF Resume, GoOn, Answer, Executing, Worker
    <3>2. worker.att = 1
      BY <2>1, <3>1 DEF HandlerInv
    <3> QED
      BY <1>1, <2>1, <3>1, <3>2 DEF HandlerInv
  <2>5. CASE ResultOverBudget
    BY <1>4, <2>5 DEF ResultOverBudget, Answer
  <2> QED
    BY <2>2, <2>3, <2>4, <2>5
<1> QED
  BY <1>3, <1>4

\* The run is closed when no checkpoint of it runs and nobody is asked about it.
LEMMA FinishRunAudited ==
    ASSUME TypeInv, AuditInv, FinishRun
    PROVE  HandlerInv' /\ \A r \in RunIds : Kept(r)
<1> DEFINE done    == worker.phase = "loop" /\ worker.ord > Len(worker.plan)
           verdict == IF done THEN "succeeded" ELSE worker.verdict
<1>1. /\ worker' = Idle /\ UNCHANGED approvals /\ DurableElsewhere
      /\ runs' = [runs EXCEPT ![worker.run].status = verdict]
      /\ worker.phase \in {"loop", "closing"}
  BY DEF FinishRun, Answer
<1>2. verdict \in TerminalStatus /\ worker.run \in RunIds
  BY <1>1 DEF TypeInv, TypeOK, Worker, WellFormed, TerminalStatus
<1> HIDE DEF verdict
<1>3. HandlerInv'
  BY <1>1 DEF HandlerInv, Idle
<1>4. ASSUME NEW r \in RunIds
      PROVE  Kept(r)
  <2>1. CASE r # worker.run
    <3>1. runs'[r] = runs[r]
      BY <1>1, <2>1 DEF TypeInv, TypeOK
    <3> QED
      BY <1>1, <3>1, OthersKept
  <2>2. CASE r = worker.run
    <3>1. runs[r] \in Run /\ RunOK(r) /\ ApprovalOK(r)
      BY DEF TypeInv, TypeOK, AuditInv
    <3>2. /\ runs'[r].status = verdict /\ runs'[r].version = runs[r].version
          /\ runs'[r].plan = runs[r].plan /\ runs'[r].steps = runs[r].steps
          /\ approvals' = approvals /\ defs' = defs
      BY <1>1, <2>2, <3>1 DEF TypeInv, TypeOK, Run, DurableElsewhere
    <3>3. /\ runs[r].status = "running"
          /\ \A o \in Ordinals : approvals[r][o].status # "pending"
          /\ \A p \in StepRows : runs[r].steps[p] # "running"
      BY <1>1, <2>2 DEF AuditInv, HandlerInv
    <3>4. \A o \in Ordinals : approvals[r][o].status \notin ClosedApproval
      BY <3>1, <3>3 DEF ApprovalOK
    <3>5. RunOK(r)'
      BY <1>2, <3>1, <3>2, <3>3 DEF RunOK, TerminalStatus
    <3>6. ApprovalOK(r)'
      BY <3>1, <3>2, <3>3, <3>4 DEF ApprovalOK
    <3>7. RunFinal(r)
      BY <3>2, <3>3 DEF RunFinal, TerminalStatus
    <3> QED
      BY <3>5, <3>6, <3>7 DEF Kept
  <2> QED
    BY <2>1, <2>2
<1> QED
  BY <1>3, <1>4

\* A review is asked for once: nothing closed or approved is overwritten, and the
\* checkpoint written with it is the only one running.
LEMMA PauseAudited ==
    ASSUME TypeInv, AuditInv, PauseForApproval
    PROVE  HandlerInv' /\ \A r \in RunIds : Kept(r)
<1> DEFINE review == [status |-> "pending", version |-> runs[worker.run].version,
                      overdue |-> FALSE]
<1>1. /\ worker.phase = "loop" /\ worker.ord <= Len(worker.plan)
      /\ ~OrdinalSucceeded(worker.run, worker.ord) /\ StepKind = "human-approval"
      /\ SetStep("running") /\ worker' = Idle /\ DurableElsewhere
      /\ approvals' = [approvals EXCEPT ![worker.run][worker.ord] = review]
  BY DEF PauseForApproval, AtStep, Executing, Answer
<1>2. worker.att = 1
  BY <1>1 DEF AuditInv, HandlerInv
<1>3. HandlerInv'
  BY <1>1 DEF HandlerInv, Idle
<1>4. ASSUME NEW r \in RunIds
      PROVE  Kept(r)
  <2>1. CASE r # worker.run
    <3>1. runs'[r] = runs[r]
      BY <1>1, <2>1, SetStepAt
    <3>2. approvals'[r] = approvals[r]
      BY <1>1, <2>1 DEF TypeInv, TypeOK
    <3> QED
      BY <1>1, <3>1, <3>2, OthersKept
  <2>2. CASE r = worker.run
    <3>1. RunOK(r) /\ ApprovalOK(r) /\ runs[r].plan = worker.plan /\ runs[r].status = "running"
          /\ \A o \in Ordinals : approvals[r][o].status # "pending"
      BY <1>1, <2>2 DEF AuditInv, HandlerInv
    <3>2. /\ runs'[r].status = runs[r].status /\ runs'[r].version = runs[r].version
          /\ runs'[r].plan = runs[r].plan /\ worker.ord \in Ordinals /\ defs' = defs
          /\ \A p \in StepRows : runs'[r].steps[p] =
                 IF p = <<worker.ord, 1>> THEN "running" ELSE runs[r].steps[p]
      BY <1>1, <1>2, <2>2, SetStepAt DEF DurableElsewhere
    <3>3. \A p \in StepRows : runs'[r].steps[p] = "running" => p = <<worker.ord, 1>>
      BY <1>1, <1>2, <2>2, RowsAfterSetStep
    <3>4. \A o \in Ordinals : approvals'[r][o] =
              IF o = worker.ord THEN review ELSE approvals[r][o]
      BY <1>1, <2>2, <3>2 DEF TypeInv, TypeOK
    <3>5. \A o \in Ordinals : <<o, 1>> \in StepRows
      BY ConstantTypes DEF StepRows
    <3>6. approvals[r][worker.ord].status \notin ClosedApproval \cup {"approved"}
      <4>1. runs[r].steps[<<worker.ord, 1>>] # "succeeded"
        BY <1>1, <2>2, ConstantTypes DEF OrdinalSucceeded
      <4> QED
        BY <3>1, <3>2, <4>1 DEF ApprovalOK
    <3>7. RunOK(r)'
      BY <3>1, <3>2 DEF RunOK, TerminalStatus
    <3>8. RunFinal(r)
      BY <3>1, <3>4, <3>6 DEF RunFinal, TerminalStatus
    <3>9. ASSUME NEW o \in Ordinals
          PROVE  LET a == approvals'[r][o]
                     step == runs'[r].steps[<<o, 1>>] IN
                 /\ a.status # "absent" => /\ a.version = runs'[r].version
                                           /\ o <= Len(runs'[r].plan)
                                           /\ runs'[r].plan[o].kind = "human-approval"
                 /\ a.status = "pending"  => /\ runs'[r].status = "running" /\ step = "running"
                                             /\ \A p \in StepRows :
                                                    runs'[r].steps[p] = "running" => p = <<o, 1>>
                 /\ a.status = "approved" => step = "succeeded"
                 /\ a.status \in ClosedApproval => runs'[r].status = "failed" /\ step = "failed"
      <4>1. CASE o = worker.ord
        BY <1>1, <2>2, <3>1, <3>2, <3>3, <3>4, <3>5, <4>1 DEF StepKind, ClosedApproval
      <4>2. CASE o # worker.ord
        <5>1. /\ approvals'[r][o] = approvals[r][o]
              /\ runs'[r].steps[<<o, 1>>] = runs[r].steps[<<o, 1>>]
          BY <3>2, <3>4, <3>5, <4>2
        <5> QED
          BY <3>1, <3>2, <5>1 DEF ApprovalOK
      <4> QED
        BY <4>1, <4>2
    <3>10. ApprovalOK(r)'
      BY <3>9 DEF ApprovalOK
    <3> QED
      BY <3>7, <3>8, <3>10 DEF Kept
  <2> QED
    BY <2>1, <2>2
<1> QED
  BY <1>3, <1>4

-----------------------------------------------------------------------------
(* The requests that write runs and approvals.                             *)

\* A new run has no rows of an older one, and its handler holds its plan.
LEMMA RunWorkflowAudited ==
    ASSUME TypeInv, AuditInv, NEW w \in Workflows, NEW k \in Keys, NEW client,
           RunWorkflow(w, k, client)
    PROVE  HandlerInv' /\ \A r \in RunIds : Kept(r)
<1> DEFINE new == <<w, k>>
<1>1. new \in RunIds /\ new[1] = w /\ up /\ UNCHANGED <<defs, approvals, up>>
  BY DEF RunIds, RunWorkflow, Serving
<1>2. CASE UNCHANGED <<runs, worker>>
  <2>1. \A r \in RunIds : Kept(r)
    BY <1>1, <1>2, NothingWritten
  <2>2. worker'.phase = "idle"
    BY <1>2 DEF RunWorkflow, Serving
  <2> QED
    BY <2>1, <2>2 DEF HandlerInv
<1>3. CASE ~UNCHANGED <<runs, worker>>
  <2>1. /\ runs[new].status = "absent" /\ defs[w].status = "active"
        /\ runs' = [runs EXCEPT ![new] = StartedRun(w)]
        /\ worker' = [Idle EXCEPT !.phase = "loop", !.run = new, !.plan = defs[w].plan,
                                  !.client = client]
    BY <1>3 DEF RunWorkflow
  <2>2. defs[w].plan \in Plans /\ defs[w].version \in Nat
    BY <2>1 DEF TypeInv, TypeOK, WellFormed, Definition
  <2>3. /\ \A p \in StepRows : runs[new].steps[p] = "absent"
        /\ \A o \in Ordinals : approvals[new][o].status = "absent"
    BY <1>1, <2>1 DEF AuditInv, RunOK
  <2>4. /\ runs'[new].status = "running" /\ runs'[new].version = defs[w].version
        /\ runs'[new].plan = defs[w].plan
        /\ \A p \in StepRows : runs'[new].steps[p] = "absent"
    BY <1>1, <2>1 DEF StartedRun, NoRun, TypeInv, TypeOK
  <2>5. /\ worker'.phase = "loop" /\ worker'.run = new /\ worker'.plan = defs[w].plan
        /\ worker'.att = 1
    BY <2>1 DEF Idle
  <2> HIDE DEF new
  <2>6. HandlerInv'
    BY <1>1, <2>3, <2>4, <2>5 DEF HandlerInv
  <2>7. ASSUME NEW r \in RunIds
        PROVE  Kept(r)
    <3>1. CASE r # new
      <4>1. runs'[r] = runs[r]
        BY <2>1, <3>1 DEF TypeInv, TypeOK
      <4> QED
        BY <1>1, <4>1, RunKept DEF AuditInv
    <3>2. CASE r = new
      <4>1. RunOK(r)'
        BY <1>1, <2>2, <2>4, <3>2 DEF RunOK, TerminalStatus
      <4>2. ApprovalOK(r)'
        BY <1>1, <2>3, <3>2 DEF ApprovalOK, ClosedApproval
      <4>3. RunFinal(r)
        BY <1>1, <2>1, <2>3, <3>2 DEF RunFinal, TerminalStatus
      <4> QED
        BY <4>1, <4>2, <4>3 DEF Kept
    <3> QED
      BY <3>1, <3>2
  <2> QED
    BY <2>6, <2>7
<1> QED
  BY <1>2, <1>3

\* A run waits for one review at a time, and nothing else of it runs meanwhile.
LEMMA OneReview ==
    ASSUME NEW r \in RunIds, ApprovalOK(r), NEW o \in Ordinals,
           approvals[r][o].status = "pending"
    PROVE  /\ runs[r].status = "running" /\ <<o, 1>> \in StepRows
           /\ runs[r].steps[<<o, 1>>] = "running"
           /\ \A p \in StepRows : runs[r].steps[p] = "running" => p = <<o, 1>>
           /\ \A q \in Ordinals : q # o => approvals[r][q].status # "pending"
           /\ \A q \in Ordinals : approvals[r][q].status \notin ClosedApproval
<1>1. \A q \in Ordinals : <<q, 1>> \in StepRows
  BY ConstantTypes DEF StepRows
<1>2. /\ runs[r].status = "running" /\ runs[r].steps[<<o, 1>>] = "running"
      /\ \A p \in StepRows : runs[r].steps[p] = "running" => p = <<o, 1>>
  BY DEF ApprovalOK
<1>3. ASSUME NEW q \in Ordinals, q # o, approvals[r][q].status = "pending"
      PROVE  FALSE
  <2>1. runs[r].steps[<<q, 1>>] = "running"
    BY <1>3 DEF ApprovalOK
  <2>2. <<q, 1>> = <<o, 1>>
    BY <1>1, <1>2, <2>1
  <2> QED
    BY <1>3, <2>2
<1>4. \A q \in Ordinals : approvals[r][q].status \notin ClosedApproval
  BY <1>2 DEF ApprovalOK
<1> QED
  BY <1>1, <1>2, <1>3, <1>4

\* Closing pending approvals closes their runs and checkpoints with them, and leaves no
\* other row changed.
LEMMA ClosedRunKept ==
    ASSUME TypeInv, AuditInv, NEW S, NEW r \in RunIds,
           \A o \in Ordinals : <<r, o>> \in S => approvals[r][o].status = "pending",
           runs'[r] = ClosedRuns(S)[r], UNCHANGED defs,
           \A o \in Ordinals : IF <<r, o>> \in S
               THEN /\ approvals'[r][o].status \in ClosedApproval
                    /\ approvals'[r][o].version = approvals[r][o].version
               ELSE approvals'[r][o] = approvals[r][o]
    PROVE  Kept(r)
<1>1. runs[r] \in Run /\ RunOK(r) /\ ApprovalOK(r)
  BY DEF TypeInv, TypeOK, AuditInv
<1>2. CASE ~\E o \in Ordinals : <<r, o>> \in S
  <2>1. runs'[r] = runs[r]
    BY <1>2 DEF ClosedRuns
  <2> QED
    BY <1>1, <1>2, <2>1, RunKept
<1>3. ASSUME NEW o \in Ordinals, <<r, o>> \in S
      PROVE  Kept(r)
  <2>1. /\ runs[r].status = "running" /\ <<o, 1>> \in StepRows
        /\ runs[r].steps[<<o, 1>>] = "running"
        /\ \A p \in StepRows : runs[r].steps[p] = "running" => p = <<o, 1>>
        /\ \A q \in Ordinals : q # o => approvals[r][q].status # "pending"
        /\ \A q \in Ordinals : approvals[r][q].status \notin ClosedApproval
        /\ approvals[r][o].status = "pending"
    BY <1>1, <1>3, OneReview
  <2>2. /\ runs'[r].status = "failed" /\ runs'[r].version = runs[r].version
        /\ runs'[r].plan = runs[r].plan
        /\ \A p \in StepRows : runs'[r].steps[p] =
               IF <<r, p[1]>> \in S /\ runs[r].steps[p] = "running"
               THEN "failed" ELSE runs[r].steps[p]
    BY <1>1, <1>3, <2>1 DEF ClosedRuns, Run
  <2>3. \A p \in StepRows : runs'[r].steps[p] =
            IF p = <<o, 1>> THEN "failed" ELSE runs[r].steps[p]
    BY <1>3, <2>1, <2>2
  <2>4. \A q \in Ordinals : q # o => approvals'[r][q] = approvals[r][q] /\ <<q, 1>> \in StepRows
    BY <2>1, ConstantTypes DEF StepRows
  <2>5. /\ approvals'[r][o].status \in ClosedApproval
        /\ approvals'[r][o].version = approvals[r][o].version
    BY <1>3
  <2>6. RunOK(r)'
    BY <1>1, <2>1, <2>2, <2>3 DEF RunOK, TerminalStatus
  <2>7. RunFinal(r)
    BY <2>1, <2>4 DEF RunFinal, TerminalStatus, ClosedApproval
  <2>8. ASSUME NEW q \in Ordinals
        PROVE  LET a == approvals'[r][q]
                   step == runs'[r].steps[<<q, 1>>] IN
               /\ a.status # "absent" => /\ a.version = runs'[r].version
                                         /\ q <= Len(runs'[r].plan)
                                         /\ runs'[r].plan[q].kind = "human-approval"
               /\ a.status # "pending"
               /\ a.status = "approved" => step = "succeeded"
               /\ a.status \in ClosedApproval => runs'[r].status = "failed" /\ step = "failed"
    <3>1. CASE q = o
      BY <1>1, <2>1, <2>2, <2>3, <2>5, <3>1 DEF ApprovalOK, ClosedApproval
    <3>2. CASE q # o
      <4>1. /\ approvals'[r][q] = approvals[r][q] /\ approvals[r][q].status # "pending"
            /\ approvals[r][q].status \notin ClosedApproval
            /\ runs'[r].steps[<<q, 1>>] = runs[r].steps[<<q, 1>>]
        BY <2>1, <2>3, <2>4, <3>2
      <4> QED
        BY <1>1, <2>2, <4>1 DEF ApprovalOK
    <3> QED
      BY <3>1, <3>2
  <2>9. ApprovalOK(r)'
    BY <2>8 DEF ApprovalOK
  <2> QED
    BY <2>6, <2>7, <2>9 DEF Kept
<1> QED
  BY <1>2, <1>3

\* Expiry and a decision that closes.
LEMMA ClosingAudited ==
    ASSUME TypeInv, AuditInv,
           \/ \E S \in SUBSET OverdueApprovals : ExpireApprovals(S)
           \/ \E r \in RunIds, o \in Ordinals, d \in {"approved", "rejected"} :
                  CloseDecision(r, o, d)
    PROVE  HandlerInv' /\ \A r \in RunIds : Kept(r)
<1>1. worker'.phase = "idle" /\ UNCHANGED defs
  BY DEF ExpireApprovals, CloseDecision, Serving
<1>2. HandlerInv'
  BY <1>1 DEF HandlerInv
<1>3. ASSUME NEW S \in SUBSET OverdueApprovals, ExpireApprovals(S), NEW r \in RunIds
      PROVE  Kept(r)
  <2>1. \A o \in Ordinals : <<r, o>> \in S => approvals[r][o].status = "pending"
    BY DEF OverdueApprovals
  <2>2. runs'[r] = ClosedRuns(S)[r]
    BY <1>3 DEF ExpireApprovals
  <2>3. ASSUME NEW o \in Ordinals
        PROVE  IF <<r, o>> \in S
               THEN /\ approvals'[r][o].status \in ClosedApproval
                    /\ approvals'[r][o].version = approvals[r][o].version
               ELSE approvals'[r][o] = approvals[r][o]
    <3>1. approvals[r][o] \in Approval
      BY DEF TypeInv, TypeOK
    <3> QED
      BY <1>3, <3>1 DEF ExpireApprovals, ClosedApprovals, Approval, ClosedApproval
  <2> QED
    BY <1>1, <2>1, <2>2, <2>3, ClosedRunKept
<1>4. ASSUME NEW r0 \in RunIds, NEW o0 \in Ordinals, NEW d \in {"approved", "rejected"},
             CloseDecision(r0, o0, d), NEW r \in RunIds
      PROVE  Kept(r)
  <2> DEFINE S == {<<r0, o0>>} \cup OverdueApprovals
  <2>1. \A o \in Ordinals : <<r, o>> \in S => approvals[r][o].status = "pending"
    BY <1>4 DEF OverdueApprovals, CloseDecision
  <2>2. runs'[r] = ClosedRuns(S)[r]
    BY <1>4 DEF CloseDecision
  <2>3. ASSUME NEW o \in Ordinals
        PROVE  IF <<r, o>> \in S
               THEN /\ approvals'[r][o].status \in ClosedApproval
                    /\ approvals'[r][o].version = approvals[r][o].version
               ELSE approvals'[r][o] = approvals[r][o]
    <3>1. approvals[r][o] \in Approval
      BY DEF TypeInv, TypeOK
    <3> QED
      BY <1>4, <3>1 DEF CloseDecision, ClosedApprovals, Approval, ClosedApproval
  <2> HIDE DEF S
  <2> QED
    BY <1>1, <2>1, <2>2, <2>3, ClosedRunKept
<1> QED
  BY <1>2, <1>3, <1>4

\* An approval lets its own run go on under the plan that was reviewed: the version it is
\* bound to is the definition's, so the definition's plan is the run's.
LEMMA ApproveAudited ==
    ASSUME TypeInv, AuditInv, NEW r0 \in RunIds, NEW o0 \in Ordinals, Approve(r0, o0)
    PROVE  HandlerInv' /\ \A r \in RunIds : Kept(r)
<1>1. /\ approvals[r0][o0].status = "pending" /\ <<r0, o0>> \notin OverdueApprovals
      /\ defs[r0[1]].version = approvals[r0][o0].version
      /\ up /\ UNCHANGED <<defs, up>>
      /\ worker' = [Idle EXCEPT !.phase = "approved", !.run = r0, !.plan = defs[r0[1]].plan]
  BY DEF Approve, Serving, StillBound
<1>2. runs[r0] \in Run /\ RunOK(r0) /\ ApprovalOK(r0)
  BY DEF TypeInv, TypeOK, AuditInv
<1>3. /\ runs[r0].status = "running" /\ <<o0, 1>> \in StepRows
      /\ \A p \in StepRows : runs[r0].steps[p] = "running" => p = <<o0, 1>>
      /\ \A q \in Ordinals : q # o0 => approvals[r0][q].status # "pending"
      /\ \A q \in Ordinals : approvals[r0][q].status \notin ClosedApproval
      /\ runs[r0].steps[<<o0, 1>>] = "running"
  BY <1>1, <1>2, OneReview
<1>4. runs[r0].plan = defs[r0[1]].plan
  BY <1>1, <1>2, <1>3 DEF ApprovalOK, RunOK
<1>5. \A q \in Ordinals : <<r0, q>> \notin OverdueApprovals
  BY <1>1, <1>3 DEF OverdueApprovals
<1>6. ASSUME NEW r \in RunIds, NEW o \in Ordinals
      PROVE  approvals'[r][o] =
                 IF r = r0 /\ o = o0 THEN [approvals[r][o] EXCEPT !.status = "approved"]
                 ELSE IF <<r, o>> \in OverdueApprovals
                      THEN [approvals[r][o] EXCEPT !.status = "expired"] ELSE approvals[r][o]
  <2>1. <<r, o>> \in {<<r0, o0>>} <=> r = r0 /\ o = o0
    OBVIOUS
  <2> QED
    BY <1>1, <2>1 DEF Approve, ClosedApprovals
<1>7. ASSUME NEW r \in RunIds, r # r0
      PROVE  Kept(r)
  <2>1. runs'[r] = ClosedRuns(OverdueApprovals)[r]
    BY <1>7 DEF Approve, ClosedRuns
  <2>2. \A o \in Ordinals : <<r, o>> \in OverdueApprovals => approvals[r][o].status = "pending"
    BY DEF OverdueApprovals
  <2>3. ASSUME NEW o \in Ordinals
        PROVE  IF <<r, o>> \in OverdueApprovals
               THEN /\ approvals'[r][o].status \in ClosedApproval
                    /\ approvals'[r][o].version = approvals[r][o].version
               ELSE approvals'[r][o] = approvals[r][o]
    <3>1. approvals[r][o] \in Approval
      BY DEF TypeInv, TypeOK
    <3> QED
      BY <1>6, <1>7, <3>1 DEF Approval, ClosedApproval
  <2> QED
    BY <1>1, <2>1, <2>2, <2>3, ClosedRunKept
<1>8. /\ runs'[r0].status = "running" /\ runs'[r0].version = runs[r0].version
      /\ runs'[r0].plan = runs[r0].plan
      /\ \A p \in StepRows : runs'[r0].steps[p] =
             IF p = <<o0, 1>> THEN "succeeded" ELSE runs[r0].steps[p]
  <2>1. ClosedRuns(OverdueApprovals)[r0] = runs[r0]
    BY <1>5 DEF ClosedRuns
  <2>2. ClosedRuns(OverdueApprovals) \in [RunIds -> Run]
    BY ClosingTyped DEF TypeInv, TypeOK
  <2>3. runs' = [ClosedRuns(OverdueApprovals) EXCEPT ![r0].steps =
           [p \in StepRows |-> IF p[1] = o0 /\ @[p] = "running" THEN "succeeded" ELSE @[p]]]
    BY DEF Approve
  <2>4. /\ runs'[r0].status = runs[r0].status /\ runs'[r0].version = runs[r0].version
        /\ runs'[r0].plan = runs[r0].plan
        /\ \A p \in StepRows : runs'[r0].steps[p] =
               IF p[1] = o0 /\ runs[r0].steps[p] = "running"
               THEN "succeeded" ELSE runs[r0].steps[p]
    BY <1>2, <2>1, <2>2, <2>3 DEF Run
  <2> QED
    BY <1>3, <2>4
<1>9. /\ approvals'[r0][o0].status = "approved"
      /\ approvals'[r0][o0].version = approvals[r0][o0].version
      /\ \A q \in Ordinals : q # o0 => approvals'[r0][q] = approvals[r0][q]
  <2>1. approvals[r0][o0] \in Approval
    BY DEF TypeInv, TypeOK
  <2> QED
    BY <1>5, <1>6, <2>1 DEF Approval
<1>10. HandlerInv'
  <2>1. /\ worker'.phase = "approved" /\ worker'.run = r0 /\ worker'.plan = defs[r0[1]].plan
        /\ worker'.att = 1
    BY <1>1 DEF Idle
  <2>2. \A o \in Ordinals : approvals'[r0][o].status # "pending"
    BY <1>3, <1>9
  <2>3. \A p \in StepRows : runs'[r0].steps[p] # "running"
    BY <1>3, <1>8
  <2> QED
    BY <1>1, <1>4, <1>8, <2>1, <2>2, <2>3 DEF HandlerInv
<1>11. Kept(r0)
  <2>1. RunOK(r0)'
    BY <1>1, <1>2, <1>3, <1>8 DEF RunOK, TerminalStatus
  <2>2. RunFinal(r0)
    BY <1>1, <1>3, <1>9 DEF RunFinal, TerminalStatus, ClosedApproval
  <2>3. ASSUME NEW q \in Ordinals
        PROVE  LET a == approvals'[r0][q]
                   step == runs'[r0].steps[<<q, 1>>] IN
               /\ a.status # "absent" => /\ a.version = runs'[r0].version
                                         /\ q <= Len(runs'[r0].plan)
                                         /\ runs'[r0].plan[q].kind = "human-approval"
               /\ a.status # "pending" /\ a.status \notin ClosedApproval
               /\ a.status = "approved" => step = "succeeded"
    <3>1. CASE q = o0
      BY <1>1, <1>2, <1>3, <1>8, <1>9, <3>1 DEF ApprovalOK, ClosedApproval
    <3>2. CASE q # o0
      <4>1. /\ approvals'[r0][q] = approvals[r0][q] /\ approvals[r0][q].status # "pending"
            /\ approvals[r0][q].status \notin ClosedApproval
            /\ runs'[r0].steps[<<q, 1>>] = runs[r0].steps[<<q, 1>>]
        BY <1>3, <1>8, <1>9, <3>2, ConstantTypes DEF StepRows
      <4> QED
        BY <1>2, <1>8, <4>1 DEF ApprovalOK
    <3> QED
      BY <3>1, <3>2
  <2>4. ApprovalOK(r0)'
    BY <2>3 DEF ApprovalOK
  <2> QED
    BY <2>1, <2>2, <2>4 DEF Kept
<1> QED
  BY <1>7, <1>10, <1>11

-----------------------------------------------------------------------------
(* Definitions, triggers, time and recovery.                               *)

\* The requests that write no run and no approval leave a definition's version and plan
\* alone, or raise the version beyond every run's.
LEMMA SaveWorkflowAudited ==
    ASSUME TypeInv, AuditInv, NEW w \in Workflows, NEW plan, NEW kind, SaveWorkflow(w, plan, kind)
    PROVE  \A r \in RunIds : Kept(r)
<1> SUFFICES ASSUME NEW r \in RunIds PROVE Kept(r)
  OBVIOUS
<1>1. UNCHANGED <<runs, approvals>> /\ RunOK(r) /\ ApprovalOK(r) /\ runs[r] \in Run
      /\ r[1] \in Workflows /\ defs[r[1]] \in Definition
  BY DEF SaveWorkflow, AuditInv, TypeInv, TypeOK, RunIds
<1>2. CASE r[1] # w
  <2>1. defs'[r[1]] = defs[r[1]]
    BY <1>1, <1>2 DEF SaveWorkflow, TypeInv, TypeOK
  <2> QED
    BY <1>1, <2>1, RunKept
<1>3. CASE r[1] = w
  <2>1. defs'[w].version = defs[w].version + 1
    BY DEF SaveWorkflow, TypeInv, TypeOK
  <2>2. runs[r].version \in Nat /\ defs[w].version \in Nat
    BY <1>1, <1>3 DEF Run, Definition
  <2>3. RunOK(r)'
    BY <1>1, <1>3, <2>1, <2>2 DEF RunOK
  <2> QED
    BY <1>1, <2>3 DEF Kept, RunFinal, ApprovalOK
<1> QED
  BY <1>2, <1>3

LEMMA DefinitionsAudited ==
    ASSUME TypeInv, AuditInv,
           \/ \E w \in Workflows : \/ \E p \in Plans, t \in Triggers : SaveWorkflow(w, p, t)
                                   \/ DeleteWorkflow(w)
           \/ \E t \in Targets, s \in Signatures :
                  SaveGroup(t, s) \/ \E G \in SUBSET Groups : ActivateVersion(t, G, s)
           \/ \E gone, shrunk \in SUBSET Targets, s \in Signatures : RemoveTargets(gone, shrunk, s)
           \/ \E t \in Archivable : ArchiveThread(t) \/ DeleteThread(t)
           \/ ClaimDue
           \/ \E e \in EventIds, s \in TerminalStatus, k \in Keys \cup {None} :
                  FinishTrigger(e, s, k)
    PROVE  HandlerInv' /\ \A r \in RunIds : Kept(r)
<1>1. worker'.phase = "idle" /\ UNCHANGED <<runs, approvals>>
  BY DEF SaveWorkflow, DeleteWorkflow, SaveGroup, ActivateVersion, RemoveTargets, ArchiveThread,
         DeleteThread, ClaimDue, FinishTrigger, Serving
<1>2. HandlerInv'
  BY <1>1 DEF HandlerInv
<1> SUFFICES \A r \in RunIds : Kept(r)
  BY <1>2
<1>3. CASE \E w \in Workflows, p \in Plans, t \in Triggers : SaveWorkflow(w, p, t)
  BY <1>3, SaveWorkflowAudited
<1>4. ASSUME NEW v \in Workflows, DeleteWorkflow(v), NEW w \in Workflows
      PROVE  defs'[w].version = defs[w].version /\ defs'[w].plan = defs[w].plan
  <2>1. defs[w] \in Definition
    BY DEF TypeInv, TypeOK
  <2> QED
    BY <1>4, <2>1 DEF DeleteWorkflow, TypeInv, TypeOK, Definition
<1>5. ASSUME NEW gone, NEW shrunk, NEW s, RemoveTargets(gone, shrunk, s), NEW w \in Workflows
      PROVE  defs'[w].version = defs[w].version /\ defs'[w].plan = defs[w].plan
  <2>1. defs[w] \in Definition
    BY DEF TypeInv, TypeOK
  <2> QED
    BY <1>5, <2>1 DEF RemoveTargets, RetiredDefs, Definition
<1>6. ASSUME ClaimDue, NEW w \in Workflows
      PROVE  defs'[w].version = defs[w].version /\ defs'[w].plan = defs[w].plan
  <2>1. defs[w] \in Definition
    BY DEF TypeInv, TypeOK
  <2> QED
    BY <1>6, <2>1 DEF ClaimDue, Definition
<1>7. CASE UNCHANGED defs
  BY <1>1, <1>7, NothingWritten
<1> QED
  BY <1>1, <1>3, <1>4, <1>5, <1>6, <1>7, NothingWritten
  DEF SaveGroup, ActivateVersion, ArchiveThread, DeleteThread, FinishTrigger

\* Recovery leaves a run that waits for a person, and one that has ended, as they are.
LEMMA RestartAudited ==
    ASSUME TypeInv, AuditInv, Restart
    PROVE  HandlerInv' /\ \A r \in RunIds : Kept(r)
<1>1. worker'.phase = "idle" /\ UNCHANGED <<defs, approvals>>
  BY DEF Restart, AuditInv, HandlerInv
<1>2. HandlerInv'
  BY <1>1 DEF HandlerInv
<1>3. ASSUME NEW r \in RunIds
      PROVE  Kept(r)
  <2>1. runs[r] \in Run /\ RunOK(r) /\ ApprovalOK(r) /\ runs'[r] = Recovered(r)
    BY DEF TypeInv, TypeOK, AuditInv, Restart
  <2>2. /\ runs'[r].status = IF runs[r].status = "running" /\ PendingApprovals(r) = {}
                             THEN "failed" ELSE runs[r].status
        /\ runs'[r].version = runs[r].version /\ runs'[r].plan = runs[r].plan
        /\ \A p \in StepRows : runs'[r].steps[p] =
               IF runs[r].steps[p] = "running" /\ p[1] \notin PendingApprovals(r)
               THEN "failed" ELSE runs[r].steps[p]
    BY <2>1 DEF Recovered, Run
  <2>3. ASSUME runs'[r].status = runs[r].status,
               \A p \in StepRows : runs'[r].steps[p] = runs[r].steps[p]
        PROVE  Kept(r)
    <3>1. runs'[r].steps = runs[r].steps
      <4>1. runs'[r].steps \in [StepRows -> {"absent", "running"} \cup TerminalStatus]
        BY <2>1 DEF Recovered, Run, TerminalStatus
      <4>2. runs[r].steps \in [StepRows -> {"absent", "running"} \cup TerminalStatus]
        BY <2>1 DEF Run
      <4> QED
        BY <2>3, <4>1, <4>2
    <3>2. runs'[r] \in Run
      <4>1. runs[r] \in Run => Recovered(r) \in Run
        BY DEF Recovered, Run, TerminalStatus
      <4> QED
        BY <2>1, <4>1
    <3>3. runs'[r] = runs[r]
      BY <2>1, <2>2, <2>3, <3>1, <3>2 DEF Run
    <3> QED
      BY <1>1, <2>1, <3>3, RunKept
  <2>4. ASSUME NEW o \in Ordinals, approvals[r][o].status = "pending"
        PROVE  Kept(r)
    <3>1. runs[r].status = "running" /\ o \in PendingApprovals(r)
          /\ \A p \in StepRows : runs[r].steps[p] = "running" => p = <<o, 1>>
      BY <2>1, <2>4, OneReview DEF PendingApprovals
    <3> QED
      BY <2>2, <2>3, <3>1
  <2>5. CASE runs[r].status # "running"
    <3>1. \A p \in StepRows : runs[r].steps[p] # "running"
      BY <2>1, <2>5 DEF RunOK, Run
    <3> QED
      BY <2>2, <2>3, <2>5, <3>1
  <2>6. CASE runs[r].status = "running" /\ PendingApprovals(r) = {}
    <3>1. /\ runs'[r].status = "failed" /\ approvals' = approvals /\ defs' = defs
          /\ \A o \in Ordinals : approvals[r][o].status # "pending"
          /\ \A p \in StepRows : runs'[r].steps[p] # "running"
      BY <1>1, <2>2, <2>6 DEF PendingApprovals
    <3>2. \A o \in Ordinals : /\ approvals[r][o].status \notin ClosedApproval
                              /\ <<o, 1>> \in StepRows
      BY <2>1, <2>6, ConstantTypes DEF ApprovalOK, StepRows
    <3>3. \A o \in Ordinals : approvals[r][o].status = "approved" =>
              runs'[r].steps[<<o, 1>>] = "succeeded"
      BY <2>1, <2>2, <3>2 DEF ApprovalOK
    <3>4. RunOK(r)'
      BY <2>1, <2>2, <2>6, <3>1 DEF RunOK, TerminalStatus
    <3>5. ApprovalOK(r)'
      BY <2>1, <2>2, <3>1, <3>2, <3>3 DEF ApprovalOK
    <3>6. RunFinal(r)
      BY <2>6, <3>1 DEF RunFinal, TerminalStatus
    <3> QED
      BY <3>4, <3>5, <3>6 DEF Kept
  <2> QED
    BY <2>4, <2>5, <2>6 DEF PendingApprovals
<1> QED
  BY <1>2, <1>3

LEMMA EnvironmentAudited ==
    ASSUME TypeInv, AuditInv, Environment \/ Crash
    PROVE  HandlerInv' /\ \A r \in RunIds : Kept(r)
<1>1. CASE Tick
  <2>1. UNCHANGED <<defs, runs, approvals, up, worker>>
    BY <1>1 DEF Tick, tables
  <2>2. HandlerInv'
    BY <2>1 DEF AuditInv, HandlerInv, StepKind, OrdinalSucceeded
  <2> QED
    BY <2>1, <2>2, NothingWritten
<1>2. CASE Crash
  <2>1. UNCHANGED <<defs, runs, approvals>> /\ worker' = Idle
    BY <1>2 DEF Crash, tables
  <2> QED
    BY <2>1, NothingWritten DEF HandlerInv, Idle
<1>3. ASSUME NEW how \in Interrupts, Interrupt(how)
      PROVE  HandlerInv' /\ \A r \in RunIds : Kept(r)
  <2>1. UNCHANGED <<defs, runs, approvals, up>>
    BY <1>3 DEF Interrupt, tables
  <2>2. /\ worker'.phase = worker.phase /\ worker'.run = worker.run /\ worker'.plan = worker.plan
        /\ worker'.ord = worker.ord /\ worker'.att = worker.att
        /\ worker'.verdict = worker.verdict
    BY <1>3 DEF Interrupt, TypeInv, TypeOK, Worker
  <2>3. StepKind' = StepKind /\ OrdinalSucceeded(worker.run, worker.ord)' =
            OrdinalSucceeded(worker.run, worker.ord)
    BY <2>1, <2>2 DEF StepKind, OrdinalSucceeded
  <2>4. HandlerInv'
    BY <2>1, <2>2, <2>3 DEF AuditInv, HandlerInv
  <2> QED
    BY <2>1, <2>4, NothingWritten
<1>4. ASSUME NEW r0 \in RunIds, NEW o0 \in Ordinals, BecomeOverdue(r0, o0)
      PROVE  HandlerInv' /\ \A r \in RunIds : Kept(r)
  <2>1. UNCHANGED <<defs, runs, up, worker>> /\ approvals[r0][o0].status = "pending"
    BY <1>4 DEF BecomeOverdue
  <2>2. ASSUME NEW r \in RunIds, NEW o \in Ordinals
        PROVE  /\ approvals'[r][o].status = approvals[r][o].status
               /\ approvals'[r][o].version = approvals[r][o].version
               /\ approvals[r][o].status # "pending" => approvals'[r][o] = approvals[r][o]
    <3>1. approvals[r][o] \in Approval /\ approvals[r0] \in [Ordinals -> Approval]
      BY DEF TypeInv, TypeOK
    <3>2. approvals'[r][o] = IF r = r0 /\ o = o0 THEN [approvals[r][o] EXCEPT !.overdue = TRUE]
                             ELSE approvals[r][o]
      BY <1>4, <3>1 DEF BecomeOverdue, TypeInv, TypeOK
    <3> QED
      BY <2>1, <3>1, <3>2 DEF Approval
  <2>3. HandlerInv'
    <3>1. worker.phase # "idle" => worker.run \in RunIds
      BY DEF TypeInv, WellFormed
    <3> QED
      BY <2>1, <2>2, <3>1 DEF AuditInv, HandlerInv, StepKind, OrdinalSucceeded
  <2>4. ASSUME NEW r \in RunIds
        PROVE  Kept(r)
    <3>1. RunOK(r) /\ ApprovalOK(r)
      BY DEF AuditInv
    <3>2. RunOK(r)'
      BY <2>1, <2>2, <3>1 DEF RunOK
    <3>3. ApprovalOK(r)'
      BY <2>1, <2>2, <3>1 DEF ApprovalOK
    <3>4. RunFinal(r)
      BY <2>1, <2>2 DEF RunFinal, ClosedApproval
    <3> QED
      BY <3>2, <3>3, <3>4 DEF Kept
  <2> QED
    BY <2>3, <2>4
<1> QED
  BY <1>1, <1>2, <1>3, <1>4 DEF Environment

-----------------------------------------------------------------------------
(* The audit.                                                              *)

LEMMA InitAudited == Init => AuditInv
<1> SUFFICES ASSUME Init PROVE AuditInv
  OBVIOUS
<1>1. HandlerInv
  BY DEF Init, HandlerInv, Idle
<1>2. ASSUME NEW r \in RunIds
      PROVE  RunOK(r) /\ ApprovalOK(r)
  BY DEF Init, RunOK, ApprovalOK, NoRun, NoApproval, TerminalStatus, ClosedApproval
<1> QED
  BY <1>1, <1>2 DEF AuditInv

LEMMA NextAudited ==
    ASSUME TypeInv, AuditInv, [Next]_vars
    PROVE  AuditInv' /\ \A r \in RunIds : RunFinal(r)
<1> SUFFICES HandlerInv' /\ \A r \in RunIds : Kept(r)
  BY DEF AuditInv, Kept
<1>1. CASE Execute
  BY <1>1, CheckpointsAudited, StepSucceedsAudited, SilentStepsAudited, FinishRunAudited,
     PauseAudited DEF Execute
<1>2. CASE UserRequest
  <2>1. ASSUME NEW w \in Workflows, NEW k \in ManualKeys, RunWorkflow(w, k, "other")
        PROVE  HandlerInv' /\ \A r \in RunIds : Kept(r)
    <3>1. k \in Keys
      BY DEF Keys
    <3> QED
      BY <2>1, <3>1, RunWorkflowAudited
  <2>2. ASSUME NEW r \in RunIds, NEW o \in Ordinals, Approve(r, o)
        PROVE  HandlerInv' /\ \A q \in RunIds : Kept(q)
    BY <2>2, ApproveAudited
  <2> QED
    BY <1>2, <2>1, <2>2, DefinitionsAudited, ClosingAudited DEF UserRequest
<1>3. CASE TriggerRequest
  <2>1. ASSUME NEW e \in EventIds, events[e].status # "absent",
               RunWorkflow(events[e].workflow, e, "other")
        PROVE  HandlerInv' /\ \A r \in RunIds : Kept(r)
    <3>1. events[e].workflow \in Workflows /\ e \in Keys
      BY <2>1 DEF TypeInv, WellFormed, Keys
    <3> QED
      BY <2>1, <3>1, RunWorkflowAudited
  <2> QED
    BY <1>3, <2>1, DefinitionsAudited DEF TriggerRequest
<1>4. CASE Environment \/ Crash
  BY <1>4, EnvironmentAudited
<1>5. CASE Restart
  BY <1>5, RestartAudited
<1>6. CASE UNCHANGED vars
  <2>1. UNCHANGED <<defs, runs, approvals, up, worker>>
    BY <1>6 DEF vars, tables
  <2>2. HandlerInv'
    BY <2>1 DEF AuditInv, HandlerInv, StepKind, OrdinalSucceeded
  <2> QED
    BY <2>1, <2>2, NothingWritten
<1> QED
  BY <1>1, <1>2, <1>3, <1>4, <1>5, <1>6 DEF Next

THEOREM AuditInvariant == Spec => []AuditInv
<1>1. Init => AuditInv
  BY InitAudited
<1>2. TypeInv /\ AuditInv /\ [Next]_vars => AuditInv'
  BY NextAudited
<1> QED
  BY <1>1, <1>2, TypeInvariant, PTL DEF Spec

\* Whatever order decisions, expiry, crashes and recovery come in, an approval agrees with
\* its run and its checkpoint: a waiting one waits with both, an approved one stands beside
\* a checkpoint that succeeded, and a closed one beside a run that failed.
THEOREM ApprovalsAgree == Spec => []ApprovalEvidence
<1>1. AuditInv => ApprovalEvidence
  BY DEF AuditInv, ApprovalOK, ApprovalEvidence
<1> QED
  BY <1>1, AuditInvariant, PTL

-----------------------------------------------------------------------------
(* What has ended stays.                                                   *)

\* Only pending events are cancelled or finished, and new ones get unused ids.
LEMMA EventsFinal ==
    ASSUME TypeInv, [Next]_vars, NEW e \in EventIds, events[e].status \in TerminalStatus
    PROVE  events'[e] = events[e]
<1>1. events[e].status \notin {"absent", "pending"}
  BY DEF TerminalStatus
<1>2. CASE \E W \in SUBSET Workflows : CancelPending(W)
  BY <1>1, <1>2 DEF CancelPending
<1>3. CASE ClaimDue
  <2> DEFINE due   == {w \in Workflows : IsDue(w)}
             fresh == {w \in due : ~AlreadyQueued(w)}
             free  == {f \in EventIds : events[f].status = "absent"}
             new(w) == [NoEvent EXCEPT !.status = "pending", !.workflow = w,
                            !.version = defs[w].version, !.kind = defs[w].trigger,
                            !.key = DedupeKey(w),
                            !.due = IF defs[w].trigger \in Scheduled
                                    THEN defs[w].nextDue ELSE now]
  <2>1. PICK id \in [fresh -> free] : events' = [f \in EventIds |->
            IF \E w \in fresh : id[w] = f
            THEN new(CHOOSE x \in fresh : id[x] = f) ELSE events[f]]
    BY <1>3 DEF ClaimDue
  <2>2. ~\E w \in fresh : id[w] = e
    BY <1>1
  <2> QED
    BY <2>1, <2>2
<1>4. ASSUME NEW f \in EventIds, NEW s, NEW k, FinishTrigger(f, s, k)
      PROVE  events'[e] = events[e]
  BY <1>1, <1>4 DEF FinishTrigger, CanFinish, TypeInv, TypeOK
<1>5. CASE UNCHANGED events
  BY <1>5
<1>6. CASE Execute \/ Environment \/ Crash \/ Restart
  BY <1>5, <1>6 DEF Execute, SkipSucceeded, PauseForApproval, StartAttempt, RecordUnresolved,
     FinishRecord, StepSucceeds, StepFails, RetryOrClose, ResultOverBudget, FinishRun, Resume,
     DurableElsewhere, Environment, Tick, BecomeOverdue, Interrupt, Crash, Restart, tables
<1>7. CASE UserRequest
  <2>1. ASSUME NEW w \in Workflows, NEW p, NEW t, SaveWorkflow(w, p, t) \/ DeleteWorkflow(w)
        PROVE  events'[e] = events[e]
    <3>1. CancelPending({w}) /\ {w} \in SUBSET Workflows
      BY <2>1 DEF SaveWorkflow, DeleteWorkflow
    <3> QED
      BY <1>2, <3>1
  <2>2. ASSUME NEW gone, NEW shrunk, NEW s, RemoveTargets(gone, shrunk, s)
        PROVE  events'[e] = events[e]
    <3>1. CancelPending({w \in Workflows : TargetOf[w] \in gone \cup shrunk})
      BY <2>2 DEF RemoveTargets
    <3> QED
      BY <1>2, <3>1
  <2> QED
    BY <1>5, <1>7, <2>1, <2>2 DEF UserRequest, RunWorkflow, SaveGroup, ActivateVersion,
       ArchiveThread, DeleteThread, ExpireApprovals, Approve, CloseDecision
<1>8. CASE TriggerRequest
  BY <1>3, <1>4, <1>5, <1>8 DEF TriggerRequest, RunWorkflow
<1> QED
  BY <1>5, <1>6, <1>7, <1>8 DEF Next, vars, tables

\* The audit is append-only: no handler, recovery or late request rewrites a run, a
\* checkpoint, an approval or a trigger event that has come to its end.
THEOREM EndedIsFinal == Spec => TerminalIsFinal
<1>1. ASSUME TypeInv, AuditInv, [Next]_vars
      PROVE  [/\ \A r \in RunIds : runs[r].status \in TerminalStatus => runs'[r] = runs[r]
              /\ \A r \in RunIds, o \in Ordinals :
                    approvals[r][o].status \in ClosedApproval \cup {"approved"} =>
                        approvals'[r][o] = approvals[r][o]
              /\ \A e \in EventIds : events[e].status \in TerminalStatus =>
                    events'[e] = events[e]]_vars
  <2>1. \A r \in RunIds : RunFinal(r)
    BY <1>1, NextAudited
  <2>2. \A e \in EventIds : events[e].status \in TerminalStatus => events'[e] = events[e]
    BY <1>1, EventsFinal
  <2> QED
    BY <2>1, <2>2 DEF RunFinal
<1> QED
  BY <1>1, TypeInvariant, AuditInvariant, PTL DEF Spec, TerminalIsFinal

-----------------------------------------------------------------------------
(***************************************************************************)
(* The order of the checkpoints: whatever interrupts a run, and however it *)
(* is gone through again, its steps are begun one after the other, and     *)
(* nothing behind a review before the review is approved.                  *)
(***************************************************************************)

\* What the handler has behind it and before it: the steps ahead of its own succeeded, the
\* attempts ahead of its own ended badly, and nothing behind its own was begun, unless it
\* goes through a run again that a person let go on.
HandlerOrder ==
    worker.phase # "idle" =>
        /\ \A q \in 1..(worker.ord - 1) : OrdinalSucceeded(worker.run, q)
        /\ worker.att > 1 => runs[worker.run].steps[<<worker.ord, worker.att - 1>>]
                                 \in {"failed", "cancelled"}
        /\ worker.phase \in {"loop", "approved"} => \A p \in StepRows :
               /\ p[1] >= worker.ord /\ (p[1] = worker.ord => p[2] >= worker.att)
               /\ ~OrdinalSucceeded(worker.run, p[1])
               => runs[worker.run].steps[p] = "absent"
        /\ worker.phase \in {"executing", "recording", "retrying"} => \A p \in StepRows :
               p[1] >= worker.ord /\ (p[1] = worker.ord => p[2] > worker.att)
               => runs[worker.run].steps[p] = "absent"
        /\ worker.phase = "retrying" => runs[worker.run].steps[<<worker.ord, worker.att>>]
                                            \in {"failed", "cancelled"}
        /\ worker.phase = "closing" => worker.verdict # "succeeded"

\* CheckpointsInOrder for one run, and a review has one attempt, which succeeds only by
\* being approved.
OrderOK(r) ==
    /\ \A p \in StepRows : runs[r].steps[p] # "absent" =>
           /\ p[1] <= Len(runs[r].plan)
           /\ \A q \in 1..(p[1] - 1) : OrdinalSucceeded(r, q)
           /\ p[2] > 1 => /\ runs[r].steps[<<p[1], p[2] - 1>>] \in {"failed", "cancelled"}
                          /\ runs[r].plan[p[1]].kind = "query"
    /\ \A o \in Ordinals :
           OrdinalSucceeded(r, o) /\ runs[r].plan[o].kind = "human-approval" =>
               approvals[r][o].status = "approved"
    /\ runs[r].status = "succeeded" => \A o \in 1..Len(runs[r].plan) : OrdinalSucceeded(r, o)

OrderInv == HandlerOrder /\ \A r \in RunIds : OrderOK(r)

-----------------------------------------------------------------------------
(* The pieces.                                                             *)

LEMMA RowNumbers ==
    \A p \in StepRows : p[1] \in Nat \ {0} /\ p[2] \in Nat \ {0}
BY WorkflowAssumption DEF StepRows, Ordinals, Attempts

\* A run that is not written keeps its order: an approved review stays approved.
LEMMA OrderKept ==
    ASSUME NEW r \in RunIds, OrderOK(r), RunFinal(r), runs'[r] = runs[r]
    PROVE  OrderOK(r)'
<1>1. \A o : OrdinalSucceeded(r, o)' = OrdinalSucceeded(r, o)
  BY DEF OrdinalSucceeded
<1>2. \A o \in Ordinals : approvals[r][o].status = "approved" =>
          approvals'[r][o].status = "approved"
  BY DEF RunFinal
<1> QED
  BY <1>1, <1>2 DEF OrderOK

\* At a step that did not succeed yet, nothing behind the handler's attempt was begun.
LEMMA NothingBehind ==
    ASSUME TypeInv, OrderInv, worker.phase = "loop",
           ~OrdinalSucceeded(worker.run, worker.ord),
           NEW p \in StepRows, p[1] >= worker.ord, p[1] = worker.ord => p[2] >= worker.att
    PROVE  runs[worker.run].steps[p] = "absent"
<1>1. worker.run \in RunIds /\ worker.ord \in Nat \ {0} /\ p[1] \in Nat
  BY ConstantTypes DEF TypeInv, TypeOK, WellFormed, Worker, StepRows
<1>2. CASE p[1] = worker.ord
  BY <1>2 DEF OrderInv, HandlerOrder
<1>3. CASE p[1] # worker.ord
  <2>1. worker.ord \in 1..(p[1] - 1)
    BY <1>1, <1>3
  <2> QED
    BY <1>1, <2>1 DEF OrderInv, OrderOK
<1> QED
  BY <1>2, <1>3

\* A checkpoint written at the handler's attempt, when nothing behind it was begun.
LEMMA CheckpointOrdered ==
    ASSUME TypeInv, AuditInv, OrderInv, \A r \in RunIds : RunFinal(r),
           NEW run, NEW ord, NEW att,
           run = worker.run, ord = worker.ord, att = worker.att,
           worker.phase # "idle", ord <= Len(worker.plan),
           ~OrdinalSucceeded(run, ord),
           StepKind = "query" \/ att = 1,
           \A p \in StepRows : p[1] >= ord /\ (p[1] = ord => p[2] > att)
               => runs[run].steps[p] = "absent",
           NEW s, SetStep(s), s = "succeeded" => StepKind = "query"
    PROVE  /\ \A r \in RunIds : OrderOK(r)'
           /\ \A q \in 1..(ord - 1) : OrdinalSucceeded(run, q)'
           /\ s = "succeeded" => OrdinalSucceeded(run, ord)'
           /\ att > 1 => runs'[run].steps[<<ord, att - 1>>]
                                    \in {"failed", "cancelled"}
           /\ runs'[run].steps[<<ord, att>>] = s
           /\ \A p \in StepRows :
                  p[1] >= ord /\ (p[1] = ord => p[2] > att)
                  => runs'[run].steps[p] = "absent"
<1> DEFINE here == <<ord, att>>
<1>1. /\ run \in RunIds /\ ord \in Ordinals /\ here \in StepRows
      /\ \A r \in RunIds : r # run => runs'[r] = runs[r]
      /\ runs'[run].status = runs[run].status
      /\ runs'[run].plan = runs[run].plan
      /\ \A p \in StepRows : runs'[run].steps[p] =
             IF p = here THEN s ELSE runs[run].steps[p]
  BY SetStepAt
<1>2. /\ ord \in Nat \ {0} /\ att \in Nat \ {0} /\ att \in Attempts
      /\ Ordinals \subseteq Nat \ {0} /\ Attempts \subseteq Nat \ {0}
  BY ConstantTypes DEF TypeInv, TypeOK, Worker, Ordinals, Attempts
<1>3. /\ HandlerOrder /\ OrderOK(run)
      /\ runs[run].status = "running" /\ runs[run].plan = worker.plan
  BY <1>1 DEF OrderInv, AuditInv, HandlerInv
<1>4. ASSUME NEW q \in Ordinals, q # ord
      PROVE  OrdinalSucceeded(run, q)' <=> OrdinalSucceeded(run, q)
  <2>1. \A a \in Attempts : <<q, a>> \in StepRows /\ <<q, a>> # here
    BY <1>4 DEF StepRows
  <2> QED
    BY <1>1, <2>1 DEF OrdinalSucceeded
<1>5. OrdinalSucceeded(run, ord)' <=> s = "succeeded"
  <2>1. \A a \in Attempts : /\ <<ord, a>> \in StepRows
                            /\ runs[run].steps[<<ord, a>>] # "succeeded"
    BY <1>1 DEF StepRows, OrdinalSucceeded
  <2>2. \A a \in Attempts : runs'[run].steps[<<ord, a>>] = "succeeded" =>
            a = att /\ s = "succeeded"
    BY <1>1, <2>1
  <2>3. runs'[run].steps[<<ord, att>>] = s
    BY <1>1
  <2> QED
    BY <1>2, <2>2, <2>3 DEF OrdinalSucceeded
<1>6. \A q \in 1..(ord - 1) : OrdinalSucceeded(run, q)'
  <2>1. \A q \in 1..(ord - 1) : q \in Ordinals /\ q # ord
    BY <1>1, <1>2, WorkflowAssumption DEF Ordinals
  <2> QED
    BY <1>3, <1>4, <2>1 DEF HandlerOrder
<1>7. att > 1 => runs'[run].steps[<<ord, att - 1>>]
                            \in {"failed", "cancelled"}
  <2>1. att > 1 => att - 1 \in Attempts /\ att - 1 # att
    BY <1>2, WorkflowAssumption DEF Attempts
  <2>2. att > 1 => <<ord, att - 1>> \in StepRows \ {here}
    BY <1>1, <2>1 DEF StepRows
  <2> QED
    BY <1>1, <1>3, <2>2 DEF HandlerOrder
<1>8. \A p \in StepRows : p[1] >= ord /\ (p[1] = ord => p[2] > att)
          => runs'[run].steps[p] = "absent"
  <2>1. \A p \in StepRows : p = here => p[1] = ord /\ ~(p[2] > att)
    BY <1>2
  <2> QED
    BY <1>1, <2>1
<1>9. ASSUME NEW p \in StepRows, runs'[run].steps[p] # "absent"
      PROVE  /\ p[1] <= Len(worker.plan)
             /\ \A q \in 1..(p[1] - 1) : OrdinalSucceeded(run, q)'
             /\ p[2] > 1 => /\ runs'[run].steps[<<p[1], p[2] - 1>>]
                                   \in {"failed", "cancelled"}
                            /\ worker.plan[p[1]].kind = "query"
  <2>1. CASE p = here
    BY <1>6, <1>7, <2>1 DEF StepKind
  <2>2. CASE p # here
    <3>1. runs[run].steps[p] # "absent"
      BY <1>1, <1>9, <2>2
    <3>2. /\ p[1] \in Ordinals /\ p[2] \in Attempts /\ p[1] \in Nat \ {0} /\ p[2] \in Nat \ {0}
      BY <1>2 DEF StepRows
    <3>3. ~(p[1] > ord) /\ (p[1] = ord => ~(p[2] > att))
      BY <1>2, <3>1, <3>2
    <3>4. \A q \in 1..(p[1] - 1) : q \in Ordinals /\ q # ord
      BY <1>2, <3>2, <3>3, WorkflowAssumption DEF Ordinals
    <3>5. p[2] > 1 => <<p[1], p[2] - 1>> \in StepRows
      <4>1. p[2] > 1 => p[2] - 1 \in Attempts
        BY <3>2, WorkflowAssumption DEF Attempts
      <4> QED
        BY <3>2, <4>1 DEF StepRows
    <3>6. p[2] > 1 => <<p[1], p[2] - 1>> # here
      BY <1>2, <3>2, <3>3
    <3> QED
      BY <1>1, <1>3, <1>4, <3>1, <3>4, <3>5, <3>6 DEF OrderOK
  <2> QED
    BY <2>1, <2>2
<1>10. ASSUME NEW o \in Ordinals, OrdinalSucceeded(run, o)',
              worker.plan[o].kind = "human-approval"
       PROVE  approvals'[run][o].status = "approved"
  <2>1. o # ord
    BY <1>5, <1>10 DEF StepKind
  <2>2. approvals[run][o].status = "approved"
    BY <1>3, <1>4, <1>10, <2>1 DEF OrderOK
  <2> QED
    BY <1>1, <2>2 DEF RunFinal
<1>11. OrderOK(run)'
  BY <1>1, <1>3, <1>9, <1>10 DEF OrderOK
<1>12. ASSUME NEW r \in RunIds, r # run
       PROVE  OrderOK(r)'
  BY <1>1, <1>12, OrderKept DEF OrderInv
<1> QED
  BY <1>1, <1>5, <1>6, <1>7, <1>8, <1>11, <1>12

-----------------------------------------------------------------------------
(* The steps of the handler.                                               *)

\* Beginning an attempt, or a review: the handler is at a step that did not succeed yet.
LEMMA BeginOrdered ==
    ASSUME TypeInv, AuditInv, OrderInv, \A r \in RunIds : RunFinal(r),
           StartAttempt \/ RecordUnresolved \/ PauseForApproval
    PROVE  OrderInv'
<1> PICK run, ord, att : run = worker.run /\ ord = worker.ord /\ att = worker.att
  OBVIOUS
<1>1. /\ worker.phase = "loop" /\ ord <= Len(worker.plan) /\ ~OrdinalSucceeded(run, ord)
      /\ SetStep("running")
  BY DEF StartAttempt, RecordUnresolved, PauseForApproval, AtStep, Executing
<1>2. StepKind = "query" \/ att = 1
  <2>1. CASE PauseForApproval
    BY <1>1, <2>1 DEF PauseForApproval, AtStep, StepKind, AuditInv, HandlerInv
  <2> QED
    BY <2>1 DEF StartAttempt, RecordUnresolved, AtStep
<1>3. \A p \in StepRows : p[1] >= ord /\ (p[1] = ord => p[2] > att)
          => runs[run].steps[p] = "absent"
  <2>1. \A p \in StepRows : p[2] > att => p[2] >= att
    <3>1. att \in Nat
      BY ConstantTypes DEF TypeInv, TypeOK, Worker
    <3> QED
      BY <3>1, RowNumbers
  <2> QED
    BY <1>1, <2>1, NothingBehind
<1>4. ASSUME NEW s, s = "running"
      PROVE  /\ \A r \in RunIds : OrderOK(r)'
             /\ \A q \in 1..(ord - 1) : OrdinalSucceeded(run, q)'
             /\ s = "succeeded" => OrdinalSucceeded(run, ord)'
             /\ runs'[run].steps[<<ord, att>>] = s
             /\ att > 1 => runs'[run].steps[<<ord, att - 1>>] \in {"failed", "cancelled"}
             /\ \A p \in StepRows : p[1] >= ord /\ (p[1] = ord => p[2] > att)
                    => runs'[run].steps[p] = "absent"
  <2>1. SetStep(s) /\ (s = "succeeded" => StepKind = "query") /\ worker.phase # "idle"
    BY <1>1, <1>4
  <2> QED
    BY <1>1, <1>2, <1>3, <2>1, CheckpointOrdered
<1>5. HandlerOrder'
  <2>1. CASE PauseForApproval
    BY <2>1 DEF PauseForApproval, Answer, Idle, HandlerOrder
  <2>2. CASE StartAttempt \/ RecordUnresolved
    <3>1. /\ worker'.phase \in {"executing", "recording"} /\ worker'.run = run
          /\ worker'.ord = ord /\ worker'.att = att
      BY <2>2 DEF StartAttempt, RecordUnresolved, GoOn, TypeInv, TypeOK, Worker
    <3> QED
      BY <1>4, <3>1 DEF HandlerOrder, OrdinalSucceeded
  <2> QED
    BY <2>1, <2>2
<1> QED
  BY <1>4, <1>5 DEF OrderInv

\* Ending an attempt.
LEMMA EndOrdered ==
    ASSUME TypeInv, AuditInv, OrderInv, \A r \in RunIds : RunFinal(r),
           NEW s \in TerminalStatus, SetStep(s),
           FinishRecord \/ StepFails \/ StepSucceeds,
           FinishRecord => s = worker.verdict,
           StepFails => s \in {"failed", "cancelled"},
           StepSucceeds => s = "succeeded"
    PROVE  OrderInv'
<1> PICK run, ord, att : run = worker.run /\ ord = worker.ord /\ att = worker.att
  OBVIOUS
<1>1. worker \in Worker /\ HandlerInv /\ HandlerOrder
  BY DEF TypeInv, TypeOK, AuditInv, OrderInv
<1>2. worker.phase \in {"recording", "executing"}
  BY DEF FinishRecord, StepFails, StepSucceeds, Executing
<1>3. ord <= Len(worker.plan) /\ ~OrdinalSucceeded(run, ord) /\ StepKind = "query"
  BY <1>1, <1>2 DEF HandlerInv
<1>4. \A p \in StepRows : p[1] >= ord /\ (p[1] = ord => p[2] > att)
          => runs[run].steps[p] = "absent"
  BY <1>1, <1>2 DEF HandlerOrder
<1>5. /\ \A r \in RunIds : OrderOK(r)'
      /\ \A q \in 1..(ord - 1) : OrdinalSucceeded(run, q)'
      /\ s = "succeeded" => OrdinalSucceeded(run, ord)'
      /\ att > 1 => runs'[run].steps[<<ord, att - 1>>] \in {"failed", "cancelled"}
      /\ runs'[run].steps[<<ord, att>>] = s
      /\ \A p \in StepRows : p[1] >= ord /\ (p[1] = ord => p[2] > att)
             => runs'[run].steps[p] = "absent"
  BY <1>2, <1>3, <1>4, CheckpointOrdered
<1>6. HandlerOrder'
  <2>1. CASE FinishRecord
    <3>1. /\ worker'.phase = "closing" /\ worker'.run = run /\ worker'.ord = ord
          /\ worker'.att = att /\ worker'.verdict = worker.verdict
      BY <1>1, <2>1 DEF FinishRecord, GoOn, Worker
    <3>2. worker.verdict # "succeeded"
      BY <1>1, <2>1 DEF FinishRecord, Executing, HandlerInv
    <3> QED
      BY <1>5, <3>1, <3>2 DEF HandlerOrder, OrdinalSucceeded
  <2>2. CASE StepFails
    <3>1. /\ worker'.phase = "retrying" /\ worker'.run = run /\ worker'.ord = ord
          /\ worker'.att = att
      BY <1>1, <2>2 DEF StepFails, GoOn, Worker
    <3>2. s \in {"failed", "cancelled"}
      BY <2>2
    <3> QED
      BY <1>5, <3>1, <3>2 DEF HandlerOrder, OrdinalSucceeded
  <2>3. CASE StepSucceeds
    <3>1. /\ worker'.phase = "loop" /\ worker'.run = run /\ worker'.ord = ord + 1
          /\ worker'.att = 1 /\ ord \in Nat \ {0}
      BY <1>1, <2>3 DEF StepSucceeds, Worker
    <3>2. \A q \in 1..((ord + 1) - 1) : OrdinalSucceeded(run, q)'
      <4>1. \A q \in 1..((ord + 1) - 1) : q \in 1..(ord - 1) \/ q = ord
        BY <3>1
      <4> QED
        BY <1>5, <2>3, <4>1
    <3>3. \A p \in StepRows : p[1] >= ord + 1 => runs'[run].steps[p] = "absent"
      <4>1. \A p \in StepRows : p[1] >= ord + 1 => p[1] >= ord /\ p[1] # ord
        BY <3>1, RowNumbers
      <4> QED
        BY <1>5, <4>1
    <3> QED
      BY <3>1, <3>2, <3>3 DEF HandlerOrder, OrdinalSucceeded
  <2> QED
    BY <2>1, <2>2, <2>3
<1> QED
  BY <1>5, <1>6 DEF OrderInv

\* The steps that write no checkpoint.
LEMMA SilentOrdered ==
    ASSUME TypeInv, AuditInv, OrderInv, \A r \in RunIds : RunFinal(r),
           SkipSucceeded \/ RetryOrClose \/ ResultOverBudget \/ Resume
    PROVE  OrderInv'
<1> PICK run, ord, att : run = worker.run /\ ord = worker.ord /\ att = worker.att
  OBVIOUS
<1>1. UNCHANGED <<runs, approvals>>
  BY DEF SkipSucceeded, RetryOrClose, ResultOverBudget, Resume
<1>2. \A r \in RunIds : OrderOK(r)'
  BY <1>1, OrderKept DEF OrderInv
<1>3. /\ worker \in Worker /\ HandlerInv /\ HandlerOrder /\ ord \in Nat \ {0}
      /\ att \in Nat \ {0} /\ \A p \in StepRows : p[1] \in Nat /\ p[2] \in Nat
  BY ConstantTypes, RowNumbers DEF TypeInv, TypeOK, AuditInv, OrderInv, Worker, Attempts
<1>4. HandlerOrder'
  <2>1. CASE worker' = Idle
    BY <2>1 DEF Idle, HandlerOrder
  <2>2. CASE SkipSucceeded
    <3>1. /\ worker'.phase = "loop" /\ worker'.run = run /\ worker'.ord = ord + 1
          /\ worker'.att = att /\ worker.phase = "loop" /\ OrdinalSucceeded(run, ord)
      BY <1>3, <2>2 DEF SkipSucceeded, Executing, Worker
    <3>2. att = 1
      BY <1>3, <3>1 DEF HandlerInv
    <3>3. \A q \in 1..((ord + 1) - 1) : OrdinalSucceeded(run, q)
      <4>1. \A q \in 1..((ord + 1) - 1) : q \in 1..(ord - 1) \/ q = ord
        BY <1>3
      <4> QED
        BY <1>3, <3>1, <4>1 DEF HandlerOrder
    <3>4. \A p \in StepRows : p[1] >= ord + 1 /\ ~OrdinalSucceeded(run, p[1])
              => runs[run].steps[p] = "absent"
      <4>1. \A p \in StepRows : p[1] >= ord + 1 => p[1] >= ord /\ p[1] # ord
        BY <1>3
      <4> QED
        BY <1>3, <3>1, <4>1 DEF HandlerOrder
    <3> QED
      BY <1>1, <3>1, <3>2, <3>3, <3>4 DEF HandlerOrder, OrdinalSucceeded
  <2>3. CASE RetryOrClose
    <3>1. /\ worker'.run = run /\ worker'.ord = ord /\ worker.phase = "retrying"
          /\ \/ worker'.phase = "loop" /\ worker'.att = att + 1
             \/ worker'.phase = "closing" /\ worker'.att = att /\ worker'.verdict # "succeeded"
      BY <1>3, <2>3 DEF RetryOrClose, GoOn, Executing, Worker
    <3>2. /\ \A q \in 1..(ord - 1) : OrdinalSucceeded(run, q)
          /\ att > 1 => runs[run].steps[<<ord, att - 1>>] \in {"failed", "cancelled"}
          /\ runs[run].steps[<<ord, att>>] \in {"failed", "cancelled"}
          /\ \A p \in StepRows : p[1] >= ord /\ (p[1] = ord => p[2] > att)
                 => runs[run].steps[p] = "absent"
      BY <1>3, <3>1 DEF HandlerOrder
    <3>3. CASE worker'.phase = "closing"
      BY <1>1, <3>1, <3>2, <3>3 DEF HandlerOrder, OrdinalSucceeded
    <3>4. CASE worker'.phase = "loop"
      <4>1. (att + 1) - 1 = att /\ \A p \in StepRows : p[2] >= att + 1 => p[2] > att
        BY <1>3
      <4>2. \A p \in StepRows : p[1] >= ord /\ (p[1] = ord => p[2] >= att + 1)
               => runs[run].steps[p] = "absent"
        BY <3>2, <4>1
      <4> QED
        BY <1>1, <3>1, <3>2, <3>4, <4>1, <4>2 DEF HandlerOrder, OrdinalSucceeded
    <3> QED
      BY <3>1, <3>3, <3>4
  <2>4. CASE Resume /\ worker' # Idle
    <3>1. /\ worker'.phase = "loop" /\ worker'.run = run /\ worker'.ord = ord
          /\ worker'.att = att /\ worker.phase = "approved"
      BY <1>3, <2>4 DEF Resume, GoOn, Answer, Executing, Worker
    <3> QED
      BY <1>1, <1>3, <3>1 DEF HandlerOrder, OrdinalSucceeded
  <2>5. CASE ResultOverBudget
    BY <2>1, <2>5 DEF ResultOverBudget, Answer
  <2> QED
    BY <2>1, <2>2, <2>3, <2>4, <2>5
<1> QED
  BY <1>2, <1>4 DEF OrderInv

\* A run succeeds after the last step of its plan, when all of them did.
LEMMA FinishOrdered ==
    ASSUME TypeInv, AuditInv, OrderInv, \A r \in RunIds : RunFinal(r), FinishRun
    PROVE  OrderInv'
<1> DEFINE done    == worker.phase = "loop" /\ worker.ord > Len(worker.plan)
           verdict == IF done THEN "succeeded" ELSE worker.verdict
<1>1. /\ worker' = Idle /\ UNCHANGED approvals
      /\ runs' = [runs EXCEPT ![worker.run].status = verdict]
      /\ done \/ worker.phase = "closing"
  BY DEF FinishRun, Answer
<1>2. HandlerOrder'
  BY <1>1 DEF HandlerOrder, Idle
<1>3. ASSUME NEW r \in RunIds
      PROVE  OrderOK(r)'
  <2>1. CASE r # worker.run
    <3>1. runs'[r] = runs[r]
      BY <1>1, <2>1 DEF TypeInv, TypeOK
    <3> QED
      BY <3>1, OrderKept DEF OrderInv
  <2>2. CASE r = worker.run
    <3>1. runs[r] \in Run /\ OrderOK(r) /\ HandlerOrder /\ HandlerInv
          /\ worker.plan \in Plans /\ worker.ord \in Nat \ {0}
      BY <1>1 DEF TypeInv, TypeOK, OrderInv, AuditInv, WellFormed, Worker
    <3>2. /\ runs'[r].status = verdict /\ runs'[r].plan = runs[r].plan
          /\ runs'[r].steps = runs[r].steps /\ approvals' = approvals
      BY <1>1, <2>2, <3>1 DEF TypeInv, TypeOK, Run
    <3>3. \A o : OrdinalSucceeded(r, o)' = OrdinalSucceeded(r, o)
      BY <3>2 DEF OrdinalSucceeded
    <3>4. verdict = "succeeded" => \A o \in 1..Len(runs[r].plan) : OrdinalSucceeded(r, o)
      <4>1. verdict = "succeeded" => done
        BY <1>1, <3>1 DEF HandlerOrder
      <4>2. runs[r].plan = worker.plan /\ Len(worker.plan) \in Nat
        BY <1>1, <2>2, <3>1, ConstantTypes DEF HandlerInv
      <4>3. done => \A o \in 1..Len(worker.plan) : o \in 1..(worker.ord - 1)
        BY <3>1, <4>2
      <4> QED
        BY <1>1, <2>2, <3>1, <4>1, <4>2, <4>3 DEF HandlerOrder
    <3> HIDE DEF verdict
    <3> QED
      BY <3>1, <3>2, <3>3, <3>4 DEF OrderOK
  <2> QED
    BY <2>1, <2>2
<1> QED
  BY <1>2, <1>3 DEF OrderInv

-----------------------------------------------------------------------------
(* The requests, and recovery.                                             *)

LEMMA RunWorkflowOrdered ==
    ASSUME TypeInv, AuditInv, OrderInv, \A r \in RunIds : RunFinal(r),
           NEW w \in Workflows, NEW k \in Keys, NEW client, RunWorkflow(w, k, client)
    PROVE  OrderInv'
<1> PICK new : new = <<w, k>>
  OBVIOUS
<1>1. new \in RunIds
  BY DEF RunIds
<1>2. CASE UNCHANGED <<runs, worker>>
  <2>1. worker'.phase = "idle"
    BY <1>2 DEF RunWorkflow, Serving
  <2> QED
    BY <1>2, <2>1, OrderKept DEF OrderInv, HandlerOrder
<1>3. CASE ~UNCHANGED <<runs, worker>>
  <2>1. /\ runs[new].status = "absent" /\ runs' = [runs EXCEPT ![new] = StartedRun(w)]
        /\ worker' = [Idle EXCEPT !.phase = "loop", !.run = new, !.plan = defs[w].plan,
                                  !.client = client]
    BY <1>3 DEF RunWorkflow
  <2>2. /\ runs'[new].status = "running"
        /\ \A p \in StepRows : runs'[new].steps[p] = "absent"
    BY <1>1, <2>1 DEF StartedRun, NoRun, TypeInv, TypeOK
  <2>3. worker'.phase = "loop" /\ worker'.run = new /\ worker'.ord = 1 /\ worker'.att = 1
    BY <2>1 DEF Idle
  <2>4. HandlerOrder'
    BY <2>2, <2>3 DEF HandlerOrder
  <2>5. \A o \in Ordinals : ~OrdinalSucceeded(new, o)'
    BY <2>2 DEF OrdinalSucceeded, StepRows
  <2>6. OrderOK(new)'
    BY <2>2, <2>5 DEF OrderOK
  <2>7. ASSUME NEW r \in RunIds, r # new
        PROVE  OrderOK(r)'
    <3>1. runs'[r] = runs[r]
      BY <2>1, <2>7 DEF TypeInv, TypeOK
    <3> QED
      BY <3>1, OrderKept DEF OrderInv
  <2> QED
    BY <2>4, <2>6, <2>7 DEF OrderInv
<1> QED
  BY <1>2, <1>3

\* Closing what runs never disturbs the order: a checkpoint that ended badly may only be
\* followed by another attempt, and none is.
LEMMA ClosedOrder ==
    ASSUME NEW r \in RunIds, OrderOK(r), RunFinal(r), runs'[r].plan = runs[r].plan,
           runs'[r].status = "succeeded" => runs[r].status = "succeeded",
           \A p \in StepRows : runs'[r].steps[p] # runs[r].steps[p] =>
               runs[r].steps[p] = "running" /\ runs'[r].steps[p] = "failed"
    PROVE  OrderOK(r)'
<1>1. \A o \in Ordinals : OrdinalSucceeded(r, o)' <=> OrdinalSucceeded(r, o)
  <2>1. \A p \in StepRows : runs'[r].steps[p] = "succeeded" <=> runs[r].steps[p] = "succeeded"
    OBVIOUS
  <2>2. \A o \in Ordinals, a \in Attempts : <<o, a>> \in StepRows
    BY DEF StepRows
  <2> QED
    BY <2>1, <2>2 DEF OrdinalSucceeded
<1>2. \A p \in StepRows : /\ \A q \in 1..(p[1] - 1) : q \in Ordinals
                          /\ p[2] > 1 => <<p[1], p[2] - 1>> \in StepRows
  BY WorkflowAssumption DEF StepRows, Ordinals, Attempts
<1>3. \A o \in Ordinals : approvals[r][o].status = "approved" =>
          approvals'[r][o].status = "approved"
  BY DEF RunFinal
<1>4. ASSUME NEW p \in StepRows, runs'[r].steps[p] # "absent"
      PROVE  /\ p[1] <= Len(runs'[r].plan)
             /\ \A q \in 1..(p[1] - 1) : OrdinalSucceeded(r, q)'
             /\ p[2] > 1 => /\ runs'[r].steps[<<p[1], p[2] - 1>>] \in {"failed", "cancelled"}
                            /\ runs'[r].plan[p[1]].kind = "query"
  <2>1. runs[r].steps[p] # "absent"
    BY <1>4
  <2>2. /\ p[1] <= Len(runs[r].plan)
        /\ \A q \in 1..(p[1] - 1) : OrdinalSucceeded(r, q)
        /\ p[2] > 1 => /\ runs[r].steps[<<p[1], p[2] - 1>>] \in {"failed", "cancelled"}
                       /\ runs[r].plan[p[1]].kind = "query"
    BY <2>1 DEF OrderOK
  <2> QED
    BY <1>1, <1>2, <2>2
<1>5. runs'[r].status = "succeeded" =>
          \A o \in 1..Len(runs'[r].plan) : OrdinalSucceeded(r, o)'
  <2>1. runs'[r].status = "succeeded" => runs'[r] = runs[r]
    BY DEF RunFinal, TerminalStatus
  <2> QED
    BY <2>1 DEF OrderOK, OrdinalSucceeded
<1> QED
  BY <1>1, <1>3, <1>4, <1>5 DEF OrderOK

LEMMA ClosedRunsOrder ==
    ASSUME TypeInv, OrderInv, NEW r \in RunIds, RunFinal(r), NEW S,
           runs'[r] = ClosedRuns(S)[r]
    PROVE  OrderOK(r)'
<1>1. runs[r] \in Run /\ OrderOK(r)
  BY DEF TypeInv, TypeOK, OrderInv
<1>2. /\ runs'[r].plan = runs[r].plan
      /\ runs'[r].status = "succeeded" => runs[r].status = "succeeded"
      /\ \A p \in StepRows : runs'[r].steps[p] # runs[r].steps[p] =>
             runs[r].steps[p] = "running" /\ runs'[r].steps[p] = "failed"
  BY <1>1 DEF ClosedRuns, Run
<1> QED
  BY <1>1, <1>2, ClosedOrder

LEMMA ClosingOrdered ==
    ASSUME TypeInv, OrderInv, \A r \in RunIds : RunFinal(r),
           \/ \E S \in SUBSET OverdueApprovals : ExpireApprovals(S)
           \/ \E r \in RunIds, o \in Ordinals, d \in {"approved", "rejected"} :
                  CloseDecision(r, o, d)
    PROVE  OrderInv'
<1>1. worker'.phase = "idle" /\ \E S : runs' = ClosedRuns(S)
  BY DEF ExpireApprovals, CloseDecision, Serving
<1>2. \A r \in RunIds : OrderOK(r)'
  BY <1>1, ClosedRunsOrder
<1> QED
  BY <1>1, <1>2 DEF OrderInv, HandlerOrder

\* The steps ahead of the approved review have succeeded, and it is the last one begun.
LEMMA ApproveOrdered ==
    ASSUME TypeInv, AuditInv, OrderInv, \A r \in RunIds : RunFinal(r),
           NEW r0 \in RunIds, NEW o0 \in Ordinals, Approve(r0, o0)
    PROVE  OrderInv'
<1>1. /\ approvals[r0][o0].status = "pending" /\ <<r0, o0>> \notin OverdueApprovals
      /\ worker' = [Idle EXCEPT !.phase = "approved", !.run = r0, !.plan = defs[r0[1]].plan]
  BY DEF Approve
<1>2. runs[r0] \in Run /\ OrderOK(r0) /\ ApprovalOK(r0) /\ approvals[r0][o0] \in Approval
  BY DEF TypeInv, TypeOK, AuditInv, OrderInv
<1>3. /\ runs[r0].status = "running" /\ <<o0, 1>> \in StepRows
      /\ runs[r0].steps[<<o0, 1>>] = "running"
      /\ \A p \in StepRows : runs[r0].steps[p] = "running" => p = <<o0, 1>>
      /\ \A q \in Ordinals : q # o0 => approvals[r0][q].status # "pending"
  BY <1>1, <1>2, OneReview
<1>4. runs[r0].plan[o0].kind = "human-approval" /\ ~OrdinalSucceeded(r0, o0)
  <2>1. runs[r0].plan[o0].kind = "human-approval"
    BY <1>1, <1>2 DEF ApprovalOK
  <2> QED
    BY <1>1, <1>2, <2>1 DEF OrderOK
<1>5. /\ \A q \in Ordinals : <<r0, q>> \notin OverdueApprovals
      /\ approvals'[r0][o0].status = "approved"
  <2>1. \A q \in Ordinals : <<r0, q>> \notin OverdueApprovals
    BY <1>1, <1>3 DEF OverdueApprovals
  <2> QED
    BY <1>2, <2>1 DEF Approve, ClosedApprovals, Approval
<1>6. /\ runs'[r0].status = "running" /\ runs'[r0].plan = runs[r0].plan
      /\ \A p \in StepRows : runs'[r0].steps[p] =
             IF p = <<o0, 1>> THEN "succeeded" ELSE runs[r0].steps[p]
  <2>1. ClosedRuns(OverdueApprovals)[r0] = runs[r0]
    BY <1>5 DEF ClosedRuns
  <2>2. ClosedRuns(OverdueApprovals) \in [RunIds -> Run]
    BY ClosingTyped DEF TypeInv, TypeOK
  <2>3. runs' = [ClosedRuns(OverdueApprovals) EXCEPT ![r0].steps =
           [p \in StepRows |-> IF p[1] = o0 /\ @[p] = "running" THEN "succeeded" ELSE @[p]]]
    BY DEF Approve
  <2>4. /\ runs'[r0].status = runs[r0].status /\ runs'[r0].plan = runs[r0].plan
        /\ \A p \in StepRows : runs'[r0].steps[p] =
               IF p[1] = o0 /\ runs[r0].steps[p] = "running"
               THEN "succeeded" ELSE runs[r0].steps[p]
    BY <1>2, <2>1, <2>2, <2>3 DEF Run
  <2> QED
    BY <1>3, <2>4
<1>7. /\ OrdinalSucceeded(r0, o0)'
      /\ \A q \in Ordinals : q # o0 => (OrdinalSucceeded(r0, q)' <=> OrdinalSucceeded(r0, q))
  <2>1. runs'[r0].steps[<<o0, 1>>] = "succeeded" /\ 1 \in Attempts
    BY <1>3, <1>6, ConstantTypes
  <2>2. \A q \in Ordinals, a \in Attempts : q # o0 =>
            runs'[r0].steps[<<q, a>>] = runs[r0].steps[<<q, a>>]
    <3>1. \A q \in Ordinals, a \in Attempts : q # o0 => <<q, a>> \in StepRows \ {<<o0, 1>>}
      BY DEF StepRows
    <3> QED
      BY <1>6, <3>1
  <2> QED
    BY <2>1, <2>2 DEF OrdinalSucceeded
<1>8. \A p \in StepRows : /\ p[1] \in Ordinals /\ p[1] \in Nat \ {0}
                          /\ \A q \in 1..(p[1] - 1) : q \in Ordinals
                          /\ p[2] > 1 => <<p[1], p[2] - 1>> \in StepRows
  BY WorkflowAssumption DEF StepRows, Ordinals, Attempts
<1>9. ASSUME NEW p \in StepRows, runs'[r0].steps[p] # "absent"
      PROVE  /\ runs[r0].steps[p] # "absent"
             /\ p[1] <= Len(runs[r0].plan)
             /\ \A q \in 1..(p[1] - 1) : OrdinalSucceeded(r0, q) /\ q # o0
             /\ p[2] > 1 => /\ runs[r0].steps[<<p[1], p[2] - 1>>] \in {"failed", "cancelled"}
                            /\ runs[r0].plan[p[1]].kind = "query"
  BY <1>2, <1>3, <1>4, <1>6, <1>9 DEF OrderOK
<1>10. OrderOK(r0)'
  <2>1. ASSUME NEW p \in StepRows, runs'[r0].steps[p] # "absent"
        PROVE  /\ p[1] <= Len(runs'[r0].plan)
               /\ \A q \in 1..(p[1] - 1) : OrdinalSucceeded(r0, q)'
               /\ p[2] > 1 => /\ runs'[r0].steps[<<p[1], p[2] - 1>>] \in {"failed", "cancelled"}
                              /\ runs'[r0].plan[p[1]].kind = "query"
    <3>1. p[2] > 1 => <<p[1], p[2] - 1>> # <<o0, 1>>
      BY <1>4, <1>9, <2>1
    <3> QED
      BY <1>6, <1>7, <1>8, <1>9, <2>1, <3>1
  <2>2. ASSUME NEW o \in Ordinals, OrdinalSucceeded(r0, o)',
               runs'[r0].plan[o].kind = "human-approval"
        PROVE  approvals'[r0][o].status = "approved"
    <3>1. CASE o = o0
      BY <1>5, <3>1
    <3>2. CASE o # o0
      BY <1>2, <1>6, <1>7, <2>2, <3>2 DEF OrderOK, RunFinal
    <3> QED
      BY <3>1, <3>2
  <2> QED
    BY <1>6, <2>1, <2>2 DEF OrderOK
<1>11. HandlerOrder'
  <2>1. /\ worker'.phase = "approved" /\ worker'.run = r0 /\ worker'.ord = 1
        /\ worker'.att = 1
    BY <1>1 DEF Idle
  <2>2. ASSUME NEW p \in StepRows, ~OrdinalSucceeded(r0, p[1])'
        PROVE  runs'[r0].steps[p] = "absent"
    <3>1. PICK o \in Ordinals : o = p[1] /\ o \in Nat \ {0}
      BY <1>8
    <3>2. o # o0 /\ ~OrdinalSucceeded(r0, o) /\ o0 \in Nat \ {0}
      BY <1>7, <2>2, <3>1, WorkflowAssumption DEF Ordinals
    <3>3. runs'[r0].steps[p] = runs[r0].steps[p]
      BY <1>6, <3>1, <3>2
    <3>4. o \in 1..(o0 - 1) \/ o0 \in 1..(o - 1)
      BY <3>1, <3>2
    <3>5. o \notin 1..(o0 - 1)
      BY <1>2, <1>3, <3>2 DEF OrderOK
    <3>6. runs'[r0].steps[p] # "absent" => o0 \notin 1..(o - 1)
      BY <1>9, <3>1
    <3> QED
      BY <3>4, <3>5, <3>6
  <2> QED
    BY <2>1, <2>2 DEF HandlerOrder, OrdinalSucceeded
<1>12. ASSUME NEW r \in RunIds, r # r0
       PROVE  OrderOK(r)'
  <2>1. runs'[r] = ClosedRuns(OverdueApprovals)[r]
    BY <1>12 DEF Approve, ClosedRuns
  <2> QED
    BY <2>1, ClosedRunsOrder
<1> QED
  BY <1>10, <1>11, <1>12 DEF OrderInv

LEMMA RestartOrdered ==
    ASSUME TypeInv, AuditInv, OrderInv, \A r \in RunIds : RunFinal(r), Restart
    PROVE  OrderInv'
<1>1. worker'.phase = "idle"
  BY DEF Restart, AuditInv, HandlerInv
<1>2. ASSUME NEW r \in RunIds
      PROVE  OrderOK(r)'
  <2>1. runs[r] \in Run /\ OrderOK(r) /\ runs'[r] = Recovered(r)
    BY DEF TypeInv, TypeOK, OrderInv, Restart
  <2>2. /\ runs'[r].plan = runs[r].plan
        /\ runs'[r].status = "succeeded" => runs[r].status = "succeeded"
        /\ \A p \in StepRows : runs'[r].steps[p] # runs[r].steps[p] =>
               runs[r].steps[p] = "running" /\ runs'[r].steps[p] = "failed"
    BY <2>1 DEF Recovered, Run
  <2> QED
    BY <2>1, <2>2, ClosedOrder
<1> QED
  BY <1>1, <1>2 DEF OrderInv, HandlerOrder

\* The steps that write no run.
LEMMA OtherOrdered ==
    ASSUME TypeInv, OrderInv, \A r \in RunIds : RunFinal(r), runs' = runs,
           worker'.phase # "idle" => /\ worker'.phase = worker.phase /\ worker'.run = worker.run
                                     /\ worker'.ord = worker.ord /\ worker'.att = worker.att
                                     /\ worker'.verdict = worker.verdict
    PROVE  OrderInv'
<1>1. \A r \in RunIds : OrderOK(r)'
  BY OrderKept DEF OrderInv
<1>2. HandlerOrder'
  BY DEF OrderInv, HandlerOrder, OrdinalSucceeded
<1> QED
  BY <1>1, <1>2 DEF OrderInv

-----------------------------------------------------------------------------
(* The order.                                                              *)

LEMMA NextOrdered ==
    ASSUME TypeInv, AuditInv, OrderInv, [Next]_vars
    PROVE  OrderInv'
<1>1. \A r \in RunIds : RunFinal(r)
  BY NextAudited
<1>2. CASE Execute
  <2>1. worker \in Worker
    BY DEF TypeInv, TypeOK
  <2>2. CASE FinishRecord
    BY <1>1, <2>1, <2>2, EndOrdered DEF FinishRecord, StepFails, StepSucceeds, Executing, Worker
  <2>3. CASE StepFails
    <3> DEFINE s == IF worker.ctx = "live" THEN "failed" ELSE worker.ctx
    <3>1. SetStep(s) /\ s \in {"failed", "cancelled"} /\ s \in TerminalStatus
      BY <2>1, <2>3 DEF StepFails, Worker, TerminalStatus
    <3>2. ~FinishRecord
      BY <2>3 DEF StepFails, FinishRecord, Executing
    <3>3. ~StepSucceeds
      BY <2>1, <2>3 DEF StepFails, StepSucceeds, GoOn, Worker
    <3> HIDE DEF s
    <3> QED
      BY <1>1, <2>3, <3>1, <3>2, <3>3, EndOrdered
  <2>4. CASE StepSucceeds
    <3>1. SetStep("succeeded") /\ "succeeded" \in TerminalStatus
      BY <2>4 DEF StepSucceeds, TerminalStatus
    <3>2. ~FinishRecord
      BY <2>4 DEF StepSucceeds, FinishRecord, Executing
    <3>3. ~StepFails
      BY <2>1, <2>4 DEF StepFails, StepSucceeds, GoOn, Worker
    <3> QED
      BY <1>1, <2>4, <3>1, <3>2, <3>3, EndOrdered
  <2> QED
    BY <1>1, <1>2, <2>2, <2>3, <2>4, BeginOrdered, SilentOrdered, FinishOrdered DEF Execute
<1>3. CASE UserRequest
  <2>1. ASSUME NEW w \in Workflows, NEW k \in ManualKeys, RunWorkflow(w, k, "other")
        PROVE  OrderInv'
    <3>1. k \in Keys
      BY DEF Keys
    <3> QED
      BY <1>1, <2>1, <3>1, RunWorkflowOrdered
  <2>2. ASSUME NEW r \in RunIds, NEW o \in Ordinals, Approve(r, o)
        PROVE  OrderInv'
    BY <1>1, <2>2, ApproveOrdered
  <2>3. CASE runs' = runs /\ worker'.phase = "idle"
    BY <1>1, <2>3, OtherOrdered
  <2> QED
    BY <1>1, <1>3, <2>1, <2>2, <2>3, ClosingOrdered
    DEF UserRequest, SaveWorkflow, DeleteWorkflow, SaveGroup, ActivateVersion, RemoveTargets,
        ArchiveThread, DeleteThread, Serving
<1>4. CASE TriggerRequest
  <2>1. ASSUME NEW e \in EventIds, events[e].status # "absent",
               RunWorkflow(events[e].workflow, e, "other")
        PROVE  OrderInv'
    <3>1. events[e].workflow \in Workflows /\ e \in Keys
      BY <2>1 DEF TypeInv, WellFormed, Keys
    <3> QED
      BY <1>1, <2>1, <3>1, RunWorkflowOrdered
  <2>2. CASE runs' = runs /\ worker'.phase = "idle"
    BY <1>1, <2>2, OtherOrdered
  <2> QED
    BY <1>4, <2>1, <2>2 DEF TriggerRequest, ClaimDue, FinishTrigger, Serving
<1>5. CASE Restart
  BY <1>1, <1>5, RestartOrdered
<1>6. CASE Environment \/ Crash \/ UNCHANGED vars
  <2>1. runs' = runs
    BY <1>6 DEF Environment, Tick, BecomeOverdue, Interrupt, Crash, vars, tables
  <2>2. worker'.phase # "idle" =>
            /\ worker'.phase = worker.phase /\ worker'.run = worker.run
            /\ worker'.ord = worker.ord /\ worker'.att = worker.att
            /\ worker'.verdict = worker.verdict
    <3>1. worker \in Worker
      BY DEF TypeInv, TypeOK
    <3>2. \/ worker' = worker \/ worker' = Idle
          \/ \E how : worker' = [worker EXCEPT !.ctx = how]
      BY <1>6 DEF Environment, Tick, BecomeOverdue, Interrupt, Crash, vars, tables
    <3> QED
      BY <3>1, <3>2 DEF Worker, Idle
  <2> QED
    BY <1>1, <2>1, <2>2, OtherOrdered
<1> QED
  BY <1>2, <1>3, <1>4, <1>5, <1>6 DEF Next

LEMMA InitOrdered == Init => OrderInv
<1> SUFFICES ASSUME Init PROVE OrderInv
  OBVIOUS
<1>1. HandlerOrder
  BY DEF Init, HandlerOrder, Idle
<1>2. ASSUME NEW r \in RunIds
      PROVE  OrderOK(r)
  <2>1. /\ runs[r].status = "absent"
        /\ \A p \in StepRows : runs[r].steps[p] = "absent"
    BY DEF Init, NoRun
  <2>2. \A o \in Ordinals : ~OrdinalSucceeded(r, o)
    BY <2>1 DEF OrdinalSucceeded, StepRows
  <2> QED
    BY <2>1, <2>2 DEF OrderOK
<1> QED
  BY <1>1, <1>2 DEF OrderInv

THEOREM OrderInvariant == Spec => []OrderInv
<1>1. Init => OrderInv
  BY InitOrdered
<1>2. TypeInv /\ AuditInv /\ OrderInv /\ [Next]_vars => OrderInv'
  BY NextOrdered
<1> QED
  BY <1>1, <1>2, TypeInvariant, AuditInvariant, PTL DEF Spec

\* What the invariants say of the order, and of what was reviewed.
LEMMA OrderImplies ==
    ASSUME AuditInv, OrderInv
    PROVE  CheckpointsInOrder /\ ResumesReviewedPlan
<1>1. CheckpointsInOrder
  <2>1. \A o \in Ordinals, a \in Attempts : <<o, a>> \in StepRows
    BY DEF StepRows
  <2> QED
    BY <2>1 DEF OrderInv, OrderOK, CheckpointsInOrder, OrdinalSucceeded
<1>2. ResumesReviewedPlan
  <2>1. worker.phase # "idle" => worker.plan = runs[worker.run].plan
    BY DEF AuditInv, HandlerInv
  <2>2. ASSUME NEW r \in RunIds, NEW p \in StepRows, runs[r].steps[p] # "absent",
               NEW o \in 1..(p[1] - 1), runs[r].plan[o].kind = "human-approval"
        PROVE  approvals[r][o].status = "approved" /\ approvals[r][o].version = runs[r].version
    <3>1. OrderOK(r) /\ ApprovalOK(r)
      BY DEF AuditInv, OrderInv
    <3>2. o \in Ordinals
      BY WorkflowAssumption DEF StepRows, Ordinals
    <3>3. OrdinalSucceeded(r, o)
      BY <2>2, <3>1 DEF OrderOK
    <3>4. approvals[r][o].status = "approved"
      BY <2>2, <3>1, <3>2, <3>3 DEF OrderOK
    <3> QED
      BY <3>1, <3>2, <3>4 DEF ApprovalOK
  <2> QED
    BY <2>1, <2>2 DEF ResumesReviewedPlan
<1> QED
  BY <1>1, <1>2

\* Whatever interrupts a run, and however often it is gone through again, its checkpoints
\* are written in the order of its plan, an attempt only after the one ahead of it ended
\* badly, and it succeeds only when each of its steps has.
THEOREM InOrder == Spec => []CheckpointsInOrder
<1>1. AuditInv /\ OrderInv => CheckpointsInOrder
  BY OrderImplies
<1> QED
  BY <1>1, AuditInvariant, OrderInvariant, PTL

\* No step behind a review is begun before a person approved that review under the version
\* the run was started with, and the handler that goes on holds the run's own plan.
THEOREM RunsWhatWasReviewed == Spec => []ResumesReviewedPlan
<1>1. AuditInv /\ OrderInv => ResumesReviewedPlan
  BY OrderImplies
<1> QED
  BY <1>1, AuditInvariant, OrderInvariant, PTL

-----------------------------------------------------------------------------
(***************************************************************************)
(* The promise of a run: what the tables say of a run, at any moment, is   *)
(* a state of RunPromise, and every commit is one of its steps or none.    *)
(***************************************************************************)

\* The handler is at an attempt its step allows, the recorded ones included. Beyond the
\* last step there is no attempt.
TriesInv ==
    worker.phase # "idle" /\ worker.ord <= Len(worker.plan) =>
        worker.att <= worker.plan[worker.ord].attempts

-----------------------------------------------------------------------------
(* How far a run is, as a value.                                           *)

\* Nothing is lost or added between a row and how far its run is.
LEMMA LifeFields ==
    ASSUME NEW row, NEW asked
    PROVE  /\ LifeOf(row, asked).stage = StageOf(row, asked)
           /\ LifeOf(row, asked).version = row.version /\ LifeOf(row, asked).plan = row.plan
           /\ LifeOf(row, asked).done = DoneOf(row) /\ LifeOf(row, asked).begun = BegunOf(row)
BY DEF LifeOf

\* The stage of a run, case by case.
LEMMA StageCases ==
    ASSUME NEW row \in Run, NEW asked \in [Ordinals -> Approval]
    PROVE  /\ row.status = "absent" => StageOf(row, asked) = "new"
           /\ row.status \in TerminalStatus => StageOf(row, asked) = row.status
           /\ \A o \in Ordinals :
                  row.status = "running" /\ asked[o].status = "pending" /\ asked[o].overdue =>
                      StageOf(row, asked) = "overdue"
           /\ \A o \in Ordinals :
                  /\ row.status = "running" /\ asked[o].status = "pending" /\ ~asked[o].overdue
                  /\ \A q \in Ordinals : q # o => asked[q].status # "pending"
                  => StageOf(row, asked) = "asked"
           /\ row.status = "running" /\ (\A o \in Ordinals : asked[o].status # "pending") =>
                  /\ (\E p \in StepRows : row.steps[p] = "running") => StageOf(row, asked) = "trying"
                  /\ (\A p \in StepRows : row.steps[p] # "running") => StageOf(row, asked) = "between"
<1> DEFINE waiting == {o \in Ordinals : asked[o].status = "pending"}
           trying  == \E p \in StepRows : row.steps[p] = "running"
<1>1. StageOf(row, asked) =
          IF row.status = "absent" THEN "new"
          ELSE IF row.status # "running" THEN row.status
          ELSE IF \E o \in waiting : asked[o].overdue THEN "overdue"
          ELSE IF waiting # {} THEN "asked"
          ELSE IF trying THEN "trying" ELSE "between"
  BY DEF StageOf
<1>2. (\A o \in Ordinals : asked[o].status # "pending") => waiting = {}
  OBVIOUS
<1>3. ASSUME NEW o \in Ordinals, asked[o].status = "pending"
      PROVE  o \in waiting /\ waiting # {}
  BY <1>3
<1>4. ASSUME NEW o \in Ordinals, asked[o].status = "pending", ~asked[o].overdue,
             \A q \in Ordinals : q # o => asked[q].status # "pending"
      PROVE  ~\E q \in waiting : asked[q].overdue
  BY <1>4
<1>5. trying <=> \E p \in StepRows : row.steps[p] = "running"
  OBVIOUS
<1>6. ASSUME NEW o \in Ordinals, asked[o].status = "pending", asked[o].overdue
      PROVE  \E q \in waiting : asked[q].overdue
  BY <1>6
<1> HIDE DEF waiting, trying
<1>7. row.status \in TerminalStatus => row.status # "absent" /\ row.status # "running"
  BY DEF TerminalStatus
<1> QED
  BY <1>1, <1>2, <1>3, <1>4, <1>5, <1>6, <1>7

\* What is read of a row is a state of the promise.
LEMMA LifeTyped ==
    ASSUME NEW row \in Run, NEW asked \in [Ordinals -> Approval]
    PROVE  LifeOf(row, asked) \in Promise!Life
<1>1. row.version \in Nat /\ row.plan \in Plans \cup {None}
      /\ row.status \in {"absent", "running"} \cup TerminalStatus
  BY DEF Run
<1>2. StageOf(row, asked) \in {"new", "between", "trying", "asked", "overdue"} \cup Promise!Ended
  BY <1>1 DEF StageOf, Promise!Ended, TerminalStatus
<1>3. DoneOf(row) \in SUBSET Ordinals /\ BegunOf(row) \in SUBSET (Ordinals \X Attempts)
  BY DEF DoneOf, BegunOf, StepRows
<1> QED
  BY <1>1, <1>2, <1>3 DEF LifeOf, Promise!Life

\* One checkpoint is written.
LEMMA RowWritten ==
    ASSUME NEW old \in Run, NEW row \in Run, NEW p \in StepRows,
           \A q \in StepRows : q # p => row.steps[q] = old.steps[q]
    PROVE  /\ row.steps[p] # "absent" => BegunOf(row) = BegunOf(old) \cup {p}
           /\ row.steps[p] = "succeeded" => DoneOf(row) = DoneOf(old) \cup {p[1]}
           /\ row.steps[p] # "succeeded" /\ old.steps[p] # "succeeded" => DoneOf(row) = DoneOf(old)
<1>1. row.steps[p] # "absent" => BegunOf(row) = BegunOf(old) \cup {p}
  BY DEF BegunOf
<1>2. PICK o \in Ordinals, a \in Attempts : p = <<o, a>>
  BY DEF StepRows
<1>3. \A q \in Ordinals, b \in Attempts : <<q, b>> \in StepRows /\ (<<q, b>> = p <=> q = o /\ b = a)
  BY <1>2 DEF StepRows
<1>4. \A q \in Ordinals, b \in Attempts :
          q # o \/ b # a => row.steps[<<q, b>>] = old.steps[<<q, b>>]
  BY <1>3
<1>5. p[1] = o
  BY <1>2
<1>6. row.steps[p] = "succeeded" => DoneOf(row) = DoneOf(old) \cup {o}
  <2> SUFFICES ASSUME row.steps[p] = "succeeded" PROVE DoneOf(row) = DoneOf(old) \cup {o}
    OBVIOUS
  <2>1. ASSUME NEW q \in Ordinals
        PROVE  q \in DoneOf(row) <=> q \in DoneOf(old) \/ q = o
    BY <1>2, <1>4 DEF DoneOf
  <2> QED
    BY <2>1 DEF DoneOf
<1>7. row.steps[p] # "succeeded" /\ old.steps[p] # "succeeded" => DoneOf(row) = DoneOf(old)
  BY <1>2, <1>4 DEF DoneOf
<1> QED
  BY <1>1, <1>5, <1>6, <1>7

\* Rows that differ only in what runs and what ended badly.
LEMMA RowClosed ==
    ASSUME NEW old \in Run, NEW row \in Run,
           \A p \in StepRows : \/ row.steps[p] = old.steps[p]
                               \/ old.steps[p] = "running" /\ row.steps[p] = "failed"
    PROVE  DoneOf(row) = DoneOf(old) /\ BegunOf(row) = BegunOf(old)
<1>1. \A p \in StepRows : /\ row.steps[p] # "absent" <=> old.steps[p] # "absent"
                          /\ row.steps[p] = "succeeded" <=> old.steps[p] = "succeeded"
  OBVIOUS
<1>2. \A o \in Ordinals, a \in Attempts : <<o, a>> \in StepRows
  BY DEF StepRows
<1> QED
  BY <1>1, <1>2 DEF DoneOf, BegunOf

\* A state of which only the stage changes, or the stage and one of the two sets.
LEMMA FieldsChange ==
    ASSUME NEW x \in Promise!Life, NEW y \in Promise!Life, y.version = x.version, y.plan = x.plan
    PROVE  /\ y.done = x.done /\ y.begun = x.begun => y = [x EXCEPT !.stage = y.stage]
           /\ y.begun = x.begun => y = [x EXCEPT !.stage = y.stage, !.done = y.done]
           /\ y.done = x.done => y = [x EXCEPT !.stage = y.stage, !.begun = y.begun]
BY DEF Promise!Life

-----------------------------------------------------------------------------
(* Runs and definitions, at the present and the next moment.               *)

\* What the other runs of a step may do.
Settled(r) == Lives'[r] = Lives[r] \/ Promise!Fails(r)

LEMMA LivesAt ==
    ASSUME NEW r \in RunIds
    PROVE  /\ Lives[r] = LifeOf(runs[r], approvals[r])
           /\ Lives'[r] = LifeOf(runs'[r], approvals'[r])
BY DEF Lives

LEMMA LivesTyped ==
    ASSUME TypeInv, TypeInv'
    PROVE  /\ Lives' \in [RunIds -> Promise!Life] /\ Lives \in [RunIds -> Promise!Life]
           /\ Book' \in [Workflows -> Promise!Entry]
           /\ \A r \in RunIds : /\ runs[r] \in Run /\ runs'[r] \in Run
                                /\ approvals[r] \in [Ordinals -> Approval]
                                /\ approvals'[r] \in [Ordinals -> Approval]
<1>1. \A r \in RunIds : /\ runs[r] \in Run /\ runs'[r] \in Run
                        /\ approvals[r] \in [Ordinals -> Approval]
                        /\ approvals'[r] \in [Ordinals -> Approval]
  BY DEF TypeInv, TypeOK
<1>2. Lives' \in [RunIds -> Promise!Life] /\ Lives \in [RunIds -> Promise!Life]
  BY <1>1, LifeTyped DEF Lives
<1>3. \A w \in Workflows : defs'[w].version \in Nat /\ defs'[w].plan \in Plans \cup {None}
  BY DEF TypeInv, TypeOK, Definition
<1>4. Book' \in [Workflows -> Promise!Entry]
  BY <1>3 DEF Book, Promise!Entry
<1> QED
  BY <1>1, <1>2, <1>4

\* One run makes a step, and the others rest or end with it.
LEMMA OneRun ==
    ASSUME TypeInv, TypeInv', UNCHANGED defs, NEW r \in RunIds, Promise!Step(r),
           \A q \in RunIds \ {r} : Settled(q)
    PROVE  Promise!Next
<1>1. Book' = Book
  BY DEF Book
<1>2. Lives' \in [RunIds -> Promise!Life]
  BY LivesTyped
<1> QED
  BY <1>1, <1>2 DEF Promise!Next, Settled

\* Every run rests, or ends.
LEMMA AllSettled ==
    ASSUME TypeInv, TypeInv', UNCHANGED defs, \A r \in RunIds : Settled(r)
    PROVE  [Promise!Next]_Promise!vars
<1>1. CASE \A r \in RunIds : Lives'[r] = Lives[r]
  <2>1. Lives' = Lives
    BY <1>1, LivesTyped
  <2>2. Book' = Book
    BY DEF Book
  <2> QED
    BY <2>1, <2>2 DEF Promise!vars
<1>2. ASSUME NEW r \in RunIds, Promise!Fails(r)
      PROVE  [Promise!Next]_Promise!vars
  <2>1. Promise!Step(r)
    BY <1>2 DEF Promise!Step
  <2> QED
    BY <2>1, OneRun
<1> QED
  BY <1>1, <1>2 DEF Settled

\* A step that writes no run and no approval, and no definition's version or plan.
LEMMA NothingHappens ==
    ASSUME UNCHANGED <<runs, approvals>>,
           \A w \in Workflows : /\ defs'[w].version = defs[w].version
                                /\ defs'[w].plan = defs[w].plan
                                /\ defs'[w].status = "active" <=> defs[w].status = "active"
    PROVE  [Promise!Next]_Promise!vars
<1>1. Lives' = Lives
  BY DEF Lives
<1>2. Book' = Book
  BY DEF Book
<1> QED
  BY <1>1, <1>2 DEF Promise!vars

\* A run whose rows stay rests.
LEMMA Rests ==
    ASSUME NEW r \in RunIds, runs'[r] = runs[r], approvals'[r] = approvals[r]
    PROVE  Settled(r)
BY LivesAt DEF Settled

\* How far a run comes when its rows change.
LEMMA LivesChange ==
    ASSUME TypeInv, TypeInv', NEW r \in RunIds,
           runs'[r].version = runs[r].version, runs'[r].plan = runs[r].plan
    PROVE  /\ Lives'[r].stage = StageOf(runs'[r], approvals'[r])
           /\ DoneOf(runs'[r]) = DoneOf(runs[r]) /\ BegunOf(runs'[r]) = BegunOf(runs[r]) =>
                  Lives'[r] = [Lives[r] EXCEPT !.stage = Lives'[r].stage]
           /\ \A o \in Ordinals : DoneOf(runs'[r]) = DoneOf(runs[r]) \cup {o}
                     /\ BegunOf(runs'[r]) = BegunOf(runs[r]) =>
                  Lives'[r] = [Lives[r] EXCEPT !.stage = Lives'[r].stage, !.done = @ \cup {o}]
           /\ \A p \in StepRows : DoneOf(runs'[r]) = DoneOf(runs[r])
                     /\ BegunOf(runs'[r]) = BegunOf(runs[r]) \cup {p} =>
                  Lives'[r] = [Lives[r] EXCEPT !.stage = Lives'[r].stage, !.begun = @ \cup {p}]
<1> PICK x, y : x = Lives[r] /\ y = Lives'[r]
  OBVIOUS
<1>1. x \in Promise!Life /\ y \in Promise!Life
  BY LivesTyped
<1>2. /\ x.version = runs[r].version /\ x.plan = runs[r].plan
      /\ x.done = DoneOf(runs[r]) /\ x.begun = BegunOf(runs[r])
  BY LivesAt, LifeFields
<1>3. /\ y.version = runs'[r].version /\ y.plan = runs'[r].plan /\ y.stage = StageOf(runs'[r], approvals'[r])
      /\ y.done = DoneOf(runs'[r]) /\ y.begun = BegunOf(runs'[r])
  BY LivesAt, LifeFields
<1>4. y.version = x.version /\ y.plan = x.plan
  BY <1>2, <1>3
<1>5. /\ y.done = x.done /\ y.begun = x.begun => y = [x EXCEPT !.stage = y.stage]
      /\ y.begun = x.begun => y = [x EXCEPT !.stage = y.stage, !.done = y.done]
      /\ y.done = x.done => y = [x EXCEPT !.stage = y.stage, !.begun = y.begun]
  BY <1>1, <1>4, FieldsChange
<1>6. ASSUME NEW o \in Ordinals, DoneOf(runs'[r]) = DoneOf(runs[r]) \cup {o},
             BegunOf(runs'[r]) = BegunOf(runs[r])
      PROVE  Lives'[r] = [Lives[r] EXCEPT !.stage = Lives'[r].stage, !.done = @ \cup {o}]
  <2>1. y.done = x.done \cup {o} /\ y.begun = x.begun
    BY <1>2, <1>3, <1>6
  <2>2. y = [x EXCEPT !.stage = y.stage, !.done = x.done \cup {o}]
    BY <1>5, <2>1
  <2> QED
    BY <2>2
<1>7. ASSUME NEW p \in StepRows, DoneOf(runs'[r]) = DoneOf(runs[r]),
             BegunOf(runs'[r]) = BegunOf(runs[r]) \cup {p}
      PROVE  Lives'[r] = [Lives[r] EXCEPT !.stage = Lives'[r].stage, !.begun = @ \cup {p}]
  <2>1. y.begun = x.begun \cup {p} /\ y.done = x.done
    BY <1>2, <1>3, <1>7
  <2>2. y = [x EXCEPT !.stage = y.stage, !.begun = x.begun \cup {p}]
    BY <1>5, <2>1
  <2> QED
    BY <2>2
<1>8. ASSUME DoneOf(runs'[r]) = DoneOf(runs[r]), BegunOf(runs'[r]) = BegunOf(runs[r])
      PROVE  Lives'[r] = [Lives[r] EXCEPT !.stage = Lives'[r].stage]
  <2>1. y.begun = x.begun /\ y.done = x.done
    BY <1>2, <1>3, <1>8
  <2>2. y = [x EXCEPT !.stage = y.stage]
    BY <1>5, <2>1
  <2> QED
    BY <2>2
<1> QED
  BY <1>3, <1>6, <1>7, <1>8

\* What the promise sees of a run.
LEMMA LivesFields ==
    ASSUME NEW r \in RunIds
    PROVE  /\ Lives[r].stage = StageOf(runs[r], approvals[r])
           /\ Lives[r].version = runs[r].version /\ Lives[r].plan = runs[r].plan
           /\ Lives[r].done = DoneOf(runs[r]) /\ Lives[r].begun = BegunOf(runs[r])
BY LivesAt, LifeFields

\* The steps that are done, when the next one is the step o.
LEMMA DoneUpTo ==
    ASSUME TypeInv, NEW r \in RunIds, OrderOK(r), NEW o \in Ordinals,
           \A q \in 1..(o - 1) : OrdinalSucceeded(r, q), ~OrdinalSucceeded(r, o)
    PROVE  DoneOf(runs[r]) = 1..(o - 1)
<1>1. o \in Nat \ {0} /\ Ordinals = 1..MaxSteps /\ MaxSteps \in Nat
  BY WorkflowAssumption DEF Ordinals
<1>2. ASSUME NEW q \in 1..(o - 1)
      PROVE  q \in DoneOf(runs[r])
  <2>1. q \in Ordinals
    BY <1>1
  <2> QED
    BY <2>1 DEF DoneOf, OrdinalSucceeded
<1>3. ASSUME NEW q \in DoneOf(runs[r])
      PROVE  q \in 1..(o - 1)
  <2>1. PICK a \in Attempts : q \in Ordinals /\ runs[r].steps[<<q, a>>] = "succeeded"
    BY DEF DoneOf
  <2>2. <<q, a>> \in StepRows
    BY <2>1 DEF StepRows
  <2>3. q # o
    BY <2>1 DEF OrdinalSucceeded
  <2>4. \A i \in 1..(q - 1) : OrdinalSucceeded(r, i)
    BY <2>1, <2>2 DEF OrderOK
  <2>5. ~(o < q)
    BY <1>1, <2>1, <2>4
  <2> QED
    BY <1>1, <2>1, <2>3, <2>5
<1> QED
  BY <1>2, <1>3

-----------------------------------------------------------------------------
(* The attempts.                                                           *)

\* Attempts are counted: a handler that stays in its run is at the attempt it was at, at a
\* first one, or at the next one of a step that allows another.
LEMMA NextTried ==
    ASSUME TypeInv, TypeInv', AuditInv, TriesInv,
           \/ worker'.phase = "idle" \/ worker'.att = 1 \/ RetryOrClose
           \/ /\ worker.phase # "idle" /\ worker'.plan = worker.plan
              /\ worker'.ord = worker.ord /\ worker'.att = worker.att
    PROVE  TriesInv'
<1>1. ASSUME worker'.phase # "idle", worker'.att = 1, worker'.ord <= Len(worker'.plan)
      PROVE  worker'.att <= worker'.plan[worker'.ord].attempts
  <2>1. worker'.plan \in Plans /\ worker'.ord \in Nat \ {0}
    BY <1>1 DEF TypeInv, TypeOK, WellFormed, Worker
  <2>2. worker'.ord \in 1..Len(worker'.plan)
    BY <1>1, <2>1, ConstantTypes
  <2>3. worker'.plan[worker'.ord].attempts \in Attempts
    BY <2>1, <2>2, ConstantTypes
  <2> QED
    BY <1>1, <2>3 DEF Attempts
<1>2. CASE RetryOrClose
  <2>1. worker \in Worker /\ worker.phase = "retrying" /\ worker.ord <= Len(worker.plan)
    BY <1>2 DEF RetryOrClose, Executing, TypeInv, TypeOK, WellFormed
  <2>2. worker.plan \in Plans
    BY <2>1 DEF TypeInv, WellFormed
  <2>3. worker.plan[worker.ord].attempts \in Nat /\ worker.att \in Nat
    <3>1. worker.ord \in 1..Len(worker.plan)
      BY <2>1, <2>2, ConstantTypes DEF Worker
    <3> QED
      BY <2>1, <2>2, <3>1, ConstantTypes DEF Worker
  <2>4. \/ /\ worker'.plan = worker.plan /\ worker'.ord = worker.ord
           /\ worker'.att = worker.att + 1 /\ worker.att < worker.plan[worker.ord].attempts
        \/ /\ worker'.plan = worker.plan /\ worker'.ord = worker.ord
           /\ worker'.att = worker.att
    BY <1>2, <2>1 DEF RetryOrClose, GoOn, Worker
  <2> QED
    BY <2>1, <2>3, <2>4 DEF TriesInv
<1>3. CASE /\ worker.phase # "idle" /\ worker'.plan = worker.plan
           /\ worker'.ord = worker.ord /\ worker'.att = worker.att
  BY <1>3 DEF TriesInv
<1> QED
  BY <1>1, <1>2, <1>3 DEF TriesInv

\* What each step of the engine does to the attempt the handler is at.
LEMMA AttemptStep ==
    ASSUME TypeInv, AuditInv, [Next]_vars
    PROVE  \/ worker'.phase = "idle" \/ worker'.att = 1 \/ RetryOrClose
           \/ /\ worker.phase # "idle" /\ worker'.plan = worker.plan
              /\ worker'.ord = worker.ord /\ worker'.att = worker.att
<1>1. worker \in Worker
  BY DEF TypeInv, TypeOK
<1>2. CASE Execute
  <2>1. CASE SkipSucceeded
    <3>1. worker.att = 1
      BY <2>1 DEF SkipSucceeded, Executing, AuditInv, HandlerInv
    <3>2. worker' = [worker EXCEPT !.ord = @ + 1]
      BY <2>1 DEF SkipSucceeded
    <3> QED
      BY <1>1, <3>1, <3>2 DEF Worker
  <2>2. CASE StepSucceeds
    BY <1>1, <2>2 DEF StepSucceeds, Worker
  <2>3. CASE PauseForApproval \/ ResultOverBudget \/ FinishRun
    BY <2>3 DEF PauseForApproval, ResultOverBudget, FinishRun, Answer, Idle
  <2>4. CASE StartAttempt \/ RecordUnresolved \/ FinishRecord \/ StepFails \/ Resume
    <3>1. \/ worker' = Idle
          \/ \E phase, verdict : worker' = [worker EXCEPT !.phase = phase, !.verdict = verdict]
      BY <2>4 DEF StartAttempt, RecordUnresolved, FinishRecord, StepFails, Resume, GoOn, Answer
    <3>2. worker.phase # "idle"
      BY <2>4 DEF StartAttempt, RecordUnresolved, FinishRecord, StepFails, Resume, AtStep,
                  Executing
    <3>3. CASE worker' = Idle
      BY <3>3 DEF Idle
    <3>4. ASSUME NEW phase, NEW verdict,
                 worker' = [worker EXCEPT !.phase = phase, !.verdict = verdict]
          PROVE  /\ worker'.plan = worker.plan /\ worker'.ord = worker.ord
                 /\ worker'.att = worker.att
      BY <1>1, <3>4 DEF Worker
    <3> QED
      BY <3>1, <3>2, <3>3, <3>4
  <2> QED
    BY <1>2, <2>1, <2>2, <2>3, <2>4 DEF Execute
<1>3. CASE UserRequest \/ TriggerRequest
  <2>1. ASSUME NEW w, NEW k, NEW client, RunWorkflow(w, k, client)
        PROVE  worker'.phase = "idle" \/ worker'.att = 1
    BY <2>1 DEF RunWorkflow, Serving, Idle
  <2>2. ASSUME NEW r, NEW o, Approve(r, o)
        PROVE  worker'.att = 1
    BY <2>2 DEF Approve, Idle
  <2>3. CASE worker.phase = "idle" /\ worker' = worker
    BY <2>3
  <2> QED
    BY <1>3, <2>1, <2>2, <2>3
    DEF UserRequest, TriggerRequest, SaveWorkflow, DeleteWorkflow, SaveGroup, ActivateVersion,
        RemoveTargets, ArchiveThread, DeleteThread, ExpireApprovals, CloseDecision, ClaimDue,
        FinishTrigger, Serving
<1>4. CASE Environment \/ Crash \/ Restart \/ UNCHANGED vars
  <2>1. \/ worker' = worker \/ worker' = Idle
        \/ \E how : worker' = [worker EXCEPT !.ctx = how]
    BY <1>4 DEF Environment, Tick, BecomeOverdue, Interrupt, Crash, Restart, vars, tables
  <2> QED
    BY <1>1, <2>1 DEF Worker, Idle
<1> QED
  BY <1>2, <1>3, <1>4 DEF Next

-----------------------------------------------------------------------------
(* The steps of the handler.                                               *)

PromiseInv == AuditInv /\ OrderInv /\ TriesInv

\* A run that is between its steps, or in an attempt, is one the handler is inside.
LEMMA HandlerStage ==
    ASSUME TypeInv, AuditInv, worker.phase # "idle"
    PROVE  /\ worker.run \in RunIds
           /\ Lives[worker.run].plan = worker.plan
           /\ Lives[worker.run].stage = IF worker.phase \in {"executing", "recording"}
                                        THEN "trying" ELSE "between"
<1> PICK run, row, asked : run = worker.run /\ row = runs[run] /\ asked = approvals[run]
  OBVIOUS
<1>1. run \in RunIds /\ row \in Run /\ asked \in [Ordinals -> Approval]
  BY DEF TypeInv, TypeOK, WellFormed
<1>2. /\ row.status = "running" /\ row.plan = worker.plan
      /\ \A o \in Ordinals : asked[o].status # "pending"
      /\ \A p \in StepRows : row.steps[p] = "running" <=>
             /\ worker.phase \in {"executing", "recording"}
             /\ p = <<worker.ord, worker.att>>
  BY DEF AuditInv, HandlerInv
<1>3. Lives[run].plan = row.plan /\ Lives[run].stage = StageOf(row, asked)
  BY <1>1, LivesFields
<1>4. CASE worker.phase \in {"executing", "recording"}
  <2>1. worker.ord <= Len(worker.plan)
    BY <1>4 DEF AuditInv, HandlerInv
  <2>2. worker.plan \in Plans /\ worker \in Worker
    BY DEF TypeInv, TypeOK, WellFormed
  <2>3. <<worker.ord, worker.att>> \in StepRows
    BY <2>1, <2>2, ConstantTypes, WorkflowAssumption DEF StepRows, Worker, Ordinals
  <2> QED
    BY <1>1, <1>2, <1>3, <1>4, <2>3, StageCases
<1>5. CASE worker.phase \notin {"executing", "recording"}
  BY <1>1, <1>2, <1>3, <1>5, StageCases
<1> QED
  BY <1>1, <1>2, <1>3, <1>4, <1>5

\* A checkpoint the handler writes at a step that did not succeed yet.
LEMMA HandlerWrites ==
    ASSUME TypeInv, TypeInv', AuditInv, OrderInv,
           NEW run, NEW ord, NEW att, run = worker.run, ord = worker.ord, att = worker.att,
           worker.phase # "idle", ord <= Len(worker.plan), ~OrdinalSucceeded(run, ord),
           NEW s, s # "absent", SetStep(s)
    PROVE  /\ run \in RunIds /\ ord \in Ordinals /\ att \in Attempts /\ <<ord, att>> \in StepRows
           /\ \A r \in RunIds \ {run} : runs'[r] = runs[r]
           /\ runs'[run].status = "running"
           /\ runs'[run].version = runs[run].version /\ runs'[run].plan = runs[run].plan
           /\ Lives[run].done = 1..(ord - 1)
           /\ BegunOf(runs'[run]) = BegunOf(runs[run]) \cup {<<ord, att>>}
           /\ s = "succeeded" => DoneOf(runs'[run]) = DoneOf(runs[run]) \cup {ord}
           /\ s # "succeeded" => DoneOf(runs'[run]) = DoneOf(runs[run])
<1> DEFINE here == <<ord, att>>
<1>1. /\ run \in RunIds /\ ord \in Ordinals /\ here \in StepRows
      /\ \A r \in RunIds : r # run => runs'[r] = runs[r]
      /\ runs'[run].status = runs[run].status
      /\ runs'[run].version = runs[run].version /\ runs'[run].plan = runs[run].plan
      /\ \A p \in StepRows : runs'[run].steps[p] = IF p = here THEN s ELSE runs[run].steps[p]
  BY SetStepAt
<1>2. att \in Attempts /\ here[1] = ord
  BY DEF TypeInv, TypeOK, Worker
<1>3. runs[run].status = "running"
  BY DEF AuditInv, HandlerInv
<1>4. Lives[run].done = 1..(ord - 1)
  <2>1. OrderOK(run) /\ \A q \in 1..(ord - 1) : OrdinalSucceeded(run, q)
    BY <1>1 DEF OrderInv, HandlerOrder
  <2>2. DoneOf(runs[run]) = 1..(ord - 1)
    BY <1>1, <2>1, DoneUpTo
  <2> QED
    BY <1>1, <2>2, LivesFields
<1>5. runs[run].steps[here] # "succeeded"
  BY <1>2 DEF OrdinalSucceeded
<1> HIDE DEF here
<1>6. /\ s # "absent" => BegunOf(runs'[run]) = BegunOf(runs[run]) \cup {here}
      /\ s = "succeeded" => DoneOf(runs'[run]) = DoneOf(runs[run]) \cup {here[1]}
      /\ s # "succeeded" /\ runs[run].steps[here] # "succeeded" =>
             DoneOf(runs'[run]) = DoneOf(runs[run])
  <2> PICK old, row : old = runs[run] /\ row = runs'[run]
    OBVIOUS
  <2>1. old \in Run /\ row \in Run
    BY <1>1, LivesTyped
  <2>2. /\ \A p \in StepRows : p # here => row.steps[p] = old.steps[p]
        /\ row.steps[here] = s
    BY <1>1
  <2>3. /\ row.steps[here] # "absent" => BegunOf(row) = BegunOf(old) \cup {here}
        /\ row.steps[here] = "succeeded" => DoneOf(row) = DoneOf(old) \cup {here[1]}
        /\ row.steps[here] # "succeeded" /\ old.steps[here] # "succeeded" => DoneOf(row) = DoneOf(old)
    BY <1>1, <2>1, <2>2, RowWritten
  <2> QED
    BY <2>2, <2>3
<1> QED
  BY <1>1, <1>2, <1>3, <1>4, <1>5, <1>6 DEF here

\* A checkpoint of a query step leaves the run in the attempt, or between its steps.
LEMMA QueryStage ==
    ASSUME TypeInv, TypeInv', AuditInv, OrderInv, UNCHANGED approvals,
           worker.phase # "idle", worker.ord <= Len(worker.plan),
           ~OrdinalSucceeded(worker.run, worker.ord),
           NEW s, s # "absent", SetStep(s)
    PROVE  StageOf(runs'[worker.run], approvals'[worker.run]) =
               IF s = "running" THEN "trying" ELSE "between"
<1> PICK run, row, asked : run = worker.run /\ row = runs'[run] /\ asked = approvals'[run]
  OBVIOUS
<1>1. /\ run \in RunIds /\ row.status = "running" /\ <<worker.ord, worker.att>> \in StepRows
  BY HandlerWrites
<1>2. row \in Run /\ asked \in [Ordinals -> Approval]
  BY <1>1, LivesTyped
<1>3. \A o \in Ordinals : asked[o].status # "pending"
  BY DEF AuditInv, HandlerInv
<1>4. \A p \in StepRows : row.steps[p] = "running" <=>
          s = "running" /\ p = <<worker.ord, worker.att>>
  BY RowsAfterSetStep
<1> QED
  BY <1>1, <1>2, <1>3, <1>4, StageCases

\* An attempt begins.
LEMMA TryKept ==
    ASSUME TypeInv, TypeInv', PromiseInv, StartAttempt \/ RecordUnresolved
    PROVE  [Promise!Next]_Promise!vars
<1> PICK run, ord, att : run = worker.run /\ ord = worker.ord /\ att = worker.att
  OBVIOUS
<1>1. /\ worker.phase = "loop" /\ ord <= Len(worker.plan) /\ ~OrdinalSucceeded(run, ord)
      /\ StepKind = "query" /\ SetStep("running") /\ UNCHANGED <<approvals, defs>>
  BY DEF StartAttempt, RecordUnresolved, AtStep, Executing, DurableElsewhere
<1>2. /\ run \in RunIds /\ ord \in Ordinals /\ att \in Attempts /\ <<ord, att>> \in StepRows
      /\ \A r \in RunIds \ {run} : runs'[r] = runs[r]
      /\ runs'[run].version = runs[run].version /\ runs'[run].plan = runs[run].plan
      /\ Lives[run].done = 1..(ord - 1)
      /\ BegunOf(runs'[run]) = BegunOf(runs[run]) \cup {<<ord, att>>}
      /\ DoneOf(runs'[run]) = DoneOf(runs[run])
  BY <1>1, HandlerWrites DEF PromiseInv
<1>3. StageOf(runs'[run], approvals'[run]) = "trying"
  BY <1>1, QueryStage DEF PromiseInv
<1>4. Lives'[run] = [Lives[run] EXCEPT !.stage = "trying", !.begun = @ \cup {<<ord, att>>}]
  <2> PICK here : here = <<ord, att>>
    OBVIOUS
  <2>1. /\ Lives'[run].stage = "trying"
        /\ Lives'[run] = [Lives[run] EXCEPT !.stage = Lives'[run].stage, !.begun = @ \cup {here}]
    <3>1. /\ DoneOf(runs'[run]) = DoneOf(runs[run])
          /\ BegunOf(runs'[run]) = BegunOf(runs[run]) \cup {here}
      BY <1>2
    <3> QED
      BY <1>2, <1>3, <3>1, LivesChange
  <2> QED
    BY <2>1
<1>5. Lives[run].stage = "between" /\ Lives[run].plan = worker.plan
  BY <1>1, HandlerStage DEF PromiseInv
<1>6. <<ord, att>> \notin Lives[run].begun /\ (att > 1 => <<ord, att - 1>> \in Lives[run].begun)
  <2>1. runs[run].steps[<<ord, att>>] = "absent"
    <3>1. <<ord, att>>[1] = ord /\ <<ord, att>>[2] = att /\ ord \in Nat /\ att \in Nat
      BY <1>2, ConstantTypes
    <3> QED
      BY <1>1, <1>2, <3>1, NothingBehind DEF PromiseInv
  <2>2. att > 1 => runs[run].steps[<<ord, att - 1>>] \in {"failed", "cancelled"}
    BY <1>1 DEF PromiseInv, OrderInv, HandlerOrder
  <2>3. att > 1 => <<ord, att - 1>> \in StepRows
    BY <1>2, WorkflowAssumption DEF StepRows, Attempts
  <2>4. Lives[run].begun = BegunOf(runs[run])
    BY <1>2, LivesFields
  <2> QED
    BY <2>1, <2>2, <2>3, <2>4 DEF BegunOf
<1>7. att <= worker.plan[ord].attempts /\ worker.plan[ord].kind = "query"
  BY <1>1 DEF PromiseInv, TriesInv, StepKind
<1>8. Promise!Try(run, ord, att)
  BY <1>1, <1>2, <1>4, <1>5, <1>6, <1>7 DEF Promise!Try, Promise!IsNext
<1>9. Promise!Step(run)
  BY <1>2, <1>8 DEF Promise!Step
<1>10. \A r \in RunIds \ {run} : Settled(r)
  BY <1>1, <1>2, Rests
<1> QED
  BY <1>1, <1>2, <1>9, <1>10, OneRun

\* An attempt ends, and the step with it if it succeeded.
LEMMA AttemptEndsKept ==
    ASSUME TypeInv, TypeInv', PromiseInv, FinishRecord \/ StepFails \/ StepSucceeds
    PROVE  [Promise!Next]_Promise!vars
<1> PICK run, ord, att : run = worker.run /\ ord = worker.ord /\ att = worker.att
  OBVIOUS
<1>1. /\ worker.phase \in {"executing", "recording"} /\ UNCHANGED <<approvals, defs>>
      /\ ord <= Len(worker.plan) /\ ~OrdinalSucceeded(run, ord)
  BY DEF FinishRecord, StepFails, StepSucceeds, Executing, DurableElsewhere, PromiseInv,
         AuditInv, HandlerInv
<1>2. PICK s \in TerminalStatus : SetStep(s)
  <2>1. worker \in Worker
    BY DEF TypeInv, TypeOK
  <2>2. worker.verdict \in TerminalStatus /\ worker.ctx \in {"live", "cancelled", "failed"}
    BY <2>1 DEF Worker
  <2>3. /\ "succeeded" \in TerminalStatus
        /\ (IF worker.ctx = "live" THEN "failed" ELSE worker.ctx) \in TerminalStatus
    BY <2>2 DEF TerminalStatus
  <2> QED
    BY <2>2, <2>3 DEF FinishRecord, StepFails, StepSucceeds
<1>3. s # "absent" /\ s # "running"
  BY DEF TerminalStatus
<1>4. /\ run \in RunIds /\ ord \in Ordinals /\ att \in Attempts /\ <<ord, att>> \in StepRows
      /\ \A r \in RunIds \ {run} : runs'[r] = runs[r]
      /\ runs'[run].version = runs[run].version /\ runs'[run].plan = runs[run].plan
      /\ Lives[run].done = 1..(ord - 1)
      /\ BegunOf(runs'[run]) = BegunOf(runs[run]) \cup {<<ord, att>>}
      /\ s = "succeeded" => DoneOf(runs'[run]) = DoneOf(runs[run]) \cup {ord}
      /\ s # "succeeded" => DoneOf(runs'[run]) = DoneOf(runs[run])
  BY <1>1, <1>2, <1>3, HandlerWrites DEF PromiseInv
<1>5. BegunOf(runs'[run]) = BegunOf(runs[run])
  <2>1. runs[run].steps[<<ord, att>>] = "running"
    BY <1>1, <1>4 DEF PromiseInv, AuditInv, HandlerInv
  <2>2. <<ord, att>> \in BegunOf(runs[run])
    BY <1>4, <2>1 DEF BegunOf
  <2> QED
    BY <1>4, <2>2
<1>6. StageOf(runs'[run], approvals'[run]) = "between"
  BY <1>1, <1>2, <1>3, QueryStage DEF PromiseInv
<1>7. Lives[run].stage = "trying"
  BY <1>1, HandlerStage DEF PromiseInv
<1>8. Promise!Step(run)
  <2>1. CASE s = "succeeded"
    <3>1. /\ Lives'[run].stage = "between"
          /\ Lives'[run] = [Lives[run] EXCEPT !.stage = Lives'[run].stage, !.done = @ \cup {ord}]
      BY <1>4, <1>5, <1>6, <2>1, LivesChange
    <3>2. Promise!Succeed(run, ord)
      BY <1>4, <1>7, <3>1 DEF Promise!Succeed
    <3> QED
      BY <1>4, <3>2 DEF Promise!Step
  <2>2. CASE s # "succeeded"
    <3>1. /\ Lives'[run].stage = "between"
          /\ Lives'[run] = [Lives[run] EXCEPT !.stage = Lives'[run].stage]
      BY <1>4, <1>5, <1>6, <2>2, LivesChange
    <3>2. Promise!Miss(run)
      BY <1>7, <3>1 DEF Promise!Miss
    <3> QED
      BY <3>2 DEF Promise!Step
  <2> QED
    BY <2>1, <2>2
<1>9. \A r \in RunIds \ {run} : Settled(r)
  BY <1>1, <1>4, Rests
<1> QED
  BY <1>1, <1>4, <1>8, <1>9, OneRun

\* The handler stops at a review and asks for it.
LEMMA AskKept ==
    ASSUME TypeInv, TypeInv', PromiseInv, PauseForApproval
    PROVE  [Promise!Next]_Promise!vars
<1> PICK run, ord, here : run = worker.run /\ ord = worker.ord /\ here = <<ord, 1>>
  OBVIOUS
<1> DEFINE review == [status |-> "pending", version |-> runs[run].version, overdue |-> FALSE]
<1>1. /\ worker.phase = "loop" /\ ord <= Len(worker.plan) /\ ~OrdinalSucceeded(run, ord)
      /\ StepKind = "human-approval" /\ SetStep("running") /\ UNCHANGED defs
      /\ approvals' = [approvals EXCEPT ![run][ord] = review]
  BY DEF PauseForApproval, AtStep, Executing, DurableElsewhere
<1>2. worker.att = 1
  BY <1>1 DEF PromiseInv, AuditInv, HandlerInv
<1>3. /\ run \in RunIds /\ ord \in Ordinals /\ here \in StepRows
      /\ \A r \in RunIds \ {run} : runs'[r] = runs[r]
      /\ runs'[run].status = "running"
      /\ runs'[run].version = runs[run].version /\ runs'[run].plan = runs[run].plan
      /\ Lives[run].done = 1..(ord - 1)
      /\ BegunOf(runs'[run]) = BegunOf(runs[run]) \cup {here}
      /\ DoneOf(runs'[run]) = DoneOf(runs[run])
  BY <1>1, <1>2, HandlerWrites DEF PromiseInv
<1>4. /\ approvals'[run][ord] = review
      /\ \A o \in Ordinals : o # ord => approvals'[run][o].status # "pending"
      /\ \A r \in RunIds \ {run} : approvals'[r] = approvals[r]
  <2>1. \A o \in Ordinals : approvals[run][o].status # "pending"
    BY <1>1 DEF PromiseInv, AuditInv, HandlerInv
  <2>2. approvals \in [RunIds -> [Ordinals -> Approval]]
    BY DEF TypeInv, TypeOK
  <2> QED
    BY <1>1, <1>3, <2>1, <2>2
<1>5. StageOf(runs'[run], approvals'[run]) = "asked"
  <2> PICK row, asked : row = runs'[run] /\ asked = approvals'[run]
    OBVIOUS
  <2>1. row \in Run /\ asked \in [Ordinals -> Approval] /\ row.status = "running"
    BY <1>3, LivesTyped
  <2>2. asked[ord].status = "pending" /\ ~asked[ord].overdue
    BY <1>4
  <2>3. \A q \in Ordinals : q # ord => asked[q].status # "pending"
    BY <1>4
  <2> QED
    BY <1>3, <2>1, <2>2, <2>3, StageCases
<1>6. /\ Lives'[run].stage = "asked"
      /\ Lives'[run] = [Lives[run] EXCEPT !.stage = Lives'[run].stage, !.begun = @ \cup {here}]
  BY <1>3, <1>5, LivesChange
<1>7. Lives[run].stage = "between" /\ Lives[run].plan = worker.plan
  BY <1>1, HandlerStage DEF PromiseInv
<1>8. worker.plan[ord].kind = "human-approval"
  BY <1>1 DEF StepKind
<1>9. Promise!Ask(run, ord)
  BY <1>1, <1>3, <1>6, <1>7, <1>8 DEF Promise!Ask, Promise!IsNext
<1>10. Promise!Step(run)
  BY <1>3, <1>9 DEF Promise!Step
<1>11. \A r \in RunIds \ {run} : Settled(r)
  BY <1>3, <1>4, Rests
<1> QED
  BY <1>1, <1>3, <1>10, <1>11, OneRun

\* The run ends: successfully when all its steps are done, and not otherwise.
LEMMA EndKept ==
    ASSUME TypeInv, TypeInv', PromiseInv, FinishRun
    PROVE  [Promise!Next]_Promise!vars
<1> DEFINE all == worker.phase = "loop" /\ worker.ord > Len(worker.plan)
<1> PICK run, verdict : run = worker.run /\ verdict = IF all THEN "succeeded" ELSE worker.verdict
  OBVIOUS
<1>1. /\ worker.phase \in {"loop", "closing"} /\ UNCHANGED <<approvals, defs>>
      /\ runs' = [runs EXCEPT ![run].status = verdict]
      /\ all \/ worker.phase = "closing"
  BY DEF FinishRun, DurableElsewhere
<1>2. run \in RunIds /\ Lives[run].plan = worker.plan /\ Lives[run].stage = "between"
  BY <1>1, HandlerStage DEF PromiseInv
<1>3. /\ runs'[run].version = runs[run].version /\ runs'[run].plan = runs[run].plan
      /\ runs'[run].steps = runs[run].steps /\ runs'[run].status = verdict
      /\ \A r \in RunIds \ {run} : runs'[r] = runs[r]
  BY <1>1, <1>2 DEF TypeInv, TypeOK, Run
<1>4. DoneOf(runs'[run]) = DoneOf(runs[run]) /\ BegunOf(runs'[run]) = BegunOf(runs[run])
  BY <1>3 DEF DoneOf, BegunOf
<1>5. verdict \in TerminalStatus /\ (verdict = "succeeded" => all)
  BY <1>1 DEF TypeInv, TypeOK, Worker, TerminalStatus, PromiseInv, OrderInv, HandlerOrder
<1>6. StageOf(runs'[run], approvals'[run]) = verdict
  <2> PICK row, asked : row = runs'[run] /\ asked = approvals'[run]
    OBVIOUS
  <2>1. row \in Run /\ asked \in [Ordinals -> Approval] /\ row.status \in TerminalStatus
    BY <1>2, <1>3, <1>5, LivesTyped
  <2> QED
    BY <1>3, <2>1, StageCases
<1>7. /\ Lives'[run].stage = verdict
      /\ Lives'[run] = [Lives[run] EXCEPT !.stage = Lives'[run].stage]
  BY <1>2, <1>3, <1>4, <1>6, LivesChange
<1>8. Promise!Step(run)
  <2>1. CASE verdict = "succeeded"
    <3>1. worker.plan \in Plans /\ worker.ord \in Nat \ {0} /\ worker.ord > Len(worker.plan)
      BY <1>5, <2>1 DEF TypeInv, TypeOK, WellFormed, Worker
    <3>2. Len(worker.plan) \in Ordinals /\ Ordinals = 1..MaxSteps /\ MaxSteps \in Nat
      BY <3>1, ConstantTypes, WorkflowAssumption DEF Ordinals
    <3>3. /\ \A q \in 1..(worker.ord - 1) : OrdinalSucceeded(run, q)
          /\ OrderOK(run) /\ runs[run].plan = worker.plan
      BY <1>1, <1>2 DEF PromiseInv, OrderInv, HandlerOrder, AuditInv, HandlerInv
    <3>4. ASSUME NEW q \in 1..Len(worker.plan)
          PROVE  q \in DoneOf(runs[run])
      BY <3>1, <3>2, <3>3 DEF DoneOf, OrdinalSucceeded
    <3>5. ASSUME NEW q \in DoneOf(runs[run])
          PROVE  q \in 1..Len(worker.plan)
      <4>1. PICK a \in Attempts : q \in Ordinals /\ runs[run].steps[<<q, a>>] = "succeeded"
        BY DEF DoneOf
      <4>2. <<q, a>> \in StepRows /\ <<q, a>>[1] = q
        BY <4>1 DEF StepRows
      <4>3. q <= Len(worker.plan)
        BY <3>3, <4>1, <4>2 DEF OrderOK
      <4> QED
        BY <3>2, <4>1, <4>3
    <3>6. DoneOf(runs[run]) = 1..Len(worker.plan)
      BY <3>4, <3>5
    <3>7. Promise!Succeeds(run)
      BY <1>2, <1>7, <2>1, <3>6, LivesFields DEF Promise!Succeeds
    <3> QED
      BY <3>7 DEF Promise!Step
  <2>2. CASE verdict = "failed"
    <3>1. Promise!Fails(run)
      BY <1>2, <1>7, <2>2 DEF Promise!Fails
    <3> QED
      BY <3>1 DEF Promise!Step
  <2>3. CASE verdict = "cancelled"
    <3>1. Promise!Cancels(run)
      BY <1>2, <1>7, <2>3 DEF Promise!Cancels
    <3> QED
      BY <3>1 DEF Promise!Step
  <2> QED
    BY <1>5, <2>1, <2>2, <2>3 DEF TerminalStatus
<1>9. \A r \in RunIds \ {run} : Settled(r)
  BY <1>1, <1>3, Rests
<1> QED
  BY <1>1, <1>2, <1>8, <1>9, OneRun

\* A run begins, or is found as it is.
LEMMA RunWorkflowKept ==
    ASSUME TypeInv, TypeInv', AuditInv, NEW w \in Workflows, NEW k \in Keys, NEW client,
           RunWorkflow(w, k, client)
    PROVE  [Promise!Next]_Promise!vars
<1> PICK new : new = <<w, k>>
  OBVIOUS
<1>1. new \in RunIds /\ new[1] = w /\ UNCHANGED <<defs, approvals>>
  BY DEF RunIds, RunWorkflow
<1>2. CASE UNCHANGED runs
  BY <1>1, <1>2, NothingHappens
<1>3. CASE ~UNCHANGED runs
  <2>1. /\ runs[new].status = "absent" /\ defs[w].status = "active"
        /\ runs' = [runs EXCEPT ![new] = StartedRun(w)]
    BY <1>3 DEF RunWorkflow
  <2>2. /\ \A p \in StepRows : runs[new].steps[p] = "absent"
        /\ \A o \in Ordinals : approvals[new][o].status = "absent"
    BY <1>1, <2>1 DEF AuditInv, RunOK
  <2>3. /\ runs'[new].status = "running" /\ runs'[new].version = defs[w].version
        /\ runs'[new].plan = defs[w].plan
        /\ \A p \in StepRows : runs'[new].steps[p] = "absent"
        /\ \A r \in RunIds \ {new} : runs'[r] = runs[r]
    BY <1>1, <2>1 DEF StartedRun, NoRun, TypeInv, TypeOK
  <2>4. Lives[new].stage = "new"
    <3> PICK row, asked : row = runs[new] /\ asked = approvals[new]
      OBVIOUS
    <3>1. row \in Run /\ asked \in [Ordinals -> Approval] /\ row.status = "absent"
      BY <1>1, <2>1, LivesTyped
    <3>2. StageOf(row, asked) = "new"
      BY <3>1, StageCases
    <3> QED
      BY <1>1, <3>2, LivesFields
  <2>5. LET x == Lives'[new] IN
        /\ x.stage = "between" /\ x.version = defs[w].version /\ x.plan = defs[w].plan
        /\ x.done = {} /\ x.begun = {}
    <3> PICK row, asked : row = runs'[new] /\ asked = approvals'[new]
      OBVIOUS
    <3>1. row \in Run /\ asked \in [Ordinals -> Approval] /\ row.status = "running"
          /\ (\A o \in Ordinals : asked[o].status # "pending")
          /\ (\A p \in StepRows : row.steps[p] = "absent")
          /\ row.version = defs[w].version /\ row.plan = defs[w].plan
      BY <1>1, <2>2, <2>3, LivesTyped
    <3>2. StageOf(row, asked) = "between"
      BY <3>1, StageCases
    <3>3. DoneOf(row) = {} /\ BegunOf(row) = {}
      <4>1. \A o \in Ordinals, a \in Attempts : <<o, a>> \in StepRows
        BY DEF StepRows
      <4> QED
        BY <3>1, <4>1 DEF DoneOf, BegunOf
    <3>4. Lives'[new] = LifeOf(row, asked)
      BY <1>1, LivesAt
    <3> QED
      BY <3>1, <3>2, <3>3, <3>4, LifeFields
  <2>6. Book[new[1]].active /\ Book[new[1]].version = defs[w].version
        /\ Book[new[1]].plan = defs[w].plan
    BY <1>1, <2>1 DEF Book
  <2>7. Lives'[new] = [stage |-> "between", version |-> Book[new[1]].version,
                       plan |-> Book[new[1]].plan, done |-> {}, begun |-> {}]
    <3> PICK x, b : x = Lives'[new] /\ b = Book[new[1]]
      OBVIOUS
    <3>1. x \in Promise!Life
      BY <1>1, LivesTyped
    <3>2. /\ x.stage = "between" /\ x.version = b.version /\ x.plan = b.plan
          /\ x.done = {} /\ x.begun = {}
      BY <2>5, <2>6
    <3>3. x = [stage |-> "between", version |-> b.version, plan |-> b.plan,
               done |-> {}, begun |-> {}]
      BY <3>1, <3>2 DEF Promise!Life
    <3> QED
      BY <3>3
  <2>8. Promise!Begin(new)
    BY <2>4, <2>6, <2>7 DEF Promise!Begin
  <2>9. Promise!Step(new)
    BY <2>8 DEF Promise!Step
  <2>10. \A r \in RunIds \ {new} : Settled(r)
    BY <1>1, <2>3, Rests
  <2> QED
    BY <1>1, <2>9, <2>10, OneRun
<1> QED
  BY <1>2, <1>3

-----------------------------------------------------------------------------
(* Reviews, time and recovery.                                             *)

\* Approvals that close end their runs, and no other run.
LEMMA ClosedSettled ==
    ASSUME TypeInv, TypeInv', AuditInv, NEW S, NEW r \in RunIds,
           \A o \in Ordinals : <<r, o>> \in S => approvals[r][o].status = "pending",
           runs'[r] = ClosedRuns(S)[r],
           \A o \in Ordinals : <<r, o>> \notin S => approvals'[r][o] = approvals[r][o]
    PROVE  Settled(r)
<1>1. runs[r] \in Run /\ runs'[r] \in Run /\ ApprovalOK(r)
      /\ approvals[r] \in [Ordinals -> Approval] /\ approvals'[r] \in [Ordinals -> Approval]
  BY LivesTyped DEF AuditInv
<1>2. CASE ~\E o \in Ordinals : <<r, o>> \in S
  <2>1. runs'[r] = runs[r]
    BY <1>2 DEF ClosedRuns
  <2>2. approvals'[r] = approvals[r]
    BY <1>1, <1>2
  <2> QED
    BY <2>1, <2>2, Rests
<1>3. ASSUME NEW o \in Ordinals, <<r, o>> \in S
      PROVE  Settled(r)
  <2>1. approvals[r][o].status = "pending" /\ runs[r].status = "running"
    BY <1>1, <1>3, OneReview
  <2>2. /\ runs'[r].status = "failed" /\ runs'[r].version = runs[r].version
        /\ runs'[r].plan = runs[r].plan
        /\ \A p \in StepRows : runs'[r].steps[p] =
               IF <<r, p[1]>> \in S /\ runs[r].steps[p] = "running"
               THEN "failed" ELSE runs[r].steps[p]
    <3>1. runs[r] \in Run /\ runs'[r] = ClosedRuns(S)[r]
      BY <1>1
    <3> QED
      BY <1>3, <2>1, <3>1 DEF ClosedRuns, Run
  <2>3. DoneOf(runs'[r]) = DoneOf(runs[r]) /\ BegunOf(runs'[r]) = BegunOf(runs[r])
    <3> PICK old, row : old = runs[r] /\ row = runs'[r]
      OBVIOUS
    <3>1. \A p \in StepRows : \/ row.steps[p] = old.steps[p]
                              \/ old.steps[p] = "running" /\ row.steps[p] = "failed"
      BY <2>2
    <3>2. DoneOf(row) = DoneOf(old) /\ BegunOf(row) = BegunOf(old)
      BY <1>1, <3>1, RowClosed
    <3> QED
      BY <3>2
  <2>4. StageOf(runs'[r], approvals'[r]) = "failed"
    <3> PICK row, asked : row = runs'[r] /\ asked = approvals'[r]
      OBVIOUS
    <3>1. row \in Run /\ asked \in [Ordinals -> Approval] /\ row.status \in TerminalStatus
          /\ row.status = "failed"
      BY <1>1, <2>2 DEF TerminalStatus
    <3>2. StageOf(row, asked) = row.status
      BY <3>1, StageCases
    <3> QED
      BY <3>1, <3>2
  <2>5. Lives[r].stage \in {"asked", "overdue"}
    <3> PICK row, asked : row = runs[r] /\ asked = approvals[r]
      OBVIOUS
    <3>1. row \in Run /\ asked \in [Ordinals -> Approval] /\ row.status = "running"
          /\ asked[o].status = "pending"
          /\ \A q \in Ordinals : q # o => asked[q].status # "pending"
      BY <1>1, <1>3, <2>1, OneReview
    <3>2. StageOf(row, asked) \in {"asked", "overdue"}
      BY <3>1, StageCases
    <3> QED
      BY <3>2, LivesFields
  <2>6. /\ Lives'[r].stage = "failed"
        /\ Lives'[r] = [Lives[r] EXCEPT !.stage = Lives'[r].stage]
    BY <2>2, <2>3, <2>4, LivesChange
  <2> QED
    BY <2>5, <2>6 DEF Settled, Promise!Fails
<1> QED
  BY <1>2, <1>3

\* Expiry, and a decision that closes.
LEMMA ClosingKept ==
    ASSUME TypeInv, TypeInv', AuditInv,
           \/ \E S \in SUBSET OverdueApprovals : ExpireApprovals(S)
           \/ \E r \in RunIds, o \in Ordinals, d \in {"approved", "rejected"} :
                  CloseDecision(r, o, d)
    PROVE  [Promise!Next]_Promise!vars
<1>1. UNCHANGED defs
  BY DEF ExpireApprovals, CloseDecision
<1>2. ASSUME NEW S \in SUBSET OverdueApprovals, ExpireApprovals(S), NEW r \in RunIds
      PROVE  Settled(r)
  <2>1. \A o \in Ordinals : <<r, o>> \in S => approvals[r][o].status = "pending"
    BY DEF OverdueApprovals
  <2>2. runs'[r] = ClosedRuns(S)[r]
    BY <1>2 DEF ExpireApprovals
  <2>3. \A o \in Ordinals : <<r, o>> \notin S => approvals'[r][o] = approvals[r][o]
    BY <1>2 DEF ExpireApprovals, ClosedApprovals
  <2> QED
    BY <2>1, <2>2, <2>3, ClosedSettled
<1>3. ASSUME NEW r0 \in RunIds, NEW o0 \in Ordinals, NEW d \in {"approved", "rejected"},
             CloseDecision(r0, o0, d), NEW r \in RunIds
      PROVE  Settled(r)
  <2> DEFINE S == {<<r0, o0>>} \cup OverdueApprovals
  <2>1. \A o \in Ordinals : <<r, o>> \in S => approvals[r][o].status = "pending"
    BY <1>3 DEF OverdueApprovals, CloseDecision
  <2>2. runs'[r] = ClosedRuns(S)[r]
    BY <1>3 DEF CloseDecision
  <2>3. \A o \in Ordinals : <<r, o>> \notin S => approvals'[r][o] = approvals[r][o]
    BY <1>3 DEF CloseDecision, ClosedApprovals
  <2> HIDE DEF S
  <2> QED
    BY <2>1, <2>2, <2>3, ClosedSettled
<1> QED
  BY <1>1, <1>2, <1>3, AllSettled

\* The clock passes the deadline of a review.
LEMMA ExpireKept ==
    ASSUME TypeInv, TypeInv', AuditInv, NEW r \in RunIds, NEW o \in Ordinals, BecomeOverdue(r, o)
    PROVE  [Promise!Next]_Promise!vars
<1>1. /\ approvals[r][o].status = "pending" /\ ~approvals[r][o].overdue
      /\ UNCHANGED <<defs, runs>>
      /\ approvals' = [approvals EXCEPT ![r][o].overdue = TRUE]
  BY DEF BecomeOverdue
<1>2. /\ runs[r] \in Run /\ approvals[r] \in [Ordinals -> Approval]
      /\ approvals'[r] \in [Ordinals -> Approval] /\ ApprovalOK(r)
  BY LivesTyped DEF AuditInv
<1>3. /\ runs[r].status = "running"
      /\ \A q \in Ordinals : q # o => approvals[r][q].status # "pending"
  BY <1>1, <1>2, OneReview
<1>4. /\ approvals'[r][o].status = "pending" /\ approvals'[r][o].overdue
      /\ \A q \in RunIds \ {r} : approvals'[q] = approvals[q]
  BY <1>1, <1>2 DEF TypeInv, TypeOK, Approval
<1>5. Lives[r].stage = "asked"
  <2> PICK row, asked : row = runs[r] /\ asked = approvals[r]
    OBVIOUS
  <2>1. StageOf(row, asked) = "asked"
    BY <1>1, <1>2, <1>3, StageCases
  <2> QED
    BY <2>1, LivesFields
<1>6. StageOf(runs'[r], approvals'[r]) = "overdue"
  <2> PICK row, asked : row = runs'[r] /\ asked = approvals'[r]
    OBVIOUS
  <2>1. row \in Run /\ asked \in [Ordinals -> Approval] /\ row.status = "running"
        /\ asked[o].status = "pending" /\ asked[o].overdue
    BY <1>1, <1>2, <1>3, <1>4
  <2>2. StageOf(row, asked) = "overdue"
    BY <2>1, StageCases
  <2> QED
    BY <2>2
<1>7. /\ Lives'[r].stage = "overdue"
      /\ Lives'[r] = [Lives[r] EXCEPT !.stage = Lives'[r].stage]
  BY <1>1, <1>6, LivesChange
<1>8. Promise!Step(r)
  BY <1>5, <1>7 DEF Promise!Step, Promise!Expire
<1>9. \A q \in RunIds \ {r} : Settled(q)
  BY <1>1, <1>4, Rests
<1> QED
  BY <1>1, <1>8, <1>9, OneRun

\* The recovery at start ends the runs that were interrupted on their way.
LEMMA RestartKept ==
    ASSUME TypeInv, TypeInv', AuditInv, Restart
    PROVE  [Promise!Next]_Promise!vars
<1>1. UNCHANGED <<defs, approvals>>
  BY DEF Restart
<1>2. ASSUME NEW r \in RunIds
      PROVE  Settled(r)
  <2>1. runs[r] \in Run /\ runs'[r] \in Run /\ RunOK(r) /\ ApprovalOK(r)
        /\ runs'[r] = Recovered(r) /\ approvals[r] \in [Ordinals -> Approval]
    BY LivesTyped DEF AuditInv, Restart
  <2>2. /\ runs'[r].status = IF runs[r].status = "running" /\ PendingApprovals(r) = {}
                             THEN "failed" ELSE runs[r].status
        /\ runs'[r].version = runs[r].version /\ runs'[r].plan = runs[r].plan
        /\ \A p \in StepRows : runs'[r].steps[p] =
               IF runs[r].steps[p] = "running" /\ p[1] \notin PendingApprovals(r)
               THEN "failed" ELSE runs[r].steps[p]
    <3>1. runs[r] \in Run /\ runs'[r] = Recovered(r)
      BY <2>1
    <3> QED
      BY <3>1 DEF Recovered, Run
  <2>3. CASE runs[r].status = "running" /\ PendingApprovals(r) = {}
    <3>1. DoneOf(runs'[r]) = DoneOf(runs[r]) /\ BegunOf(runs'[r]) = BegunOf(runs[r])
      <4> PICK old, row : old = runs[r] /\ row = runs'[r]
        OBVIOUS
      <4>1. \A p \in StepRows : \/ row.steps[p] = old.steps[p]
                                \/ old.steps[p] = "running" /\ row.steps[p] = "failed"
        BY <2>2
      <4>2. DoneOf(row) = DoneOf(old) /\ BegunOf(row) = BegunOf(old)
        BY <2>1, <4>1, RowClosed
      <4> QED
        BY <4>2
    <3>2. StageOf(runs'[r], approvals'[r]) = "failed"
      <4> PICK row, asked : row = runs'[r] /\ asked = approvals'[r]
        OBVIOUS
      <4>1. row \in Run /\ asked \in [Ordinals -> Approval] /\ row.status = "failed"
            /\ row.status \in TerminalStatus
        BY <1>1, <2>1, <2>2, <2>3 DEF TerminalStatus
      <4>2. StageOf(row, asked) = row.status
        BY <4>1, StageCases
      <4> QED
        BY <4>1, <4>2
    <3>3. Lives[r].stage \in {"trying", "between"}
      <4> PICK row, asked : row = runs[r] /\ asked = approvals[r]
        OBVIOUS
      <4>1. \A o \in Ordinals : asked[o].status # "pending"
        BY <2>3 DEF PendingApprovals
      <4>2. StageOf(row, asked) \in {"trying", "between"}
        BY <2>1, <2>3, <4>1, StageCases
      <4> QED
        BY <4>2, LivesFields
    <3>4. /\ Lives'[r].stage = "failed"
          /\ Lives'[r] = [Lives[r] EXCEPT !.stage = Lives'[r].stage]
      BY <2>2, <3>1, <3>2, LivesChange
    <3> QED
      BY <3>3, <3>4 DEF Settled, Promise!Fails
  <2>4. CASE ~(runs[r].status = "running" /\ PendingApprovals(r) = {})
    <3>1. ASSUME NEW p \in StepRows, runs[r].steps[p] = "running"
          PROVE  p[1] \in PendingApprovals(r)
      <4>1. runs[r].status = "running"
        BY <2>1, <3>1 DEF RunOK, Run
      <4>2. PICK o \in Ordinals : approvals[r][o].status = "pending"
        BY <2>4, <4>1 DEF PendingApprovals
      <4>3. p = <<o, 1>>
        BY <2>1, <3>1, <4>2, OneReview
      <4> QED
        BY <4>2, <4>3 DEF PendingApprovals
    <3>2. runs'[r].status = runs[r].status /\ \A p \in StepRows : runs'[r].steps[p] = runs[r].steps[p]
      BY <2>2, <2>4, <3>1
    <3>3. runs'[r].steps = runs[r].steps
      BY <2>1, <3>2 DEF Run
    <3>4. runs'[r] = runs[r]
      BY <2>1, <2>2, <3>2, <3>3 DEF Run
    <3> QED
      BY <1>1, <3>4, Rests
  <2> QED
    BY <2>3, <2>4
<1> QED
  BY <1>1, <1>2, AllSettled

\* What an approval writes: its review, its checkpoint, and nothing else of its run.
LEMMA ApprovalWrites ==
    ASSUME TypeInv, AuditInv, NEW r \in RunIds, NEW o \in Ordinals, Approve(r, o)
    PROVE  /\ approvals'[r][o].status = "approved"
           /\ \A q \in Ordinals : q # o => approvals'[r][q] = approvals[r][q]
           /\ runs'[r].status = "running" /\ runs'[r].version = runs[r].version
           /\ runs'[r].plan = runs[r].plan
           /\ \A p \in StepRows : runs'[r].steps[p] =
                  IF p = <<o, 1>> THEN "succeeded" ELSE runs[r].steps[p]
<1>1. approvals[r][o].status = "pending" /\ <<r, o>> \notin OverdueApprovals
  BY DEF Approve
<1>2. runs[r] \in Run /\ ApprovalOK(r) /\ approvals[r][o] \in Approval
  BY DEF TypeInv, TypeOK, AuditInv
<1>3. /\ runs[r].status = "running" /\ <<o, 1>> \in StepRows
      /\ \A p \in StepRows : runs[r].steps[p] = "running" => p = <<o, 1>>
      /\ \A q \in Ordinals : q # o => approvals[r][q].status # "pending"
      /\ runs[r].steps[<<o, 1>>] = "running"
  BY <1>1, <1>2, OneReview
<1>4. \A q \in Ordinals : <<r, q>> \notin OverdueApprovals
  BY <1>1, <1>3 DEF OverdueApprovals
<1>5. \A q \in Ordinals : approvals'[r][q] =
          IF q = o THEN [approvals[r][q] EXCEPT !.status = "approved"] ELSE approvals[r][q]
  <2>1. \A q \in Ordinals : <<r, q>> \in {<<r, o>>} <=> q = o
    OBVIOUS
  <2> QED
    BY <1>4, <2>1 DEF Approve, ClosedApprovals
<1>6. approvals'[r][o].status = "approved"
  BY <1>2, <1>5 DEF Approval
<1>7. /\ runs'[r].status = runs[r].status /\ runs'[r].version = runs[r].version
      /\ runs'[r].plan = runs[r].plan
      /\ \A p \in StepRows : runs'[r].steps[p] =
             IF p[1] = o /\ runs[r].steps[p] = "running" THEN "succeeded" ELSE runs[r].steps[p]
  <2>1. ClosedRuns(OverdueApprovals)[r] = runs[r]
    BY <1>4 DEF ClosedRuns
  <2>2. ClosedRuns(OverdueApprovals) \in [RunIds -> Run]
    BY ClosingTyped DEF TypeInv, TypeOK
  <2>3. runs' = [ClosedRuns(OverdueApprovals) EXCEPT ![r].steps =
           [p \in StepRows |-> IF p[1] = o /\ @[p] = "running" THEN "succeeded" ELSE @[p]]]
    BY DEF Approve
  <2> QED
    BY <1>2, <2>1, <2>2, <2>3 DEF Run
<1> QED
  BY <1>3, <1>5, <1>6, <1>7

\* A review is passed by an answer in time, while the definition is the one reviewed.
LEMMA ApproveKept ==
    ASSUME TypeInv, TypeInv', PromiseInv, NEW r \in RunIds, NEW o \in Ordinals, Approve(r, o)
    PROVE  [Promise!Next]_Promise!vars
<1>1. /\ approvals[r][o].status = "pending" /\ <<r, o>> \notin OverdueApprovals
      /\ defs[r[1]].status = "active" /\ defs[r[1]].version = approvals[r][o].version
      /\ UNCHANGED defs
  BY DEF Approve, StillBound
<1>2. /\ runs[r] \in Run /\ approvals[r] \in [Ordinals -> Approval]
      /\ ApprovalOK(r) /\ RunOK(r) /\ OrderOK(r)
  BY LivesTyped DEF PromiseInv, AuditInv, OrderInv
<1>3. /\ runs[r].status = "running" /\ <<o, 1>> \in StepRows
      /\ runs[r].steps[<<o, 1>>] = "running"
      /\ \A p \in StepRows : runs[r].steps[p] = "running" => p = <<o, 1>>
      /\ \A q \in Ordinals : q # o => approvals[r][q].status # "pending"
  BY <1>1, <1>2, OneReview
<1>4. /\ approvals'[r][o].status = "approved"
      /\ \A q \in Ordinals : q # o => approvals'[r][q] = approvals[r][q]
      /\ runs'[r].status = "running" /\ runs'[r].version = runs[r].version
      /\ runs'[r].plan = runs[r].plan
      /\ \A p \in StepRows : runs'[r].steps[p] =
             IF p = <<o, 1>> THEN "succeeded" ELSE runs[r].steps[p]
  BY ApprovalWrites DEF PromiseInv
<1>5. DoneOf(runs[r]) = 1..(o - 1)
  <2>1. \A q \in 1..(o - 1) : OrdinalSucceeded(r, q)
    <3>1. <<o, 1>>[1] = o
      OBVIOUS
    <3> QED
      BY <1>2, <1>3, <3>1 DEF OrderOK
  <2>2. ASSUME NEW a \in Attempts
        PROVE  runs[r].steps[<<o, a>>] # "succeeded"
    <3>1. runs[r].plan[o].kind = "human-approval"
      BY <1>1, <1>2 DEF ApprovalOK
    <3>2. <<o, a>> \in StepRows /\ <<o, a>>[1] = o /\ <<o, a>>[2] = a /\ a \in Nat \ {0}
      BY WorkflowAssumption DEF StepRows, Attempts
    <3>3. a > 1 => runs[r].steps[<<o, a>>] = "absent"
      BY <1>2, <3>1, <3>2 DEF OrderOK
    <3>4. a > 1 \/ a = 1
      BY <3>2
    <3> QED
      BY <1>3, <3>3, <3>4
  <2>3. ~OrdinalSucceeded(r, o)
    BY <2>2 DEF OrdinalSucceeded
  <2> QED
    BY <1>2, <2>1, <2>3, DoneUpTo
<1>6. Lives[r].stage = "asked"
  <2> PICK row, asked : row = runs[r] /\ asked = approvals[r]
    OBVIOUS
  <2>1. asked[o].status = "pending" /\ ~asked[o].overdue
    BY <1>1 DEF OverdueApprovals
  <2>2. StageOf(row, asked) = "asked"
    BY <1>2, <1>3, <2>1, StageCases
  <2> QED
    BY <2>2, LivesFields
<1>7. StageOf(runs'[r], approvals'[r]) = "between"
  <2> PICK row, asked : row = runs'[r] /\ asked = approvals'[r]
    OBVIOUS
  <2>1. row \in Run /\ asked \in [Ordinals -> Approval] /\ row.status = "running"
    BY <1>4, LivesTyped
  <2>2. /\ \A q \in Ordinals : asked[q].status # "pending"
        /\ \A p \in StepRows : row.steps[p] # "running"
    BY <1>3, <1>4
  <2>3. StageOf(row, asked) = "between"
    BY <2>1, <2>2, StageCases
  <2> QED
    BY <2>3
<1>8. /\ BegunOf(runs'[r]) = BegunOf(runs[r])
      /\ DoneOf(runs'[r]) = DoneOf(runs[r]) \cup {o}
  <2> PICK old, row, here : old = runs[r] /\ row = runs'[r] /\ here = <<o, 1>>
    OBVIOUS
  <2>1. old \in Run /\ row \in Run /\ here \in StepRows /\ here[1] = o
    BY <1>3, LivesTyped
  <2>2. /\ \A p \in StepRows : p # here => row.steps[p] = old.steps[p]
        /\ row.steps[here] = "succeeded" /\ old.steps[here] = "running"
    BY <1>3, <1>4
  <2>3. /\ BegunOf(row) = BegunOf(old) \cup {here}
        /\ DoneOf(row) = DoneOf(old) \cup {here[1]}
    BY <2>1, <2>2, RowWritten
  <2>4. here \in BegunOf(old)
    BY <2>1, <2>2 DEF BegunOf
  <2> QED
    BY <2>1, <2>3, <2>4
<1>9. /\ Lives'[r].stage = "between"
      /\ Lives'[r] = [Lives[r] EXCEPT !.stage = Lives'[r].stage, !.done = @ \cup {o}]
  BY <1>4, <1>7, <1>8, LivesChange
<1>10. Book[r[1]].active /\ Book[r[1]].version = Lives[r].version
  <2>1. r[1] \in Workflows
    BY DEF RunIds
  <2>2. approvals[r][o].version = runs[r].version
    BY <1>1, <1>2 DEF ApprovalOK
  <2> QED
    BY <1>1, <2>1, <2>2, LivesFields DEF Book
<1>11. Promise!Step(r)
  <2>1. Lives[r].done = 1..(o - 1)
    BY <1>5, LivesFields
  <2>2. Promise!Approve(r, o)
    BY <1>6, <1>9, <1>10, <2>1 DEF Promise!Approve
  <2> QED
    BY <2>2 DEF Promise!Step
<1>12. ASSUME NEW q \in RunIds \ {r}
       PROVE  Settled(q)
  <2>1. \A i \in Ordinals : <<q, i>> \in OverdueApprovals => approvals[q][i].status = "pending"
    BY DEF OverdueApprovals
  <2>2. runs'[q] = ClosedRuns(OverdueApprovals)[q]
    BY DEF Approve, ClosedRuns
  <2>3. \A i \in Ordinals : <<q, i>> \notin OverdueApprovals => approvals'[q][i] = approvals[q][i]
    <3>1. \A i \in Ordinals : <<q, i>> \notin {<<r, o>>}
      OBVIOUS
    <3> QED
      BY <3>1 DEF Approve, ClosedApprovals
  <2> QED
    BY <2>1, <2>2, <2>3, ClosedSettled DEF PromiseInv
<1> QED
  BY <1>1, <1>11, <1>12, OneRun

-----------------------------------------------------------------------------
(* Definitions.                                                            *)

\* Definitions change, and no run does.
LEMMA BookChanges ==
    ASSUME TypeInv, TypeInv', UNCHANGED <<runs, approvals>>,
           \A w \in Workflows : \/ /\ defs'[w].version = defs[w].version
                                   /\ defs'[w].plan = defs[w].plan
                                   /\ defs'[w].status = "active" => defs[w].status = "active"
                                \/ /\ defs[w].status = "active" \/ defs[w].version = 0
                                   /\ defs'[w].status = "active"
                                   /\ defs'[w].version = defs[w].version + 1
                                   /\ defs'[w].plan \in Plans
    PROVE  [Promise!Next]_Promise!vars
<1>1. Lives' = Lives
  BY DEF Lives
<1>2. ASSUME NEW w \in Workflows
      PROVE  Book'[w] = Book[w] \/ Promise!Save(w) \/ Promise!Withdraw(w)
  <2>1. /\ Book[w] = [active |-> defs[w].status = "active", version |-> defs[w].version,
                      plan |-> defs[w].plan]
        /\ Book'[w] = [active |-> defs'[w].status = "active", version |-> defs'[w].version,
                       plan |-> defs'[w].plan]
    BY DEF Book
  <2>2. CASE /\ defs'[w].version = defs[w].version /\ defs'[w].plan = defs[w].plan
             /\ defs'[w].status = "active" => defs[w].status = "active"
    <3>1. CASE defs'[w].status = "active" \/ defs[w].status # "active"
      <4>1. (defs'[w].status = "active") = (defs[w].status = "active")
        BY <2>2, <3>1
      <4> PICK b \in BOOLEAN : b = (defs[w].status = "active")
        OBVIOUS
      <4>2. Book[w] = [active |-> b, version |-> defs[w].version, plan |-> defs[w].plan]
        BY <2>1, Zenon
      <4>3. Book'[w] = [active |-> b, version |-> defs'[w].version, plan |-> defs'[w].plan]
        BY <2>1, <4>1
      <4>4. defs'[w].version = defs[w].version /\ defs'[w].plan = defs[w].plan
        BY <2>2
      <4> QED
        BY <4>2, <4>3, <4>4, Zenon
    <3>2. CASE defs'[w].status # "active" /\ defs[w].status = "active"
      <4>1. (defs'[w].status = "active") = FALSE
        BY <3>2
      <4>2. Book[w].version = defs[w].version /\ Book[w].plan = defs[w].plan
        BY DEF Book
      <4> QED
        BY <2>1, <2>2, <4>1, <4>2 DEF Promise!Withdraw
    <3> QED
      BY <3>1, <3>2
  <2>3. CASE /\ defs[w].status = "active" \/ defs[w].version = 0
             /\ defs'[w].status = "active" /\ defs'[w].version = defs[w].version + 1
             /\ defs'[w].plan \in Plans
    <3>1. (defs'[w].status = "active") = TRUE
      BY <2>3
    <3>2. Book'[w] = [active |-> TRUE, version |-> defs[w].version + 1, plan |-> defs'[w].plan]
      BY <2>1, <2>3, <3>1
    <3>3. (Book[w].active <=> defs[w].status = "active") /\ Book[w].version = defs[w].version
      BY DEF Book
    <3>4. Book[w].active \/ Book[w].version = 0
      BY <2>3, <3>3
    <3>5. \E p \in Plans : Book'[w] = [active |-> TRUE, version |-> Book[w].version + 1, plan |-> p]
      BY <2>3, <3>2, <3>3
    <3> QED
      BY <3>4, <3>5 DEF Promise!Save
  <2> QED
    BY <2>2, <2>3
<1>3. Promise!Next
  BY <1>1, <1>2, LivesTyped DEF Promise!Next
<1> QED
  BY <1>3

\* A definition that was never saved has no version yet.
FreshInv == \A w \in Workflows : defs[w].status = "absent" => defs[w].version = 0

\* Saving gives an active definition its next version; deletion, alone or with its target,
\* only withdraws it; a claim arms its trigger again.
LEMMA DefinitionsKept ==
    ASSUME TypeInv, TypeInv', FreshInv,
           \/ \E w \in Workflows, p \in Plans, t \in Triggers : SaveWorkflow(w, p, t)
           \/ \E w \in Workflows : DeleteWorkflow(w)
           \/ \E gone, shrunk \in SUBSET Targets, s \in Signatures : RemoveTargets(gone, shrunk, s)
           \/ ClaimDue
    PROVE  FreshInv' /\ [Promise!Next]_Promise!vars
<1> DEFINE Same(w) == /\ defs'[w].version = defs[w].version /\ defs'[w].plan = defs[w].plan
                      /\ defs'[w].status = "active" => defs[w].status = "active"
                      /\ defs'[w].status = "absent" => defs[w].status = "absent"
           Saved(w) == /\ defs[w].status = "active" \/ defs[w].version = 0
                       /\ defs'[w].status = "active" /\ defs'[w].version = defs[w].version + 1
                       /\ defs'[w].plan \in Plans
<1>1. defs \in [Workflows -> Definition]
  BY DEF TypeInv, TypeOK
<1>2. UNCHANGED <<runs, approvals>>
  BY DEF SaveWorkflow, DeleteWorkflow, RemoveTargets, ClaimDue
<1>3. ASSUME NEW w \in Workflows
      PROVE  Same(w) \/ Saved(w)
  <2>1. ASSUME NEW v \in Workflows, NEW p \in Plans, NEW t \in Triggers, SaveWorkflow(v, p, t)
        PROVE  Same(w) \/ Saved(w)
    <3>1. CASE w = v
      <4>1. /\ defs[w].status # "deleted" /\ defs'[w].status = "active"
            /\ defs'[w].version = defs[w].version + 1 /\ defs'[w].plan = p
        BY <1>1, <2>1, <3>1 DEF SaveWorkflow
      <4>2. defs[w].status = "active" \/ defs[w].version = 0
        BY <1>1, <4>1 DEF FreshInv, Definition
      <4> QED
        BY <4>1, <4>2
    <3>2. CASE w # v
      BY <1>1, <2>1, <3>2 DEF SaveWorkflow
    <3> QED
      BY <3>1, <3>2
  <2>2. ASSUME NEW v \in Workflows, DeleteWorkflow(v)
        PROVE  Same(w)
    BY <1>1, <2>2 DEF DeleteWorkflow, Definition
  <2>3. ASSUME NEW gone \in SUBSET Targets, NEW shrunk \in SUBSET Targets, NEW s \in Signatures,
               RemoveTargets(gone, shrunk, s)
        PROVE  Same(w)
    <3>1. defs[w] \in Definition
      BY <1>1
    <3>2. PICK old \in Definition : old = RetiredDefs(gone \cup shrunk)[w]
      BY <3>1 DEF RetiredDefs, Definition
    <3>3. old.version = defs[w].version /\ old.plan = defs[w].plan
          /\ old.status \in {defs[w].status, "deleted"}
      BY <3>1, <3>2 DEF RetiredDefs, Definition
    <3>4. defs'[w] = [old EXCEPT !.bound = @ /\ TargetOf[w] \notin gone]
      BY <2>3, <3>2 DEF RemoveTargets
    <3>5. /\ defs'[w].version = old.version /\ defs'[w].plan = old.plan
          /\ defs'[w].status = old.status
      BY <3>2, <3>4 DEF Definition
    <3>6. old.status = "active" => defs[w].status = "active"
      BY <3>1, <3>3
    <3>7. old.status = "absent" => defs[w].status = "absent"
      BY <3>1, <3>3
    <3> QED
      BY <3>3, <3>5, <3>6, <3>7
  <2>4. ASSUME ClaimDue
        PROVE  Same(w)
    <3>1. defs[w] \in Definition
      BY <1>1
    <3>2. \/ defs'[w] = defs[w]
          \/ defs'[w] = [defs[w] EXCEPT !.nextDue = NextDue(defs[w].trigger, now)]
          \/ defs'[w] = [defs[w] EXCEPT !.signature = targets[TargetOf[w]].signature]
      BY <2>4, Zenon DEF ClaimDue
    <3>3. /\ defs'[w].version = defs[w].version /\ defs'[w].plan = defs[w].plan
          /\ defs'[w].status = defs[w].status
      BY <3>1, <3>2 DEF Definition
    <3> QED
      BY <3>3
  <2> QED
    BY <2>1, <2>2, <2>3, <2>4
<1>4. FreshInv'
  BY <1>3 DEF FreshInv
<1> QED
  BY <1>2, <1>3, <1>4, BookChanges

-----------------------------------------------------------------------------
(* The promise.                                                            *)

\* The steps that write no run, no approval and no definition.
LEMMA SilentKept ==
    ASSUME UNCHANGED <<runs, approvals, defs>>
    PROVE  [Promise!Next]_Promise!vars
BY NothingHappens

\* Every step of the engine is a step of the promise, or none.
LEMMA StepKeepsPromise ==
    ASSUME TypeInv, TypeInv', PromiseInv, FreshInv, [Next]_vars
    PROVE  FreshInv' /\ [Promise!Next]_Promise!vars
<1>1. UNCHANGED defs => FreshInv'
  BY DEF FreshInv
<1>2. AuditInv
  BY DEF PromiseInv
<1>3. CASE Execute
  <2>1. UNCHANGED defs
    BY <1>3 DEF Execute, SkipSucceeded, PauseForApproval, StartAttempt, RecordUnresolved,
       FinishRecord, StepSucceeds, StepFails, RetryOrClose, ResultOverBudget, FinishRun, Resume,
       DurableElsewhere
  <2>2. CASE SkipSucceeded \/ RetryOrClose \/ ResultOverBudget \/ Resume
    BY <1>1, <2>1, <2>2, SilentKept DEF SkipSucceeded, RetryOrClose, ResultOverBudget, Resume
  <2> QED
    BY <1>1, <1>3, <2>1, <2>2, TryKept, AttemptEndsKept, AskKept, EndKept DEF Execute
<1>4. CASE UserRequest
  <2>1. ASSUME NEW w \in Workflows, NEW k \in ManualKeys, RunWorkflow(w, k, "other")
        PROVE  FreshInv' /\ [Promise!Next]_Promise!vars
    <3>1. k \in Keys /\ UNCHANGED defs
      BY <2>1 DEF Keys, RunWorkflow
    <3> QED
      BY <1>1, <1>2, <2>1, <3>1, RunWorkflowKept
  <2>2. ASSUME NEW r \in RunIds, NEW o \in Ordinals, Approve(r, o)
        PROVE  FreshInv' /\ [Promise!Next]_Promise!vars
    <3>1. UNCHANGED defs
      BY <2>2 DEF Approve
    <3> QED
      BY <1>1, <2>2, <3>1, ApproveKept
  <2>3. CASE \/ \E S \in SUBSET OverdueApprovals : ExpireApprovals(S)
             \/ \E r \in RunIds, o \in Ordinals, d \in {"approved", "rejected"} :
                    CloseDecision(r, o, d)
    <3>1. UNCHANGED defs
      BY <2>3 DEF ExpireApprovals, CloseDecision
    <3> QED
      BY <1>1, <1>2, <2>3, <3>1, ClosingKept
  <2>4. CASE \/ \E w \in Workflows, p \in Plans, t \in Triggers : SaveWorkflow(w, p, t)
             \/ \E w \in Workflows : DeleteWorkflow(w)
             \/ \E gone, shrunk \in SUBSET Targets, s \in Signatures :
                    RemoveTargets(gone, shrunk, s)
    BY <2>4, DefinitionsKept
  <2>5. CASE UNCHANGED <<runs, approvals, defs>>
    BY <1>1, <2>5, SilentKept
  <2> QED
    BY <1>4, <2>1, <2>2, <2>3, <2>4, <2>5
    DEF UserRequest, SaveGroup, ActivateVersion, ArchiveThread, DeleteThread
<1>5. CASE TriggerRequest
  <2>1. CASE ClaimDue
    BY <2>1, DefinitionsKept
  <2>2. ASSUME NEW e \in EventIds, events[e].status # "absent",
               RunWorkflow(events[e].workflow, e, "other")
        PROVE  FreshInv' /\ [Promise!Next]_Promise!vars
    <3>1. events[e].workflow \in Workflows /\ e \in Keys /\ UNCHANGED defs
      BY <2>2 DEF TypeInv, WellFormed, Keys, RunWorkflow
    <3> QED
      BY <1>1, <1>2, <2>2, <3>1, RunWorkflowKept
  <2>3. CASE UNCHANGED <<runs, approvals, defs>>
    BY <1>1, <2>3, SilentKept
  <2> QED
    BY <1>5, <2>1, <2>2, <2>3 DEF TriggerRequest, FinishTrigger
<1>6. CASE Restart
  BY <1>1, <1>2, <1>6, RestartKept DEF Restart
<1>7. CASE \E r \in RunIds, o \in Ordinals : BecomeOverdue(r, o)
  <2>1. UNCHANGED defs
    BY <1>7 DEF BecomeOverdue
  <2> QED
    BY <1>1, <1>2, <1>7, <2>1, ExpireKept
<1>8. CASE UNCHANGED <<runs, approvals, defs>>
  BY <1>1, <1>8, SilentKept
<1> QED
  BY <1>3, <1>4, <1>5, <1>6, <1>7, <1>8
  DEF Next, Environment, Tick, Interrupt, Crash, vars, tables

LEMMA PromiseStarts == Init => FreshInv /\ TriesInv /\ Promise!Init
<1> SUFFICES ASSUME Init PROVE FreshInv /\ TriesInv /\ Promise!Init
  OBVIOUS
<1>1. FreshInv /\ TriesInv
  BY DEF Init, FreshInv, TriesInv, NoDefinition, Idle
<1>2. Book = [w \in Workflows |-> [active |-> FALSE, version |-> 0, plan |-> None]]
  BY DEF Init, Book, NoDefinition
<1>3. ASSUME NEW r \in RunIds
      PROVE  LifeOf(runs[r], approvals[r]) = Promise!NotBegun
  <2>1. /\ runs[r].status = "absent" /\ runs[r].version = 0 /\ runs[r].plan = None
        /\ \A p \in StepRows : runs[r].steps[p] = "absent"
    BY DEF Init, NoRun
  <2>2. StageOf(runs[r], approvals[r]) = "new"
    BY <2>1 DEF StageOf
  <2>3. DoneOf(runs[r]) = {} /\ BegunOf(runs[r]) = {}
    <3>1. \A o \in Ordinals, a \in Attempts : <<o, a>> \in StepRows
      BY DEF StepRows
    <3> QED
      BY <2>1, <3>1 DEF DoneOf, BegunOf
  <2> QED
    BY <2>1, <2>2, <2>3 DEF LifeOf, Promise!NotBegun
<1>4. Lives = [r \in RunIds |-> Promise!NotBegun]
  BY <1>3 DEF Lives
<1> QED
  BY <1>1, <1>2, <1>4 DEF Promise!Init

LEMMA PromiseInvariant == Spec => [](PromiseInv /\ FreshInv)
<1>1. Init => TriesInv /\ FreshInv
  BY PromiseStarts
<1>2. /\ TypeInv /\ TypeInv' /\ AuditInv /\ AuditInv' /\ OrderInv /\ OrderInv'
      /\ TriesInv /\ FreshInv /\ [Next]_vars
      => TriesInv' /\ FreshInv'
  BY AttemptStep, NextTried, StepKeepsPromise DEF PromiseInv
<1>3. AuditInv /\ OrderInv /\ TriesInv => PromiseInv
  BY DEF PromiseInv
<1> QED
  BY <1>1, <1>2, <1>3, TypeInvariant, AuditInvariant, OrderInvariant, PTL DEF Spec

\* Handlers, checkpoints, approvals, cancellation, deadlines, crashes and the recovery at
\* start implement what the person is promised: a run begins once, under the definition of
\* that moment, does its steps in their order with no attempt too many and none twice, is
\* let go on only by an answer to the definition that was reviewed, and ends once.
THEOREM RunsKeepPromise == Spec => KeepsRunPromise
<1>1. Init => Promise!Init
  BY PromiseStarts
<1>2. TypeInv /\ TypeInv' /\ PromiseInv /\ FreshInv /\ [Next]_vars
      => [Promise!Next]_Promise!vars
  BY StepKeepsPromise
<1> QED
  BY <1>1, <1>2, TypeInvariant, PromiseInvariant, PTL DEF Spec, KeepsRunPromise, Promise!Spec
=============================================================================
