--------------------------- MODULE WorkflowEngine ---------------------------
(***************************************************************************)
(* The repeatable-workflow engine of the Go data core                      *)
(* (services/data-core/internal/data/workflow_*.go): definitions, the      *)
(* durable trigger queue, runs with their append-only step checkpoints,    *)
(* human approvals, delivery into a conversation thread, and the recovery  *)
(* done when the database is opened.                                       *)
(*                                                                         *)
(* The RPC server hands requests to ONE worker goroutine, so handlers do   *)
(* not interleave with each other.  A handler that is a single SQLite      *)
(* transaction is one action.  workflow.run and the approving half of      *)
(* workflow.approvals.decide commit many times: they are the steps of the  *)
(* in-memory record `worker', and between any two commits the context may  *)
(* be cancelled, the deadline may pass, or the process may die.            *)
(***************************************************************************)
EXTENDS Integers, Sequences, FiniteSets

CONSTANTS
    Workflows,    \* workflow definition ids
    Targets,      \* datasets and groups a workflow is about
    Groups,       \* the targets that are groups
    TargetOf,     \* the target of each workflow: no update can change it
    Signatures,   \* values of currentWorkflowTargetSignature
    EventIds,     \* trigger events; the id is also the event's operation id
    ManualKeys,   \* idempotency keys of runs a person starts
    Plans,        \* the step lists a definition may be saved with
    Triggers,     \* the trigger kinds used
    Archivable,   \* the targets whose conversation a person archives
    Every,        \* length of an interval, and of a calendar day
    Outcomes,     \* how one execution of a query step may end
    Interrupts,   \* how the run's context may end early
    MaxSteps,     \* maximumWorkflowSteps
    MaxAttempts,  \* maximumWorkflowAttempts
    RunLimit,     \* maximumWorkflowRuns
    EventLimit,   \* maximumWorkflowTriggerEvents
    EntryLimit,   \* maximumConversationEntries
    MaxVersion,   \* bound on saves of one definition
    MaxTime,      \* bound on the clock
    None

Attempts == 1..MaxAttempts
Ordinals == 1..MaxSteps
Keys     == EventIds \cup ManualKeys
RunIds   == Workflows \X Keys
StepRows == Ordinals \X Attempts
StepDefs == {s \in [kind : {"query", "human-approval"}, attempts : Attempts] :
                s.kind = "human-approval" => s.attempts = 1}

TerminalStatus == {"succeeded", "failed", "cancelled"}
ClosedApproval == {"rejected", "expired", "cancelled"}
Scheduled      == {"interval", "calendar"}

ASSUME WorkflowAssumption ==
    /\ Groups \subseteq Targets /\ Archivable \subseteq Targets
    /\ TargetOf \in [Workflows -> Targets]
    /\ Signatures \subseteq Nat
    /\ EventIds \cap ManualKeys = {}
    /\ Plans \subseteq Seq(StepDefs)
    /\ \A p \in Plans : Len(p) \in Ordinals
    /\ Triggers \subseteq Scheduled \cup {"manual", "dataset-version"}
    /\ Every \in Nat \ {0}
    /\ Outcomes \subseteq {"ok", "fail", "oversize"}
    /\ Interrupts \subseteq {"cancelled", "failed"}
    /\ {MaxSteps, MaxAttempts} \subseteq Nat \ {0}
    /\ {RunLimit, EventLimit, EntryLimit, MaxVersion, MaxTime} \subseteq Nat
    /\ None \notin Nat /\ None \notin Keys /\ None \notin Workflows
    /\ None \notin RunIds

VARIABLES
    defs,        \* table workflow_definitions
    targets,     \* datasets, dataset_groups and the conversation thread of each
    events,      \* table workflow_trigger_events
    runs,        \* tables workflow_runs and workflow_step_runs
    approvals,   \* table workflow_approval_requests
    now,         \* the clock
    up,          \* the data-core process is running
    worker,      \* the multi-commit handler the worker goroutine is inside
    reply        \* the last answer to a workflow.run of the trigger scheduler

tables == <<defs, targets, events, runs, approvals>>
vars   == <<tables, now, up, worker, reply>>

-----------------------------------------------------------------------------
(* Rows.  A row that does not exist has status "absent".                   *)

Definition == [status : {"absent", "active", "deleted"}, version : Nat,
               plan : Plans \cup {None}, trigger : Triggers \cup {None},
               nextDue : Nat \cup {None}, signature : Signatures \cup {None},
               bound : BOOLEAN]          \* thread_id is not NULL
Target     == [exists : BOOLEAN, signature : Signatures,
               thread : {"open", "archived", "gone"}, entries : Seq(EventIds)]
Event      == [status : {"absent", "pending"} \cup TerminalStatus,
               workflow : Workflows \cup {None}, version : Nat,
               kind : Triggers \cup {None}, key : Nat, due : Nat,
               run : Keys \cup {None}]
Run        == [status : {"absent", "running"} \cup TerminalStatus, version : Nat,
               plan : Plans \cup {None},  \* history: the definition it started with
               steps : [StepRows -> {"absent", "running"} \cup TerminalStatus]]
Approval   == [status : {"absent", "pending", "approved"} \cup ClosedApproval,
               version : Nat, overdue : BOOLEAN]
Worker     == [phase : {"idle", "loop", "executing", "recording", "retrying",
                       "closing", "approved"},
               run : RunIds \cup {None}, plan : Plans \cup {None}, ord : Nat \ {0},
               att : Attempts, ctx : {"live", "cancelled", "failed"},
               verdict : TerminalStatus, client : {"trigger", "other"}]
Replies    == {"none", "error", "running", "awaiting-approval"} \cup TerminalStatus

NoDefinition == [status |-> "absent", version |-> 0, plan |-> None, trigger |-> None,
                 nextDue |-> None, signature |-> None, bound |-> FALSE]
NoEvent      == [status |-> "absent", workflow |-> None, version |-> 0, kind |-> None,
                 key |-> 0, due |-> 0, run |-> None]
NoRun        == [status |-> "absent", version |-> 0, plan |-> None,
                 steps |-> [p \in StepRows |-> "absent"]]
NoApproval   == [status |-> "absent", version |-> 0, overdue |-> FALSE]
Idle         == [phase |-> "idle", run |-> None, plan |-> None, ord |-> 1, att |-> 1,
                 ctx |-> "live", verdict |-> "failed", client |-> "other"]

TypeOK ==
    /\ defs      \in [Workflows -> Definition]
    /\ targets   \in [Targets -> Target]
    /\ events    \in [EventIds -> Event]
    /\ runs      \in [RunIds -> Run]
    /\ approvals \in [RunIds -> [Ordinals -> Approval]]
    /\ now       \in Nat
    /\ up        \in BOOLEAN
    /\ worker    \in Worker
    /\ reply     \in Replies

Init ==
    /\ defs      = [w \in Workflows |-> NoDefinition]
    /\ targets   \in [Targets -> {t \in [exists : {TRUE}, signature : Signatures,
                                         thread : {"open"}, entries : {<<>>}] :
                                  \A s \in Signatures : t.signature <= s}]
    /\ events    = [e \in EventIds |-> NoEvent]
    /\ runs      = [r \in RunIds |-> NoRun]
    /\ approvals = [r \in RunIds |-> [o \in Ordinals |-> NoApproval]]
    /\ now = 0 /\ up = TRUE /\ worker = Idle /\ reply = "none"

Serving == up /\ worker.phase = "idle"   \* the worker goroutine takes the next request

-----------------------------------------------------------------------------
(* Definitions and their triggers.                                         *)

\* Mutant: a calendar mark that is due now counts as the next one.
NextDueNow(kind, t) == IF kind = "interval" THEN t + Every
                       ELSE ((t + Every - 1) \div Every) * Every

\* The first due time after t: an interval counts from t, a calendar has fixed marks.
NextDue(kind, t) == IF kind = "interval" THEN t + Every ELSE (t \div Every + 1) * Every

\* Mutant: what the old version queued stays queued.
CancelNothing(W) == UNCHANGED events

\* cancelPendingWorkflowTriggers: pending events of the workflows in W end without a run.
CancelPending(W) ==
    events' = [e \in EventIds |->
        IF events[e].status = "pending" /\ events[e].workflow \in W
        THEN [events[e] EXCEPT !.status = "cancelled"] ELSE events[e]]

\* SaveWorkflow: insert version 1, or bump the version, rearm the trigger from the
\* present and cancel what the old version had queued.
SaveWorkflow(w, plan, kind) ==
    /\ Serving
    /\ targets[TargetOf[w]].exists /\ targets[TargetOf[w]].thread = "open"
    /\ defs[w].status # "deleted" /\ defs[w].version < MaxVersion
    /\ defs' = [defs EXCEPT ![w] =
           [status |-> "active", version |-> @.version + 1, plan |-> plan, trigger |-> kind,
            nextDue |-> IF kind \in Scheduled THEN NextDue(kind, now) ELSE None,
            signature |-> IF kind = "dataset-version"
                          THEN targets[TargetOf[w]].signature ELSE None,
            bound |-> TRUE]]
    /\ CancelPending({w})
    /\ UNCHANGED <<targets, runs, approvals, now, up, worker, reply>>

\* DeleteWorkflow: soft delete; the audit stays.
DeleteWorkflow(w) ==
    /\ Serving
    /\ defs[w].status = "active"
    /\ defs' = [defs EXCEPT ![w].status = "deleted"]
    /\ CancelPending({w})
    /\ UNCHANGED <<targets, runs, approvals, now, up, worker, reply>>

\* DeleteDataset: the dataset goes with its groups that become too small, and the groups
\* that stay lose a member.  DeleteGroup: the group goes alone.
DatasetRemoval(gone, shrunk) == Cardinality(gone \ Groups) = 1 /\ shrunk \subseteq Groups \ gone
GroupRemoval(gone, shrunk)   == Cardinality(gone) = 1 /\ gone \subseteq Groups /\ shrunk = {}

\* retireTargetWorkflows, for every target in T: soft deletion of its workflows.
RetiredDefs(T) == [w \in Workflows |->
    IF TargetOf[w] \in T /\ defs[w].status = "active"
    THEN [defs[w] EXCEPT !.status = "deleted"] ELSE defs[w]]

\* Either deletion.  Every workflow of an affected target is retired; a thread that goes
\* leaves thread_id NULL in the definitions kept for audit (ON DELETE SET NULL).
RemoveTargets(gone, shrunk, s) ==
    LET affected == {w \in Workflows : TargetOf[w] \in gone \cup shrunk} IN
    /\ Serving
    /\ DatasetRemoval(gone, shrunk) \/ GroupRemoval(gone, shrunk)
    /\ \A t \in gone \cup shrunk : targets[t].exists
    /\ \A t \in shrunk : targets[t].signature # s
    /\ targets' = [t \in Targets |->
           IF t \in gone THEN [targets[t] EXCEPT !.exists = FALSE, !.thread = "gone",
                                                 !.entries = <<>>]
           ELSE IF t \in shrunk THEN [targets[t] EXCEPT !.signature = s]
           ELSE targets[t]]
    /\ defs' = [w \in Workflows |-> [RetiredDefs(gone \cup shrunk)[w] EXCEPT
                                        !.bound = @ /\ TargetOf[w] \notin gone]]
    /\ CancelPending(affected)
    /\ UNCHANGED <<runs, approvals, now, up, worker, reply>>

\* activateVersion gives a dataset a version id never used before, and with it a new
\* signature to the groups it is a member of.
ActivateVersion(t, memberOf, s) ==
    /\ Serving
    /\ t \notin Groups /\ memberOf \subseteq Groups
    /\ \A u \in {t} \cup memberOf : targets[u].exists /\ s > targets[u].signature
    /\ targets' = [u \in Targets |-> IF u \in {t} \cup memberOf
                                   THEN [targets[u] EXCEPT !.signature = s] ELSE targets[u]]
    /\ UNCHANGED <<defs, events, runs, approvals, now, up, worker, reply>>

\* SaveGroup gives a group other members, which it may have had before.
SaveGroup(g, s) ==
    /\ Serving
    /\ g \in Groups /\ targets[g].exists /\ targets[g].signature # s
    /\ targets' = [targets EXCEPT ![g].signature = s]
    /\ UNCHANGED <<defs, events, runs, approvals, now, up, worker, reply>>

\* ArchiveConversation, in either direction.
ArchiveThread(t) ==
    /\ Serving
    /\ targets[t].thread # "gone"
    /\ targets' = [targets EXCEPT ![t].thread = IF @ = "open" THEN "archived" ELSE "open"]
    /\ UNCHANGED <<defs, events, runs, approvals, now, up, worker, reply>>

\* Mutant: the definitions that deliver into the thread are not looked for.
DeleteAnyThread(t) ==
    /\ Serving
    /\ targets[t].thread = "archived"
    /\ targets' = [targets EXCEPT ![t].thread = "gone", ![t].entries = <<>>]
    /\ UNCHANGED <<defs, events, runs, approvals, now, up, worker, reply>>
\* DeleteConversation, and ApplyConversationRetention for the archived threads it finds
\* old enough: a thread that a definition names, even a deleted one, is kept.
DeleteThread(t) ==
    /\ Serving
    /\ targets[t].thread = "archived"
    /\ ~\E w \in Workflows : TargetOf[w] = t /\ defs[w].bound
    /\ targets' = [targets EXCEPT ![t].thread = "gone", ![t].entries = <<>>]
    /\ UNCHANGED <<defs, events, runs, approvals, now, up, worker, reply>>

-----------------------------------------------------------------------------
(* The trigger queue.                                                      *)

EventsOf(w) == {e \in EventIds : events[e].workflow = w}
RunsOf(w)   == {k \in Keys : runs[<<w, k>>].status # "absent"}

IsDue(w) ==
    /\ defs[w].status = "active"
    /\ \/ defs[w].trigger \in Scheduled /\ defs[w].nextDue <= now
       \/ /\ defs[w].trigger = "dataset-version"
          /\ defs[w].signature # targets[TargetOf[w]].signature

\* The number in the dedupe key: the due time, or the target's new signature.
DedupeKey(w) == IF defs[w].trigger \in Scheduled
                THEN defs[w].nextDue ELSE targets[TargetOf[w]].signature
AlreadyQueued(w) == \E e \in EventsOf(w) : /\ events[e].kind = defs[w].trigger
                                           /\ events[e].key = DedupeKey(w)

\* claimWorkflowTriggerCandidate fails, and the whole claim is rolled back, when a due
\* workflow has used up its events.
ClaimFails == \E w \in Workflows : IsDue(w) /\ Cardinality(EventsOf(w)) >= EventLimit

\* ClaimDueWorkflowTriggers: one event for each due workflow (ON CONFLICT DO NOTHING),
\* and every due trigger advanced past the present.
ClaimDue ==
    LET due   == {w \in Workflows : IsDue(w)}
        fresh == {w \in due : ~AlreadyQueued(w)}
        free  == {e \in EventIds : events[e].status = "absent"} IN
    /\ Serving /\ ~ClaimFails
    /\ \E id \in [fresh -> free] :
       /\ \A v, w \in fresh : id[v] = id[w] => v = w
       /\ events' = [e \in EventIds |->
              IF \E w \in fresh : id[w] = e
              THEN LET w == CHOOSE x \in fresh : id[x] = e IN
                   [NoEvent EXCEPT !.status = "pending", !.workflow = w,
                        !.version = defs[w].version, !.kind = defs[w].trigger,
                        !.key = DedupeKey(w),
                        !.due = IF defs[w].trigger \in Scheduled
                                THEN defs[w].nextDue ELSE now]
              ELSE events[e]]
    /\ defs' = [w \in Workflows |->
           IF w \notin due THEN defs[w]
           ELSE IF defs[w].trigger \in Scheduled
                THEN [defs[w] EXCEPT !.nextDue = NextDue(defs[w].trigger, now)]
                ELSE [defs[w] EXCEPT !.signature = targets[TargetOf[w]].signature]]
    /\ UNCHANGED <<targets, runs, approvals, now, up, worker, reply>>

\* Mutant: the status of the run is not compared with the one reported.
RunExists(e, status, k) ==
    IF k = None THEN status # "succeeded"
    ELSE runs[<<events[e].workflow, k>>].status \in TerminalStatus
\* triggeredWorkflowConversationEntry: what FinishWorkflowTrigger demands of the run
\* named in its input.  The engine takes any run of the event's workflow.
RunMatches(e, status, k) ==
    IF k = None THEN status # "succeeded"
    ELSE LET r == runs[<<events[e].workflow, k>>] IN
         /\ r.status = status
         /\ status = "succeeded" => \E p \in StepRows : r.steps[p] = "succeeded"

CanFinish(e, status, k) ==
    LET t == targets[TargetOf[events[e].workflow]] IN
    /\ events[e].status = "pending"
    /\ RunMatches(e, status, k)
    /\ t.thread = "open" /\ Len(t.entries) < EntryLimit

\* Mutant: only a successful run is shown in the conversation.
FinishQuietly(e, status, k) ==
    /\ Serving
    /\ CanFinish(e, status, k)
    /\ targets' = [targets EXCEPT ![TargetOf[events[e].workflow]].entries =
                      IF status = "succeeded" THEN Append(@, e) ELSE @]
    /\ events' = [events EXCEPT ![e].status = status, ![e].run = k]
    /\ UNCHANGED <<defs, runs, approvals, now, up, worker, reply>>

\* FinishWorkflowTrigger: the conversation entry and the terminal event in one transaction.
FinishTrigger(e, status, k) ==
    /\ Serving
    /\ CanFinish(e, status, k)
    /\ targets' = [targets EXCEPT ![TargetOf[events[e].workflow]].entries = Append(@, e)]
    /\ events' = [events EXCEPT ![e].status = status, ![e].run = k]
    /\ UNCHANGED <<defs, runs, approvals, now, up, worker, reply>>

-----------------------------------------------------------------------------
(* Runs.                                                                   *)

\* Mutant: any finished attempt counts as a success.
OrdinalFinished(r, o) == \E a \in Attempts : runs[r].steps[<<o, a>>] \in TerminalStatus

OrdinalSucceeded(r, o) == \E a \in Attempts : runs[r].steps[<<o, a>>] = "succeeded"
PendingApprovals(r)    == {o \in Ordinals : approvals[r][o].status = "pending"}

\* applyWorkflowApprovalState: how the run row is shown to a client.
RunView(r) == IF PendingApprovals(r) # {} THEN "awaiting-approval" ELSE runs[r].status

\* The handler answers and the worker goroutine is free again.
Answer(status) == /\ worker' = Idle
                  /\ reply' = IF worker.client = "trigger" THEN status ELSE reply

\* startWorkflowRun: the row is inserted under the version the definition has now.
StartedRun(w) == [NoRun EXCEPT !.status = "running", !.version = defs[w].version,
                               !.plan = defs[w].plan]

\* RunWorkflow.  An existing run is returned as it is; a missing definition or a full
\* audit is an error; otherwise the run row is inserted and execution starts.
RunWorkflow(w, k, client) ==
    LET r == <<w, k>>
        answer(status) == reply' = IF client = "trigger" THEN status ELSE reply IN
    /\ Serving
    /\ UNCHANGED <<defs, targets, events, approvals, now, up>>
    /\ \/ /\ runs[r].status # "absent"
          /\ answer(RunView(r))
          /\ UNCHANGED <<runs, worker>>
       \/ /\ runs[r].status = "absent"
          /\ defs[w].status # "active" \/ Cardinality(RunsOf(w)) >= RunLimit
          /\ answer("error")
          /\ UNCHANGED <<runs, worker>>
       \/ /\ runs[r].status = "absent"
          /\ defs[w].status = "active" /\ Cardinality(RunsOf(w)) < RunLimit
          /\ runs' = [runs EXCEPT ![r] = StartedRun(w)]
          /\ worker' = [Idle EXCEPT !.phase = "loop", !.run = r, !.plan = defs[w].plan,
                                    !.client = client]
          /\ answer("none")

Executing(phase) == up /\ worker.phase = phase
StepKind == worker.plan[worker.ord].kind
SetStep(status) ==
    runs' = [runs EXCEPT ![worker.run].steps[<<worker.ord, worker.att>>] = status]
GoOn(phase, verdict) == /\ worker' = [worker EXCEPT !.phase = phase, !.verdict = verdict]
                        /\ UNCHANGED reply
DurableElsewhere == UNCHANGED <<defs, targets, events, now, up>>

\* executeWorkflowRun: the head of the loop over the definition's steps.
SkipSucceeded ==
    /\ Executing("loop")
    /\ worker.ord <= Len(worker.plan) /\ OrdinalSucceeded(worker.run, worker.ord)
    /\ worker' = [worker EXCEPT !.ord = @ + 1]
    /\ UNCHANGED <<runs, approvals, reply>> /\ DurableElsewhere

AtStep(kind) == /\ Executing("loop") /\ worker.ord <= Len(worker.plan)
                /\ ~OrdinalSucceeded(worker.run, worker.ord)
                /\ StepKind = kind

\* pauseWorkflowForApproval, on a context that no longer listens to cancellation.
PauseForApproval ==
    /\ AtStep("human-approval")
    /\ SetStep("running")
    /\ approvals' = [approvals EXCEPT ![worker.run][worker.ord] =
           [status |-> "pending", version |-> runs[worker.run].version, overdue |-> FALSE]]
    /\ Answer("awaiting-approval")
    /\ DurableElsewhere

\* resolveWorkflowStep rebinds the plan to current versions, then startWorkflowStepRun.
StartAttempt ==
    /\ AtStep("query") /\ worker.ctx = "live"
    /\ SetStep("running")
    /\ GoOn("executing", worker.verdict)
    /\ UNCHANGED approvals /\ DurableElsewhere

\* recordUnresolvedWorkflowStep: the context has ended, or the first attempt does not resolve.
RecordUnresolved ==
    /\ AtStep("query")
    /\ worker.ctx # "live" \/ worker.att = 1
    /\ SetStep("running")
    /\ GoOn("recording", IF worker.ctx = "live" THEN "failed" ELSE worker.ctx)
    /\ UNCHANGED approvals /\ DurableElsewhere

FinishRecord ==
    /\ Executing("recording")
    /\ SetStep(worker.verdict)
    /\ GoOn("closing", worker.verdict)
    /\ UNCHANGED approvals /\ DurableElsewhere

\* The query ran, and finishWorkflowStepRun wrote its checkpoint.
StepSucceeds ==
    /\ Executing("executing") /\ "ok" \in Outcomes
    /\ SetStep("succeeded")
    /\ worker' = [worker EXCEPT !.phase = "loop", !.ord = @ + 1, !.att = 1]
    /\ UNCHANGED <<approvals, reply>> /\ DurableElsewhere

\* The query failed, or was stopped by its context: the attempt is closed first.
StepFails ==
    /\ Executing("executing") /\ "fail" \in Outcomes
    /\ SetStep(IF worker.ctx = "live" THEN "failed" ELSE worker.ctx)
    /\ GoOn("retrying", worker.verdict)
    /\ UNCHANGED approvals /\ DurableElsewhere

\* Mutant: the error is returned and the run is not closed.
ReturnAfterFailure ==
    /\ Executing("retrying")
    /\ IF worker.ctx = "live" /\ worker.att < worker.plan[worker.ord].attempts
       THEN worker' = [worker EXCEPT !.phase = "loop", !.att = @ + 1] /\ UNCHANGED reply
       ELSE Answer("error")
    /\ UNCHANGED <<runs, approvals>> /\ DurableElsewhere
\* Mutant: off by one in the attempts that are left.
RetryOnceMore ==
    /\ Executing("retrying")
    /\ IF worker.ctx = "live" /\ worker.att <= worker.plan[worker.ord].attempts
       THEN worker' = [worker EXCEPT !.phase = "loop", !.att = @ + 1] /\ UNCHANGED reply
       ELSE GoOn("closing", IF worker.ctx = "live" THEN "failed" ELSE worker.ctx)
    /\ UNCHANGED <<runs, approvals>> /\ DurableElsewhere

\* Then the context is looked at again, and the run goes on if an attempt is left.
RetryOrClose ==
    /\ Executing("retrying")
    /\ IF worker.ctx = "live" /\ worker.att < worker.plan[worker.ord].attempts
       THEN worker' = [worker EXCEPT !.phase = "loop", !.att = @ + 1] /\ UNCHANGED reply
       ELSE GoOn("closing", IF worker.ctx = "live" THEN "failed" ELSE worker.ctx)
    /\ UNCHANGED <<runs, approvals>> /\ DurableElsewhere

\* The encoded result exceeds maximumWorkflowJSONBytes: the handler returns an error
\* without closing the attempt or the run.
ResultOverBudget ==
    /\ Executing("executing") /\ "oversize" \in Outcomes
    /\ Answer("error")
    /\ UNCHANGED <<runs, approvals>> /\ DurableElsewhere

\* finishWorkflowRun, after a failure or after the last step.
FinishRun ==
    LET done    == worker.phase = "loop" /\ worker.ord > Len(worker.plan)
        verdict == IF done THEN "succeeded" ELSE worker.verdict IN
    /\ up /\ (done \/ worker.phase = "closing")
    /\ runs[worker.run].status = "running"
    /\ runs' = [runs EXCEPT ![worker.run].status = verdict]
    /\ Answer(verdict)
    /\ UNCHANGED approvals /\ DurableElsewhere

\* The request is cancelled, or the run's own deadline passes ("failed").
Interrupt(how) ==
    /\ up /\ worker.phase # "idle" /\ worker.ctx = "live"
    /\ how = "failed" => worker.phase # "approved"
    /\ worker' = [worker EXCEPT !.ctx = how]
    /\ UNCHANGED <<tables, now, up, reply>>

-----------------------------------------------------------------------------
(* Human approvals.                                                        *)

OverdueApprovals == {p \in RunIds \X Ordinals : LET a == approvals[p[1]][p[2]] IN
                                                a.status = "pending" /\ a.overdue}

\* Mutant: the checkpoint of the review is left running.
ClosedRunsOnly(S) ==
    [r \in RunIds |->
        IF ~\E o \in Ordinals : <<r, o>> \in S THEN runs[r]
        ELSE [runs[r] EXCEPT !.status = IF @ = "running" THEN "failed" ELSE @]]
\* terminalWorkflowApproval for every <<run, ordinal>> of S: approval, step and run.
ClosedApprovals(S, status, table) ==
    [r \in RunIds |-> [o \in Ordinals |->
        IF <<r, o>> \in S THEN [table[r][o] EXCEPT !.status = status] ELSE table[r][o]]]
ClosedRuns(S) ==
    [r \in RunIds |->
        IF ~\E o \in Ordinals : <<r, o>> \in S THEN runs[r]
        ELSE [runs[r] EXCEPT
            !.status = IF @ = "running" THEN "failed" ELSE @,
            !.steps = [p \in StepRows |-> IF <<r, p[1]>> \in S /\ @[p] = "running"
                                          THEN "failed" ELSE @[p]]]]

\* expireWorkflowApprovals, which listing and deciding run first, commits one approval at
\* a time: an error or a crash leaves the others overdue.
ExpireApprovals(S) ==
    /\ Serving
    /\ S # {}
    /\ approvals' = ClosedApprovals(S, "expired", approvals)
    /\ runs' = ClosedRuns(S)
    /\ UNCHANGED <<defs, targets, events, now, up, worker, reply>>

\* Mutant: the version of the definition is not compared.
StillActive(r, o) == defs[r[1]].status = "active"
\* The definition a decision is checked against is the one the approval was bound to.
StillBound(r, o) == /\ defs[r[1]].status = "active"
                    /\ defs[r[1]].version = approvals[r][o].version

\* DecideWorkflowApproval.  Overdue approvals expire first.  A definition that changed
\* cancels the approval, one that was deleted leaves it as it is, a rejection closes it.
CloseDecision(r, o, decision) ==
    LET status == IF StillBound(r, o) THEN "rejected" ELSE "cancelled" IN
    /\ Serving
    /\ approvals[r][o].status = "pending" /\ <<r, o>> \notin OverdueApprovals
    /\ defs[r[1]].status = "active" /\ (StillBound(r, o) => decision = "rejected")
    /\ approvals' = ClosedApprovals({<<r, o>>}, status,
                        ClosedApprovals(OverdueApprovals, "expired", approvals))
    /\ runs' = ClosedRuns({<<r, o>>} \cup OverdueApprovals)
    /\ UNCHANGED <<defs, targets, events, now, up, worker, reply>>

\* approveWorkflowApproval commits the decision and the step; the handler goes on.
Approve(r, o) ==
    /\ Serving
    /\ approvals[r][o].status = "pending" /\ <<r, o>> \notin OverdueApprovals
    /\ StillBound(r, o)
    /\ approvals' = ClosedApprovals({<<r, o>>}, "approved",
                        ClosedApprovals(OverdueApprovals, "expired", approvals))
    /\ runs' = [ClosedRuns(OverdueApprovals) EXCEPT ![r].steps =
           [p \in StepRows |-> IF p[1] = o /\ @[p] = "running" THEN "succeeded" ELSE @[p]]]
    /\ worker' = [Idle EXCEPT !.phase = "approved", !.run = r, !.plan = defs[r[1]].plan]
    /\ UNCHANGED <<defs, targets, events, now, up, reply>>

\* The run is read back on the request's own context, then executed from its first
\* ordinal; a context cancelled in between ends the handler there.
Resume ==
    /\ Executing("approved")
    /\ IF worker.ctx = "live" THEN GoOn("loop", worker.verdict) ELSE Answer("error")
    /\ UNCHANGED <<runs, approvals>> /\ DurableElsewhere

-----------------------------------------------------------------------------
(* Time, crashes and recovery.                                             *)

Tick == /\ now < MaxTime /\ now' = now + 1
        /\ UNCHANGED <<tables, up, worker, reply>>

\* The clock passes expires_at.
BecomeOverdue(r, o) ==
    /\ approvals[r][o].status = "pending" /\ ~approvals[r][o].overdue
    /\ approvals' = [approvals EXCEPT ![r][o].overdue = TRUE]
    /\ UNCHANGED <<defs, targets, events, runs, now, up, worker, reply>>

\* The process dies; what was committed stays.
Crash == /\ up /\ up' = FALSE /\ worker' = Idle /\ reply' = "none"
         /\ UNCHANGED <<tables, now>>

\* Mutant: a run that was interrupted is left as it is.
RecoveredNothing(r) == runs[r]
\* Mutant: the status of the run is not looked at.
RecoveredFinished(r) ==
    [runs[r] EXCEPT !.status = IF @ # "absent" /\ PendingApprovals(r) = {} THEN "failed" ELSE @]
\* Mutant: recovery closes a run that waits for a person too.
RecoveredAll(r) ==
    [runs[r] EXCEPT !.status = IF @ = "running" THEN "failed" ELSE @,
                    !.steps = [p \in StepRows |-> IF @[p] = "running" THEN "failed" ELSE @[p]]]

\* recoverInterruptedWorkflowRuns, in openLocalDatabase.
Recovered(r) ==
    [runs[r] EXCEPT
        !.status = IF @ = "running" /\ PendingApprovals(r) = {} THEN "failed" ELSE @,
        !.steps = [p \in StepRows |->
            IF @[p] = "running" /\ p[1] \notin PendingApprovals(r) THEN "failed" ELSE @[p]]]
Restart == /\ ~up /\ up' = TRUE
           /\ runs' = [r \in RunIds |-> Recovered(r)]
           /\ UNCHANGED <<defs, targets, events, approvals, now, worker, reply>>

-----------------------------------------------------------------------------
\* The steps the worker goroutine takes by itself.
Execute == \/ SkipSucceeded \/ PauseForApproval \/ StartAttempt \/ RecordUnresolved
           \/ FinishRecord \/ StepSucceeds \/ StepFails \/ RetryOrClose
           \/ ResultOverBudget \/ FinishRun \/ Resume

\* What a person does in the desktop application.
UserRequest ==
    \/ \E w \in Workflows : \/ \E p \in Plans, t \in Triggers : SaveWorkflow(w, p, t)
                            \/ DeleteWorkflow(w)
                            \/ \E k \in ManualKeys : RunWorkflow(w, k, "other")
    \/ \E t \in Targets, s \in Signatures : \/ SaveGroup(t, s)
                                            \/ \E G \in SUBSET Groups : ActivateVersion(t, G, s)
    \/ \E gone, shrunk \in SUBSET Targets, s \in Signatures : RemoveTargets(gone, shrunk, s)
    \/ \E t \in Archivable : ArchiveThread(t) \/ DeleteThread(t)
    \/ \E S \in SUBSET OverdueApprovals : ExpireApprovals(S)
    \/ \E r \in RunIds, o \in Ordinals : \/ Approve(r, o)
                                         \/ \E d \in {"approved", "rejected"} :
                                                CloseDecision(r, o, d)

Environment ==
    \/ Tick
    \/ \E r \in RunIds, o \in Ordinals : BecomeOverdue(r, o)
    \/ \E how \in Interrupts : Interrupt(how)

\* The requests of the trigger scheduler, in any order and with any legal input; nobody
\* in this module hears the answers.
TriggerRequest ==
    \/ ClaimDue
    \/ \E e \in EventIds : \/ /\ events[e].status # "absent"
                              /\ RunWorkflow(events[e].workflow, e, "other")
                           \/ \E s \in TerminalStatus, k \in Keys \cup {None} :
                                  FinishTrigger(e, s, k)

Next == Execute \/ UserRequest \/ Environment \/ TriggerRequest \/ Crash \/ Restart

Spec == Init /\ [][Next]_vars

-----------------------------------------------------------------------------
(* What the person is promised of runs (RunPromise).                       *)

\* How far a run is, from its row and the approvals it asks for, whatever the handler
\* inside it holds.
StageOf(row, asked) ==
    LET waiting == {o \in Ordinals : asked[o].status = "pending"} IN
    IF row.status = "absent" THEN "new"
    ELSE IF row.status # "running" THEN row.status
    ELSE IF \E o \in waiting : asked[o].overdue THEN "overdue"
    ELSE IF waiting # {} THEN "asked"
    ELSE IF \E p \in StepRows : row.steps[p] = "running" THEN "trying" ELSE "between"

DoneOf(row)  == {o \in Ordinals : \E a \in Attempts : row.steps[<<o, a>>] = "succeeded"}
BegunOf(row) == {p \in StepRows : row.steps[p] # "absent"}

Book  == [w \in Workflows |-> [active |-> defs[w].status = "active", version |-> defs[w].version,
                               plan |-> defs[w].plan]]
LifeOf(row, asked) == [stage |-> StageOf(row, asked), version |-> row.version, plan |-> row.plan,
                       done |-> DoneOf(row), begun |-> BegunOf(row)]
Lives == [r \in RunIds |-> LifeOf(runs[r], approvals[r])]

Promise == INSTANCE RunPromise WITH book <- Book, life <- Lives

\* Runs, checkpoints, approvals and handlers keep the promise, through every cancellation,
\* deadline, edit, crash and recovery, and although a resumed run is gone through again.
KeepsRunPromise == Promise!Spec

-----------------------------------------------------------------------------
(* Properties.                                                             *)

\* What a backup validator demands of the audit, and what a reviewer relies on: an
\* approval that waits belongs to a run and a checkpoint that wait with it, an approved
\* one to a checkpoint that succeeded, and a rejected, expired or cancelled one to a run
\* that failed.  Decisions, expiry, crashes and the recovery at start all write these
\* three tables.
ApprovalEvidence ==
    \A r \in RunIds, o \in Ordinals :
        LET a == approvals[r][o]
            step == runs[r].steps[<<o, 1>>] IN
        /\ a.status # "absent" => /\ a.version = runs[r].version
                                  /\ o <= Len(runs[r].plan)
                                  /\ runs[r].plan[o].kind = "human-approval"
        /\ a.status = "pending"  => runs[r].status = "running" /\ step = "running"
        /\ a.status = "approved" => step = "succeeded"
        /\ a.status \in ClosedApproval => runs[r].status = "failed" /\ step = "failed"

\* Checkpoints are written in the order of the plan, whatever interrupted the run: no
\* step starts before the ones ahead of it succeeded, no attempt before the last one
\* ended badly, and a run succeeds only when each of its steps has.
CheckpointsInOrder ==
    \A r \in RunIds :
        /\ \A o \in Ordinals, a \in Attempts : runs[r].steps[<<o, a>>] # "absent" =>
               /\ o <= Len(runs[r].plan)
               /\ \A q \in 1..(o - 1) : \E b \in Attempts :
                       runs[r].steps[<<q, b>>] = "succeeded"
               /\ a > 1 => runs[r].steps[<<o, a - 1>>] \in {"failed", "cancelled"}
        /\ runs[r].status = "succeeded" => \A o \in 1..Len(runs[r].plan) :
               \E b \in Attempts : runs[r].steps[<<o, b>>] = "succeeded"

\* A person approves the plan that runs: the handler that goes on after an approval
\* holds the plan the run started with, and no step behind a review has a checkpoint
\* unless that review was approved under the run's own version.
ResumesReviewedPlan ==
    /\ worker.phase # "idle" => worker.plan = runs[worker.run].plan
    /\ \A r \in RunIds, p \in StepRows : runs[r].steps[p] # "absent" =>
           \A o \in 1..(p[1] - 1) : runs[r].plan[o].kind = "human-approval" =>
               /\ approvals[r][o].status = "approved"
               /\ approvals[r][o].version = runs[r].version

\* A run that is not finished is one the worker goroutine is inside, or one that waits
\* for a person: nothing else will ever move it until the next start of the process.
RunsAreOwned ==
    \A r \in RunIds : runs[r].status = "running" /\ up =>
        worker.run = r \/ PendingApprovals(r) # {}

\* The audit is append-only: no handler, recovery or late request rewrites a run, its
\* checkpoints, an approval or a trigger event that has come to its end.
TerminalIsFinal ==
    [][/\ \A r \in RunIds : runs[r].status \in TerminalStatus => runs'[r] = runs[r]
       /\ \A r \in RunIds, o \in Ordinals :
             approvals[r][o].status \in ClosedApproval \cup {"approved"} =>
                 approvals'[r][o] = approvals[r][o]
       /\ \A e \in EventIds : events[e].status \in TerminalStatus =>
             events'[e] = events[e]]_vars

\* A queued event is always one that may still run: its workflow is active and has the
\* version, and the trigger, it was queued under.  A finished one agrees with the run
\* it names.
TriggerEvidence ==
    \A e \in EventIds :
        LET v == events[e] IN
        /\ v.status = "pending" =>
               /\ defs[v.workflow].status = "active"
               /\ defs[v.workflow].version = v.version /\ defs[v.workflow].trigger = v.kind
        /\ v.status = "succeeded" => v.run # None
        /\ v.run # None => runs[<<v.workflow, v.run>>].status = v.status

\* An active workflow always has the target and the conversation thread it needs; a
\* dataset that goes takes the workflows of its groups with it.
NoOrphanedWorkflow ==
    \A w \in Workflows : defs[w].status = "active" =>
        /\ targets[TargetOf[w]].exists /\ targets[TargetOf[w]].thread # "gone"
        /\ defs[w].bound

\* A person sees the result of a trigger once: an event that succeeded or failed has
\* exactly one entry in its conversation, a pending one has none, and none has two.
ShownOnce ==
    \A e \in EventIds : events[e].status # "absent" =>
        LET t == targets[TargetOf[events[e].workflow]]
            shown == Cardinality({i \in DOMAIN t.entries : t.entries[i] = e}) IN
        /\ shown <= 1
        /\ events[e].status \in {"succeeded", "failed"} => t.thread = "gone" \/ shown = 1
        /\ events[e].status = "pending" => shown = 0

\* After sleep or downtime a schedule catches up with one run: a claim that moves a due
\* time moves it past the present, and exactly one event stands for the time it leaves.
OneCatchUp ==
    [][\A w \in Workflows :
         LET due == defs[w].nextDue
             moved == /\ defs[w].version = defs'[w].version
                      /\ defs[w].trigger \in Scheduled /\ due # defs'[w].nextDue
             madeFor(e) == /\ events'[e].workflow = w /\ events'[e].kind = defs[w].trigger
                           /\ events'[e].key = due IN
         moved => /\ defs'[w].nextDue > now
                  /\ Cardinality({e \in EventIds : madeFor(e)}) = 1
                  /\ \E e \in EventIds : events[e].status = "absent" /\ madeFor(e)]_vars
=============================================================================
