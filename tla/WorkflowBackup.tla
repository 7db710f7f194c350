--------------------------- MODULE WorkflowBackup ---------------------------
(***************************************************************************)
(* What Restore accepts of the workflow tables.  CreateBackup copies the   *)
(* database as it is (VACUUM INTO) and checks nothing; the validators of   *)
(* backup_workflow_validation.go and backup_workflow_approval_validation.go *)
(* run only when the archive comes back.  They are state predicates here,  *)
(* one operator for each, over the tables of WorkflowEngine.               *)
(***************************************************************************)
EXTENDS WorkflowEngine

\* validateBackupWorkflowTriggerState
TriggerStateAccepted(d) ==
    /\ d.trigger \in Scheduled => d.nextDue # None /\ d.signature = None
    /\ d.trigger = "manual" => d.nextDue = None /\ d.signature = None
    /\ d.trigger = "dataset-version" => d.nextDue = None /\ d.signature # None

\* validateBackupWorkflows.  Every row is scanned, the deleted ones too, and thread_id is
\* scanned into a string: NULL is an error.
DefinitionsAccepted ==
    \A w \in Workflows : defs[w].status # "absent" =>
        /\ defs[w].bound
        /\ TriggerStateAccepted(defs[w])
        /\ defs[w].status = "active" => targets[TargetOf[w]].exists

\* validateBackupWorkflowRuns and validateBackupWorkflowSteps: nothing is under way.
RunsAccepted ==
    /\ \A w \in Workflows : Cardinality(RunsOf(w)) <= RunLimit
    /\ \A r \in RunIds : runs[r].status # "absent" =>
          /\ runs[r].status \in TerminalStatus
          /\ runs[r].version \in 1..defs[r[1]].version
          /\ \A p \in StepRows : runs[r].steps[p] # "running"

\* validateBackupWorkflowTriggers
EventsAccepted ==
    /\ \A w \in Workflows : Cardinality(EventsOf(w)) <= EventLimit
    /\ \A e \in EventIds : events[e].status # "absent" =>
          LET d == defs[events[e].workflow] IN
          /\ events[e].version <= d.version
          /\ events[e].status = "pending" => events[e].version = d.version /\ events[e].run = None
          /\ events[e].status = "succeeded" => events[e].run # None

\* validateBackupWorkflowApprovals: the join with workflow_step_runs makes a row of each
\* attempt of the approval's ordinal.
ApprovalsAccepted ==
    \A r \in RunIds, p \in StepRows :
        LET a == approvals[r][p[1]] IN
        a.status # "absent" /\ runs[r].steps[p] # "absent" =>
            /\ a.version = runs[r].version
            /\ runs[r].plan[p[1]].kind = "human-approval"
            /\ a.status = "pending" => runs[r].status = "running" /\ runs[r].steps[p] = "running"
            /\ a.status = "approved" => runs[r].steps[p] = "succeeded"
            /\ a.status \in ClosedApproval => runs[r].status = "failed" /\ runs[r].steps[p] = "failed"

BackupAccepted ==
    DefinitionsAccepted /\ RunsAccepted /\ EventsAccepted /\ ApprovalsAccepted

-----------------------------------------------------------------------------
\* A backup is taken by a request, so no handler is inside the tables.  If in addition
\* nobody is being waited for, no run was stranded and no conversation thread was lost,
\* what the engine wrote is what the validators accept, whatever happened before.
QuietBackupRestores ==
    /\ Serving /\ RunsAreOwned
    /\ \A r \in RunIds : PendingApprovals(r) = {}
    /\ \A w \in Workflows : defs[w].status # "absent" => defs[w].bound
    => BackupAccepted

\* "Data backup and restore include definitions, runs, checkpoints, approval bindings,
\* decisions, and expiry evidence": a backup taken while an approval waits can be restored.
WaitingApprovalRestores ==
    Serving /\ (\A w \in Workflows : defs[w].status # "absent" => defs[w].bound) => RunsAccepted

\* "Permanently deleting a dataset retires workflows [...] Data backup and restore include
\* definitions": a backup taken after a target was deleted can be restored.
RetiredWorkflowRestores == Serving => DefinitionsAccepted
=============================================================================
