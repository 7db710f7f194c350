--------------------------- MODULE MCWorkflowRuns ---------------------------
(***************************************************************************)
(* Runs, checkpoints and approvals of WorkflowEngine on a small instance:  *)
(* a group over a dataset, one workflow on the group, two manual runs of   *)
(* a retried query or of a review between two queries.                     *)
(***************************************************************************)
EXTENDS WorkflowBackup, TLC

CONSTANTS dataset, group, flow, m1, m2, none

Query(n) == [kind |-> "query", attempts |-> n]
Review   == [kind |-> "human-approval", attempts |-> 1]

MCTargetOf == flow :> group
MCPlans    == {<<Query(2)>>, <<Query(1), Review, Query(1)>>}
Symmetry   == Permutations({m1, m2})
=============================================================================
