------------------------- MODULE MCWorkflowTriggers -------------------------
(***************************************************************************)
(* The trigger queue of WorkflowEngine on a small instance: one group with *)
(* a workflow on it, two trigger events and a one-step plan.               *)
(***************************************************************************)
EXTENDS WorkflowBackup, TLC

CONSTANTS group, flow, e1, e2, none

MCTargetOf == flow :> group
MCPlans    == {<<[kind |-> "query", attempts |-> 1]>>}
Symmetry   == Permutations({e1, e2})
=============================================================================
