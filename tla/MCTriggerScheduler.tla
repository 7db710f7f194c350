------------------------- MODULE MCTriggerScheduler -------------------------
(***************************************************************************)
(* TriggerScheduler on a small instance: one dataset, one workflow on it,  *)
(* two trigger events, plans of one or two steps.                          *)
(***************************************************************************)
EXTENDS TriggerScheduler

CONSTANTS dataset, flow, e1, e2, none

Query  == [kind |-> "query", attempts |-> 1]
Review == [kind |-> "human-approval", attempts |-> 1]

MCTargetOf == [w \in Workflows |-> dataset]
MCPlans    == {<<Review, Query>>, <<Query>>}
=============================================================================
