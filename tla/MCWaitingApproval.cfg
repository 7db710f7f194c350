CONSTANTS
  dataset = dataset
  group = group
  flow = flow
  m1 = m1
  m2 = m2
  none = none
  Workflows = {flow}
  Targets = {dataset, group}
  Groups = {group}
  TargetOf <- MCTargetOf
  Archivable = {group}
  Signatures = {1, 2}
  EventIds = {}
  ManualKeys = {m1, m2}
  Plans <- MCPlans
  Triggers = {"manual"}
  Every = 1
  Outcomes = {"ok", "fail"}
  Interrupts = {}
  MaxSteps = 3
  MaxAttempts = 2
  RunLimit = 2
  EventLimit = 1
  EntryLimit = 1
  MaxVersion = 2
  MaxTime = 0
  None = none
SPECIFICATION Spec
INVARIANT WaitingApprovalRestores
SYMMETRY Symmetry
