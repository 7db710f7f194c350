CONSTANTS
  group = group
  flow = flow
  none = none
  e1 = e1
  e2 = e2
  Workflows = {flow}
  Targets = {group}
  Groups = {group}
  TargetOf <- MCTargetOf
  Archivable = {group}
  Signatures = {1, 2}
  EventIds = {e1, e2}
  ManualKeys = {}
  Plans <- MCPlans
  Triggers = {"interval", "calendar", "dataset-version"}
  Every = 2
  Outcomes = {"ok", "fail"}
  Interrupts = {}
  MaxSteps = 1
  MaxAttempts = 1
  RunLimit = 1
  EventLimit = 2
  EntryLimit = 2
  MaxVersion = 2
  MaxTime = 2
  None = none
SPECIFICATION Spec
INVARIANTS TriggerEvidence ShownOnce
PROPERTY OneCatchUp
SYMMETRY Symmetry
