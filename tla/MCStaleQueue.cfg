CONSTANTS
  dataset = dataset
  flow = flow
  none = none
  e1 = e1
  e2 = e2
  Workflows = {flow}
  Targets = {dataset}
  Groups = {}
  TargetOf <- MCTargetOf
  Archivable = {}
  Signatures = {1}
  EventIds = {e1, e2}
  ManualKeys = {}
  Plans <- MCPlans
  Triggers = {"interval"}
  Every = 1
  Outcomes = {"ok", "fail"}
  Interrupts = {"failed"}
  MaxSteps = 2
  MaxAttempts = 1
  RunLimit = 2
  EventLimit = 2
  EntryLimit = 2
  MaxVersion = 2
  MaxTime = 2
  PageLimit = 2
  MaxCrashes = 1
  None = none
SPECIFICATION SchedulerSpec
PROPERTY CancelledTriggerNeverRuns
