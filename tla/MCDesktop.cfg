CONSTANTS
  p1 = p1
  p2 = p2
  p3 = p3
  a1 = a1
  a2 = a2
  a3 = a3
  None = none
  Proposals = {p1, p2, p3}
  Attempts = {a1, a2, a3}
  Scenes <- MCScenes
  Capacity = 1
  Lifetime = 1
  MaxTurns = 3
  MaxTools = 1
  Nobody = nobody
  Tenants = {"t", "u"}
  Shared = {"t"}
  Objects = {"w"}
  Contents = {"c1"}
  Flushers = {"scheduler", "person"}
  MaxAttempts = 2
  MaxVersions = 2
  MaxOperations = 2
  PageLimit = 1
  MaxQueued = 2
  Runs = {"r1"}
  Destinations = {"d"}
  Posters = {"scheduler", "handler"}
  MaxPosts = 3
  MaxJobs = 2
  Providers = {"p1", "p2"}
  Connections = {"c1"}
  Audits = {"a1"}
  Tokens = {"t1"}
  Files = {"sales"}
  MaxStamps = 2
  Watchers = {"w1"}
  Handlers = {"h1", "h2"}
  MaxListed = 1
  MaxArrivals = 2
  MaxTokens = 1
  DataObjects = {"a", "b"}
  Operations = {"o1", "o2"}
  MaxDataVersions = 2
  Tables = {1, 2, 3}
  Derived = {2, 3}
  ParentsOf <- MCParentsOf
  Reviews <- MCReviews
  TaskAttempts = 2
  MaxActivations = 2
  MaxRestores = 2
SPECIFICATION DesktopSpec
INVARIANTS DesktopTypeOK SentAsReviewed StrictStops SentIsOnRecord OutcomeIsTrue PullMissesNothing GivesUpLast FilesAgree RestoreIsWhole  ViewIsOfSelection NothingForgotten DatabaseInUseKept
PROPERTIES KeepsPromise
CHECK_DEADLOCK FALSE
