CONSTANTS
  c1 = c1
  c2 = c2
  NoCall = none
  Calls = {c1, c2}
  Ops = {"query", "import"}
  Steps <- MCSteps
  JobLimit = 2
  mcp = mcp
  first = first
  second = second
  None = nothing
  Slots = {mcp, first, second}
  Ids = {"x"}
  Methods <- MCMethods
  Kinds = {"tools", "prompts"}
  Cursors = {"a", "b"}
  PageSizes = {1, 2}
  MaxPages = 3
  MaxItems = 3
  MaxRedirects = 1
  ReviewFlows = {"inspection", "resource", "prompt", "tool", "promptModel", "toolModel", "execution", "explanation", "agent", "rows", "clean", "reconcile", "knowledge"}
  MaxRequests = 4
SPECIFICATION SidecarsSpec
INVARIANTS RunningIsCancellable ResolvedIsCommitted CommitsInOrder TruncationIsTold GuardedReviews
PROPERTIES SettlesOnce EveryRequestEnds EveryRequestAnswered 
CHECK_DEADLOCK FALSE
