CONSTANTS
  Files = {"sales"}
  MaxStamps = 2
  Watchers = {"w1", "w2"}
  Handlers = {"h1", "h2"}
  MaxListed = 2
  MaxArrivals = 2
  MaxTokens = 1
INIT ArrivalInit
NEXT ArrivalNext
INVARIANT FailedChangesNothing
CHECK_DEADLOCK FALSE
