CONSTANTS
  t1 = t1
  t2 = t2
  t3 = t3
  None = none
  orders = orders
  stock = stock
  Targets = {orders, stock}
  Threads = {t1, t2, t3}
  Ops = {1, 2}
  Opened = orders
  Home <- MCHome
  Moves = 2
SPECIFICATION FairSpec
INVARIANT EvidenceInItsThread
PROPERTIES ArchivedIsFrozen BusyEnds ForeignPlanGoes
CHECK_DEADLOCK FALSE
