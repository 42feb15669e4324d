CONSTANTS
  Fibers = {f1, f2, f3}
  Mutexes = {m1}
  Conds = {c1}
  WaitQueues = {m1, c1}
  NULL = NULL
  MaxWork = 1
SPECIFICATION FairSpec
CHECK_DEADLOCK FALSE
PROPERTIES IoServed WorkEnds LockGranted WokenReturns
