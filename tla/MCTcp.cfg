CONSTANTS
  Fibers = {f1, f2, f3}
  WaitQueues = {}
  MaxWork = 1
  Servers = {s1}
  MaxBacklog = 2
  MaxOrphans = 1
  NULL = NULL
SPECIFICATION FairSpec
CHECK_DEADLOCK FALSE
INVARIANT ConnectionsCounted
PROPERTIES StopTakesEffect
