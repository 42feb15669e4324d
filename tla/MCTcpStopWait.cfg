CONSTANTS
  Fibers = {f1, f2, f3}
  WaitQueues = {}
  MaxWork = 1
  Servers = {s1}
  MaxBacklog = 1
  MaxOrphans = 1
  NULL = NULL
SPECIFICATION Spec
CHECK_DEADLOCK FALSE
PROPERTY StopWaits
