CONSTANTS
  Fibers = {f1, f2}
  WaitQueues = {}
  MaxWork = 1
  Fds = {d1}
  Backends = {"epoll"}
  MaxEvents = 1
  Usages = {"shared"}
  Ops = {"in"}
  NULL = NULL
SPECIFICATION FairSpec
CHECK_DEADLOCK FALSE
PROPERTY CloseInterrupts
