CONSTANTS
  Fibers = {f1, f2}
  WaitQueues = {}
  MaxWork = 1
  Fds = {d1, d2}
  Backends = {"epoll", "select"}
  MaxEvents = 1
  Usages = {"own"}
  Ops = {"in"}
  NULL = NULL
  Signals = {INT, TERM, KILL}
  Uncatchable = {KILL}
SPECIFICATION SignalFairSpec
CHECK_DEADLOCK FALSE
INVARIANTS WokenBySignal HandlerSound
PROPERTIES SignalWakes PipesAreServed
