CONSTANTS
  Fibers = {f1, f2}
  WaitQueues = {}
  MaxWork = 1
  Fds = {d1, d2}
  Backends = {"epoll", "select"}
  MaxEvents = 1
  Usages = {"own", "shared"}
  Ops = {"in", "out"}
  NULL = NULL
SPECIFICATION Spec
CHECK_DEADLOCK FALSE
SYMMETRY Symmetry
INVARIANTS RegistrationValid WaitIsWatched GotWhatItWanted
PROPERTIES NoSpuriousError ImplementsScheduler
