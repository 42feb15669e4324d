CONSTANTS
  Fibers = {f1, f2, f3, f4}
  Mutexes = {m1, m2}
  Conds = {c1}
  WaitQueues = {m1, m2, c1}
  NULL = NULL
  MaxWork = 2
SPECIFICATION Spec
SYMMETRY Symmetry
CHECK_DEADLOCK FALSE
INVARIANTS SchedulerConsistent ExitQuiescent MutexCorrect WaitInv AbandonedOnlyByDeadlock
PROPERTIES RunQueueFifo CondFifo ImplementsMonitor
