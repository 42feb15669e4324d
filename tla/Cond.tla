-------------------------------- MODULE Cond --------------------------------
(***************************************************************************)
(* dfk_cond_t (cond.c), and the whole of fibers, mutexes and condition     *)
(* variables composed: Next lets any running fiber make any call.          *)
(*                                                                         *)
(* `ahead' is a history variable: the fibers that were already inside      *)
(* dfk_cond_wait, with the same condition variable and the same mutex,     *)
(* when a fiber called it, and that have not returned since.               *)
(***************************************************************************)
EXTENDS Mutex

CONSTANT Conds

ASSUME CondAssumption ==
  /\ WaitQueues = Mutexes \cup Conds
  /\ Mutexes \cap Conds = {} /\ NULL \notin Conds

VARIABLES
  waiting,   \* condition variable of the dfk_cond_wait a fiber is in, or NULL
  ahead

condVars == <<waiting, ahead>>
vars == <<schedVars, mutexVars, condVars>>

Init ==
  /\ SchedInit
  /\ MutexInit
  /\ waiting = [f \in Fibers |-> NULL]
  /\ ahead = [f \in Fibers |-> {}]

InWait(c, m) == {g \in Fibers : waiting[g] = c /\ target[g] = m}

\* f returns to its caller, from dfk_cond_wait if it was in it.
WaitLeft(f) ==
  /\ waiting' = [waiting EXCEPT ![f] = NULL]
  /\ ahead' = [g \in Fibers |-> ahead[g] \ {f}]

-----------------------------------------------------------------------------
\* dfk_cond_wait up to its dfk__suspend: release the mutex as dfk_mutex_unlock
\* does, then queue up on the condition variable.
CondWait(f, c, m) ==
  /\ InUserCode(f) /\ m \in held[f]
  /\ owner' = [owner EXCEPT ![m] = NextOwner(m)]
  /\ list' = Put(Released(m), c, f)
  /\ held' = [held EXCEPT ![f] = @ \ {m}]
  /\ target' = [target EXCEPT ![f] = m]
  /\ pc' = [pc EXCEPT ![f] = "wait"]
  /\ waiting' = [waiting EXCEPT ![f] = c]
  /\ ahead' = [ahead EXCEPT ![f] = InWait(c, m)]
  /\ YieldToScheduler
  /\ UNCHANGED <<phase, result, works, at, iowait, alive, sys>>

\* The woken fiber calls dfk_mutex_lock, which returns at once ...
CondWaitReturn(f) ==
  /\ Running(f) /\ pc[f] = "wait"
  /\ LockAcquire(f, target[f])
  /\ WaitLeft(f)
  /\ UNCHANGED <<phase, result, works, at, iowait, alive, sys>>

\* ... or makes the fiber wait once more, now for the mutex.
CondWaitRelock(f) ==
  /\ Running(f) /\ pc[f] = "wait"
  /\ LockBlock(f, target[f])
  /\ UNCHANGED <<phase, result, works, at, iowait, alive, sys, condVars>>

\* Mutant: the signalled fiber is popped and not resumed.
CondSignalLost(f, c) ==
  /\ InUserCode(f) /\ list[c] # <<>>
  /\ list' = PopFront(list, c)
  /\ UNCHANGED <<phase, result, works, at, current, iowait, alive, sys, pc,
                 mutexVars, condVars>>

CondSignal(f, c) ==
  /\ InUserCode(f) /\ list[c] # <<>>
  /\ list' = WakeFront(list, c)
  /\ UNCHANGED <<phase, result, works, at, current, iowait, alive, sys, pc,
                 mutexVars, condVars>>

\* dfk_cond_broadcast resumes the waiters one by one, front first.
CondBroadcast(f, c) ==
  /\ InUserCode(f) /\ list[c] # <<>>
  /\ list' = WakeAll(list, c)
  /\ UNCHANGED <<phase, result, works, at, current, iowait, alive, sys, pc,
                 mutexVars, condVars>>

-----------------------------------------------------------------------------
SyncStep(f) ==
  \/ \E m \in Mutexes : \/ MutexLock(f, m) /\ UNCHANGED condVars
                        \/ MutexTrylock(f, m) /\ UNCHANGED condVars
                        \/ MutexUnlock(f, m) /\ UNCHANGED condVars
  \/ MutexLockReturn(f) /\ WaitLeft(f)
  \/ \E c \in Conds : \/ \E m \in Mutexes : CondWait(f, c, m)
                      \/ CondSignal(f, c)
                      \/ CondBroadcast(f, c)
  \/ CondWaitReturn(f)
  \/ CondWaitRelock(f)

Next ==
  \/ /\ \/ WorkStep
        \/ SchedulerStep
        \/ EventLoopStep
        \/ \E f \in Fibers : FiberStep(f) \/ TerminateClean(f)
     /\ UNCHANGED <<mutexVars, condVars>>
  \/ \E f \in Fibers : SyncStep(f)

Spec == Init /\ [][Next]_vars

(***************************************************************************)
(* Fairness: the coroutine that runs makes progress, and a user fiber      *)
(* sooner or later gives up control, as cooperative scheduling requires.   *)
(* A descriptor that is polled again and again becomes ready (the peer     *)
(* answers or the connection breaks).  A fiber that holds a mutex and runs *)
(* again and again eventually unlocks it or waits with it, which is the    *)
(* obligation of every user of a mutex.                                    *)
(***************************************************************************)
Fairness ==
  /\ WF_vars(SchedulerStep /\ UNCHANGED <<mutexVars, condVars>>)
  /\ WF_vars(EventLoopStep /\ UNCHANGED <<mutexVars, condVars>>)
  /\ WF_vars(EventLoopSuspend /\ UNCHANGED <<mutexVars, condVars>>)
  /\ \A f \in Fibers :
       /\ SF_vars(EventLoopResume(f) /\ UNCHANGED <<mutexVars, condVars>>)
       /\ WF_vars(IoReturn(f) /\ UNCHANGED <<mutexVars, condVars>>)
       /\ WF_vars(MutexLockReturn(f) /\ WaitLeft(f))
       /\ WF_vars(CondWaitReturn(f) \/ CondWaitRelock(f))
       /\ WF_vars(/\ Postpone(f) \/ IoSuspend(f) \/ TerminateClean(f)
                  /\ UNCHANGED <<mutexVars, condVars>>)
       /\ \A m \in Mutexes :
            SF_vars(\/ MutexUnlock(f, m) /\ UNCHANGED condVars
                    \/ \E c \in Conds : CondWait(f, c, m))

FairSpec == Spec /\ Fairness

-----------------------------------------------------------------------------
(***************************************************************************)
(* Properties.                                                             *)
(***************************************************************************)
\* Every variable has its type.
TypeOK ==
  /\ SchedTypeOK
  /\ MutexTypeOK
  /\ waiting \in [Fibers -> Conds \cup {NULL}]
  /\ ahead \in [Fibers -> SUBSET Fibers]

\* "Wait-invoke ordering is guaranteed" (cond.h): of two fibers that wait on
\* the same condition variable with the same mutex, the one that called
\* dfk_cond_wait first returns from it first, whatever mixture of signals,
\* broadcasts and lock contention happens in between.
CondFifo ==
  [][\A f \in Fibers :
       waiting[f] # NULL /\ waiting'[f] = NULL => ahead[f] = {}]_vars

\* Every blocked dfk_mutex_lock returns, provided the owner is not kept from
\* its I/O (KeepsPolling) and callers do not deadlock: the runs use one mutex.
LockGranted ==
  KeepsPolling =>
    \A f \in Fibers, m \in Mutexes : f \in Waiters(m) ~> m \in held[f]

\* Every waiter that was signalled gets the mutex back and returns.
WokenReturns ==
  KeepsPolling =>
    \A f \in Fibers :
      (pc[f] = "wait" /\ \A c \in Conds : f \notin Members(list[c]))
        ~> pc[f] = "user"

(***************************************************************************)
(* The inductive invariant of Spec.                                        *)
(***************************************************************************)
\* A fiber in a list or in no list is at the program point that put it there.
WhereBlocked ==
  \A f \in Fibers :
    /\ \A m \in Mutexes : f \in Members(list[m]) => pc[f] = "lock" /\ target[f] = m
    /\ \A c \in Conds : f \in Members(list[c]) => pc[f] = "wait" /\ waiting[f] = c
    /\ f \in Members(list["terminated"]) \/ f \notin alive =>
         pc[f] = "user" /\ held[f] = {}
    /\ pc[f] \in {"lock", "wait"} => target[f] \in Mutexes
    /\ pc[f] # "parked"

\* Hook exclusivity, mutual exclusion and the facts they rest on.
IInv ==
  /\ TypeOK
  /\ HookExclusive
  /\ NoDanglingFiber
  /\ SchedulerPoint
  /\ WhereBlocked
  /\ NoLostFiber
  /\ IowaitExact
  /\ OwnerAgrees
  /\ NoWaitOnFree

\* f is in the queue of its condition variable: nobody woke it yet.
Asleep(f) == waiting[f] # NULL /\ f \in Members(list[waiting[f]])

Precedes(q, g, f) == \E i, j \in DOMAIN q : i < j /\ q[i] = g /\ q[j] = f

\* Of two fibers that wait on the same condition variable with the same mutex, g is
\* nearer to the end of dfk_cond_wait: further on the way from the condition variable
\* over the run queue and the mutex to its hand-over, or earlier in the same queue.
NearerReturn(g, f) ==
  /\ Asleep(f) /\ Asleep(g) => Precedes(list[waiting[f]], g, f)
  /\ pc[f] = "wait" /\ ~ Asleep(f) /\ pc[g] = "wait" =>
       ~ Asleep(g) /\ (current = g \/ Precedes(RunQueue, g, f))
  /\ pc[f] = "lock" => /\ pc[g] = "lock" /\ f \in Waiters(target[f])
                       /\ g \in Waiters(target[f]) => Precedes(list[target[f]], g, f)

\* The history variable says in which order the calls will return.
WaitOrder ==
  \A f \in Fibers :
    /\ waiting[f] # NULL => pc[f] \in {"wait", "lock"}
    /\ pc[f] = "wait" => target[f] \notin held[f]
    /\ \A g \in ahead[f] :
         /\ g # f /\ waiting[f] # NULL
         /\ waiting[g] = waiting[f] /\ target[g] = target[f]
         /\ NearerReturn(g, f)

\* IInv strengthened by the order of the waiting fibers.
WaitInv == IInv /\ WaitOrder

(***************************************************************************)
(* The composed system implements the abstract monitor.  An owner that has *)
(* not returned from dfk_mutex_lock yet is still first in the entry queue. *)
(***************************************************************************)
Inside(m) == owner[m] # NULL /\ m \in held[owner[m]]

M == INSTANCE Monitor WITH
  holder <- [m \in Mutexes |-> IF Inside(m) THEN owner[m] ELSE NULL],
  entry <- [m \in Mutexes |-> IF owner[m] = NULL \/ Inside(m) THEN list[m]
                              ELSE <<owner[m]>> \o list[m]],
  asleep <- [c \in Conds |-> list[c]],
  mutexOf <- [f \in Fibers |-> IF pc[f] = "wait" THEN target[f] ELSE NULL]

\* Mutual exclusion, admission in order without barging, atomic
\* release-and-wait and no wake-up without a signal, as one specification.
ImplementsMonitor == M!MonitorSpec
=============================================================================
