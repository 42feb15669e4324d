----------------------------- MODULE CondProofs -----------------------------
(***************************************************************************)
(* Proof that IInv is an invariant of Cond!Spec, for any number of fibers, *)
(* mutexes and condition variables, and of what their callers see: fibers  *)
(* run in the order in which they became ready, mutexes and condition      *)
(* variables together implement the abstract Monitor, and dfk_cond_wait    *)
(* returns in the order of the calls.  What the scheduler's own steps do   *)
(* is taken from SchedulerProofs.                                          *)
(***************************************************************************)
EXTENDS Cond, SchedulerProofs

\* Mutexes and condition variables are different wait queues, and no wait queue is
\* one of the scheduler's lists.
LEMMA QueueNames ==
  /\ "pending" \in Lists /\ "batch" \in Lists /\ "terminated" \in Lists
  /\ \A w \in WaitQueues : /\ w \in Lists /\ w # "pending"
                           /\ w # "batch" /\ w # "terminated"
  /\ \A m \in Mutexes : m \in WaitQueues /\ m \notin Conds
  /\ \A c \in Conds : c \in WaitQueues /\ c # NULL
BY ListNames, MutexAssumption, CondAssumption

\* The names of system fibers and NULL are not addresses of user fibers.
LEMMA FiberNames ==
  /\ "scheduler" \notin Fibers /\ "eventloop" \notin Fibers
  /\ NULL \notin Fibers /\ NULL \notin Mutexes
BY SystemNames, MutexAssumption

\* What the action lemmas below need of IInv.
LEMMA Facts ==
  ASSUME IInv
  PROVE  /\ SchedInv
         /\ ListsOK(list)
         /\ list \in [Lists -> Seq(Fibers)]
         /\ \A f \in Fibers : current = f \/ f \notin alive => Unlinked(list, f)
         /\ alive \subseteq Fibers
         /\ current \in Fibers => current \in alive
         /\ phase = "work" => sys = SystemFibers
         /\ \A l \in Lists : \A f \in Members(list[l]) : f \in alive /\ f # current
         /\ \A f \in Fibers : f \notin alive => pc[f] = "user" /\ [pc EXCEPT ![f] = "user"] = pc
         /\ \A f \in alive : current = f \/ pc[f] = "io" \/ Queued(f)
<1>1. SchedInv
  BY DEF IInv, TypeOK, SchedInv, SchedulerConsistent, EndedInUserCode, WhereBlocked
<1> QED BY <1>1, SchedFacts

\* Init establishes the invariant.
THEOREM InitIInv == Init => IInv
<1> SUFFICES ASSUME Init PROVE IInv
  OBVIOUS
<1> USE DEF Init, SchedInit, MutexInit
<1>1. TypeOK
  BY DEF TypeOK, SchedTypeOK, MutexTypeOK, SystemFibers
<1>2. \A l \in Lists : Members(list[l]) = {} /\ list[l] = <<>>
  BY DEF Members
<1>3. HookExclusive
  BY DEF HookExclusive, Exclusive
<1>4. NoDanglingFiber /\ SchedulerPoint /\ WhereBlocked /\ NoLostFiber
  BY <1>2, QueueNames, NoLost
     DEF NoDanglingFiber, SchedulerPoint, WhereBlocked, SystemFibers
<1>5. IowaitExact
  <2>1. IoWaiters = {}
    BY DEF IoWaiters
  <2> QED BY <2>1, FS_EmptySet DEF IowaitExact
<1>6. OwnerAgrees /\ NoWaitOnFree
  BY <1>2, QueueNames, FiberNames DEF OwnerAgrees, NoWaitOnFree, HandedOver
<1> QED BY <1>1, <1>3, <1>4, <1>5, <1>6 DEF IInv
-----------------------------------------------------------------------------
\* A step that touches no mutex keeps what concerns mutexes.
LEMMA MutexFrame ==
  ASSUME IInv, UNCHANGED mutexVars,
         \A m \in Mutexes : list'[m] = list[m],
         \A f \in Fibers : pc'[f] = "lock" <=> pc[f] = "lock"
  PROVE  OwnerAgrees' /\ NoWaitOnFree'
BY DEF IInv, OwnerAgrees, NoWaitOnFree, HandedOver, Waiters, mutexVars

\* A step of the scheduler that touches no mutex and no wait queue, and moves no
\* fiber into or out of dfk_mutex_lock or dfk_cond_wait, preserves IInv.
LEMMA SchedulerFrame ==
  ASSUME IInv, SchedInv', UNCHANGED <<mutexVars, condVars>>,
         \A w \in WaitQueues : list'[w] = list[w],
         \A f \in Fibers : pc'[f] = pc[f] \/ {pc[f], pc'[f]} \subseteq {"user", "io"},
         \A f \in Fibers :
           f \in Members(list'["terminated"]) \/ f \notin alive' => held[f] = {}
  PROVE  IInv'
<1> USE DEF mutexVars, condVars
<1>1. TypeOK'
  BY DEF IInv, TypeOK, MutexTypeOK, SchedInv
<1>2. HookExclusive' /\ NoDanglingFiber' /\ SchedulerPoint' /\ NoLostFiber' /\ IowaitExact'
  BY DEF SchedInv, SchedulerConsistent
<1>3. \A f \in Fibers : /\ pc'[f] = "lock" <=> pc[f] = "lock"
                        /\ pc'[f] = "wait" <=> pc[f] = "wait"
                        /\ pc'[f] = "parked" <=> pc[f] = "parked"
  OBVIOUS
<1>4. WhereBlocked'
  BY <1>3, QueueNames DEF IInv, WhereBlocked, SchedInv, EndedInUserCode
<1>5. OwnerAgrees' /\ NoWaitOnFree'
  BY <1>3, QueueNames, MutexFrame
<1> QED BY <1>1, <1>2, <1>4, <1>5 DEF IInv

\* IInv is preserved by dfk_work and by the scheduler's fiber.
LEMMA SchedulerSteps ==
  ASSUME IInv, WorkStep \/ SchedulerStep, UNCHANGED <<mutexVars, condVars>>
  PROVE  IInv'
<1>1. SchedInv /\ ListsOK(list) /\ list \in [Lists -> Seq(Fibers)]
  BY Facts
<1>2. SchedInv'
  BY <1>1, SchedNextInv DEF SchedNext
<1>3. \A f \in Fibers : f \in Members(list["terminated"]) \/ f \notin alive => held[f] = {}
  BY DEF IInv, WhereBlocked
<1>4. Members(<<>>) = {}
  BY DEF Members
<1>5. ASSUME NEW f \in Fibers, DfkWork(f)
      PROVE  IInv'
  <2>1. /\ \A w \in WaitQueues : list'[w] = list[w]
        /\ list'["terminated"] = <<>> /\ pc' = pc /\ alive' = alive \cup {f}
    BY <1>1, <1>5, Facts, QueueNames DEF DfkWork, Resumed, Put
  <2> QED BY <1>2, <1>3, <1>4, <2>1, SchedulerFrame
<1>6. CASE DfkWorkNoMem \/ DfkWorkNoEventLoop \/ SchedulerExit \/ SchedulerBatchDone
  <2>1. list' = list /\ pc' = pc /\ alive' = alive
    BY <1>6 DEF DfkWorkNoMem, DfkWorkNoEventLoop, SchedulerExit, SchedulerBatchDone
  <2> QED BY <1>2, <1>3, <2>1, SchedulerFrame
<1>7. CASE SchedulerCollect
  <2>1. /\ \A w \in WaitQueues : list'[w] = list[w]
        /\ list'["terminated"] = <<>> /\ pc' = pc
        /\ alive' = alive \ Members(list["terminated"])
    BY <1>1, <1>7, QueueNames DEF SchedulerCollect
  <2> QED BY <1>2, <1>3, <1>4, <2>1, SchedulerFrame
<1>8. CASE SchedulerDispatch
  <2>1. /\ \A w \in WaitQueues : list'[w] = list[w]
        /\ list'["terminated"] = list["terminated"] /\ pc' = pc /\ alive' = alive
    BY <1>1, <1>8, QueueNames DEF SchedulerDispatch, PopFront
  <2> QED BY <1>2, <1>3, <2>1, SchedulerFrame
<1> QED BY <1>5, <1>6, <1>7, <1>8 DEF WorkStep, SchedulerStep

\* IInv is preserved by the event loop and by what a fiber asks of the scheduler.
LEMMA FiberSteps ==
  ASSUME IInv, UNCHANGED <<mutexVars, condVars>>,
         EventLoopStep \/ \E f \in Fibers : FiberStep(f) \/ TerminateClean(f)
  PROVE  IInv'
<1>1. SchedInv /\ ListsOK(list) /\ list \in [Lists -> Seq(Fibers)]
  BY Facts
<1>2. SchedInv'
  BY <1>1, SchedNextInv DEF SchedNext, TerminateClean
<1>3. \A f \in Fibers : f \in Members(list["terminated"]) \/ f \notin alive => held[f] = {}
  BY DEF IInv, WhereBlocked
<1>4. pc \in [Fibers -> {"user", "io", "parked", "lock", "wait"}]
  BY DEF IInv, TypeOK, SchedTypeOK
<1>5. ASSUME NEW f \in Fibers, EventLoopResume(f) \/ Postpone(f)
      PROVE  IInv'
  <2>1. /\ \A w \in WaitQueues : list'[w] = list[w]
        /\ list'["terminated"] = list["terminated"] /\ pc' = pc /\ alive' = alive
    BY <1>1, <1>5, QueueNames DEF EventLoopResume, Postpone, Resumed, Put
  <2> QED BY <1>2, <1>3, <2>1, SchedulerFrame
<1>6. CASE EventLoopSuspend
  <2>1. list' = list /\ pc' = pc /\ alive' = alive
    BY <1>6 DEF EventLoopSuspend
  <2> QED BY <1>2, <1>3, <2>1, SchedulerFrame
<1>7. ASSUME NEW f \in Fibers, NEW g \in Fibers, Spawn(f, g)
      PROVE  IInv'
  <2>1. /\ \A w \in WaitQueues : list'[w] = list[w]
        /\ list'["terminated"] = list["terminated"] /\ pc' = pc /\ alive' = alive \cup {g}
    BY <1>1, <1>7, Facts, QueueNames DEF Spawn, Resumed, Put
  <2> QED BY <1>2, <1>3, <2>1, SchedulerFrame
<1>8. ASSUME NEW f \in Fibers, IoSuspend(f) \/ IoReturn(f)
      PROVE  IInv'
  <2>1. list' = list /\ alive' = alive
    BY <1>8 DEF IoSuspend, IoReturn
  <2>2. \A g \in Fibers : pc'[g] = pc[g] \/ {pc[g], pc'[g]} \subseteq {"user", "io"}
    BY <1>4, <1>8 DEF IoSuspend, IoReturn, InUserCode
  <2> QED BY <1>2, <1>3, <2>1, <2>2, SchedulerFrame
<1>9. ASSUME NEW f \in Fibers, TerminateClean(f)
      PROVE  IInv'
  <2>1. ListsOK(list) /\ Unlinked(list, f) /\ list' = Put(list, "terminated", f)
    BY <1>9, Facts DEF TerminateClean, Terminate, InUserCode, Running
  <2>2. /\ Members(list'["terminated"]) = Members(list["terminated"]) \cup {f}
        /\ \A w \in WaitQueues : list'[w] = list[w]
    BY <2>1, QueueNames, PutLists
  <2>3. held[f] = {} /\ pc' = pc /\ alive' = alive
    BY <1>9 DEF TerminateClean, Terminate
  <2> QED BY <1>2, <1>3, <2>2, <2>3, SchedulerFrame
<1> QED BY <1>5, <1>6, <1>7, <1>8, <1>9 DEF EventLoopStep, FiberStep

-----------------------------------------------------------------------------
\* dfk_mutex_lock, dfk_mutex_trylock and dfk_cond_wait when the mutex is theirs.
LEMMA LockAcquireStep ==
  ASSUME IInv, NEW f \in Fibers, NEW m \in Mutexes, Running(f),
         pc[f] # "lock", LockAcquire(f, m),
         UNCHANGED <<phase, result, works, at, iowait, alive, sys>>,
         waiting' \in [Fibers -> Conds \cup {NULL}], ahead' \in [Fibers -> SUBSET Fibers],
         \A g \in Fibers : g # f => waiting'[g] = waiting[g]
  PROVE  IInv'
<1> USE DEF LockAcquire, InUserCode, Running, Resumed, YieldToScheduler, mutexVars, condVars
<1>1. ListsOK(list') /\ list' = list
  BY Facts
<1>2. TypeOK'
  <2>1. held' \in [Fibers -> SUBSET Mutexes]
    BY DEF IInv, TypeOK, MutexTypeOK
  <2>2. owner' \in [Mutexes -> Fibers \cup {NULL}] /\ target' \in [Fibers -> Mutexes \cup {NULL}]
    BY DEF IInv, TypeOK, MutexTypeOK
  <2>3. SchedTypeOK'
    BY <1>1, Facts DEF IInv, TypeOK, SchedTypeOK, ListsOK
  <2> QED BY <2>1, <2>2, <2>3 DEF TypeOK, MutexTypeOK
<1>3. HookExclusive'
  BY <1>1 DEF ListsOK, HookExclusive
<1>4. NoDanglingFiber'
  BY <1>1, Facts, FiberNames, QueueNames DEF NoDanglingFiber, SystemFibers
<1>5. SchedulerPoint'
  BY <1>1, QueueNames, FiberNames DEF IInv, SchedulerPoint
<1>6. WhereBlocked'
  BY <1>1, Facts, QueueNames DEF IInv, WhereBlocked, TypeOK, SchedTypeOK, MutexTypeOK, Unlinked
<1>7. NoLostFiber'
  <2>1. \A g \in alive' : current' = g \/ pc'[g] = "io" \/ Queued(g)'
    BY <1>1, Facts, QueueNames, FiberNames DEF Queued, IInv, TypeOK, SchedTypeOK
  <2> QED BY <2>1 DEF NoLostFiber, IoWaiters
<1>8. IowaitExact'
  <2>1. IoWaiters' = IoWaiters
    BY <1>1, Facts, QueueNames, FiberNames, IoSame DEF Queued, IInv, TypeOK, SchedTypeOK
  <2> QED BY <1>1, <2>1, Facts, IoFrame
<1>9. OwnerAgrees' /\ NoWaitOnFree'
  <2>1. \A x \in Mutexes, g \in Fibers :
          owner[x] = g <=> (x \in held[g] \/ HandedOver(g, x))
    BY DEF IInv, OwnerAgrees
  <2>2. NoWaitOnFree'
    BY <1>1, FiberNames DEF IInv, NoWaitOnFree, TypeOK, MutexTypeOK
  <2>3. OwnerAgrees'
    BY <1>1, <2>1, FiberNames
       DEF IInv, OwnerAgrees, HandedOver, Waiters, TypeOK, SchedTypeOK, MutexTypeOK
  <2> QED BY <2>2, <2>3
<1> QED BY <1>2, <1>3, <1>4, <1>5, <1>6, <1>7, <1>8, <1>9 DEF IInv

\* dfk_mutex_lock, and the one inside dfk_cond_wait, when they have to wait.
LEMMA LockBlockStep ==
  ASSUME IInv, NEW f \in Fibers, NEW m \in Mutexes, Running(f),
         pc[f] # "lock", LockBlock(f, m),
         UNCHANGED <<phase, result, works, at, iowait, alive, sys>>, UNCHANGED condVars
  PROVE  IInv'
<1> USE DEF LockBlock, InUserCode, Running, Resumed, YieldToScheduler, mutexVars, condVars
<1>1. /\ ListsOK(list')
      /\ Members(list'[m]) = Members(list[m]) \cup {f}
      /\ \A k \in Lists : k # m => list'[k] = list[k]
  <2>1. ListsOK(list) /\ Unlinked(list, f) /\ list' = Put(list, m, f)
    BY Facts
  <2>2. m \in Lists
    BY QueueNames
  <2>3. /\ ListsOK(Put(list, m, f))
        /\ Members(Put(list, m, f)[m]) = Members(list[m]) \cup {f}
        /\ \A k \in Lists : k # m => Put(list, m, f)[k] = list[k]
    BY <2>1, <2>2, PutLists
  <2> QED BY <2>1, <2>3
<1>2. TypeOK'
  BY <1>1, Facts DEF IInv, TypeOK, SchedTypeOK, MutexTypeOK, ListsOK, SystemFibers
<1>3. HookExclusive'
  BY <1>1 DEF ListsOK, HookExclusive
<1>4. NoDanglingFiber'
  BY ZenonT(60), <1>1, Facts, FiberNames, QueueNames DEF NoDanglingFiber, SystemFibers
<1>5. SchedulerPoint'
  BY <1>1, QueueNames, FiberNames DEF IInv, SchedulerPoint
<1>6. WhereBlocked'
  <2> SUFFICES ASSUME NEW g \in Fibers
               PROVE  WhereBlocked!(g)'
    BY DEF WhereBlocked
  <2>1. WhereBlocked!(g)
    BY DEF IInv, WhereBlocked
  <2>2. CASE g = f
    <3>1. pc'[f] = "lock" /\ target'[f] = m
      BY DEF IInv, TypeOK, SchedTypeOK, MutexTypeOK
    <3>2. \A k \in Lists : k # m => f \notin Members(list'[k])
      BY <1>1, Facts DEF Unlinked
    <3>3. f \in alive'
      BY Facts
    <3> QED BY <2>2, <3>1, <3>2, <3>3, QueueNames
  <2>3. CASE g # f
    <3>1. pc'[g] = pc[g] /\ target'[g] = target[g]
      BY <2>3 DEF IInv, TypeOK, SchedTypeOK, MutexTypeOK
    <3>2. \A k \in Lists : g \in Members(list'[k]) <=> g \in Members(list[k])
      BY <1>1, <2>3
    <3> QED BY <2>1, <3>1, <3>2, QueueNames
  <2> QED BY <2>2, <2>3
<1>7. NoLostFiber'
  <2>1. \A g \in alive' : current' = g \/ pc'[g] = "io" \/ Queued(g)'
    BY ZenonT(60), <1>1, Facts, QueueNames, FiberNames DEF Queued, IInv, TypeOK, SchedTypeOK
  <2> QED BY <2>1 DEF NoLostFiber, IoWaiters
<1>8. IowaitExact'
  <2>1. IoWaiters' = IoWaiters
    BY <1>1, Facts, QueueNames, FiberNames, IoSame DEF Queued, IInv, TypeOK, SchedTypeOK
  <2> QED BY <1>1, <2>1, Facts, IoFrame
<1>9. OwnerAgrees' /\ NoWaitOnFree'
  <2>1. \A x \in Mutexes, g \in Fibers :
          owner[x] = g <=> (x \in held[g] \/ HandedOver(g, x))
    BY DEF IInv, OwnerAgrees
  <2>2. NoWaitOnFree'
    BY <1>1, QueueNames DEF IInv, NoWaitOnFree
  <2>3. OwnerAgrees'
    BY <1>1, <2>1, QueueNames
       DEF IInv, OwnerAgrees, HandedOver, Waiters, TypeOK, SchedTypeOK, MutexTypeOK
  <2> QED BY <2>2, <2>3
<1> QED BY <1>2, <1>3, <1>4, <1>5, <1>6, <1>7, <1>8, <1>9 DEF IInv

\* The hand-over becomes known to the new owner.
LEMMA LockReturnStep ==
  ASSUME IInv, NEW f \in Fibers, MutexLockReturn(f),
         waiting' \in [Fibers -> Conds \cup {NULL}], ahead' \in [Fibers -> SUBSET Fibers],
         \A g \in Fibers : g # f => waiting'[g] = waiting[g]
  PROVE  IInv'
<1> USE DEF MutexLockReturn, InUserCode, Running, Resumed, YieldToScheduler, mutexVars, condVars
<1>1. ListsOK(list') /\ target[f] \in Mutexes /\ list' = list
  BY Facts DEF IInv, WhereBlocked
<1>2. TypeOK'
  <2>1. held' \in [Fibers -> SUBSET Mutexes]
    BY <1>1 DEF IInv, TypeOK, MutexTypeOK
  <2>2. owner' \in [Mutexes -> Fibers \cup {NULL}] /\ target' \in [Fibers -> Mutexes \cup {NULL}]
    BY DEF IInv, TypeOK, MutexTypeOK
  <2>3. SchedTypeOK'
    BY <1>1, Facts DEF IInv, TypeOK, SchedTypeOK, ListsOK
  <2> QED BY <2>1, <2>2, <2>3 DEF TypeOK, MutexTypeOK
<1>3. HookExclusive'
  BY <1>1 DEF ListsOK, HookExclusive
<1>4. NoDanglingFiber'
  BY <1>1, Facts, FiberNames, QueueNames DEF NoDanglingFiber, SystemFibers
<1>5. SchedulerPoint'
  BY <1>1, QueueNames, FiberNames DEF IInv, SchedulerPoint
<1>6. WhereBlocked'
  BY <1>1, Facts, QueueNames DEF IInv, WhereBlocked, TypeOK, SchedTypeOK, MutexTypeOK, Unlinked
<1>7. NoLostFiber'
  <2>1. \A g \in alive' : current' = g \/ pc'[g] = "io" \/ Queued(g)'
    BY <1>1, Facts, QueueNames, FiberNames DEF Queued, IInv, TypeOK, SchedTypeOK
  <2> QED BY <2>1 DEF NoLostFiber, IoWaiters
<1>8. IowaitExact'
  <2>1. IoWaiters' = IoWaiters
    BY <1>1, Facts, QueueNames, FiberNames, IoSame DEF Queued, IInv, TypeOK, SchedTypeOK
  <2> QED BY <1>1, <2>1, Facts, IoFrame
<1>9. OwnerAgrees' /\ NoWaitOnFree'
  <2>1. \A x \in Mutexes, g \in Fibers :
          owner[x] = g <=> (x \in held[g] \/ HandedOver(g, x))
    BY DEF IInv, OwnerAgrees
  <2>2. HandedOver(f, target[f])
    BY <1>1, Facts, QueueNames DEF HandedOver, Waiters, Unlinked
  <2>3. NoWaitOnFree'
    BY <1>1 DEF IInv, NoWaitOnFree
  <2>4. OwnerAgrees'
    BY <1>1, <2>1, <2>2
       DEF IInv, OwnerAgrees, HandedOver, Waiters, TypeOK, SchedTypeOK, MutexTypeOK
  <2> QED BY <2>3, <2>4
<1> QED BY <1>2, <1>3, <1>4, <1>5, <1>6, <1>7, <1>8, <1>9 DEF IInv

\* Releasing a mutex: its wait queue loses the front, which becomes the owner
\* and pending.
LEMMA ReleaseLists ==
  ASSUME IInv, NEW m \in Mutexes
  PROVE  /\ ListsOK(Released(m))
         /\ Members(Released(m)[m]) = Members(list[m]) \ {NextOwner(m)}
         /\ Members(Released(m)["pending"]) =
              Members(list["pending"]) \cup ({NextOwner(m)} \ {NULL})
         /\ \A k \in Lists : k # m /\ k # "pending" => Released(m)[k] = list[k]
         /\ NextOwner(m) \in Members(list[m]) \cup {NULL}
         /\ NextOwner(m) = NULL => list[m] = <<>> /\ Released(m) = list
         /\ NextOwner(m) # NULL => NextOwner(m) \in Fibers
<1>1. m \in WaitQueues /\ ListsOK(list) /\ list[m] \in Seq(Fibers)
  BY Facts, QueueNames
<1>2. CASE list[m] = <<>>
  <2>1. Released(m) = list /\ NextOwner(m) = NULL
    BY <1>2 DEF Released, NextOwner
  <2>2. Members(list[m]) = {}
    BY <1>1, <1>2, EmptyMembers
  <2> QED BY <1>1, <1>2, <2>1, <2>2
<1>3. CASE list[m] # <<>>
  <2>1. Released(m) = WakeFront(list, m) /\ NextOwner(m) = Head(list[m])
    BY <1>3 DEF Released, NextOwner
  <2>2. /\ Head(list[m]) \in Fibers /\ Head(list[m]) \in Members(list[m])
        /\ ListsOK(WakeFront(list, m))
        /\ Members(WakeFront(list, m)[m]) = Members(list[m]) \ {Head(list[m])}
        /\ Members(WakeFront(list, m)["pending"]) =
             Members(list["pending"]) \cup {Head(list[m])}
        /\ \A k \in Lists : k # m /\ k # "pending" => WakeFront(list, m)[k] = list[k]
    BY <1>1, <1>3, WakeLists
  <2> QED BY <2>1, <2>2, FiberNames
<1> QED BY <1>2, <1>3

\* IInv is preserved by dfk_mutex_unlock.
LEMMA UnlockStep ==
  ASSUME IInv, NEW f \in Fibers, NEW m \in Mutexes, MutexUnlock(f, m), UNCHANGED condVars
  PROVE  IInv'
<1> USE DEF MutexUnlock, InUserCode, Running, Resumed, YieldToScheduler, mutexVars, condVars
<1> DEFINE n == NextOwner(m)
<1>1. /\ ListsOK(list')
      /\ \A g \in Fibers : g \in Members(list'[m]) <=> g \in Members(list[m]) /\ g # n
      /\ \A g \in Fibers : g \in Members(list'["pending"]) <=> g \in Members(list["pending"]) \/ g = n
      /\ \A k \in Lists : k # m /\ k # "pending" => list'[k] = list[k]
      /\ n \in Members(list[m]) \cup {NULL}
      /\ n = NULL => list[m] = <<>> /\ list' = list
      /\ n # NULL => n \in Fibers /\ n \in Members(list[m])
      /\ owner' = [owner EXCEPT ![m] = n]
  BY ReleaseLists, FiberNames
<1> HIDE DEF n
<1>10. \A g \in Fibers : Queued(g)' <=> Queued(g)
  BY <1>1, QueueNames, FiberNames DEF Queued
<1>2. TypeOK'
  <2>1. held' \in [Fibers -> SUBSET Mutexes]
    BY DEF IInv, TypeOK, MutexTypeOK
  <2>2. owner' \in [Mutexes -> Fibers \cup {NULL}] /\ target' \in [Fibers -> Mutexes \cup {NULL}]
    BY <1>1 DEF IInv, TypeOK, MutexTypeOK
  <2>3. SchedTypeOK'
    BY <1>1, Facts DEF IInv, TypeOK, SchedTypeOK, ListsOK, SystemFibers
  <2>4. /\ waiting' \in [Fibers -> Conds \cup {NULL}]
        /\ ahead' \in [Fibers -> SUBSET Fibers]
    BY DEF IInv, TypeOK, InWait
  <2> QED BY <2>1, <2>2, <2>3, <2>4 DEF TypeOK, MutexTypeOK
<1>3. HookExclusive'
  BY <1>1 DEF ListsOK, HookExclusive
<1>4. NoDanglingFiber'
  <2>1. \A l \in Lists : Members(list'[l]) \subseteq Fibers
    BY <1>1, MembersFibers
  <2>2. ASSUME NEW l \in Lists, NEW g \in Members(list'[l])
        PROVE  g \in alive' /\ g # current'
    <3>1. g \in Fibers /\ Queued(g)'
      BY <2>1 DEF Queued
    <3> QED BY <3>1, <1>10, Facts, FiberNames DEF Queued
  <2> QED BY <2>2, Facts DEF NoDanglingFiber, SystemFibers
<1>5. SchedulerPoint'
  BY <1>1, QueueNames, FiberNames DEF IInv, SchedulerPoint
<1>6. WhereBlocked'
  <2> SUFFICES ASSUME NEW g \in Fibers
               PROVE  WhereBlocked!(g)'
    BY DEF WhereBlocked
  <2>1. WhereBlocked!(g)
    BY DEF IInv, WhereBlocked
  <2>2. /\ \A x \in Mutexes : g \in Members(list'[x]) => g \in Members(list[x])
        /\ \A x \in Conds : g \in Members(list'[x]) => g \in Members(list[x])
        /\ list'["terminated"] = list["terminated"] /\ alive' = alive
    <3>1. \A x \in Mutexes : g \in Members(list'[x]) => g \in Members(list[x])
      BY <1>1, QueueNames
    <3>2. \A x \in Conds : g \in Members(list'[x]) => g \in Members(list[x])
      BY <1>1, QueueNames
    <3>3. list'["terminated"] = list["terminated"] /\ alive' = alive
      BY <1>1, QueueNames
    <3> QED BY <3>1, <3>2, <3>3
  <2>3. CASE g = f
    <3>1. f \in alive /\ \A l \in Lists : f \notin Members(list[l])
      BY Facts DEF Unlinked
    <3> QED BY <2>1, <2>2, <2>3, <3>1, QueueNames DEF IInv, TypeOK, SchedTypeOK, MutexTypeOK
  <2>4. CASE g # f
    <3>1. pc'[g] = pc[g] /\ target'[g] = target[g] /\ held'[g] = held[g] /\ waiting'[g] = waiting[g]
      BY <2>4 DEF IInv, TypeOK, SchedTypeOK, MutexTypeOK
    <3> QED BY <2>1, <2>2, <2>4, <3>1
  <2> QED BY <2>3, <2>4
<1>7. NoLostFiber'
  <2>1. \A g \in alive' : current' = g \/ pc'[g] = "io" \/ Queued(g)'
    BY <1>10, Facts, FiberNames DEF IInv, TypeOK, SchedTypeOK
  <2> QED BY <2>1 DEF NoLostFiber, IoWaiters
<1>8. IowaitExact'
  <2>2. IoWaiters' = IoWaiters
    BY <1>10, Facts, FiberNames, IoSame DEF IInv, TypeOK, SchedTypeOK
  <2> QED BY <2>2, Facts, IoFrame
<1>9. OwnerAgrees' /\ NoWaitOnFree'
  <2>1. \A x \in Mutexes, g \in Fibers :
          owner[x] = g <=> (x \in held[g] \/ HandedOver(g, x))
    BY DEF IInv, OwnerAgrees
  <2>2. n # NULL => /\ pc[n] = "lock" /\ target[n] = m
                    /\ f # n /\ pc'[n] = "lock" /\ target'[n] = m
    BY <1>1, Facts, QueueNames DEF IInv, WhereBlocked, TypeOK, SchedTypeOK, MutexTypeOK
  <2>3. owner[m] = f
    BY <2>1
  <2>4. NoWaitOnFree'
    BY <1>1, QueueNames, EmptyMembers DEF IInv, NoWaitOnFree, TypeOK, MutexTypeOK
  <2>5. ASSUME NEW x \in Mutexes, NEW g \in Fibers
        PROVE  owner'[x] = g <=> (x \in held'[g] \/ HandedOver(g, x)')
    <3>1. CASE x # m
      <4>1. list'[x] = list[x] /\ owner'[x] = owner[x]
        BY <1>1, <3>1, QueueNames DEF IInv, TypeOK, MutexTypeOK
      <4>2. x \in held'[g] <=> x \in held[g]
        BY <3>1 DEF IInv, TypeOK, MutexTypeOK
      <4>3. HandedOver(g, x)' <=> HandedOver(g, x)
        BY <4>1, <3>1 DEF HandedOver, Waiters, IInv, TypeOK, SchedTypeOK, MutexTypeOK
      <4> QED BY <2>1, <4>1, <4>2, <4>3
    <3>2. CASE x = m /\ g = n
      BY <1>1, <2>2, <3>2, QueueNames, FiberNames
         DEF IInv, HandedOver, Waiters, TypeOK, SchedTypeOK, MutexTypeOK
    <3>3. CASE x = m /\ g # n
      BY <1>1, <2>1, <2>2, <2>3, <3>3, QueueNames
         DEF IInv, HandedOver, Waiters, TypeOK, SchedTypeOK, MutexTypeOK
    <3> QED BY <3>1, <3>2, <3>3
  <2> QED BY <2>4, <2>5 DEF OwnerAgrees
<1> QED BY <1>2, <1>3, <1>4, <1>5, <1>6, <1>7, <1>8, <1>9 DEF IInv

\* IInv is preserved by dfk_cond_wait, up to its dfk__suspend.
LEMMA CondWaitStep ==
  ASSUME IInv, NEW f \in Fibers, NEW c \in Conds, NEW m \in Mutexes, CondWait(f, c, m)
  PROVE  IInv'
<1> USE DEF CondWait, InUserCode, Running, Resumed, YieldToScheduler, mutexVars, condVars
<1> DEFINE n == NextOwner(m)
<1>1. /\ ListsOK(list')
      /\ \A g \in Fibers : g \in Members(list'[m]) <=> g \in Members(list[m]) /\ g # n
      /\ \A g \in Fibers : g \in Members(list'["pending"]) <=> g \in Members(list["pending"]) \/ g = n
      /\ Members(list'[c]) = Members(list[c]) \cup {f}
      /\ \A k \in Lists : k # m /\ k # "pending" /\ k # c => list'[k] = list[k]
      /\ n \in Members(list[m]) \cup {NULL}
      /\ n = NULL => list[m] = <<>> /\ list'[m] = <<>>
      /\ n # NULL => n \in Fibers /\ n \in Members(list[m])
      /\ owner' = [owner EXCEPT ![m] = n]
  <2>1. /\ ListsOK(Released(m))
        /\ Members(Released(m)[m]) = Members(list[m]) \ {n}
        /\ Members(Released(m)["pending"]) = Members(list["pending"]) \cup ({n} \ {NULL})
        /\ \A k \in Lists : k # m /\ k # "pending" => Released(m)[k] = list[k]
        /\ n \in Members(list[m]) \cup {NULL}
        /\ n = NULL => list[m] = <<>> /\ Released(m) = list
        /\ n # NULL => n \in Fibers /\ n \in Members(list[m])
    BY ReleaseLists
  <2>2. c \in Lists /\ m \in Lists /\ c # m /\ c # "pending"
    BY QueueNames
  <2>3. Unlinked(list, f)
    BY Facts
  <2>4. Unlinked(Released(m), f)
    BY <2>1, <2>2, <2>3, FiberNames DEF Unlinked
  <2>5. /\ ListsOK(list')
        /\ Members(list'[c]) = Members(Released(m)[c]) \cup {f}
        /\ \A k \in Lists : k # c => list'[k] = Released(m)[k]
    <3>1. list' = Put(Released(m), c, f)
      OBVIOUS
    <3> QED BY SMTT(30), <2>1, <2>2, <2>4, <3>1, PutLists
  <2>6. list'[m] = Released(m)[m] /\ list'["pending"] = Released(m)["pending"]
    BY <2>2, <2>5, QueueNames
  <2>7. Released(m)[c] = list[c]
    BY <2>1, <2>2
  <2>8. owner' = [owner EXCEPT ![m] = n]
    OBVIOUS
  <2> HIDE DEF n
  <2> QED BY <2>1, <2>2, <2>5, <2>6, <2>7, <2>8, FiberNames
<1> HIDE DEF n
<1>10. \A g \in Fibers : Queued(g)' <=> Queued(g) \/ g = f
  BY <1>1, QueueNames, FiberNames DEF Queued
<1>2. TypeOK'
  <2>1. held' \in [Fibers -> SUBSET Mutexes]
    BY DEF IInv, TypeOK, MutexTypeOK
  <2>2. owner' \in [Mutexes -> Fibers \cup {NULL}] /\ target' \in [Fibers -> Mutexes \cup {NULL}]
    BY <1>1 DEF IInv, TypeOK, MutexTypeOK
  <2>3. SchedTypeOK'
    BY <1>1, Facts DEF IInv, TypeOK, SchedTypeOK, ListsOK, SystemFibers
  <2>4. /\ waiting' \in [Fibers -> Conds \cup {NULL}]
        /\ ahead' \in [Fibers -> SUBSET Fibers]
    BY DEF IInv, TypeOK, InWait
  <2> QED BY <2>1, <2>2, <2>3, <2>4 DEF TypeOK, MutexTypeOK
<1>3. HookExclusive'
  BY <1>1 DEF ListsOK, HookExclusive
<1>4. NoDanglingFiber'
  <2>1. \A l \in Lists : Members(list'[l]) \subseteq Fibers
    BY <1>1, MembersFibers
  <2>2. ASSUME NEW l \in Lists, NEW g \in Members(list'[l])
        PROVE  g \in alive' /\ g # current'
    <3>1. g \in Fibers /\ Queued(g)'
      BY <2>1 DEF Queued
    <3> QED BY <3>1, <1>10, Facts, FiberNames DEF Queued
  <2> QED BY <2>2, Facts DEF NoDanglingFiber, SystemFibers
<1>5. SchedulerPoint'
  BY <1>1, QueueNames, FiberNames DEF IInv, SchedulerPoint
<1>6. WhereBlocked'
  <2> SUFFICES ASSUME NEW g \in Fibers
               PROVE  WhereBlocked!(g)'
    BY DEF WhereBlocked
  <2>1. WhereBlocked!(g)
    BY DEF IInv, WhereBlocked
  <2>2. /\ \A x \in Mutexes : g \in Members(list'[x]) => g \in Members(list[x])
        /\ \A x \in Conds : g \in Members(list'[x]) => g \in Members(list[x]) \/ (x = c /\ g = f)
        /\ list'["terminated"] = list["terminated"] /\ alive' = alive
    <3>1. \A x \in Mutexes : g \in Members(list'[x]) => g \in Members(list[x])
      BY <1>1, QueueNames
    <3>2. \A x \in Conds : g \in Members(list'[x]) => g \in Members(list[x]) \/ (x = c /\ g = f)
      <4> SUFFICES ASSUME NEW x \in Conds, g \in Members(list'[x])
                   PROVE  g \in Members(list[x]) \/ (x = c /\ g = f)
        OBVIOUS
      <4>1. CASE x = c
        BY <1>1, <4>1
      <4>2. CASE x # c
        <5>1. list'[x] = list[x]
          BY <1>1, <4>2, QueueNames
        <5> QED BY <5>1
      <4> QED BY <4>1, <4>2
    <3>3. list'["terminated"] = list["terminated"] /\ alive' = alive
      BY <1>1, QueueNames
    <3> QED BY <3>1, <3>2, <3>3
  <2>3. CASE g = f
    <3>1. f \in alive /\ \A l \in Lists : f \notin Members(list[l])
      BY Facts DEF Unlinked
    <3> QED BY <2>1, <2>2, <2>3, <3>1, QueueNames DEF IInv, TypeOK, SchedTypeOK, MutexTypeOK
  <2>4. CASE g # f
    <3>1. pc'[g] = pc[g] /\ target'[g] = target[g] /\ held'[g] = held[g] /\ waiting'[g] = waiting[g]
      BY <2>4 DEF IInv, TypeOK, SchedTypeOK, MutexTypeOK
    <3> QED BY <2>1, <2>2, <2>4, <3>1
  <2> QED BY <2>3, <2>4
<1>7. NoLostFiber'
  <2>1. \A g \in alive' : current' = g \/ pc'[g] = "io" \/ Queued(g)'
    BY <1>10, Facts, FiberNames DEF IInv, TypeOK, SchedTypeOK
  <2> QED BY <2>1 DEF NoLostFiber, IoWaiters
<1>8. IowaitExact'
  <2>2. IoWaiters' = IoWaiters
    BY <1>10, Facts, FiberNames, IoSame DEF IInv, TypeOK, SchedTypeOK
  <2> QED BY <2>2, Facts, IoFrame
<1>9. OwnerAgrees' /\ NoWaitOnFree'
  <2>1. \A x \in Mutexes, g \in Fibers :
          owner[x] = g <=> (x \in held[g] \/ HandedOver(g, x))
    BY DEF IInv, OwnerAgrees
  <2>2. n # NULL => /\ pc[n] = "lock" /\ target[n] = m
                    /\ f # n /\ pc'[n] = "lock" /\ target'[n] = m
    BY <1>1, Facts, QueueNames DEF IInv, WhereBlocked, TypeOK, SchedTypeOK, MutexTypeOK
  <2>3. owner[m] = f
    BY <2>1
  <2>4. NoWaitOnFree'
    BY <1>1, QueueNames, EmptyMembers DEF IInv, NoWaitOnFree, TypeOK, MutexTypeOK
  <2>5. ASSUME NEW x \in Mutexes, NEW g \in Fibers
        PROVE  owner'[x] = g <=> (x \in held'[g] \/ HandedOver(g, x)')
    <3>1. CASE x # m
      <4>1. list'[x] = list[x] /\ owner'[x] = owner[x]
        BY <1>1, <3>1, QueueNames DEF IInv, TypeOK, MutexTypeOK
      <4>2. x \in held'[g] <=> x \in held[g]
        BY <3>1 DEF IInv, TypeOK, MutexTypeOK
      <4>3. HandedOver(g, x)' <=> HandedOver(g, x)
        BY <4>1, <3>1 DEF HandedOver, Waiters, IInv, TypeOK, SchedTypeOK, MutexTypeOK
      <4> QED BY <2>1, <4>1, <4>2, <4>3
    <3>2. CASE x = m /\ g = n
      BY <1>1, <2>2, <3>2, QueueNames, FiberNames
         DEF IInv, HandedOver, Waiters, TypeOK, SchedTypeOK, MutexTypeOK
    <3>3. CASE x = m /\ g # n
      BY <1>1, <2>1, <2>2, <2>3, <3>3, QueueNames
         DEF IInv, HandedOver, Waiters, TypeOK, SchedTypeOK, MutexTypeOK
    <3> QED BY <3>1, <3>2, <3>3
  <2> QED BY <2>4, <2>5 DEF OwnerAgrees
<1> QED BY <1>2, <1>3, <1>4, <1>5, <1>6, <1>7, <1>8, <1>9 DEF IInv

\* IInv is preserved by dfk_cond_signal.
LEMMA SignalStep ==
  ASSUME IInv, NEW f \in Fibers, NEW c \in Conds, CondSignal(f, c)
  PROVE  IInv'
<1> USE DEF CondSignal, InUserCode, Running, Resumed, YieldToScheduler, mutexVars, condVars
<1>1. /\ ListsOK(list')
      /\ Head(list[c]) \in Fibers /\ Head(list[c]) \in Members(list[c])
      /\ Members(list'[c]) = Members(list[c]) \ {Head(list[c])}
      /\ Members(list'["pending"]) = Members(list["pending"]) \cup {Head(list[c])}
      /\ \A k \in Lists : k # c /\ k # "pending" => list'[k] = list[k]
  <2>1. ListsOK(list) /\ c \in WaitQueues /\ list[c] # <<>>
    BY Facts, QueueNames
  <2> QED BY <2>1, WakeLists
<1>10. \A g \in Fibers : Queued(g)' <=> Queued(g)
  BY <1>1, QueueNames DEF Queued
<1>2. TypeOK'
  BY <1>1, Facts DEF IInv, TypeOK, SchedTypeOK, MutexTypeOK, ListsOK, SystemFibers
<1>3. HookExclusive'
  BY <1>1 DEF ListsOK, HookExclusive
<1>4. NoDanglingFiber'
  <2>1. \A l \in Lists : Members(list'[l]) \subseteq Fibers
    BY <1>1, MembersFibers
  <2>2. ASSUME NEW l \in Lists, NEW g \in Members(list'[l])
        PROVE  g \in alive' /\ g # current'
    <3>1. g \in Fibers /\ Queued(g)'
      BY <2>1 DEF Queued
    <3> QED BY <3>1, <1>10, Facts, FiberNames DEF Queued
  <2> QED BY <2>2, Facts DEF NoDanglingFiber, SystemFibers
<1>5. SchedulerPoint'
  BY <1>1, QueueNames, FiberNames DEF IInv, SchedulerPoint
<1>6. WhereBlocked'
  <2> SUFFICES ASSUME NEW g \in Fibers
               PROVE  WhereBlocked!(g)'
    BY DEF WhereBlocked
  <2>1. WhereBlocked!(g)
    BY DEF IInv, WhereBlocked
  <2>2. /\ \A x \in Mutexes : g \in Members(list'[x]) => g \in Members(list[x])
        /\ \A x \in Conds : g \in Members(list'[x]) => g \in Members(list[x])
        /\ list'["terminated"] = list["terminated"] /\ alive' = alive
    <3>1. \A x \in Mutexes : g \in Members(list'[x]) => g \in Members(list[x])
      BY <1>1, QueueNames
    <3>2. \A x \in Conds : g \in Members(list'[x]) => g \in Members(list[x])
      BY <1>1, QueueNames
    <3>3. list'["terminated"] = list["terminated"] /\ alive' = alive
      BY <1>1, QueueNames
    <3> QED BY <3>1, <3>2, <3>3
  <2>3. CASE g = f
    <3>1. f \in alive /\ \A l \in Lists : f \notin Members(list[l])
      BY Facts DEF Unlinked
    <3> QED BY <2>1, <2>2, <2>3, <3>1, QueueNames DEF IInv, TypeOK, SchedTypeOK, MutexTypeOK
  <2>4. CASE g # f
    <3>1. pc'[g] = pc[g] /\ target'[g] = target[g] /\ held'[g] = held[g] /\ waiting'[g] = waiting[g]
      BY <2>4 DEF IInv, TypeOK, SchedTypeOK, MutexTypeOK
    <3> QED BY <2>1, <2>2, <2>4, <3>1
  <2> QED BY <2>3, <2>4
<1>7. NoLostFiber'
  <2>1. \A g \in alive' : current' = g \/ pc'[g] = "io" \/ Queued(g)'
    BY <1>10, Facts, FiberNames DEF IInv, TypeOK, SchedTypeOK
  <2> QED BY <2>1 DEF NoLostFiber, IoWaiters
<1>8. IowaitExact'
  <2>2. IoWaiters' = IoWaiters
    BY <1>10, Facts, FiberNames, IoSame DEF IInv, TypeOK, SchedTypeOK
  <2> QED BY <2>2, Facts, IoFrame
<1>9. OwnerAgrees' /\ NoWaitOnFree'
  BY <1>1, QueueNames, MutexFrame
<1> QED BY <1>2, <1>3, <1>4, <1>5, <1>6, <1>7, <1>8, <1>9 DEF IInv

\* IInv is preserved by dfk_cond_broadcast.
LEMMA BroadcastStep ==
  ASSUME IInv, NEW f \in Fibers, NEW c \in Conds, CondBroadcast(f, c)
  PROVE  IInv'
<1> USE DEF CondBroadcast, InUserCode, Running, Resumed, YieldToScheduler, mutexVars, condVars
<1>1. /\ ListsOK(list')
      /\ Members(list'["pending"]) = Members(list["pending"]) \cup Members(list[c])
      /\ Members(list'[c]) = {}
      /\ \A k \in Lists : k # c /\ k # "pending" => list'[k] = list[k]
  <2>1. /\ ListsOK(list) /\ list \in [Lists -> Seq(Fibers)]
        /\ c \in WaitQueues /\ c \in Lists /\ c # "pending" /\ "pending" \in Lists
    BY Facts, QueueNames
  <2>2. list' = WakeAll(list, c)
    OBVIOUS
  <2>3. /\ ListsOK(WakeAll(list, c))
        /\ Members(WakeAll(list, c)["pending"]) = Members(list["pending"]) \cup Members(list[c])
        /\ Members(WakeAll(list, c)[c]) = {}
        /\ \A k \in Lists : k # c /\ k # "pending" => WakeAll(list, c)[k] = list[k]
    BY <2>1, JoinLists
  <2> QED BY <2>2, <2>3
<1>10. \A g \in Fibers : Queued(g)' <=> Queued(g)
  BY <1>1, QueueNames DEF Queued
<1>2. TypeOK'
  BY <1>1, Facts DEF IInv, TypeOK, SchedTypeOK, MutexTypeOK, ListsOK, SystemFibers
<1>3. HookExclusive'
  BY <1>1 DEF ListsOK, HookExclusive
<1>4. NoDanglingFiber'
  <2>1. \A l \in Lists : Members(list'[l]) \subseteq Fibers
    BY <1>1, MembersFibers
  <2>2. ASSUME NEW l \in Lists, NEW g \in Members(list'[l])
        PROVE  g \in alive' /\ g # current'
    <3>1. g \in Fibers /\ Queued(g)'
      BY <2>1 DEF Queued
    <3> QED BY <3>1, <1>10, Facts, FiberNames DEF Queued
  <2> QED BY <2>2, Facts DEF NoDanglingFiber, SystemFibers
<1>5. SchedulerPoint'
  BY <1>1, QueueNames, FiberNames DEF IInv, SchedulerPoint
<1>6. WhereBlocked'
  <2> SUFFICES ASSUME NEW g \in Fibers
               PROVE  WhereBlocked!(g)'
    BY DEF WhereBlocked
  <2>1. WhereBlocked!(g)
    BY DEF IInv, WhereBlocked
  <2>2. /\ \A x \in Mutexes : g \in Members(list'[x]) => g \in Members(list[x])
        /\ \A x \in Conds : g \in Members(list'[x]) => g \in Members(list[x])
        /\ list'["terminated"] = list["terminated"] /\ alive' = alive
    <3>1. \A x \in Mutexes : g \in Members(list'[x]) => g \in Members(list[x])
      BY <1>1, QueueNames
    <3>2. \A x \in Conds : g \in Members(list'[x]) => g \in Members(list[x])
      BY <1>1, QueueNames
    <3>3. list'["terminated"] = list["terminated"] /\ alive' = alive
      BY <1>1, QueueNames
    <3> QED BY <3>1, <3>2, <3>3
  <2>3. CASE g = f
    <3>1. f \in alive /\ \A l \in Lists : f \notin Members(list[l])
      BY Facts DEF Unlinked
    <3> QED BY <2>1, <2>2, <2>3, <3>1, QueueNames DEF IInv, TypeOK, SchedTypeOK, MutexTypeOK
  <2>4. CASE g # f
    <3>1. pc'[g] = pc[g] /\ target'[g] = target[g] /\ held'[g] = held[g] /\ waiting'[g] = waiting[g]
      BY <2>4 DEF IInv, TypeOK, SchedTypeOK, MutexTypeOK
    <3> QED BY <2>1, <2>2, <2>4, <3>1
  <2> QED BY <2>3, <2>4
<1>7. NoLostFiber'
  <2>1. \A g \in alive' : current' = g \/ pc'[g] = "io" \/ Queued(g)'
    BY <1>10, Facts, FiberNames DEF IInv, TypeOK, SchedTypeOK
  <2> QED BY <2>1 DEF NoLostFiber, IoWaiters
<1>8. IowaitExact'
  <2>2. IoWaiters' = IoWaiters
    BY <1>10, Facts, FiberNames, IoSame DEF IInv, TypeOK, SchedTypeOK
  <2> QED BY <2>2, Facts, IoFrame
<1>9. OwnerAgrees' /\ NoWaitOnFree'
  BY <1>1, QueueNames, MutexFrame
<1> QED BY <1>2, <1>3, <1>4, <1>5, <1>6, <1>7, <1>8, <1>9 DEF IInv
-----------------------------------------------------------------------------
\* A fiber that returns to its caller leaves well-typed history variables.
LEMMA WaitLeftType ==
  ASSUME IInv, NEW f \in Fibers, WaitLeft(f)
  PROVE  /\ waiting' \in [Fibers -> Conds \cup {NULL}]
         /\ ahead' \in [Fibers -> SUBSET Fibers]
         /\ \A g \in Fibers : g # f => waiting'[g] = waiting[g]
<1>1. waiting \in [Fibers -> Conds \cup {NULL}] /\ ahead \in [Fibers -> SUBSET Fibers]
  BY DEF IInv, TypeOK
<1>2. /\ waiting' \in [Fibers -> Conds \cup {NULL}]
      /\ \A g \in Fibers : g # f => waiting'[g] = waiting[g]
  BY <1>1 DEF WaitLeft
<1>3. ahead' \in [Fibers -> SUBSET Fibers]
  BY <1>1 DEF WaitLeft
<1> QED BY <1>2, <1>3

\* Every step of the composed system preserves the invariant.
THEOREM NextIInv == IInv /\ [Next]_vars => IInv'
<1> SUFFICES ASSUME IInv, [Next]_vars PROVE IInv'
  OBVIOUS
<1>1. CASE UNCHANGED vars
  <2> USE <1>1 DEF vars, schedVars, mutexVars, condVars
  <2>1. TypeOK' /\ HookExclusive' /\ NoDanglingFiber' /\ SchedulerPoint'
    BY DEF IInv, TypeOK, SchedTypeOK, MutexTypeOK, HookExclusive, Exclusive,
           NoDanglingFiber, SchedulerPoint
  <2>2. WhereBlocked' /\ NoLostFiber' /\ IowaitExact'
    BY DEF IInv, WhereBlocked, NoLostFiber, IowaitExact, IoWaiters, Queued
  <2>3. OwnerAgrees' /\ NoWaitOnFree'
    BY DEF IInv, OwnerAgrees, NoWaitOnFree, HandedOver, Waiters
  <2> QED BY <2>1, <2>2, <2>3 DEF IInv
<1>2. CASE (WorkStep \/ SchedulerStep) /\ UNCHANGED <<mutexVars, condVars>>
  BY <1>2, SchedulerSteps
<1>3. CASE /\ EventLoopStep \/ \E f \in Fibers : FiberStep(f) \/ TerminateClean(f)
           /\ UNCHANGED <<mutexVars, condVars>>
  BY <1>3, FiberSteps
<1>4. ASSUME NEW f \in Fibers, SyncStep(f)
      PROVE  IInv'
  <2>1. ASSUME NEW m \in Mutexes, MutexLock(f, m) \/ MutexTrylock(f, m), UNCHANGED condVars
        PROVE  IInv'
    <3>1. /\ waiting' \in [Fibers -> Conds \cup {NULL}]
          /\ ahead' \in [Fibers -> SUBSET Fibers]
          /\ \A g \in Fibers : g # f => waiting'[g] = waiting[g]
      BY <2>1 DEF condVars, IInv, TypeOK
    <3>2. /\ Running(f) /\ pc[f] # "lock"
          /\ LockAcquire(f, m) \/ LockBlock(f, m)
          /\ UNCHANGED <<phase, result, works, at, iowait, alive, sys>>
      BY <2>1 DEF MutexLock, MutexTrylock, InUserCode
    <3>3. CASE LockAcquire(f, m)
      BY <3>1, <3>2, <3>3, LockAcquireStep
    <3>4. CASE LockBlock(f, m)
      BY <2>1, <3>2, <3>4, LockBlockStep
    <3> QED BY <3>2, <3>3, <3>4
  <2>2. ASSUME NEW m \in Mutexes, MutexUnlock(f, m), UNCHANGED condVars
        PROVE  IInv'
    BY <2>2, UnlockStep
  <2>3. CASE MutexLockReturn(f) /\ WaitLeft(f)
    BY <2>3, WaitLeftType, LockReturnStep
  <2>4. ASSUME NEW c \in Conds, NEW m \in Mutexes, CondWait(f, c, m)
        PROVE  IInv'
    BY <2>4, CondWaitStep
  <2>5. ASSUME NEW c \in Conds, CondSignal(f, c) \/ CondBroadcast(f, c)
        PROVE  IInv'
    BY <2>5, SignalStep, BroadcastStep
  <2>6. CASE CondWaitReturn(f) \/ CondWaitRelock(f)
    <3>1. target[f] \in Mutexes /\ pc[f] # "lock" /\ Running(f)
      BY <2>6 DEF CondWaitReturn, CondWaitRelock, IInv, WhereBlocked
    <3>2. CASE CondWaitReturn(f)
      BY <3>1, <3>2, WaitLeftType, LockAcquireStep DEF CondWaitReturn
    <3>3. CASE CondWaitRelock(f)
      BY <3>1, <3>3, LockBlockStep DEF CondWaitRelock
    <3> QED BY <2>6, <3>2, <3>3
  <2> QED BY <1>4, <2>1, <2>2, <2>3, <2>4, <2>5, <2>6 DEF SyncStep
<1> QED BY <1>1, <1>2, <1>3, <1>4 DEF Next

\* The inductive invariant holds in every reachable state.
THEOREM Invariance == Spec => []IInv
<1>1. Init => IInv
  BY InitIInv
<1>2. IInv /\ [Next]_vars => IInv'
  BY NextIInv
<1> QED BY <1>1, <1>2, PTL DEF Spec

\* Every variable keeps its type.
THEOREM TypeCorrect == Spec => []TypeOK
<1>1. IInv => TypeOK
  BY DEF IInv
<1> QED BY <1>1, Invariance, PTL

\* A fiber's single hook is never linked twice.
THEOREM HookSafety == Spec => []HookExclusive
<1>1. IInv => HookExclusive
  BY DEF IInv
<1> QED BY <1>1, Invariance, PTL

\* The scheduler never switches to, or queues, a fiber that was freed.
THEOREM DanglingSafety == Spec => []NoDanglingFiber
<1>1. IInv => NoDanglingFiber
  BY DEF IInv
<1> QED BY <1>1, Invariance, PTL

\* No allocated fiber is forgotten by the scheduler.
THEOREM LostSafety == Spec => []NoLostFiber
<1>1. IInv => NoLostFiber
  BY DEF IInv
<1> QED BY <1>1, Invariance, PTL

\* scheduler->iowait is the number of fibers suspended for I/O.
THEOREM IowaitCorrect == Spec => []IowaitExact
<1>1. IInv => IowaitExact
  BY DEF IInv
<1> QED BY <1>1, Invariance, PTL

\* dfk_work leaves no system fiber and no user fiber that could still run.
THEOREM ExitSafety == Spec => []ExitQuiescent
<1>1. IInv => ExitQuiescent
  BY Facts, SchedExit
<1> QED BY <1>1, Invariance, PTL

\* The owner of a mutex is the fiber that believes to hold it, or the one it
\* was handed to; so two fibers never hold it at once.
THEOREM OwnerSafety == Spec => []OwnerAgrees
<1>1. IInv => OwnerAgrees
  BY DEF IInv
<1> QED BY <1>1, Invariance, PTL

\* The assertion at the end of dfk_mutex_lock never fails.
THEOREM LockAssertion == Spec => []LockReturnsOwned
<1>1. IInv => LockReturnsOwned
  <2> SUFFICES ASSUME IInv, NEW f \in Fibers, Running(f), pc[f] = "lock"
               PROVE  owner[target[f]] = f
    BY DEF LockReturnsOwned
  <2>1. target[f] \in Mutexes
    BY DEF IInv, WhereBlocked
  <2>2. HandedOver(f, target[f])
    BY <2>1, Facts, QueueNames DEF HandedOver, Waiters, Running
  <2> QED BY <2>1, <2>2 DEF IInv, OwnerAgrees
<1> QED BY <1>1, Invariance, PTL

\* Nobody waits for a mutex that is free.
THEOREM WaitSafety == Spec => []NoWaitOnFree
<1>1. IInv => NoWaitOnFree
  BY DEF IInv
<1> QED BY <1>1, Invariance, PTL

\* A mutex never outlives its owner's stack.
THEOREM OwnerAliveSafety == Spec => []OwnerAlive
<1>1. IInv => OwnerAlive
  <2> SUFFICES ASSUME IInv, NEW m \in Mutexes, owner[m] # NULL
               PROVE  owner[m] \in alive
    BY DEF OwnerAlive
  <2>1. owner[m] \in Fibers
    BY DEF IInv, TypeOK, MutexTypeOK
  <2>2. m \in held[owner[m]] \/ pc[owner[m]] = "lock"
    BY <2>1 DEF IInv, OwnerAgrees, HandedOver
  <2> QED BY <2>1, <2>2 DEF IInv, WhereBlocked
<1> QED BY <1>1, Invariance, PTL

\* The bookkeeping of the scheduler is consistent between any two switches.
THEOREM SchedulerSafety == Spec => []SchedulerConsistent
<1>1. HookExclusive /\ NoDanglingFiber /\ NoLostFiber /\ IowaitExact => SchedulerConsistent
  BY DEF SchedulerConsistent
<1> QED BY <1>1, HookSafety, DanglingSafety, LostSafety, IowaitCorrect, PTL

\* A mutex has one owner, who is alive and knows it, and no waiter is forgotten.
THEOREM MutexSafety == Spec => []MutexCorrect
<1>1. OwnerAgrees /\ OwnerAlive /\ NoWaitOnFree /\ LockReturnsOwned => MutexCorrect
  BY DEF MutexCorrect
<1> QED BY <1>1, OwnerSafety, OwnerAliveSafety, WaitSafety, LockAssertion, PTL

\* A fiber that dfk_work leaves waiting for a mutex was abandoned by its owner only
\* because the owner is itself parked in a wait queue.
THEOREM AbandonSafety == Spec => []AbandonedOnlyByDeadlock
<1>1. IInv /\ OwnerAlive /\ ExitQuiescent => AbandonedOnlyByDeadlock
  <2> SUFFICES ASSUME IInv, OwnerAlive, ExitQuiescent, phase = "idle",
                      NEW m \in Mutexes, list[m] # <<>>
               PROVE  \E w \in WaitQueues : owner[m] \in Members(list[w])
    BY DEF AbandonedOnlyByDeadlock
  <2>1. owner[m] \in alive
    BY DEF IInv, NoWaitOnFree, OwnerAlive
  <2> QED BY <2>1 DEF ExitQuiescent
<1> QED BY <1>1, Invariance, OwnerAliveSafety, ExitSafety, PTL

-----------------------------------------------------------------------------
(***************************************************************************)
(* The order in which fibers run.                                          *)
(***************************************************************************)
\* dfk_mutex_unlock and the first half of dfk_cond_wait put the new owner behind
\* everybody who is ready; queueing up somewhere else does not change that.
LEMMA ReleaseInOrder ==
  ASSUME IInv, NEW m \in Mutexes, NEW f \in Fibers,
         list' = Released(m) \/ \E c \in Conds : list' = Put(Released(m), c, f)
  PROVE  RunsInOrder
<1>1. list \in [Lists -> Seq(Fibers)] /\ list["pending"] \in Seq(Fibers) /\ SchedInv
  BY Facts, QueueNames
<1>2. /\ Released(m) \in [Lists -> Seq(Fibers)]
      /\ list'["batch"] = Released(m)["batch"] /\ list'["pending"] = Released(m)["pending"]
  <2>1. Released(m) \in [Lists -> Seq(Fibers)]
    BY ReleaseLists DEF ListsOK
  <2> QED BY <2>1, QueueNames DEF Put
<1>3. CASE list[m] = <<>>
  BY <1>1, <1>2, <1>3, RunSame DEF Released, RunQueue
<1>4. CASE list[m] # <<>>
  <2>1. Head(list[m]) \in Fibers
    BY <1>1, <1>4, Facts, QueueNames, WakeLists
  <2>2. /\ list'["batch"] = list["batch"]
        /\ list'["pending"] = Append(list["pending"], Head(list[m]))
    BY <1>1, <1>2, <1>4, QueueNames DEF Released, WakeFront, PopFront, Resumed, Put
  <2>3. ASSUME NEW h \in Fibers
        PROVE  Append(list["pending"], h) = list["pending"] \o <<h>> /\ <<h>> \in Seq(Fibers)
    BY <1>1, AppendIsConcat
  <2> QED BY <1>1, <2>1, <2>2, <2>3, RunAppends
<1> QED BY <1>3, <1>4

\* The calls of mutexes and condition variables.
LEMMA SyncInOrder ==
  ASSUME IInv, NEW f \in Fibers, SyncStep(f)
  PROVE  RunsInOrder
<1>1. SchedInv /\ list \in [Lists -> Seq(Fibers)]
  BY Facts
<1>2. ASSUME NEW m \in Mutexes, LockAcquire(f, m) PROVE RunsInOrder
  BY <1>1, <1>2, RunSame DEF LockAcquire, RunQueue
<1>3. ASSUME NEW m \in Mutexes, LockBlock(f, m) PROVE RunsInOrder
  BY <1>1, <1>3, QueueNames, PutRunsInOrder DEF LockBlock
<1>4. ASSUME NEW m \in Mutexes, MutexUnlock(f, m) PROVE RunsInOrder
  BY <1>4, ReleaseInOrder DEF MutexUnlock
<1>5. ASSUME NEW m \in Mutexes, NEW c \in Conds, CondWait(f, c, m) PROVE RunsInOrder
  BY <1>5, ReleaseInOrder DEF CondWait
<1>6. ASSUME NEW c \in Conds, CondSignal(f, c) PROVE RunsInOrder
  BY <1>1, <1>6, QueueNames, WakeAppends DEF CondSignal
<1>7. ASSUME NEW c \in Conds, CondBroadcast(f, c) PROVE RunsInOrder
  <2>1. /\ list'["batch"] = list["batch"]
        /\ list'["pending"] = list["pending"] \o list[c] /\ list[c] \in Seq(Fibers)
    BY <1>1, <1>7, QueueNames DEF CondBroadcast, WakeAll
  <2> QED BY <1>1, <2>1, RunAppends
<1>8. CASE MutexLockReturn(f)
  BY <1>1, <1>8, RunSame DEF MutexLockReturn, RunQueue
<1>9. Running(f) /\ pc[f] = "wait" => target[f] \in Mutexes
  BY DEF IInv, WhereBlocked
<1> QED
  BY <1>2, <1>3, <1>4, <1>5, <1>6, <1>7, <1>8, <1>9
     DEF SyncStep, MutexLock, MutexTrylock, CondWaitReturn, CondWaitRelock

\* Every step of the composition.
LEMMA NextInOrder == IInv /\ [Next]_vars => [RunsInOrder]_schedVars
<1> SUFFICES ASSUME IInv, Next PROVE [RunsInOrder]_schedVars
  BY DEF vars
<1>1. CASE /\ \/ WorkStep
              \/ SchedulerStep
              \/ EventLoopStep
              \/ \E f \in Fibers : FiberStep(f) \/ TerminateClean(f)
           /\ UNCHANGED <<mutexVars, condVars>>
  <2>1. SchedNext
    BY <1>1 DEF SchedNext, TerminateClean
  <2> QED BY <2>1, Facts, SchedNextInOrder
<1>2. ASSUME NEW f \in Fibers, SyncStep(f) PROVE RunsInOrder
  BY <1>2, SyncInOrder
<1> QED BY <1>1, <1>2 DEF Next

\* With mutexes and condition variables on top of the scheduler, fibers still run in
\* the order in which they became ready.
THEOREM RunOrder == Spec => RunQueueFifo
BY NextInOrder, Invariance, PTL DEF Spec, RunQueueFifo

-----------------------------------------------------------------------------
(***************************************************************************)
(* The abstract monitor.  Its variables under the refinement mapping:      *)
(***************************************************************************)
Holder == [m \in Mutexes |-> IF Inside(m) THEN owner[m] ELSE NULL]
Entry == [m \in Mutexes |-> IF owner[m] = NULL \/ Inside(m) THEN list[m]
                            ELSE <<owner[m]>> \o list[m]]
Sleepers == [c \in Conds |-> list[c]]
MutexOf == [f \in Fibers |-> IF pc[f] = "wait" THEN target[f] ELSE NULL]

\* The monitor's definitions in these terms.
LEMMA MonitorInitMapped ==
  M!MonitorInit <=> /\ Holder = [m \in Mutexes |-> NULL]
                    /\ Entry = [m \in Mutexes |-> <<>>]
                    /\ Sleepers = [c \in Conds |-> <<>>]
                    /\ MutexOf = [f \in Fibers |-> NULL]
BY Zenon DEF M!MonitorInit, Holder, Entry, Sleepers, MutexOf

\* A stuttering step of the monitor leaves the four mapped values alone.
LEMMA VarsMapped ==
  UNCHANGED M!monitorVars <=> UNCHANGED <<Holder, Entry, Sleepers, MutexOf>>
BY Zenon DEF M!monitorVars, Holder, Entry, Sleepers, MutexOf

\* A fiber is outside of the monitor if it neither waits nor asks for admission.
LEMMA OutsideMapped ==
  \A f \in Fibers : M!Outside(f) <=>
    MutexOf[f] = NULL /\ \A m \in Mutexes : f \notin Members(Entry[m])
BY DEF M!Outside, M!InSeq, Members, Holder, Entry, Sleepers, MutexOf

\* A fiber is woken if it waits and is in no queue of a condition variable.
LEMMA WokenMapped ==
  \A f \in Fibers : M!Woken(f) <=>
    MutexOf[f] # NULL /\ \A c \in Conds : f \notin Members(Sleepers[c])
BY DEF M!Woken, M!InSeq, Members, Holder, Entry, Sleepers, MutexOf

\* Admission to a free mutex, in terms of the mapped values.
LEMMA AdmitMapped ==
  \A f \in Fibers, m \in Mutexes : M!Admit(f, m) <=>
    /\ Holder[m] = NULL /\ Entry[m] = <<>>
    /\ Holder' = [Holder EXCEPT ![m] = f]
    /\ MutexOf' = [MutexOf EXCEPT ![f] = NULL]
    /\ Entry' = Entry /\ Sleepers' = Sleepers
BY Zenon DEF M!Admit, Holder, Entry, Sleepers, MutexOf

\* The request of a mutex that is not free, in terms of the mapped values.
LEMMA RequestMapped ==
  \A f \in Fibers, m \in Mutexes : M!Request(f, m) <=>
    /\ Holder[m] # f /\ (Holder[m] # NULL \/ Entry[m] # <<>>)
    /\ Entry' = [Entry EXCEPT ![m] = Append(@, f)]
    /\ MutexOf' = [MutexOf EXCEPT ![f] = NULL]
    /\ Holder' = Holder /\ Sleepers' = Sleepers
BY Zenon DEF M!Request, Holder, Entry, Sleepers, MutexOf

\* The admission of the first in the entry queue, in terms of the mapped values.
LEMMA GrantMapped ==
  \A m \in Mutexes : M!Grant(m) <=>
    /\ Holder[m] = NULL /\ Entry[m] # <<>>
    /\ Holder' = [Holder EXCEPT ![m] = Head(Entry[m])]
    /\ Entry' = [Entry EXCEPT ![m] = Tail(@)]
    /\ Sleepers' = Sleepers /\ MutexOf' = MutexOf
BY Zenon DEF M!Grant, Holder, Entry, Sleepers, MutexOf

\* The release of a mutex, in terms of the mapped values.
LEMMA LeaveMapped ==
  \A f \in Fibers, m \in Mutexes : M!Leave(f, m) <=>
    /\ Holder[m] = f
    /\ Holder' = [Holder EXCEPT ![m] = NULL]
    /\ Entry' = Entry /\ Sleepers' = Sleepers /\ MutexOf' = MutexOf
BY Zenon DEF M!Leave, Holder, Entry, Sleepers, MutexOf

\* Atomic release-and-wait, in terms of the mapped values.
LEMMA SleepMapped ==
  \A f \in Fibers, c \in Conds, m \in Mutexes : M!Sleep(f, c, m) <=>
    /\ Holder[m] = f
    /\ Holder' = [Holder EXCEPT ![m] = NULL]
    /\ Sleepers' = [Sleepers EXCEPT ![c] = Append(@, f)]
    /\ MutexOf' = [MutexOf EXCEPT ![f] = m]
    /\ Entry' = Entry
BY Zenon DEF M!Sleep, Holder, Entry, Sleepers, MutexOf

\* Waking the first n sleepers, in terms of the mapped values.
LEMMA WakeMapped ==
  \A c \in Conds, n \in Nat : M!Wake(c, n) <=>
   /\ Sleepers' = [Sleepers EXCEPT ![c] = SubSeq(@, n + 1, Len(@))]
   /\ Holder' = Holder /\ Entry' = Entry /\ MutexOf' = MutexOf
BY Zenon DEF M!Wake, Holder, Entry, Sleepers, MutexOf

\* The types under the mapping, and who is in an entry queue.
LEMMA MonitorTypes ==
  ASSUME IInv
  PROVE  /\ \A x \in WaitQueues : list[x] \in Seq(Fibers)
         /\ \A m \in Mutexes : owner[m] \in Fibers \cup {NULL}
         /\ \A m \in Mutexes : Entry[m] \in Seq(Fibers)
         /\ \A m \in Mutexes : \A f \in Members(Entry[m]) :
              f \in Members(list[m]) \/ (owner[m] = f /\ ~ Inside(m))
<1>1. /\ \A x \in WaitQueues : list[x] \in Seq(Fibers)
      /\ \A m \in Mutexes : owner[m] \in Fibers \cup {NULL} /\ list[m] \in Seq(Fibers)
  BY Facts, QueueNames DEF IInv, TypeOK, MutexTypeOK
<1>2. \A a \in Fibers : <<a>> \in Seq(Fibers) /\ Members(<<a>>) = {a}
  BY DEF Members
<1>3. ASSUME NEW a \in Fibers, NEW q \in Seq(Fibers)
      PROVE  <<a>> \o q \in Seq(Fibers) /\ Members(<<a>> \o q) = {a} \cup Members(q)
  <2>1. PICK p \in Seq(Fibers) : p = <<a>> /\ Members(p) = {a}
    BY <1>2
  <2>2. p \o q \in Seq(Fibers) /\ Members(p \o q) = Members(p) \cup Members(q)
    BY ConcatSeq, ConcatMembers
  <2> QED BY <2>1, <2>2
<1> QED BY <1>1, <1>3 DEF Entry

\* A fiber in user code is outside every call that blocks.
LEMMA UserIsOutside ==
  ASSUME IInv, NEW f \in Fibers, InUserCode(f)
  PROVE  M!Outside(f) /\ MutexOf[f] = NULL
<1>1. MutexOf[f] = NULL
  BY DEF MutexOf, InUserCode
<1>2. ASSUME NEW m \in Mutexes, f \in Members(Entry[m]) PROVE FALSE
  <2>1. f \notin Members(list[m])
    BY Facts, QueueNames DEF InUserCode, Running
  <2>2. owner[m] = f /\ ~ Inside(m)
    BY <1>2, <2>1, MonitorTypes
  <2>3. m \in held[f]
    BY <2>2 DEF IInv, OwnerAgrees, HandedOver, InUserCode
  <2> QED BY <2>2, <2>3, FiberNames DEF Inside
<1> QED BY <1>1, <1>2, OutsideMapped

\* A fiber that runs in the middle of dfk_cond_wait was woken.
LEMMA RunningIsWoken ==
  ASSUME IInv, NEW f \in Fibers, Running(f), pc[f] = "wait"
  PROVE  M!Woken(f) /\ MutexOf[f] = target[f] /\ target[f] \in Mutexes
<1>1. target[f] \in Mutexes /\ MutexOf[f] = target[f]
  BY DEF IInv, WhereBlocked, MutexOf
<1>2. \A c \in Conds : f \notin Members(Sleepers[c])
  BY Facts, QueueNames DEF Running, Sleepers
<1> QED BY <1>1, <1>2, FiberNames, WokenMapped

\* Steps that callers do not see.
LEMMA Invisible ==
  ASSUME UNCHANGED <<owner, target, held>>,
         \A w \in WaitQueues : list'[w] = list[w],
         \A f \in Fibers : pc'[f] = "wait" <=> pc[f] = "wait"
  PROVE  UNCHANGED M!monitorVars
<1>1. Holder' = Holder /\ Entry' = Entry /\ Sleepers' = Sleepers
  BY QueueNames DEF Holder, Entry, Sleepers, Inside
<1>2. MutexOf' = MutexOf
  BY DEF MutexOf
<1> QED BY <1>1, <1>2, VarsMapped

\* dfk_work, the scheduler, the event loop and fibers outside mutexes and condition
\* variables are invisible.
LEMMA SchedulerInvisible ==
  ASSUME IInv, UNCHANGED <<mutexVars, condVars>>,
         \/ WorkStep \/ SchedulerStep \/ EventLoopStep
         \/ \E f \in Fibers : FiberStep(f) \/ TerminateClean(f)
  PROVE  UNCHANGED M!monitorVars
<1>1. /\ list \in [Lists -> Seq(Fibers)]
      /\ pc \in [Fibers -> {"user", "io", "parked", "lock", "wait"}]
      /\ \A f \in Fibers : f \notin alive => [pc EXCEPT ![f] = "user"] = pc
  BY Facts DEF IInv, TypeOK, SchedTypeOK
<1> USE <1>1, QueueNames DEF mutexVars
<1>2. ASSUME NEW f \in Fibers, DfkWork(f) PROVE UNCHANGED M!monitorVars
  <2>1. (\A w \in WaitQueues : list'[w] = list[w]) /\ pc' = pc
    BY <1>2 DEF DfkWork, Resumed, Put
  <2> QED BY <2>1, Invisible
<1>3. CASE DfkWorkNoMem \/ DfkWorkNoEventLoop
  BY <1>3, Invisible DEF DfkWorkNoMem, DfkWorkNoEventLoop
<1>4. CASE SchedulerStep
  <2>1. (\A w \in WaitQueues : list'[w] = list[w]) /\ pc' = pc
    BY <1>4 DEF SchedulerStep, SchedulerExit, SchedulerCollect, SchedulerDispatch,
                SchedulerBatchDone, PopFront
  <2> QED BY <2>1, Invisible
<1>5. CASE EventLoopStep
  <2>1. (\A w \in WaitQueues : list'[w] = list[w]) /\ pc' = pc
    BY <1>5 DEF EventLoopStep, EventLoopResume, EventLoopSuspend, Resumed, Put
  <2> QED BY <2>1, Invisible
<1>6. ASSUME NEW f \in Fibers, NEW g \in Fibers, Spawn(f, g) PROVE UNCHANGED M!monitorVars
  <2>1. (\A w \in WaitQueues : list'[w] = list[w]) /\ pc' = pc
    BY <1>6 DEF Spawn, Resumed, Put
  <2> QED BY <2>1, Invisible
<1>7. ASSUME NEW f \in Fibers, Postpone(f) \/ TerminateClean(f) PROVE UNCHANGED M!monitorVars
  <2>1. (\A w \in WaitQueues : list'[w] = list[w]) /\ pc' = pc
    BY <1>7 DEF Postpone, TerminateClean, Terminate, Resumed, Put
  <2> QED BY <2>1, Invisible
<1>8. ASSUME NEW f \in Fibers, IoSuspend(f) \/ IoReturn(f) PROVE UNCHANGED M!monitorVars
  <2>1. list' = list /\ \A g \in Fibers : pc'[g] = "wait" <=> pc[g] = "wait"
    BY <1>8 DEF IoSuspend, IoReturn, InUserCode
  <2> QED BY <2>1, Invisible
<1> QED BY <1>2, <1>3, <1>4, <1>5, <1>6, <1>7, <1>8 DEF WorkStep, FiberStep

\* dfk_mutex_lock, trylock and the end of dfk_cond_wait when the mutex is free: the
\* caller is admitted.
LEMMA AcquireAdmits ==
  ASSUME IInv, NEW f \in Fibers, NEW m \in Mutexes, LockAcquire(f, m), owner[m] = NULL
  PROVE  M!Admit(f, m)
<1> USE DEF LockAcquire
<1>1. list[m] = <<>> /\ f # NULL
  BY FiberNames DEF IInv, NoWaitOnFree
<1>2. /\ owner \in [Mutexes -> Fibers \cup {NULL}] /\ held \in [Fibers -> SUBSET Mutexes]
      /\ target \in [Fibers -> Mutexes \cup {NULL}]
      /\ pc \in [Fibers -> {"user", "io", "parked", "lock", "wait"}]
  BY DEF IInv, TypeOK, MutexTypeOK, SchedTypeOK
<1>3. Holder[m] = NULL /\ Entry[m] = <<>>
  BY <1>1 DEF Holder, Entry, Inside
<1>4. \A x \in Mutexes : x # m => owner'[x] = owner[x] /\ (Inside(x)' <=> Inside(x))
  BY <1>2 DEF Inside
<1>5. Inside(m)' /\ owner'[m] = f
  BY <1>1, <1>2 DEF Inside
<1>6. Holder' = [Holder EXCEPT ![m] = f]
  BY <1>4, <1>5 DEF Holder
<1>7. Entry' = Entry
  BY <1>1, <1>4, <1>5 DEF Entry
<1>8. Sleepers' = Sleepers
  BY DEF Sleepers
<1>9. MutexOf' = [MutexOf EXCEPT ![f] = NULL]
  BY <1>2 DEF MutexOf
<1> QED BY <1>3, <1>6, <1>7, <1>8, <1>9, AdmitMapped

\* The same when somebody else owns the mutex: the caller queues up behind the others.
LEMMA BlockRequests ==
  ASSUME IInv, NEW f \in Fibers, NEW m \in Mutexes, LockBlock(f, m)
  PROVE  M!Request(f, m)
<1> USE DEF LockBlock
<1>1. /\ owner \in [Mutexes -> Fibers \cup {NULL}] /\ held \in [Fibers -> SUBSET Mutexes]
      /\ target \in [Fibers -> Mutexes \cup {NULL}] /\ list \in [Lists -> Seq(Fibers)]
      /\ pc \in [Fibers -> {"user", "io", "parked", "lock", "wait"}]
  BY DEF IInv, TypeOK, MutexTypeOK, SchedTypeOK
<1>2. /\ list'[m] = Append(list[m], f) /\ list[m] \in Seq(Fibers)
      /\ \A w \in WaitQueues : w # m => list'[w] = list[w]
  BY <1>1, QueueNames DEF Put
<1>3. owner' = owner /\ \A x \in Mutexes : Inside(x)' <=> Inside(x)
  BY DEF Inside
<1>4. ASSUME NEW a \in Fibers
      PROVE  /\ <<a>> \o Append(list[m], f) = Append(<<a>> \o list[m], f)
             /\ <<a>> \o list[m] # <<>>
  BY <1>2, ConsAppend
<1>5. Holder[m] # f /\ (Holder[m] # NULL \/ Entry[m] # <<>>)
  BY <1>1, <1>4, FiberNames DEF Holder, Entry
<1>6. Entry' = [Entry EXCEPT ![m] = Append(@, f)]
  BY <1>1, <1>2, <1>3, <1>4, QueueNames DEF Entry
<1>7. Holder' = Holder
  BY <1>3 DEF Holder
<1>8. Sleepers' = Sleepers
  BY <1>2, QueueNames DEF Sleepers
<1>9. MutexOf' = [MutexOf EXCEPT ![f] = NULL]
  BY <1>1 DEF MutexOf
<1> QED BY <1>5, <1>6, <1>7, <1>8, <1>9, RequestMapped

\* dfk_mutex_lock returns after a hand-over: the first of the entry queue gets in.
LEMMA ReturnGrants ==
  ASSUME IInv, NEW f \in Fibers, MutexLockReturn(f)
  PROVE  (\E m \in Mutexes : M!Grant(m)) \/ UNCHANGED M!monitorVars
<1>0. PICK m \in Mutexes : target[f] = m
  BY DEF MutexLockReturn, IInv, WhereBlocked
<1> USE <1>0 DEF MutexLockReturn
<1>1. /\ owner \in [Mutexes -> Fibers \cup {NULL}] /\ held \in [Fibers -> SUBSET Mutexes]
      /\ target \in [Fibers -> Mutexes \cup {NULL}] /\ list \in [Lists -> Seq(Fibers)]
      /\ pc \in [Fibers -> {"user", "io", "parked", "lock", "wait"}]
  BY DEF IInv, TypeOK, MutexTypeOK, SchedTypeOK
<1>2. m \in Mutexes /\ list[m] \in Seq(Fibers)
  BY <1>1, QueueNames DEF IInv, WhereBlocked
<1>3. HandedOver(f, m)
  BY <1>2, Facts, QueueNames DEF HandedOver, Waiters, Running
<1>4. owner[m] = f
  BY <1>2, <1>3 DEF IInv, OwnerAgrees
<1>5. Inside(m)'
  BY <1>1, <1>2, <1>4, FiberNames DEF Inside
<1>6. \A x \in Mutexes : x # m => (Inside(x)' <=> Inside(x))
  BY <1>1, <1>2 DEF Inside
<1>7. Sleepers' = Sleepers /\ MutexOf' = MutexOf
  <2>1. \A g \in Fibers : (IF pc'[g] = "wait" THEN target'[g] ELSE NULL)
                          = (IF pc[g] = "wait" THEN target[g] ELSE NULL)
    BY <1>1
  <2> QED BY <2>1 DEF Sleepers, MutexOf
<1>8. CASE Inside(m)
  <2>1. Holder' = Holder /\ Entry' = Entry
    BY <1>5, <1>6, <1>8 DEF Holder, Entry
  <2> QED BY <1>7, <2>1, VarsMapped
<1>9. CASE ~ Inside(m)
  <2>1. Entry[m] = <<f>> \o list[m] /\ Holder[m] = NULL
    BY <1>2, <1>4, <1>9, FiberNames DEF Entry, Holder
  <2>2. Entry[m] # <<>> /\ Head(Entry[m]) = f /\ Tail(Entry[m]) = list[m]
    BY <1>2, <2>1, ConsAppend
  <2>3. Holder' = [Holder EXCEPT ![m] = Head(Entry[m])]
    BY <1>2, <1>4, <1>5, <1>6, <2>2 DEF Holder
  <2>4. Entry' = [Entry EXCEPT ![m] = Tail(@)]
    BY <1>2, <1>4, <1>5, <1>6, <2>2 DEF Entry
  <2> QED BY <1>2, <1>7, <2>1, <2>2, <2>3, <2>4, GrantMapped
<1> QED BY <1>8, <1>9

\* Giving a mutex up, in dfk_mutex_unlock and dfk_cond_wait: the caller leaves, and the
\* new owner stays the first of the entry queue until its dfk_mutex_lock returns.
LEMMA ReleaseMapped ==
  ASSUME IInv, NEW f \in Fibers, NEW m \in Mutexes, InUserCode(f), m \in held[f],
         owner' = [owner EXCEPT ![m] = NextOwner(m)],
         held' = [held EXCEPT ![f] = @ \ {m}],
         \A x \in Mutexes : list'[x] = Released(m)[x]
  PROVE  /\ Holder[m] = f /\ Entry' = Entry
         /\ Holder' = [Holder EXCEPT ![m] = NULL]
<1>1. /\ owner \in [Mutexes -> Fibers \cup {NULL}] /\ held \in [Fibers -> SUBSET Mutexes]
      /\ list \in [Lists -> Seq(Fibers)] /\ list[m] \in Seq(Fibers) /\ m \in WaitQueues
      /\ f # NULL
  BY QueueNames, FiberNames DEF IInv, TypeOK, MutexTypeOK, SchedTypeOK
<1>2. owner[m] = f /\ Inside(m)
  BY <1>1 DEF IInv, OwnerAgrees, Inside
<1>3. \A x \in Mutexes : x # m => owner'[x] = owner[x] /\ (Inside(x)' <=> Inside(x))
  BY <1>1 DEF Inside
<1>4. \A x \in Mutexes : x # m => list'[x] = list[x]
  BY <1>1, QueueNames DEF Released, WakeFront, PopFront, Resumed, Put
<1>5. CASE list[m] = <<>>
  <2>1. owner'[m] = NULL /\ ~ Inside(m)' /\ list'[m] = list[m]
    BY <1>1, <1>5 DEF NextOwner, Released, Inside
  <2>2. Entry' = Entry
    BY <1>2, <1>3, <1>4, <2>1 DEF Entry
  <2>3. Holder[m] = f /\ Holder'[m] = NULL /\ \A x \in Mutexes : x # m => Holder'[x] = Holder[x]
    BY <1>2, <1>3, <2>1 DEF Holder
  <2>4. Holder' = [Holder EXCEPT ![m] = NULL]
    BY <2>3 DEF Holder
  <2> QED BY <2>2, <2>3, <2>4
<1>6. CASE list[m] # <<>>
  <2>1. PICK h \in Fibers : h = Head(list[m]) /\ h \in Members(list[m])
    BY <1>1, <1>6, Facts, WakeLists
  <2>2. h # f /\ h # NULL
    BY <1>1, <2>1, FiberNames, QueueNames, Facts DEF InUserCode, Running
  <2>3. m \notin held[h]
    BY <1>2, <2>2 DEF IInv, OwnerAgrees
  <2>4. owner'[m] = h /\ ~ Inside(m)'
    BY <1>1, <1>6, <2>1, <2>2, <2>3 DEF NextOwner, Inside
  <2>5. list'[m] = Tail(list[m])
    BY <1>1, <1>6, QueueNames DEF Released, WakeFront, PopFront, Resumed, Put
  <2>6. <<h>> \o Tail(list[m]) = list[m]
    BY <1>1, <1>6, <2>1, HeadCons
  <2>7. Entry' = Entry
    <3>1. Entry'[m] = list[m] /\ Entry[m] = list[m]
      BY <1>2, <2>2, <2>4, <2>5, <2>6 DEF Entry
    <3>2. \A x \in Mutexes : x # m => Entry'[x] = Entry[x]
      BY <1>3, <1>4 DEF Entry
    <3>3. \A x \in Mutexes : Entry'[x] = Entry[x]
      BY <3>1, <3>2
    <3> QED BY <3>3 DEF Entry
  <2>8. Holder' = [Holder EXCEPT ![m] = NULL] /\ Holder[m] = f
    BY <1>2, <1>3, <2>4 DEF Holder
  <2> QED BY <2>7, <2>8
<1> QED BY <1>5, <1>6

\* dfk_mutex_unlock: the caller leaves.
LEMMA UnlockLeaves ==
  ASSUME IInv, NEW f \in Fibers, NEW m \in Mutexes, MutexUnlock(f, m)
  PROVE  M!Leave(f, m)
<1>1. list \in [Lists -> Seq(Fibers)]
  BY Facts
<1>2. Sleepers' = Sleepers
  BY <1>1, QueueNames DEF MutexUnlock, Released, WakeFront, PopFront, Resumed, Put, Sleepers
<1>3. MutexOf' = MutexOf
  BY DEF MutexUnlock, MutexOf
<1>4. /\ Holder[m] = f /\ Entry' = Entry
      /\ Holder' = [Holder EXCEPT ![m] = NULL]
  BY ReleaseMapped DEF MutexUnlock
<1> QED BY <1>2, <1>3, <1>4, LeaveMapped

\* dfk_cond_wait: the caller leaves and falls asleep in one step.
LEMMA WaitSleeps ==
  ASSUME IInv, NEW f \in Fibers, NEW c \in Conds, NEW m \in Mutexes, CondWait(f, c, m)
  PROVE  M!Sleep(f, c, m)
<1>1. /\ list \in [Lists -> Seq(Fibers)] /\ target \in [Fibers -> Mutexes \cup {NULL}]
      /\ pc \in [Fibers -> {"user", "io", "parked", "lock", "wait"}]
  BY Facts DEF IInv, TypeOK, MutexTypeOK, SchedTypeOK
<1>2. Released(m) \in [Lists -> Seq(Fibers)]
  BY ReleaseLists DEF ListsOK, CondWait
<1>3. \A x \in Conds : Released(m)[x] = list[x]
  BY <1>1, QueueNames DEF Released, WakeFront, PopFront, Resumed, Put
<1>4. Sleepers' = [Sleepers EXCEPT ![c] = Append(@, f)]
  BY <1>2, <1>3, QueueNames DEF CondWait, Put, Sleepers
<1>5. MutexOf' = [MutexOf EXCEPT ![f] = m]
  BY <1>1 DEF CondWait, MutexOf
<1>6. \A x \in Mutexes : list'[x] = Released(m)[x]
  BY <1>2, QueueNames DEF CondWait, Put
<1>7. /\ Holder[m] = f /\ Entry' = Entry
      /\ Holder' = [Holder EXCEPT ![m] = NULL]
  BY <1>6, ReleaseMapped DEF CondWait
<1> QED BY <1>4, <1>5, <1>7, SleepMapped

\* dfk_cond_signal wakes the first sleeper, dfk_cond_broadcast all of them.
LEMMA SignalWakes ==
  ASSUME IInv, NEW f \in Fibers, NEW c \in Conds, CondSignal(f, c) \/ CondBroadcast(f, c)
  PROVE  \E n \in 1 .. Len(Sleepers[c]) : M!Wake(c, n)
<1>1. /\ list \in [Lists -> Seq(Fibers)] /\ list[c] \in Seq(Fibers) /\ list[c] # <<>>
      /\ Sleepers[c] = list[c]
  BY Facts, QueueNames DEF CondSignal, CondBroadcast, Sleepers
<1>2. /\ SubSeq(list[c], 2, Len(list[c])) = Tail(list[c])
      /\ SubSeq(list[c], Len(list[c]) + 1, Len(list[c])) = <<>>
      /\ 1 \in 1 .. Len(list[c]) /\ Len(list[c]) \in 1 .. Len(list[c])
  BY <1>1, HeadCons
<1>3. Len(list[c]) \in Nat /\ 1 \in Nat /\ 1 + 1 = 2
  BY <1>1
<1>4. \A m \in Mutexes : list'[m] = list[m]
  BY <1>1, QueueNames DEF CondSignal, CondBroadcast, WakeFront, WakeAll, PopFront, Resumed, Put
<1>5. UNCHANGED <<owner, held, pc, target>>
  BY DEF CondSignal, CondBroadcast, mutexVars
<1>6. Holder' = Holder /\ Entry' = Entry /\ MutexOf' = MutexOf
  BY <1>4, <1>5 DEF Holder, Entry, MutexOf, Inside
<1>7. CASE CondSignal(f, c)
  <2>1. Sleepers' = [Sleepers EXCEPT ![c] = Tail(list[c])]
    BY <1>1, <1>7, QueueNames DEF CondSignal, WakeFront, PopFront, Resumed, Put, Sleepers
  <2>2. Sleepers' = [Sleepers EXCEPT ![c] = SubSeq(@, 1 + 1, Len(@))]
    BY <1>1, <1>2, <1>3, <2>1
  <2>3. M!Wake(c, 1)
    BY <1>3, <1>6, <2>2, WakeMapped
  <2> QED BY <1>1, <1>2, <2>3
<1>8. CASE CondBroadcast(f, c)
  <2>1. Sleepers' = [Sleepers EXCEPT ![c] = <<>>]
    BY <1>1, <1>8, QueueNames DEF CondBroadcast, WakeAll, Sleepers
  <2>2. PICK n \in Nat : n = Len(list[c])
    BY <1>3
  <2>3. Sleepers' = [Sleepers EXCEPT ![c] = SubSeq(@, n + 1, Len(@))]
    BY <1>1, <1>2, <2>1, <2>2
  <2>4. M!Wake(c, n)
    BY <1>6, <2>3, WakeMapped
  <2> QED BY <1>1, <1>2, <2>2, <2>4
<1> QED BY <1>7, <1>8

\* Locking a mutex again is a no-op.
LEMMA RelockStutters ==
  ASSUME IInv, NEW f \in Fibers, NEW m \in Mutexes, InUserCode(f), LockAcquire(f, m),
         owner[m] = f
  PROVE  UNCHANGED M!monitorVars
<1>1. /\ owner \in [Mutexes -> Fibers \cup {NULL}] /\ held \in [Fibers -> SUBSET Mutexes]
      /\ target \in [Fibers -> Mutexes \cup {NULL}]
      /\ pc \in [Fibers -> {"user", "io", "parked", "lock", "wait"}]
  BY DEF IInv, TypeOK, MutexTypeOK, SchedTypeOK
<1>2. m \in held[f]
  BY DEF IInv, OwnerAgrees, HandedOver, InUserCode
<1>3. owner' = owner /\ held' = held /\ pc' = pc /\ list' = list
  BY <1>1, <1>2 DEF LockAcquire, InUserCode
<1>4. Holder' = Holder /\ Entry' = Entry /\ Sleepers' = Sleepers
  BY <1>3 DEF Holder, Entry, Sleepers, Inside
<1>5. \A g \in Fibers : (IF pc'[g] = "wait" THEN target'[g] ELSE NULL)
                        = (IF pc[g] = "wait" THEN target[g] ELSE NULL)
  BY <1>1, <1>3 DEF LockAcquire, InUserCode
<1>6. MutexOf' = MutexOf
  BY <1>5 DEF MutexOf
<1> QED BY <1>4, <1>6, VarsMapped

\* Every call of mutexes and condition variables is a step of the monitor.  A fiber
\* woken from dfk_cond_wait does not own its mutex (WaitOrder).
LEMMA SyncSimulates ==
  ASSUME WaitInv, NEW f \in Fibers, SyncStep(f)
  PROVE  M!MonitorNext \/ UNCHANGED M!monitorVars
<1>1. IInv
  BY DEF WaitInv
<1>2. ASSUME NEW m \in Mutexes, MutexLock(f, m) \/ MutexTrylock(f, m)
      PROVE  M!MonitorNext \/ UNCHANGED M!monitorVars
  <2>1. M!Outside(f) /\ InUserCode(f)
    BY <1>1, <1>2, UserIsOutside DEF MutexLock, MutexTrylock
  <2>2. M!Admit(f, m) \/ M!Request(f, m) \/ UNCHANGED M!monitorVars
    BY <1>1, <1>2, <2>1, AcquireAdmits, BlockRequests, RelockStutters
       DEF MutexLock, MutexTrylock, LockAcquire
  <2> QED BY <2>1, <2>2, Zenon DEF M!MonitorNext
<1>3. ASSUME NEW m \in Mutexes, MutexUnlock(f, m) PROVE M!MonitorNext
  <2>1. M!Outside(f) /\ M!Leave(f, m)
    BY <1>1, <1>3, UserIsOutside, UnlockLeaves DEF MutexUnlock
  <2> QED BY <2>1, Zenon DEF M!MonitorNext
<1>4. CASE MutexLockReturn(f)
  <2>1. (\E m \in Mutexes : M!Grant(m)) \/ UNCHANGED M!monitorVars
    BY <1>1, <1>4, ReturnGrants
  <2> QED BY <2>1, Zenon DEF M!MonitorNext
<1>5. ASSUME NEW c \in Conds, NEW m \in Mutexes, CondWait(f, c, m) PROVE M!MonitorNext
  <2>1. M!Outside(f) /\ M!Sleep(f, c, m)
    BY <1>1, <1>5, UserIsOutside, WaitSleeps DEF CondWait
  <2> QED BY <2>1, Zenon DEF M!MonitorNext
<1>6. ASSUME NEW c \in Conds, CondSignal(f, c) \/ CondBroadcast(f, c) PROVE M!MonitorNext
  <2>1. \E n \in 1 .. Len(Sleepers[c]) : M!Wake(c, n)
    BY <1>1, <1>6, SignalWakes
  <2> QED BY <2>1, Zenon DEF M!MonitorNext, Sleepers
<1>7. CASE CondWaitReturn(f) \/ CondWaitRelock(f)
  <2>1. PICK m \in Mutexes : m = target[f] /\ MutexOf[f] = m
    BY <1>1, <1>7, RunningIsWoken DEF CondWaitReturn, CondWaitRelock
  <2>2. M!Woken(f)
    BY <1>1, <1>7, RunningIsWoken DEF CondWaitReturn, CondWaitRelock
  <2>3. owner[m] # f
    BY <1>1, <1>7, <2>1 DEF CondWaitReturn, CondWaitRelock, WaitInv, WaitOrder,
                            IInv, OwnerAgrees, HandedOver
  <2>4. M!Admit(f, m) \/ M!Request(f, m)
    BY <1>1, <1>7, <2>1, <2>3, AcquireAdmits, BlockRequests
       DEF CondWaitReturn, CondWaitRelock, LockAcquire
  <2> QED BY <2>1, <2>2, <2>4, Zenon DEF M!MonitorNext, MutexOf
<1> QED BY <1>2, <1>3, <1>4, <1>5, <1>6, <1>7 DEF SyncStep

-----------------------------------------------------------------------------
(***************************************************************************)
(* The order in which dfk_cond_wait returns.  First, who comes before whom *)
(* in a queue.                                                             *)
(***************************************************************************)
LEMMA PrecedesMembers ==
  ASSUME NEW q \in Seq(Fibers), NEW g, NEW f, Precedes(q, g, f)
  PROVE  g \in Members(q) /\ f \in Members(q)
BY DEF Precedes, Members

\* Appending keeps the order and puts the new fiber behind all others.
LEMMA PrecedesAppend ==
  ASSUME NEW q \in Seq(Fibers), NEW h \in Fibers
  PROVE  /\ \A g, f \in Fibers : Precedes(q, g, f) => Precedes(Append(q, h), g, f)
         /\ \A g \in Members(q) : Precedes(Append(q, h), g, h)
         /\ Members(Append(q, h)) = Members(q) \cup {h}
<1>1. /\ DOMAIN q = 1 .. Len(q) /\ Len(q) \in Nat
      /\ DOMAIN Append(q, h) = 1 .. Len(q) + 1
      /\ \A i \in DOMAIN q : Append(q, h)[i] = q[i] /\ i \in DOMAIN Append(q, h)
      /\ Append(q, h)[Len(q) + 1] = h /\ Len(q) + 1 \in DOMAIN Append(q, h)
  OBVIOUS
<1>2. \A i \in DOMAIN q : i < Len(q) + 1
  BY <1>1
<1>3. \A i \in DOMAIN Append(q, h) : i \in DOMAIN q \/ i = Len(q) + 1
  BY <1>1
<1>4. \A g \in Members(q) : Precedes(Append(q, h), g, h)
  <2> SUFFICES ASSUME NEW i \in DOMAIN q PROVE Precedes(Append(q, h), q[i], h)
    BY DEF Members
  <2>1. i \in DOMAIN Append(q, h) /\ Append(q, h)[i] = q[i] /\ i < Len(q) + 1
    BY <1>1, <1>2
  <2> QED BY <1>1, <2>1, Zenon DEF Precedes
<1>5. \A g, f \in Fibers : Precedes(q, g, f) => Precedes(Append(q, h), g, f)
  BY <1>1 DEF Precedes
<1>6. Members(Append(q, h)) = Members(q) \cup {h}
  BY <1>1, <1>3 DEF Members
<1> QED BY <1>4, <1>5, <1>6

\* Popping the front keeps the order of the others; nobody precedes the front of a
\* queue that holds everybody at most once.
LEMMA PrecedesTail ==
  ASSUME NEW q \in Seq(Fibers), q # <<>>
  PROVE  /\ \A g, f \in Fibers : Precedes(q, g, f) /\ g # Head(q) => Precedes(Tail(q), g, f)
         /\ (\A i, j \in DOMAIN q : q[i] = q[j] => i = j) =>
              \A g \in Fibers : ~ Precedes(q, g, Head(q))
<1>1. /\ DOMAIN q = 1 .. Len(q) /\ Len(q) \in Nat /\ Head(q) = q[1]
      /\ DOMAIN Tail(q) = 1 .. Len(q) - 1
      /\ \A i \in DOMAIN Tail(q) : Tail(q)[i] = q[i + 1]
      /\ 1 \in DOMAIN q
  OBVIOUS
<1>2. ASSUME NEW g \in Fibers, NEW f \in Fibers, Precedes(q, g, f), g # Head(q)
      PROVE  Precedes(Tail(q), g, f)
  <2>1. PICK i, j \in DOMAIN q : i < j /\ q[i] = g /\ q[j] = f
    BY <1>2 DEF Precedes
  <2>2. /\ i - 1 \in DOMAIN Tail(q) /\ j - 1 \in DOMAIN Tail(q) /\ i - 1 < j - 1
        /\ (i - 1) + 1 = i /\ (j - 1) + 1 = j
    BY <1>1, <1>2, <2>1
  <2>3. Tail(q)[i - 1] = g /\ Tail(q)[j - 1] = f
    BY <1>1, <2>1, <2>2
  <2> QED BY <2>2, <2>3 DEF Precedes
<1>3. ASSUME \A i, j \in DOMAIN q : q[i] = q[j] => i = j, NEW g \in Fibers,
             Precedes(q, g, Head(q))
      PROVE  FALSE
  BY <1>1, <1>3 DEF Precedes
<1> QED BY <1>2, <1>3

\* The order of a concatenation.
LEMMA PrecedesConcat ==
  ASSUME NEW a \in Seq(Fibers), NEW b \in Seq(Fibers)
  PROVE  /\ \A g, f \in Fibers : Precedes(a, g, f) => Precedes(a \o b, g, f)
         /\ \A g, f \in Fibers : Precedes(b, g, f) => Precedes(a \o b, g, f)
         /\ \A g \in Members(a), f \in Members(b) : Precedes(a \o b, g, f)
<1>1. /\ DOMAIN a = 1 .. Len(a) /\ Len(a) \in Nat /\ DOMAIN b = 1 .. Len(b) /\ Len(b) \in Nat
  OBVIOUS
<1>2. /\ DOMAIN (a \o b) = 1 .. Len(a) + Len(b)
      /\ \A i \in DOMAIN a : i \in DOMAIN (a \o b) /\ (a \o b)[i] = a[i]
      /\ \A i \in DOMAIN b : Len(a) + i \in DOMAIN (a \o b) /\ (a \o b)[Len(a) + i] = b[i]
  BY <1>1, ConcatSeq
<1>3. \A g, f \in Fibers : Precedes(a, g, f) => Precedes(a \o b, g, f)
  BY <1>2 DEF Precedes
<1>4. ASSUME NEW g \in Fibers, NEW f \in Fibers, Precedes(b, g, f)
      PROVE  Precedes(a \o b, g, f)
  <2>1. PICK i, j \in DOMAIN b : i < j /\ b[i] = g /\ b[j] = f
    BY <1>4 DEF Precedes
  <2>2. Len(a) + i < Len(a) + j
    BY <1>1, <2>1
  <2> QED BY <1>2, <2>1, <2>2 DEF Precedes
<1>5. ASSUME NEW g \in Members(a), NEW f \in Members(b) PROVE Precedes(a \o b, g, f)
  <2>1. PICK i \in DOMAIN a : a[i] = g
    BY DEF Members
  <2>2. PICK j \in DOMAIN b : b[j] = f
    BY DEF Members
  <2>3. i < Len(a) + j
    BY <1>1
  <2> QED BY <1>2, <2>1, <2>2, <2>3 DEF Precedes
<1> QED BY <1>3, <1>4, <1>5

\* The same order in the longer one of two queues of which one is a prefix.
LEMMA PrecedesPrefix ==
  ASSUME NEW q \in Seq(Fibers), NEW r \in Seq(Fibers), NEW g, NEW f, Precedes(q, g, f),
         Len(q) <= Len(r), SubSeq(r, 1, Len(q)) = q
  PROVE  Precedes(r, g, f)
<1>1. /\ DOMAIN q = 1 .. Len(q) /\ Len(q) \in Nat /\ DOMAIN r = 1 .. Len(r) /\ Len(r) \in Nat
  OBVIOUS
<1>2. \A i \in DOMAIN q : i \in DOMAIN r /\ SubSeq(r, 1, Len(q))[i] = r[i]
  BY <1>1
<1>3. \A i \in DOMAIN q : i \in DOMAIN r /\ q[i] = r[i]
  BY <1>2
<1> QED BY <1>3, Zenon DEF Precedes

(***************************************************************************)
(* What WaitInv says about a fiber in user code, one that was woken and    *)
(* one that is about to return.                                            *)
(***************************************************************************)
LEMMA WaitTypes ==
  ASSUME IInv
  PROVE  /\ waiting \in [Fibers -> Conds \cup {NULL}] /\ ahead \in [Fibers -> SUBSET Fibers]
         /\ target \in [Fibers -> Mutexes \cup {NULL}] /\ held \in [Fibers -> SUBSET Mutexes]
         /\ pc \in [Fibers -> {"user", "io", "parked", "lock", "wait"}]
         /\ owner \in [Mutexes -> Fibers \cup {NULL}]
         /\ list \in [Lists -> Seq(Fibers)] /\ RunQueue \in Seq(Fibers)
         /\ \A w \in WaitQueues : /\ list[w] \in Seq(Fibers)
                                  /\ \A i, j \in DOMAIN list[w] : list[w][i] = list[w][j] => i = j
         /\ Members(RunQueue) = Members(list["batch"]) \cup Members(list["pending"])
<1>1. /\ list \in [Lists -> Seq(Fibers)] /\ list["batch"] \in Seq(Fibers)
      /\ list["pending"] \in Seq(Fibers) /\ ListsOK(list)
  BY Facts, QueueNames
<1>2. RunQueue \in Seq(Fibers)
  BY <1>1, ConcatSeq DEF RunQueue
<1>3. Members(RunQueue) = Members(list["batch"]) \cup Members(list["pending"])
  BY <1>1, ConcatMembers DEF RunQueue
<1>4. \A w \in WaitQueues : /\ list[w] \in Seq(Fibers)
                            /\ \A i, j \in DOMAIN list[w] : list[w][i] = list[w][j] => i = j
  BY <1>1, QueueNames DEF ListsOK, Exclusive
<1> QED BY <1>1, <1>2, <1>3, <1>4 DEF IInv, TypeOK, MutexTypeOK, SchedTypeOK

\* A fiber in user code is in nobody's way.
LEMMA UserNotWaiting ==
  ASSUME WaitInv, NEW f \in Fibers, pc[f] \notin {"wait", "lock"}
  PROVE  waiting[f] = NULL /\ ahead[f] = {} /\ \A g \in Fibers : f \notin ahead[g]
BY WaitTypes DEF WaitInv, WaitOrder

\* The running fiber is in no list.
LEMMA RunningUnlinked ==
  ASSUME IInv, NEW f \in Fibers, Running(f)
  PROVE  /\ \A w \in WaitQueues : f \notin Members(list[w])
         /\ f \notin Members(RunQueue)
         /\ ~ Asleep(f)
<1>1. \A l \in Lists : f \notin Members(list[l])
  BY Facts DEF Running
<1> QED BY <1>1, WaitTypes, QueueNames DEF Asleep

\* A fiber in the first half of dfk_cond_wait that was woken is queued for execution.
LEMMA WokenQueued ==
  ASSUME IInv, NEW g \in Fibers, pc[g] = "wait", ~ Asleep(g)
  PROVE  current = g \/ g \in Members(RunQueue)
<1>1. g \in alive /\ (current = g \/ Queued(g))
  BY Facts DEF IInv, NoLostFiber, WhereBlocked, IoWaiters
<1>2. ASSUME NEW l \in Lists, g \in Members(list[l]) PROVE g \in Members(RunQueue)
  <2>1. \A m \in Mutexes : l # m
    BY <1>2 DEF IInv, WhereBlocked
  <2>2. \A c \in Conds : l # c
    BY <1>2, QueueNames DEF IInv, WhereBlocked, Asleep
  <2>3. l # "terminated"
    BY <1>2 DEF IInv, WhereBlocked
  <2> QED BY <1>2, <2>1, <2>2, <2>3, WaitTypes, CondAssumption DEF Lists
<1> QED BY <1>1, <1>2 DEF Queued

\* The run queue keeps the order of its fibers until they run.
LEMMA RunOrderKept ==
  ASSUME IInv, IInv', [RunsInOrder]_schedVars, NEW g \in Fibers, NEW f \in Fibers,
         Precedes(RunQueue, g, f)
  PROVE  current' = g \/ Precedes(RunQueue', g, f)
<1>1. RunQueue \in Seq(Fibers)
  BY WaitTypes
<1>2. RunQueue' \in Seq(Fibers)
  <2>1. list'["batch"] \in Seq(Fibers) /\ list'["pending"] \in Seq(Fibers)
    BY QueueNames DEF IInv, TypeOK, SchedTypeOK
  <2> QED BY <2>1, ConcatSeq DEF RunQueue
<1>3. CASE UNCHANGED schedVars
  <2>1. RunQueue' = RunQueue
    BY <1>3 DEF schedVars, RunQueue
  <2> QED BY <2>1
<1>4. CASE Len(RunQueue) <= Len(RunQueue') /\ SubSeq(RunQueue', 1, Len(RunQueue)) = RunQueue
  <2>1. ASSUME NEW r \in Seq(Fibers), Len(RunQueue) <= Len(r), SubSeq(r, 1, Len(RunQueue)) = RunQueue
        PROVE  Precedes(r, g, f)
    BY <1>1, <2>1, PrecedesPrefix
  <2> QED BY <1>2, <1>4, <2>1
<1>5. CASE RunQueue # <<>> /\ RunQueue' = Tail(RunQueue) /\ current' = Head(RunQueue)
  <2>1. g # Head(RunQueue) => Precedes(Tail(RunQueue), g, f)
    BY <1>1, <1>5, PrecedesTail
  <2> QED BY <1>5, <2>1
<1> QED BY <1>3, <1>4, <1>5 DEF RunsInOrder

\* Whoever called dfk_cond_wait before a woken fiber that now runs asked for the mutex.
LEMMA AheadRelocked ==
  ASSUME WaitInv, NEW f \in Fibers, Running(f), pc[f] = "wait", NEW g \in ahead[f]
  PROVE  /\ g \in Fibers /\ g # f /\ pc[g] = "lock" /\ target[g] = target[f]
<1>1. IInv /\ g \in Fibers
  BY WaitTypes DEF WaitInv
<1>2. /\ g # f /\ waiting[g] # NULL /\ target[g] = target[f] /\ NearerReturn(g, f)
      /\ pc[g] \in {"wait", "lock"}
  BY <1>1 DEF WaitInv, WaitOrder
<1>3. pc[g] # "wait"
  BY <1>1, <1>2, RunningUnlinked, WaitTypes, PrecedesMembers DEF NearerReturn, Running
<1> QED BY <1>1, <1>2, <1>3

\* "Wait-invoke ordering": who returns from dfk_cond_wait is first.
LEMMA ReturnsFirst ==
  ASSUME WaitInv, NEW f \in Fibers, Running(f),
         pc[f] = "lock" \/ (pc[f] = "wait" /\ owner[target[f]] \in {NULL, f})
  PROVE  ahead[f] = {}
<1> SUFFICES ASSUME NEW g \in ahead[f] PROVE FALSE
  OBVIOUS
<1>1. IInv /\ g \in Fibers
  BY WaitTypes DEF WaitInv
<1>2. CASE pc[f] = "lock"
  <2>1. NearerReturn(g, f)
    BY <1>1 DEF WaitInv, WaitOrder
  <2>2. f \in Members(list[target[f]]) /\ target[f] \in Mutexes
    BY <1>1, <1>2, <2>1 DEF NearerReturn, Waiters, IInv, WhereBlocked
  <2> QED BY <1>1, <2>2, RunningUnlinked, QueueNames
<1>3. CASE pc[f] = "wait" /\ owner[target[f]] \in {NULL, f}
  <2>1. pc[g] = "lock" /\ target[g] = target[f] /\ g # f /\ target[f] \in Mutexes
    BY <1>1, <1>3, AheadRelocked DEF IInv, WhereBlocked
  <2>2. owner[target[f]] = NULL
    BY <1>1, <1>3, <2>1 DEF WaitInv, WaitOrder, IInv, OwnerAgrees, HandedOver
  <2>3. g \notin Members(list[target[f]])
    BY <1>1, <2>1, <2>2, WaitTypes, EmptyMembers, QueueNames DEF IInv, NoWaitOnFree
  <2>4. owner[target[f]] = g
    BY <1>1, <2>1, <2>3 DEF IInv, OwnerAgrees, HandedOver, Waiters
  <2> QED BY <1>1, <2>2, <2>4, FiberNames
<1> QED BY <1>2, <1>3

(***************************************************************************)
(* The steps.  First two fibers that do nothing in the step.               *)
(***************************************************************************)
LEMMA NearerFrame ==
  ASSUME WaitInv, IInv', [RunsInOrder]_schedVars, NEW f \in Fibers, NEW g \in ahead[f],
         pc'[f] = pc[f], pc'[g] = pc[g], target'[f] = target[f],
         waiting'[f] = waiting[f], waiting'[g] = waiting[g],
         Asleep(f)' <=> Asleep(f), Asleep(g)' <=> Asleep(g),
         Asleep(f) /\ Asleep(g) => Precedes(list'[waiting[f]], g, f),
         pc[f] = "lock" =>
           /\ f \in Members(list'[target[f]])
           /\ g \in Members(list'[target[f]]) => Precedes(list'[target[f]], g, f),
         current = g /\ pc[g] = "wait" => current' = g
  PROVE  NearerReturn(g, f)'
<1>1. IInv /\ g \in Fibers /\ NearerReturn(g, f)
  BY WaitTypes DEF WaitInv, WaitOrder
<1>2. Precedes(RunQueue, g, f) => current' = g \/ Precedes(RunQueue', g, f)
  BY <1>1, RunOrderKept
<1>3. Asleep(f)' /\ Asleep(g)' => Precedes(list[waiting[f]], g, f)'
  OBVIOUS
<1>4. pc'[f] = "wait" /\ ~ Asleep(f)' /\ pc'[g] = "wait" =>
        ~ Asleep(g)' /\ (current' = g \/ Precedes(RunQueue', g, f))
  BY <1>1, <1>2 DEF NearerReturn
<1>5. pc'[f] = "lock" =>
        /\ pc'[g] = "lock" /\ f \in Waiters(target[f])'
        /\ g \in Waiters(target[f])' => Precedes(list'[target'[f]], g, f)
  BY <1>1 DEF NearerReturn, Waiters
<1> QED BY <1>3, <1>4, <1>5 DEF NearerReturn

\* Steps in which no fiber enters, leaves or moves inside a call that blocks.
LEMMA WaitFrame ==
  ASSUME WaitInv, IInv', [RunsInOrder]_schedVars, UNCHANGED condVars,
         \A w \in WaitQueues : list'[w] = list[w],
         \A f \in Fibers : pc[f] \in {"wait", "lock"} \/ pc'[f] \in {"wait", "lock"} =>
           pc'[f] = pc[f] /\ target'[f] = target[f] /\ held'[f] = held[f],
         \A g \in Fibers : current = g /\ pc[g] = "wait" => current' = g
  PROVE  WaitOrder'
<1> USE DEF condVars
<1>1. IInv /\ WaitOrder
  BY DEF WaitInv
<1>2. \A f \in Fibers : Asleep(f)' <=> Asleep(f)
  BY <1>1, WaitTypes, QueueNames DEF Asleep
<1>3. ASSUME NEW f \in Fibers, NEW g \in ahead[f]
      PROVE  /\ g # f /\ waiting'[f] # NULL
             /\ waiting'[g] = waiting'[f] /\ target'[g] = target'[f]
             /\ NearerReturn(g, f)'
  <2>1. /\ g \in Fibers /\ g # f /\ waiting[f] # NULL /\ waiting[g] = waiting[f]
        /\ target[g] = target[f] /\ NearerReturn(g, f)
        /\ pc[f] \in {"wait", "lock"} /\ pc[g] \in {"wait", "lock"}
        /\ target[f] \in Mutexes /\ waiting[f] \in Conds
    BY <1>1, WaitTypes DEF WaitOrder, IInv, WhereBlocked
  <2>2. /\ pc'[f] = pc[f] /\ pc'[g] = pc[g] /\ target'[f] = target[f] /\ target'[g] = target[g]
        /\ list'[target[f]] = list[target[f]] /\ list'[waiting[f]] = list[waiting[f]]
    BY <2>1, QueueNames
  <2>3. NearerReturn(g, f)'
    <3>1. Asleep(f) /\ Asleep(g) => Precedes(list'[waiting[f]], g, f)
      BY <2>1, <2>2 DEF NearerReturn
    <3>2. pc[f] = "lock" =>
            /\ f \in Members(list'[target[f]])
            /\ g \in Members(list'[target[f]]) => Precedes(list'[target[f]], g, f)
      BY <2>1, <2>2 DEF NearerReturn, Waiters
    <3> QED BY <1>2, <2>1, <2>2, <3>1, <3>2, NearerFrame
  <2> QED BY <2>1, <2>2, <2>3
<1>4. ASSUME NEW f \in Fibers
      PROVE  /\ waiting'[f] # NULL => pc'[f] \in {"wait", "lock"}
             /\ pc'[f] = "wait" => target'[f] \notin held'[f]
  BY <1>1 DEF WaitOrder
<1> QED BY <1>3, <1>4 DEF WaitOrder

\* The steps of dfk_work, the scheduler, the event loop and fibers outside mutexes and
\* condition variables.
LEMMA SchedulerKeepsOrder ==
  ASSUME WaitInv, IInv', [RunsInOrder]_schedVars, UNCHANGED <<mutexVars, condVars>>,
         \/ WorkStep \/ SchedulerStep \/ EventLoopStep
         \/ \E f \in Fibers : FiberStep(f) \/ TerminateClean(f)
  PROVE  WaitOrder'
<1> USE DEF mutexVars
<1>1. IInv
  BY DEF WaitInv
<1>2. /\ list \in [Lists -> Seq(Fibers)]
      /\ pc \in [Fibers -> {"user", "io", "parked", "lock", "wait"}]
      /\ \A f \in Fibers : f \notin alive => [pc EXCEPT ![f] = "user"] = pc
      /\ phase = "idle" => current = "scheduler"
  BY <1>1, Facts DEF IInv, TypeOK, SchedTypeOK, SchedulerPoint
<1> USE <1>2, QueueNames, FiberNames
<1>3. CASE WorkStep
  <2>1. (\A w \in WaitQueues : list'[w] = list[w]) /\ pc' = pc /\ current = "scheduler"
    BY <1>3 DEF WorkStep, DfkWork, DfkWorkNoMem, DfkWorkNoEventLoop, Resumed, Put
  <2> QED BY <2>1, WaitFrame
<1>4. CASE SchedulerStep
  <2>1. (\A w \in WaitQueues : list'[w] = list[w]) /\ pc' = pc /\ current = "scheduler"
    BY <1>4 DEF SchedulerStep, SchedulerExit, SchedulerCollect, SchedulerDispatch,
                SchedulerBatchDone, SchedulerAt, PopFront
  <2> QED BY <2>1, WaitFrame
<1>5. CASE EventLoopStep
  <2>1. (\A w \in WaitQueues : list'[w] = list[w]) /\ pc' = pc /\ current = "eventloop"
    BY <1>5 DEF EventLoopStep, EventLoopResume, EventLoopSuspend, Running, Resumed, Put
  <2> QED BY <2>1, WaitFrame
<1>6. ASSUME NEW f \in Fibers, FiberStep(f) \/ TerminateClean(f) PROVE WaitOrder'
  <2>1. \A w \in WaitQueues : list'[w] = list[w]
    BY <1>6 DEF FiberStep, TerminateClean, Spawn, Postpone, IoSuspend, IoReturn, Terminate,
                Resumed, Put
  <2>2. current = f /\ pc[f] \in {"user", "io"}
    BY <1>6 DEF FiberStep, TerminateClean, Spawn, Postpone, IoSuspend, IoReturn, Terminate,
                InUserCode, Running
  <2>3. \A g \in Fibers : pc[g] \in {"wait", "lock"} \/ pc'[g] \in {"wait", "lock"} =>
          pc'[g] = pc[g]
    BY <1>6, <2>2 DEF FiberStep, TerminateClean, Spawn, Postpone, IoSuspend, IoReturn, Terminate
  <2> QED BY <2>1, <2>2, <2>3, WaitFrame
<1> QED BY <1>3, <1>4, <1>5, <1>6

\* dfk_mutex_lock and trylock that get the mutex at once.
LEMMA AcquireKeepsOrder ==
  ASSUME WaitInv, IInv', [RunsInOrder]_schedVars, UNCHANGED condVars,
         NEW f \in Fibers, NEW m \in Mutexes, InUserCode(f), LockAcquire(f, m)
  PROVE  WaitOrder'
<1>1. IInv
  BY DEF WaitInv
<1>2. /\ \A w \in WaitQueues : list'[w] = list[w]
      /\ \A g \in Fibers : pc[g] \in {"wait", "lock"} \/ pc'[g] \in {"wait", "lock"} =>
           pc'[g] = pc[g] /\ target'[g] = target[g] /\ held'[g] = held[g]
      /\ current' = current
  BY <1>1, WaitTypes DEF LockAcquire, InUserCode
<1> QED BY <1>2, WaitFrame

\* A fiber returns from dfk_mutex_lock, or from dfk_cond_wait: it was first, so nobody
\* is left behind it in the order.
LEMMA LeaveKeepsOrder ==
  ASSUME WaitInv, IInv', [RunsInOrder]_schedVars, NEW f \in Fibers, ahead[f] = {}, WaitLeft(f),
         pc' = [pc EXCEPT ![f] = "user"], target' = [target EXCEPT ![f] = NULL],
         \A g \in Fibers : g # f => held'[g] = held[g], UNCHANGED <<list, current>>
  PROVE  WaitOrder'
<1> USE DEF WaitLeft
<1>1. IInv /\ WaitOrder
  BY DEF WaitInv
<1>2. /\ waiting'[f] = NULL /\ pc'[f] = "user" /\ ahead'[f] = {}
      /\ \A g \in Fibers : g # f => /\ waiting'[g] = waiting[g] /\ pc'[g] = pc[g]
                                    /\ target'[g] = target[g] /\ ahead'[g] = ahead[g] \ {f}
  BY <1>1, WaitTypes
<1>3. ASSUME NEW a \in Fibers, a # f, NEW g \in ahead[a], g # f
      PROVE  /\ g # a /\ waiting'[a] # NULL
             /\ waiting'[g] = waiting'[a] /\ target'[g] = target'[a]
             /\ NearerReturn(g, a)'
  <2>1. /\ g \in Fibers /\ g # a /\ waiting[a] # NULL /\ waiting[g] = waiting[a]
        /\ target[g] = target[a] /\ NearerReturn(g, a)
    BY <1>1, WaitTypes DEF WaitOrder
  <2>2. (Asleep(a)' <=> Asleep(a)) /\ (Asleep(g)' <=> Asleep(g))
    BY <1>2, <1>3, <2>1 DEF Asleep
  <2>3. NearerReturn(g, a)'
    BY <1>2, <1>3, <2>1, <2>2, NearerFrame DEF NearerReturn, Waiters
  <2> QED BY <1>2, <1>3, <2>1, <2>3
<1>4. ASSUME NEW a \in Fibers
      PROVE  /\ waiting'[a] # NULL => pc'[a] \in {"wait", "lock"}
             /\ pc'[a] = "wait" => target'[a] \notin held'[a]
  BY <1>1, <1>2 DEF WaitOrder
<1>5. \A a \in Fibers : \A g \in ahead'[a] : a # f /\ g \in ahead[a] /\ g # f
  BY <1>2
<1> QED BY <1>3, <1>4, <1>5 DEF WaitOrder

\* A mutex is given up: the order of those that wait for it is kept, and its new owner
\* was first among the ones that also wait for the same condition variable.
LEMMA ReleaseOrder ==
  ASSUME WaitInv, NEW f \in Fibers, NEW m \in Mutexes, InUserCode(f), m \in held[f],
         list[m] # <<>>, NEW a \in Fibers, pc[a] = "lock", target[a] = m, NEW g \in ahead[a]
  PROVE  /\ a \in Members(Tail(list[m]))
         /\ g \in Members(Tail(list[m])) => Precedes(Tail(list[m]), g, a)
<1>1. IInv /\ g \in Fibers
  BY WaitTypes DEF WaitInv
<1>2. /\ a \in Waiters(m) /\ (g \in Waiters(m) => Precedes(list[m], g, a))
      /\ pc[g] = "lock" /\ target[g] = m
  BY <1>1 DEF WaitInv, WaitOrder, NearerReturn
<1>3. /\ list[m] \in Seq(Fibers) /\ \A i, j \in DOMAIN list[m] : list[m][i] = list[m][j] => i = j
  BY <1>1, WaitTypes, QueueNames
<1>4. Members(Tail(list[m])) = Members(list[m]) \ {Head(list[m])}
  <2>1. Members(PopFront(list, m)[m]) = Members(list[m]) \ {Head(list[m])}
    BY <1>1, Facts, QueueNames, PopLists
  <2> QED BY <1>1, <2>1, Facts, QueueNames DEF PopFront
<1>5. owner[m] = f
  BY <1>1 DEF IInv, OwnerAgrees
<1>6. g \in Waiters(m)
  BY <1>1, <1>2, <1>5 DEF IInv, OwnerAgrees, HandedOver, InUserCode
<1>7. a # Head(list[m])
  BY <1>1, <1>2, <1>3, <1>6, PrecedesTail
<1>8. g \in Members(Tail(list[m])) => Precedes(Tail(list[m]), g, a)
  BY <1>1, <1>2, <1>3, <1>4, <1>6, PrecedesTail DEF Waiters
<1> QED BY <1>2, <1>4, <1>7, <1>8 DEF Waiters

\* The wait queues of mutexes after a release.
LEMMA ReleaseQueues ==
  ASSUME IInv, NEW m \in Mutexes
  PROVE  /\ \A w \in WaitQueues : w # m => Released(m)[w] = list[w]
         /\ Released(m)[m] = IF list[m] = <<>> THEN list[m] ELSE Tail(list[m])
         /\ Released(m) \in [Lists -> Seq(Fibers)]
<1>1. Released(m) \in [Lists -> Seq(Fibers)]
  BY ReleaseLists DEF ListsOK
<1> QED BY <1>1, Facts, QueueNames DEF Released, WakeFront, PopFront, Resumed, Put

\* dfk_mutex_unlock.
LEMMA UnlockKeepsOrder ==
  ASSUME WaitInv, IInv', [RunsInOrder]_schedVars, UNCHANGED condVars,
         NEW f \in Fibers, NEW m \in Mutexes, MutexUnlock(f, m)
  PROVE  WaitOrder'
<1> USE DEF MutexUnlock, condVars
<1>1. IInv /\ WaitOrder /\ InUserCode(f)
  BY DEF WaitInv
<1>2. /\ \A w \in WaitQueues : w # m => list'[w] = list[w]
      /\ list'[m] = IF list[m] = <<>> THEN list[m] ELSE Tail(list[m])
  BY <1>1, ReleaseQueues
<1>3. \A a \in Fibers : Asleep(a)' <=> Asleep(a)
  <2>1. waiting' = waiting /\ \A c \in Conds : list'[c] = list[c]
    BY <1>2, QueueNames
  <2>2. \A a \in Fibers : waiting[a] # NULL => waiting[a] \in Conds
    BY <1>1, WaitTypes
  <2> QED BY <2>1, <2>2 DEF Asleep
<1>4. ASSUME NEW a \in Fibers, NEW g \in ahead[a]
      PROVE  /\ g # a /\ waiting[a] # NULL
             /\ waiting[g] = waiting[a] /\ target[g] = target[a]
             /\ NearerReturn(g, a)'
  <2>1. /\ g \in Fibers /\ g # a /\ waiting[a] # NULL /\ waiting[g] = waiting[a]
        /\ target[g] = target[a] /\ NearerReturn(g, a) /\ waiting[a] \in Conds
        /\ pc[a] = "lock" => target[a] \in Mutexes
    BY <1>1, WaitTypes DEF WaitOrder, IInv, WhereBlocked
  <2>2. Asleep(a) /\ Asleep(g) => Precedes(list'[waiting[a]], g, a)
    BY <1>2, <2>1, QueueNames DEF NearerReturn
  <2>3. pc[a] = "lock" =>
          /\ a \in Members(list'[target[a]])
          /\ g \in Members(list'[target[a]]) => Precedes(list'[target[a]], g, a)
    BY <1>1, <1>2, <2>1, ReleaseOrder, QueueNames DEF NearerReturn, Waiters
  <2>4. NearerReturn(g, a)'
    BY <1>3, <2>1, <2>2, <2>3, NearerFrame
  <2> QED BY <2>1, <2>4
<1>5. ASSUME NEW a \in Fibers
      PROVE  /\ waiting[a] # NULL => pc[a] \in {"wait", "lock"}
             /\ pc[a] = "wait" => target[a] \notin held'[a]
  BY <1>1, WaitTypes DEF WaitOrder
<1> QED BY <1>4, <1>5 DEF WaitOrder

\* dfk_mutex_lock that has to wait.
LEMMA BlockKeepsOrder ==
  ASSUME WaitInv, IInv', [RunsInOrder]_schedVars, UNCHANGED condVars,
         NEW f \in Fibers, NEW m \in Mutexes, InUserCode(f), LockBlock(f, m)
  PROVE  WaitOrder'
<1> USE DEF LockBlock, condVars
<1>1. IInv /\ WaitOrder /\ pc[f] = "user" /\ current = f
  BY DEF WaitInv, InUserCode, Running
<1>2. /\ \A w \in WaitQueues : w # m => list'[w] = list[w]
      /\ list'[m] = Append(list[m], f) /\ list[m] \in Seq(Fibers)
  BY <1>1, WaitTypes, QueueNames DEF Put
<1>3. /\ \A g, a \in Fibers : Precedes(list[m], g, a) => Precedes(list'[m], g, a)
      /\ Members(list'[m]) = Members(list[m]) \cup {f}
  BY <1>2, PrecedesAppend
<1>4. /\ pc'[f] = "lock"
      /\ \A g \in Fibers : g # f => pc'[g] = pc[g] /\ target'[g] = target[g]
  BY <1>1, WaitTypes
<1>5. ASSUME NEW a \in Fibers, NEW g \in ahead[a]
      PROVE  /\ g # a /\ waiting[a] # NULL
             /\ waiting[g] = waiting[a] /\ target'[g] = target'[a]
             /\ NearerReturn(g, a)'
  <2>1. /\ g \in Fibers /\ g # a /\ waiting[a] # NULL /\ waiting[g] = waiting[a]
        /\ target[g] = target[a] /\ NearerReturn(g, a) /\ waiting[a] \in Conds
        /\ pc[a] = "lock" => target[a] \in Mutexes
    BY <1>1, WaitTypes DEF WaitOrder, IInv, WhereBlocked
  <2>2. a # f /\ g # f
    BY <1>1, <2>1, UserNotWaiting
  <2>3. /\ Asleep(a)' <=> Asleep(a)
        /\ Asleep(g)' <=> Asleep(g)
        /\ Asleep(a) /\ Asleep(g) => Precedes(list'[waiting[a]], g, a)
    BY <1>2, <2>1, QueueNames DEF NearerReturn, Asleep
  <2>4. pc[a] = "lock" =>
          /\ a \in Members(list'[target[a]])
          /\ g \in Members(list'[target[a]]) => Precedes(list'[target[a]], g, a)
    BY <1>2, <1>3, <2>1, <2>2, QueueNames DEF NearerReturn, Waiters
  <2>5. NearerReturn(g, a)'
    BY <1>1, <1>4, <2>1, <2>2, <2>3, <2>4, NearerFrame
  <2> QED BY <1>4, <2>1, <2>2, <2>5
<1>6. ASSUME NEW a \in Fibers
      PROVE  /\ waiting[a] # NULL => pc'[a] \in {"wait", "lock"}
             /\ pc'[a] = "wait" => target'[a] \notin held'[a]
  BY <1>1, <1>4 DEF WaitOrder
<1> QED BY <1>5, <1>6 DEF WaitOrder

\* The woken fiber has to wait for its mutex: it queues up behind everybody who called
\* dfk_cond_wait before it.
LEMMA RelockKeepsOrder ==
  ASSUME WaitInv, IInv', [RunsInOrder]_schedVars, NEW f \in Fibers, CondWaitRelock(f)
  PROVE  WaitOrder'
<1>0. PICK m \in Mutexes : m = target[f]
  BY DEF WaitInv, IInv, WhereBlocked, CondWaitRelock
<1> USE <1>0 DEF CondWaitRelock, LockBlock, condVars
<1>1. IInv /\ WaitOrder /\ pc[f] = "wait" /\ Running(f) /\ current = f
  BY DEF WaitInv, Running
<1>2. /\ \A w \in WaitQueues : w # m => list'[w] = list[w]
      /\ list'[m] = Append(list[m], f) /\ list[m] \in Seq(Fibers)
  BY <1>1, WaitTypes, QueueNames DEF Put
<1>3. /\ \A g, a \in Fibers : Precedes(list[m], g, a) => Precedes(list'[m], g, a)
      /\ \A g \in Members(list[m]) : Precedes(list'[m], g, f)
      /\ Members(list'[m]) = Members(list[m]) \cup {f}
  BY <1>2, PrecedesAppend
<1>4. /\ pc'[f] = "lock" /\ target' = target
      /\ \A g \in Fibers : g # f => pc'[g] = pc[g]
  BY <1>1, WaitTypes
<1>5. \A a \in Fibers : Asleep(a)' <=> Asleep(a)
  <2>1. waiting' = waiting /\ \A c \in Conds : list'[c] = list[c]
    BY <1>2, QueueNames
  <2>2. \A a \in Fibers : waiting[a] # NULL => waiting[a] \in Conds
    BY <1>1, WaitTypes
  <2> QED BY <2>1, <2>2 DEF Asleep
<1>6. ~ Asleep(f)
  BY <1>1, RunningUnlinked
<1>7. ASSUME NEW a \in Fibers, NEW g \in ahead[a] PROVE NearerReturn(g, a)'
  <2>1. /\ g \in Fibers /\ g # a /\ waiting[a] # NULL /\ waiting[g] = waiting[a]
        /\ target[g] = target[a] /\ NearerReturn(g, a) /\ waiting[a] \in Conds
        /\ pc[a] = "lock" => target[a] \in Mutexes
    BY <1>1, WaitTypes DEF WaitOrder, IInv, WhereBlocked
  <2>2. CASE a = f
    <3>1. pc'[g] = "lock"
      BY <1>1, <1>4, <2>1, <2>2, AheadRelocked
    <3>2. f \in Members(list'[m]) /\ (g \in Members(list'[m]) => Precedes(list'[m], g, f))
      BY <1>3, <2>1, <2>2
    <3> QED BY <1>4, <1>5, <1>6, <2>2, <3>1, <3>2 DEF NearerReturn, Waiters
  <2>3. CASE g = f
    <3>1. pc'[a] # "lock" /\ ~ Asleep(f)' /\ pc'[f] = "lock"
      BY <1>1, <1>4, <1>5, <1>6, <2>1, <2>3 DEF NearerReturn
    <3> QED BY <2>3, <3>1 DEF NearerReturn
  <2>4. CASE a # f /\ g # f
    <3>1. Asleep(a) /\ Asleep(g) => Precedes(list'[waiting[a]], g, a)
      BY <1>2, <2>1, QueueNames DEF NearerReturn
    <3>2. pc[a] = "lock" =>
            /\ a \in Members(list'[target[a]])
            /\ g \in Members(list'[target[a]]) => Precedes(list'[target[a]], g, a)
      BY <1>2, <1>3, <2>1, <2>4, QueueNames DEF NearerReturn, Waiters
    <3> QED BY <1>1, <1>4, <1>5, <2>1, <2>4, <3>1, <3>2, NearerFrame
  <2> QED BY <2>2, <2>3, <2>4
<1>8. ASSUME NEW a \in Fibers
      PROVE  /\ waiting[a] # NULL => pc'[a] \in {"wait", "lock"}
             /\ pc'[a] = "wait" => target'[a] \notin held'[a]
  BY <1>1, <1>4 DEF WaitOrder
<1> QED BY <1>1, <1>4, <1>7, <1>8 DEF WaitOrder

\* The end of dfk_mutex_lock and of dfk_cond_wait.
LEMMA ReturnKeepsOrder ==
  ASSUME WaitInv, IInv', [RunsInOrder]_schedVars, NEW f \in Fibers,
         (MutexLockReturn(f) /\ WaitLeft(f)) \/ CondWaitReturn(f)
  PROVE  WaitOrder' /\ ahead[f] = {}
<1>1. IInv
  BY DEF WaitInv
<1>2. ahead[f] = {} /\ WaitLeft(f)
  BY ReturnsFirst DEF MutexLockReturn, CondWaitReturn, LockAcquire
<1>3. /\ pc' = [pc EXCEPT ![f] = "user"] /\ target' = [target EXCEPT ![f] = NULL]
      /\ \A g \in Fibers : g # f => held'[g] = held[g]
      /\ UNCHANGED <<list, current>>
  BY <1>1, WaitTypes DEF MutexLockReturn, CondWaitReturn, LockAcquire
<1> QED BY <1>2, <1>3, LeaveKeepsOrder

\* dfk_cond_wait: the caller queues up behind everybody who called it before.
LEMMA WaitKeepsOrder ==
  ASSUME WaitInv, IInv', [RunsInOrder]_schedVars,
         NEW f \in Fibers, NEW c \in Conds, NEW m \in Mutexes, CondWait(f, c, m)
  PROVE  WaitOrder'
<1> USE DEF CondWait
<1>1. IInv /\ WaitOrder /\ InUserCode(f) /\ pc[f] = "user" /\ current = f
  BY DEF WaitInv, InUserCode, Running
<1>2. /\ waiting[f] = NULL /\ c # NULL /\ c # m /\ c \in WaitQueues /\ m \in WaitQueues
      /\ \A a \in Fibers : f \notin ahead[a]
  BY <1>1, UserNotWaiting, QueueNames
<1>3. /\ \A w \in WaitQueues : w # m /\ w # c => list'[w] = list[w]
      /\ list'[m] = IF list[m] = <<>> THEN list[m] ELSE Tail(list[m])
      /\ list'[c] = Append(list[c], f) /\ list[c] \in Seq(Fibers)
  BY <1>1, <1>2, ReleaseQueues, WaitTypes, QueueNames DEF Put
<1>4. /\ \A g, a \in Fibers : Precedes(list[c], g, a) => Precedes(list'[c], g, a)
      /\ \A g \in Members(list[c]) : Precedes(list'[c], g, f)
      /\ Members(list'[c]) = Members(list[c]) \cup {f}
  BY <1>3, PrecedesAppend
<1>5. /\ pc'[f] = "wait" /\ target'[f] = m /\ waiting'[f] = c /\ m \notin held'[f]
      /\ ahead'[f] = {g \in Fibers : waiting[g] = c /\ target[g] = m}
      /\ \A g \in Fibers : g # f =>
           /\ pc'[g] = pc[g] /\ target'[g] = target[g] /\ waiting'[g] = waiting[g]
           /\ held'[g] = held[g] /\ ahead'[g] = ahead[g]
  BY <1>1, WaitTypes DEF InWait
<1>6. /\ Asleep(f)'
      /\ \A a \in Fibers : a # f => (Asleep(a)' <=> Asleep(a))
  <2>1. Asleep(f)'
    BY <1>2, <1>4, <1>5 DEF Asleep
  <2>2. \A d \in Conds : \A a \in Fibers : a # f =>
          (a \in Members(list'[d]) <=> a \in Members(list[d]))
    BY <1>2, <1>3, <1>4, QueueNames
  <2>3. \A a \in Fibers : waiting[a] # NULL => waiting[a] \in Conds
    BY <1>1, WaitTypes
  <2> QED BY <1>5, <2>1, <2>2, <2>3 DEF Asleep
<1>7. ASSUME NEW a \in Fibers, a # f, NEW g \in ahead[a]
      PROVE  /\ g # a /\ waiting'[a] # NULL
             /\ waiting'[g] = waiting'[a] /\ target'[g] = target'[a]
             /\ NearerReturn(g, a)'
  <2>1. /\ g \in Fibers /\ g # a /\ waiting[a] # NULL /\ waiting[g] = waiting[a]
        /\ target[g] = target[a] /\ NearerReturn(g, a) /\ waiting[a] \in Conds
        /\ g # f /\ (pc[a] = "lock" => target[a] \in Mutexes)
    BY <1>1, <1>2, WaitTypes DEF WaitOrder, IInv, WhereBlocked
  <2>2. Asleep(a) /\ Asleep(g) => Precedes(list'[waiting[a]], g, a)
    BY <1>2, <1>3, <1>4, <2>1, QueueNames DEF NearerReturn
  <2>3. pc[a] = "lock" =>
          /\ a \in Members(list'[target[a]])
          /\ g \in Members(list'[target[a]]) => Precedes(list'[target[a]], g, a)
    BY <1>1, <1>2, <1>3, <2>1, ReleaseOrder, QueueNames DEF NearerReturn, Waiters
  <2>4. NearerReturn(g, a)'
    BY <1>1, <1>5, <1>6, <1>7, <2>1, <2>2, <2>3, NearerFrame
  <2> QED BY <1>5, <1>7, <2>1, <2>4
<1>8. ASSUME NEW g \in Fibers, waiting[g] = c, target[g] = m
      PROVE  /\ g # f /\ waiting'[f] # NULL
             /\ waiting'[g] = waiting'[f] /\ target'[g] = target'[f]
             /\ NearerReturn(g, f)'
  <2>1. g # f
    BY <1>2, <1>8
  <2>2. Asleep(g)' => Precedes(list'[c], g, f)
    BY <1>4, <1>6, <1>8, <2>1 DEF Asleep
  <2>3. NearerReturn(g, f)'
    BY <1>5, <1>6, <2>2 DEF NearerReturn
  <2> QED BY <1>2, <1>5, <1>8, <2>1, <2>3
<1>9. ASSUME NEW a \in Fibers
      PROVE  /\ waiting'[a] # NULL => pc'[a] \in {"wait", "lock"}
             /\ pc'[a] = "wait" => target'[a] \notin held'[a]
  BY <1>1, <1>5 DEF WaitOrder
<1>10. \A a \in Fibers : \A g \in ahead'[a] :
         \/ a # f /\ g \in ahead[a]
         \/ a = f /\ g \in Fibers /\ waiting[g] = c /\ target[g] = m
  BY <1>5
<1> QED BY <1>7, <1>8, <1>9, <1>10 DEF WaitOrder

\* Waking moves fibers from the front of the queue of a condition variable to the end
\* of the run queue.  Everybody ahead of a woken fiber is woken too, and before it.
LEMMA WakeKeepsOrder ==
  ASSUME WaitInv, IInv', [RunsInOrder]_schedVars, NEW c \in Conds,
         UNCHANGED <<current, pc, mutexVars, condVars>>,
         \A w \in WaitQueues : w # c => list'[w] = list[w],
         Members(list'[c]) \subseteq Members(list[c]),
         \A g, a \in Fibers :
           Precedes(list[c], g, a) /\ a \in Members(list'[c]) /\ g \in Members(list'[c])
             => Precedes(list'[c], g, a),
         \A g, a \in Fibers : Precedes(list[c], g, a) /\ a \notin Members(list'[c]) =>
           g \notin Members(list'[c]) /\ Precedes(RunQueue', g, a),
         \A g \in Members(RunQueue), a \in Members(list[c]) :
           a \notin Members(list'[c]) => Precedes(RunQueue', g, a)
  PROVE  WaitOrder'
<1> USE DEF mutexVars, condVars
<1>1. IInv /\ WaitOrder
  BY DEF WaitInv
<1>2. \A a \in Fibers : Asleep(a)' <=> Asleep(a) /\ (waiting[a] = c => a \in Members(list'[c]))
  <2>1. waiting' = waiting /\ \A d \in Conds : d # c => list'[d] = list[d]
    BY QueueNames
  <2>2. \A a \in Fibers : waiting[a] # NULL => waiting[a] \in Conds
    BY <1>1, WaitTypes
  <2> QED BY <2>1, <2>2, QueueNames DEF Asleep
<1>3. ASSUME NEW a \in Fibers, NEW g \in ahead[a] PROVE NearerReturn(g, a)'
  <2>1. /\ g \in Fibers /\ g # a /\ waiting[a] # NULL /\ waiting[g] = waiting[a]
        /\ target[g] = target[a] /\ NearerReturn(g, a) /\ waiting[a] \in Conds
        /\ pc[a] = "lock" => target[a] \in Mutexes
    BY <1>1, WaitTypes DEF WaitOrder, IInv, WhereBlocked
  <2>2. Asleep(a)' /\ Asleep(g)' => Precedes(list'[waiting[a]], g, a)
    BY <1>2, <2>1, QueueNames DEF NearerReturn, Asleep
  <2>3. ASSUME pc[a] = "wait", ~ Asleep(a)', pc[g] = "wait"
        PROVE  ~ Asleep(g)' /\ (current = g \/ Precedes(RunQueue', g, a))
    <3>1. CASE ~ Asleep(a)
      <4>1. ~ Asleep(g) /\ (current = g \/ Precedes(RunQueue, g, a))
        BY <2>1, <2>3, <3>1 DEF NearerReturn
      <4>2. Precedes(RunQueue, g, a) => current' = g \/ Precedes(RunQueue', g, a)
        BY <1>1, <2>1, RunOrderKept
      <4> QED BY <1>2, <2>1, <4>1, <4>2
    <3>2. CASE Asleep(a)
      <4>1. waiting[a] = c /\ a \in Members(list[c]) /\ a \notin Members(list'[c])
        BY <1>2, <2>3, <3>2 DEF Asleep
      <4>2. CASE Asleep(g)
        BY <1>2, <2>1, <3>2, <4>1, <4>2 DEF NearerReturn
      <4>3. CASE ~ Asleep(g)
        <5>1. current = g \/ g \in Members(RunQueue)
          BY <1>1, <2>1, <2>3, <4>3, WokenQueued
        <5> QED BY <1>2, <2>1, <4>1, <4>3, <5>1
      <4> QED BY <4>2, <4>3
    <3> QED BY <3>1, <3>2
  <2>4. pc[a] = "lock" =>
          /\ pc[g] = "lock" /\ a \in Members(list'[target[a]])
          /\ g \in Members(list'[target[a]]) => Precedes(list'[target[a]], g, a)
    BY <2>1, QueueNames DEF NearerReturn, Waiters
  <2> QED BY <2>2, <2>3, <2>4 DEF NearerReturn, Waiters
<1> QED BY <1>1, <1>3 DEF WaitOrder

\* dfk_cond_signal wakes the fiber nobody is ahead of, dfk_cond_broadcast all of them in
\* their order.
LEMMA SignalKeepsOrder ==
  ASSUME WaitInv, IInv', [RunsInOrder]_schedVars, UNCHANGED condVars,
         NEW f \in Fibers, NEW c \in Conds, CondSignal(f, c) \/ CondBroadcast(f, c)
  PROVE  WaitOrder'
<1>1. IInv
  BY DEF WaitInv
<1>2. /\ list \in [Lists -> Seq(Fibers)] /\ list[c] \in Seq(Fibers) /\ list[c] # <<>>
      /\ list["batch"] \in Seq(Fibers) /\ list["pending"] \in Seq(Fibers)
      /\ RunQueue \in Seq(Fibers) /\ c \in WaitQueues
      /\ \A i, j \in DOMAIN list[c] : list[c][i] = list[c][j] => i = j
  BY <1>1, WaitTypes, QueueNames DEF CondSignal, CondBroadcast
<1>3. \A x, y, z \in Seq(Fibers) : (x \o y) \o z = x \o (y \o z)
  BY ConcatAssociative
<1>4. UNCHANGED <<current, pc, mutexVars, condVars>>
  BY DEF CondSignal, CondBroadcast
<1>5. \A w \in WaitQueues : w # c => list'[w] = list[w]
  BY <1>2, QueueNames DEF CondSignal, CondBroadcast, WakeFront, WakeAll, PopFront, Resumed, Put
<1>6. CASE CondSignal(f, c)
  <2>1. PICK h \in Fibers : h = Head(list[c])
    BY <1>1, <1>2, Facts, WakeLists
  <2>2. /\ list'["batch"] = list["batch"] /\ list'["pending"] = Append(list["pending"], h)
        /\ list'[c] = Tail(list[c])
    BY <1>2, <1>6, <2>1, QueueNames DEF CondSignal, WakeFront, PopFront, Resumed, Put
  <2>3. Members(list'[c]) = Members(list[c]) \ {h}
    <3>1. Members(PopFront(list, c)[c]) = Members(list[c]) \ {h}
      BY <1>1, <1>2, <2>1, Facts, QueueNames, PopLists
    <3> QED BY <1>2, <2>2, <3>1, QueueNames DEF PopFront
  <2>4. RunQueue' = Append(RunQueue, h)
    <3>1. <<h>> \in Seq(Fibers) /\ Append(list["pending"], h) = list["pending"] \o <<h>>
      BY <1>2, AppendIsConcat
    <3>2. list["batch"] \o (list["pending"] \o <<h>>) = (list["batch"] \o list["pending"]) \o <<h>>
      BY ZenonT(40), <1>2, <1>3, <3>1
    <3>3. RunQueue' = RunQueue \o <<h>>
      BY <2>2, <3>1, <3>2 DEF RunQueue
    <3> QED BY <1>2, <3>3, AppendIsConcat
  <2>5. /\ \A g, a \in Fibers : Precedes(list[c], g, a) /\ g # h => Precedes(list'[c], g, a)
        /\ \A g \in Fibers : ~ Precedes(list[c], g, h)
    <3>1. \A g, a \in Fibers : Precedes(list[c], g, a) /\ g # Head(list[c]) =>
            Precedes(Tail(list[c]), g, a)
      BY <1>2, PrecedesTail
    <3>2. \A g \in Fibers : ~ Precedes(list[c], g, Head(list[c]))
      BY <1>2, PrecedesTail
    <3> QED BY <2>1, <2>2, <3>1, <3>2
  <2>6. \A g, a \in Fibers : Precedes(list[c], g, a) => a \in Members(list[c])
    BY <1>2, PrecedesMembers
  <2>7. \A g \in Members(RunQueue) : Precedes(RunQueue', g, h)
    BY <1>2, <2>4, PrecedesAppend
  <2> QED BY <1>4, <1>5, <2>3, <2>5, <2>6, <2>7, WakeKeepsOrder
<1>7. CASE CondBroadcast(f, c)
  <2>1. /\ list'["batch"] = list["batch"] /\ list'["pending"] = list["pending"] \o list[c]
        /\ list'[c] = <<>>
    BY <1>2, <1>7, QueueNames DEF CondBroadcast, WakeAll
  <2>2. Members(list'[c]) = {}
    BY <2>1 DEF Members
  <2>3. RunQueue' = RunQueue \o list[c]
    <3>1. list["batch"] \o (list["pending"] \o list[c]) = (list["batch"] \o list["pending"]) \o list[c]
      BY ZenonT(40), <1>2, <1>3
    <3> QED BY <2>1, <3>1 DEF RunQueue
  <2>4. /\ \A g, a \in Fibers : Precedes(list[c], g, a) => Precedes(RunQueue', g, a)
        /\ \A g \in Members(RunQueue), a \in Members(list[c]) : Precedes(RunQueue', g, a)
    BY <1>2, <2>3, PrecedesConcat
  <2> QED BY <1>4, <1>5, <2>2, <2>4, WakeKeepsOrder
<1> QED BY <1>6, <1>7

\* Every step keeps WaitInv, and who returns from dfk_cond_wait had nobody ahead.
LEMMA NextWaitInv ==
  ASSUME WaitInv, [Next]_vars
  PROVE  /\ WaitInv'
         /\ \A f \in Fibers : waiting[f] # NULL /\ waiting'[f] = NULL => ahead[f] = {}
<1>1. IInv /\ IInv' /\ WaitOrder
  BY NextIInv DEF WaitInv
<1>2. [RunsInOrder]_schedVars
  BY <1>1, NextInOrder
<1>3. waiting \in [Fibers -> Conds \cup {NULL}]
  BY <1>1, WaitTypes
<1>4. CASE UNCHANGED vars
  <2>1. UNCHANGED condVars /\ WaitOrder'
    BY <1>1, <1>2, <1>4, WaitFrame DEF vars, schedVars, mutexVars, WaitInv
  <2> QED BY <1>1, <2>1 DEF WaitInv, condVars
<1>5. CASE /\ \/ WorkStep
              \/ SchedulerStep
              \/ EventLoopStep
              \/ \E f \in Fibers : FiberStep(f) \/ TerminateClean(f)
           /\ UNCHANGED <<mutexVars, condVars>>
  BY <1>1, <1>2, <1>5, SchedulerKeepsOrder DEF WaitInv, condVars
<1>6. ASSUME NEW f \in Fibers, NEW m \in Mutexes, UNCHANGED condVars,
             MutexLock(f, m) \/ MutexTrylock(f, m) \/ MutexUnlock(f, m)
      PROVE  WaitOrder' /\ waiting' = waiting
  BY <1>1, <1>2, <1>6, AcquireKeepsOrder, BlockKeepsOrder, UnlockKeepsOrder
     DEF MutexLock, MutexTrylock, condVars
<1>7. ASSUME NEW f \in Fibers, (MutexLockReturn(f) /\ WaitLeft(f)) \/ CondWaitReturn(f)
      PROVE  /\ WaitOrder' /\ ahead[f] = {}
             /\ \A g \in Fibers : g # f => waiting'[g] = waiting[g]
  BY <1>1, <1>2, <1>3, <1>7, ReturnKeepsOrder DEF CondWaitReturn, WaitLeft
<1>8. ASSUME NEW f \in Fibers, NEW c \in Conds, NEW m \in Mutexes, CondWait(f, c, m)
      PROVE  WaitOrder' /\ \A g \in Fibers : waiting[g] # NULL => waiting'[g] # NULL
  BY <1>1, <1>2, <1>3, <1>8, WaitKeepsOrder, QueueNames DEF CondWait
<1>9. ASSUME NEW f \in Fibers, NEW c \in Conds, CondSignal(f, c) \/ CondBroadcast(f, c)
      PROVE  WaitOrder' /\ waiting' = waiting
  BY <1>1, <1>2, <1>9, SignalKeepsOrder DEF CondSignal, CondBroadcast, condVars
<1>10. ASSUME NEW f \in Fibers, CondWaitRelock(f) PROVE WaitOrder' /\ waiting' = waiting
  BY <1>1, <1>2, <1>10, RelockKeepsOrder DEF CondWaitRelock, condVars
<1>11. ASSUME NEW f \in Fibers, SyncStep(f)
       PROVE  /\ WaitOrder'
              /\ \A g \in Fibers : waiting[g] # NULL /\ waiting'[g] = NULL => ahead[g] = {}
  <2>1. CASE \E m \in Mutexes : (MutexLock(f, m) \/ MutexTrylock(f, m) \/ MutexUnlock(f, m))
                                /\ UNCHANGED condVars
    BY <1>6, <2>1
  <2>2. CASE (MutexLockReturn(f) /\ WaitLeft(f)) \/ CondWaitReturn(f)
    BY <1>7, <2>2
  <2>3. CASE \E c \in Conds, m \in Mutexes : CondWait(f, c, m)
    BY <1>8, <2>3
  <2>4. CASE \E c \in Conds : CondSignal(f, c) \/ CondBroadcast(f, c)
    BY <1>9, <2>4
  <2>5. CASE CondWaitRelock(f)
    BY <1>10, <2>5
  <2> QED BY <1>11, <2>1, <2>2, <2>3, <2>4, <2>5 DEF SyncStep
<1> QED BY <1>1, <1>4, <1>5, <1>11 DEF Next, WaitInv

\* The order in which dfk_cond_wait will return is kept by every step: the history of
\* the calls agrees with the queues of condition variables, run queue and mutexes.
THEOREM WaitInvariance == Spec => []WaitInv
<1>1. Init => WaitInv
  BY InitIInv DEF Init, WaitInv, WaitOrder, SchedInit, MutexInit
<1>2. WaitInv /\ [Next]_vars => WaitInv'
  BY NextWaitInv
<1> QED BY <1>1, <1>2, PTL DEF Spec

\* "Wait-invoke ordering is guaranteed" (cond.h): of two fibers that wait on the same
\* condition variable with the same mutex, the first to call dfk_cond_wait is the first
\* to return from it, for any number of fibers and any mixture of signals, broadcasts
\* and lock contention.
THEOREM CondOrder == Spec => CondFifo
<1>1. WaitInv /\ [Next]_vars =>
        [\A f \in Fibers : waiting[f] # NULL /\ waiting'[f] = NULL => ahead[f] = {}]_vars
  BY NextWaitInv
<1> QED BY <1>1, WaitInvariance, PTL DEF Spec, CondFifo

\* Mutexes, condition variables, fibers and scheduler together implement the abstract
\* monitor: mutual exclusion, admission in the order of the lock calls, atomic
\* release-and-wait and no wake-up without a signal.
THEOREM MonitorRefined == Spec => ImplementsMonitor
<1>1. Init => M!MonitorInit
  <2> SUFFICES ASSUME Init PROVE M!MonitorInit
    OBVIOUS
  <2>1. /\ Holder = [m \in Mutexes |-> NULL] /\ Entry = [m \in Mutexes |-> <<>>]
        /\ Sleepers = [c \in Conds |-> <<>>] /\ MutexOf = [f \in Fibers |-> NULL]
    <3>1. /\ \A m \in Mutexes : owner[m] = NULL /\ list[m] = <<>>
          /\ \A c \in Conds : list[c] = <<>>
          /\ \A f \in Fibers : pc[f] = "user"
      BY QueueNames DEF Init, SchedInit, MutexInit
    <3>2. Holder = [m \in Mutexes |-> NULL]
      BY <3>1 DEF Holder, Inside
    <3>3. Entry = [m \in Mutexes |-> <<>>] /\ Sleepers = [c \in Conds |-> <<>>]
      BY <3>1 DEF Entry, Sleepers
    <3>4. MutexOf = [f \in Fibers |-> NULL]
      BY <3>1 DEF MutexOf
    <3> QED BY <3>2, <3>3, <3>4
  <2> QED BY <2>1, MonitorInitMapped
<1>2. WaitInv /\ [Next]_vars => [M!MonitorNext]_(M!monitorVars)
  <2> SUFFICES ASSUME WaitInv, [Next]_vars
               PROVE  M!MonitorNext \/ UNCHANGED M!monitorVars
    OBVIOUS
  <2>1. IInv
    BY DEF WaitInv
  <2>2. CASE UNCHANGED vars
    BY <2>2, Invisible DEF vars, schedVars, mutexVars
  <2>3. CASE /\ \/ WorkStep
                \/ SchedulerStep
                \/ EventLoopStep
                \/ \E f \in Fibers : FiberStep(f) \/ TerminateClean(f)
             /\ UNCHANGED <<mutexVars, condVars>>
    BY <2>1, <2>3, SchedulerInvisible
  <2>4. ASSUME NEW f \in Fibers, SyncStep(f) PROVE M!MonitorNext \/ UNCHANGED M!monitorVars
    BY <2>4, SyncSimulates
  <2> QED BY <2>2, <2>3, <2>4 DEF Next
<1> QED BY <1>1, <1>2, WaitInvariance, PTL DEF Spec, ImplementsMonitor, M!MonitorSpec
=============================================================================
