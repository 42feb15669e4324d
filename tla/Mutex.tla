------------------------------- MODULE Mutex -------------------------------
(***************************************************************************)
(* dfk_mutex_t (mutex.c) on top of the scheduler.                          *)
(*                                                                         *)
(* dfk_mutex_unlock hands the mutex over to the fiber at the front of the  *)
(* wait queue: the new owner is recorded before that fiber runs again.  A  *)
(* fiber therefore becomes `_owner' in somebody else's step and learns it  *)
(* when its own dfk__suspend returns.                                      *)
(*                                                                         *)
(* `held' is the caller's view: the mutexes whose dfk_mutex_lock (or       *)
(* trylock, or dfk_cond_wait) returned to the fiber and that it has not    *)
(* unlocked since.  The code has no lock counter: locking again is a no-op *)
(* and one dfk_mutex_unlock releases the mutex (ut/test_mutex.c,           *)
(* recursive_lock).  Callers are assumed to unlock only what they hold and *)
(* to unlock everything before their entry point returns.                  *)
(***************************************************************************)
EXTENDS Scheduler

CONSTANTS Mutexes, NULL

ASSUME MutexAssumption ==
  /\ Mutexes \subseteq WaitQueues
  /\ NULL \notin Fibers \cup Mutexes

VARIABLES
  owner,    \* mutex->_owner
  target,   \* argument of the dfk_mutex_lock or dfk_cond_wait a fiber is in
  held      \* mutexes a fiber believes it holds

mutexVars == <<owner, target, held>>

MutexInit ==
  /\ owner = [m \in Mutexes |-> NULL]
  /\ target = [f \in Fibers |-> NULL]
  /\ held = [f \in Fibers |-> {}]

-----------------------------------------------------------------------------
\* Mutants: the owner is not cleared, or the new owner is not resumed.
NextOwnerStale(m) == IF list[m] = <<>> THEN owner[m] ELSE Head(list[m])
ReleasedNoWake(m) == list

\* What unlocking does to the owner and to the lists: the front of the wait
\* queue becomes the owner and is queued for execution.
NextOwner(m) == IF list[m] = <<>> THEN NULL ELSE Head(list[m])
Released(m) == IF list[m] = <<>> THEN list ELSE WakeFront(list, m)

\* dfk_mutex_lock when the caller gets the mutex without waiting.
LockAcquire(f, m) ==
  /\ owner[m] \in {NULL, f}
  /\ owner' = [owner EXCEPT ![m] = f]
  /\ held' = [held EXCEPT ![f] = @ \cup {m}]
  /\ target' = [target EXCEPT ![f] = NULL]
  /\ pc' = [pc EXCEPT ![f] = "user"]
  /\ UNCHANGED <<current, list>>

\* dfk_mutex_lock when somebody else owns the mutex: queue up and suspend.
LockBlock(f, m) ==
  /\ owner[m] \notin {NULL, f}
  /\ list' = Put(list, m, f)
  /\ target' = [target EXCEPT ![f] = m]
  /\ pc' = [pc EXCEPT ![f] = "lock"]
  /\ YieldToScheduler
  /\ UNCHANGED <<owner, held>>

MutexLock(f, m) ==
  /\ InUserCode(f)
  /\ LockAcquire(f, m) \/ LockBlock(f, m)
  /\ UNCHANGED <<phase, result, works, at, iowait, alive, sys>>

\* dfk__suspend returned inside dfk_mutex_lock; line 58 asserts that the
\* mutex was handed over.
MutexLockReturn(f) ==
  /\ Running(f) /\ pc[f] = "lock"
  /\ pc' = [pc EXCEPT ![f] = "user"]
  /\ held' = [held EXCEPT ![f] = @ \cup {target[f]}]
  /\ target' = [target EXCEPT ![f] = NULL]
  /\ UNCHANGED <<phase, result, works, at, current, list, iowait, alive, sys, owner>>

\* Mutant: dfk_mutex_trylock takes the mutex from its owner.
MutexTrylockSteals(f, m) ==
  /\ InUserCode(f)
  /\ owner' = [owner EXCEPT ![m] = f]
  /\ held' = [held EXCEPT ![f] = @ \cup {m}]
  /\ UNCHANGED <<schedVars, target>>

\* dfk_mutex_trylock; when it returns dfk_err_busy nothing changes.
MutexTrylock(f, m) ==
  /\ InUserCode(f)
  /\ LockAcquire(f, m)
  /\ UNCHANGED <<phase, result, works, at, iowait, alive, sys>>

\* Mutant: the mutex is freed without a look at its wait queue.
MutexUnlockNoHandOff(f, m) ==
  /\ InUserCode(f) /\ m \in held[f]
  /\ owner' = [owner EXCEPT ![m] = NULL]
  /\ held' = [held EXCEPT ![f] = @ \ {m}]
  /\ UNCHANGED <<schedVars, target>>

MutexUnlock(f, m) ==
  /\ InUserCode(f) /\ m \in held[f]
  /\ owner' = [owner EXCEPT ![m] = NextOwner(m)]
  /\ list' = Released(m)
  /\ held' = [held EXCEPT ![f] = @ \ {m}]
  /\ UNCHANGED <<phase, result, works, at, current, iowait, alive, sys, pc, target>>

\* The entry point returns; the caller has released its mutexes.
TerminateClean(f) == held[f] = {} /\ Terminate(f)

-----------------------------------------------------------------------------
(***************************************************************************)
(* Properties.                                                             *)
(***************************************************************************)
MutexTypeOK ==
  /\ owner \in [Mutexes -> Fibers \cup {NULL}]
  /\ target \in [Fibers -> Mutexes \cup {NULL}]
  /\ held \in [Fibers -> SUBSET Mutexes]

Waiters(m) == Members(list[m])

\* A fiber that was handed the mutex and has not run since.
HandedOver(f, m) == pc[f] = "lock" /\ target[f] = m /\ f \notin Waiters(m)

\* The caller's view and _owner agree: who believes to hold a mutex is its
\* only owner (the assertions of dfk_mutex_unlock and dfk_cond_wait), and the
\* owner either holds it or is about to return from dfk_mutex_lock.
OwnerAgrees ==
  \A m \in Mutexes, f \in Fibers :
    owner[m] = f <=> (m \in held[f] \/ HandedOver(f, m))

\* The assertion that ends dfk_mutex_lock, in the state in which it is checked.
LockReturnsOwned ==
  \A f \in Fibers : Running(f) /\ pc[f] = "lock" => owner[target[f]] = f

\* No wake-up is lost: nobody waits for a mutex that is free.
NoWaitOnFree == \A m \in Mutexes : owner[m] = NULL => list[m] = <<>>

\* A mutex is never left with the address of a freed fiber, which a new fiber
\* could inherit.
OwnerAlive == \A m \in Mutexes : owner[m] \in alive \cup {NULL}

\* dfk_mutex_t as a whole, while locks, unlocks and hand-overs interleave: one owner,
\* who is alive and is the fiber that believes to hold the mutex, and no wake-up lost.
MutexCorrect == OwnerAgrees /\ OwnerAlive /\ NoWaitOnFree /\ LockReturnsOwned

\* When dfk_work returns although fibers still wait for a mutex, its owner is
\* itself parked in some wait queue: the scheduler never abandons a fiber
\* whose mutex could have been released.
AbandonedOnlyByDeadlock ==
  phase = "idle" =>
    \A m \in Mutexes : list[m] # <<>> =>
      \E w \in WaitQueues : owner[m] \in Members(list[w])

=============================================================================
