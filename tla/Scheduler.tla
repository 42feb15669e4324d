----------------------------- MODULE Scheduler -----------------------------
(***************************************************************************)
(* The cooperative scheduler of dfk (scheduler.c), the life cycle of the   *)
(* fibers it runs (fiber.c) and the work cycle that hosts both             *)
(* (dfk_work, context.c).                                                  *)
(*                                                                         *)
(* Everything runs on one thread: a step belongs to the coroutine named by *)
(* `current', and control moves only where the code calls dfk_yield.  A    *)
(* fiber carries one list hook, so all the dfk_list_t that can hold fibers *)
(* are the components of one function, `list': the scheduler's pending and *)
(* terminated lists, the local list `pending' of dfk__scheduler (called    *)
(* "batch" here) and the wait queues of the synchronisation objects.       *)
(*                                                                         *)
(* A fiber is identified by its address: dfk__fiber_free makes the address *)
(* available to a later malloc, so members of Fibers are reused.           *)
(***************************************************************************)
EXTENDS Naturals, FiniteSets, Sequences

CONSTANTS
  Fibers,       \* addresses malloc can return for a user fiber
  WaitQueues,   \* the _waitqueue lists of mutexes and condition variables
  MaxWork       \* bound on the number of calls of dfk_work

ASSUME SchedulerAssumption ==
  /\ IsFiniteSet(Fibers)
  /\ MaxWork \in Nat
  /\ {"scheduler", "eventloop"} \cap Fibers = {}
  /\ {"pending", "batch", "terminated"} \cap WaitQueues = {}

SystemFibers == {"scheduler", "eventloop"}
Lists == {"pending", "batch", "terminated"} \cup WaitQueues

VARIABLES
  phase,     \* "idle" outside dfk_work, "work" between its two coro_transfers
  result,    \* what the last dfk_work returned
  works,     \* number of dfk_work calls so far
  at,        \* program point of the scheduler fiber inside dfk__scheduler
  current,   \* scheduler->current: the coroutine that is running
  list,      \* the fibers in every dfk_list_t
  iowait,    \* scheduler->iowait
  alive,     \* user fibers that are allocated
  sys,       \* system fibers that are allocated
  pc         \* the library call in which a user fiber gave up control

schedVars == <<phase, result, works, at, current, list, iowait, alive, sys, pc>>

Members(q) == {q[i] : i \in DOMAIN q}

(***************************************************************************)
(* The scheduler's interface, as updates of the state.                     *)
(***************************************************************************)
\* Mutant: dfk_list_prepend for dfk_list_append.
PutAtFront(lists, l, f) == [lists EXCEPT ![l] = <<f>> \o @]

Put(lists, l, f) == [lists EXCEPT ![l] = Append(@, f)]
PopFront(lists, l) == [lists EXCEPT ![l] = Tail(@)]

\* dfk__resume: queue a fiber for execution.
Resumed(lists, f) == Put(lists, "pending", f)

\* Pop the front of a wait queue and dfk__resume it.
WakeFront(lists, w) == Resumed(PopFront(lists, w), Head(lists[w]))

\* Mutant: the wait queue is emptied from its back.
WakeAllReversed(lists, w) ==
  LET q == lists[w] IN
  [lists EXCEPT !["pending"] = @ \o [i \in DOMAIN q |-> q[Len(q) + 1 - i]],
                ![w] = <<>>]

\* Do so until the wait queue is empty.
WakeAll(lists, w) == [lists EXCEPT !["pending"] = @ \o lists[w], ![w] = <<>>]

\* Running code of fiber f; a fiber runs only what follows its last call.
Running(f) == phase = "work" /\ current = f
InUserCode(f) == Running(f) /\ pc[f] = "user"

\* dfk_yield to the scheduler's fiber.
YieldToScheduler == current' = "scheduler"

Queued(f) == \E l \in Lists : f \in Members(list[l])

\* Fibers suspended by dfk__iosuspend that dfk__ioresume did not queue yet.
IoWaiters == {f \in alive : pc[f] = "io" /\ current # f /\ ~ Queued(f)}

-----------------------------------------------------------------------------
(***************************************************************************)
(* dfk_work.                                                               *)
(***************************************************************************)
SchedInit ==
  /\ phase = "idle" /\ result = "none" /\ works = 0
  /\ at = "top" /\ current = "scheduler"
  /\ list = [l \in Lists |-> <<>>]
  /\ iowait = 0
  /\ alive = {} /\ sys = {}
  /\ pc = [f \in Fibers |-> "user"]

\* All three fibers are allocated: dfk__scheduler_init, then dfk__resume of
\* the main fiber.
DfkWork(f) ==
  /\ phase = "idle" /\ works < MaxWork /\ f \notin alive
  /\ phase' = "work" /\ works' = works + 1
  /\ at' = "top" /\ current' = "scheduler"
  /\ list' = Resumed([list EXCEPT !["pending"] = <<>>, !["terminated"] = <<>>], f)
  /\ iowait' = 0
  /\ alive' = alive \cup {f}
  /\ sys' = SystemFibers
  /\ pc' = [pc EXCEPT ![f] = "user"]
  /\ UNCHANGED result

\* dfk__spawn of the main fiber or of the scheduler's fiber fails: whatever
\* was allocated is freed and dfk_errno is returned.
DfkWorkNoMem ==
  /\ phase = "idle" /\ works < MaxWork
  /\ works' = works + 1
  /\ result' = "nomem"
  /\ UNCHANGED <<phase, at, current, list, iowait, alive, sys, pc>>

\* dfk__spawn of the event loop fiber fails: dfk__scheduler_main frees the
\* main fiber and transfers back to dfk_work, which returns dfk_err_ok.
DfkWorkNoEventLoop ==
  /\ phase = "idle" /\ works < MaxWork
  /\ works' = works + 1
  /\ result' = "ok"
  /\ UNCHANGED <<phase, at, current, list, iowait, alive, sys, pc>>

-----------------------------------------------------------------------------
(***************************************************************************)
(* The scheduler's fiber: dfk__scheduler, cut where it switches context.   *)
(***************************************************************************)
SchedulerAt(p) == phase = "work" /\ current = "scheduler" /\ at = p

\* Mutant: the work cycle ends although fibers are to be freed.
IdleIgnoresTerminated == list["pending"] = <<>> /\ iowait = 0

Idle == /\ list["terminated"] = <<>>
        /\ list["pending"] = <<>>
        /\ iowait = 0

\* dfk__scheduler returns 1; the event loop's fiber is freed, control returns
\* to dfk_work, which frees the scheduler's fiber.
SchedulerExit ==
  /\ SchedulerAt("top") /\ Idle
  /\ phase' = "idle" /\ result' = "ok"
  /\ sys' = {}
  /\ UNCHANGED <<works, at, current, list, iowait, alive, pc>>

\* Mutant: the terminated list is walked but not emptied.
SchedulerCollectKeeps ==
  /\ SchedulerAt("top") /\ ~ Idle
  /\ alive' = alive \ Members(list["terminated"])
  /\ list' = [list EXCEPT !["batch"] = list["pending"], !["pending"] = <<>>]
  /\ at' = "batch"
  /\ UNCHANGED <<phase, result, works, current, iowait, sys, pc>>

\* Free the terminated fibers and move the pending list to the local one.
SchedulerCollect ==
  /\ SchedulerAt("top") /\ ~ Idle
  /\ alive' = alive \ Members(list["terminated"])
  /\ list' = [list EXCEPT !["terminated"] = <<>>,
                          !["batch"] = list["pending"],
                          !["pending"] = <<>>]
  /\ at' = "batch"
  /\ UNCHANGED <<phase, result, works, current, iowait, sys, pc>>

\* Pop the next fiber of the local list and yield to it.
SchedulerDispatch ==
  /\ SchedulerAt("batch") /\ list["batch"] # <<>>
  /\ current' = Head(list["batch"])
  /\ list' = PopFront(list, "batch")
  /\ UNCHANGED <<phase, result, works, at, iowait, alive, sys, pc>>

\* Mutant: the event loop is never given control.
SchedulerBatchDoneNoPoll ==
  /\ SchedulerAt("batch") /\ list["batch"] = <<>>
  /\ at' = "top"
  /\ UNCHANGED <<phase, result, works, current, list, iowait, alive, sys, pc>>

\* The local list is exhausted: poll for I/O only if nobody is pending.
SchedulerBatchDone ==
  /\ SchedulerAt("batch") /\ list["batch"] = <<>>
  /\ at' = "top"
  /\ current' = IF list["pending"] = <<>> /\ iowait > 0
                THEN "eventloop" ELSE "scheduler"
  /\ UNCHANGED <<phase, result, works, list, iowait, alive, sys, pc>>

SchedulerStep ==
  SchedulerExit \/ SchedulerCollect \/ SchedulerDispatch \/ SchedulerBatchDone

-----------------------------------------------------------------------------
(***************************************************************************)
(* The event loop's fiber, as far as the scheduler sees it: it blocks      *)
(* until some descriptor is ready, calls dfk__ioresume for the fibers that *)
(* wait for the ready ones and suspends itself.  Line 99 of scheduler.c    *)
(* switches to it with an empty pending list, so a non-empty one says that *)
(* at least one fiber was resumed.                                         *)
(***************************************************************************)
\* Mutant: dfk__ioresume does not decrement iowait.
EventLoopResumeUncounted(f) ==
  /\ Running("eventloop") /\ f \in IoWaiters
  /\ list' = Resumed(list, f)
  /\ UNCHANGED <<phase, result, works, at, current, iowait, alive, sys, pc>>

EventLoopResume(f) ==
  /\ Running("eventloop") /\ f \in IoWaiters
  /\ iowait' = iowait - 1
  /\ list' = Resumed(list, f)
  /\ UNCHANGED <<phase, result, works, at, current, alive, sys, pc>>

EventLoopSuspend ==
  /\ Running("eventloop") /\ list["pending"] # <<>>
  /\ YieldToScheduler
  /\ UNCHANGED <<phase, result, works, at, list, iowait, alive, sys, pc>>

-----------------------------------------------------------------------------
(***************************************************************************)
(* What a running fiber can ask of the scheduler.                          *)
(***************************************************************************)
\* dfk_spawn; a failing malloc leaves everything as it was.
Spawn(f, g) ==
  /\ InUserCode(f) /\ g \in Fibers \ alive
  /\ alive' = alive \cup {g}
  /\ pc' = [pc EXCEPT ![g] = "user"]
  /\ list' = Resumed(list, g)
  /\ UNCHANGED <<phase, result, works, at, current, iowait, sys>>

\* dfk__postpone.
Postpone(f) ==
  /\ InUserCode(f)
  /\ list' = Resumed(list, f)
  /\ YieldToScheduler
  /\ UNCHANGED <<phase, result, works, at, iowait, alive, sys, pc>>

\* dfk__iosuspend.
IoSuspend(f) ==
  /\ InUserCode(f)
  /\ iowait' = iowait + 1
  /\ pc' = [pc EXCEPT ![f] = "io"]
  /\ YieldToScheduler
  /\ UNCHANGED <<phase, result, works, at, list, alive, sys>>

\* The return from dfk__iosuspend, dfk__suspend.
IoReturn(f) ==
  /\ Running(f) /\ pc[f] = "io"
  /\ pc' = [pc EXCEPT ![f] = "user"]
  /\ UNCHANGED <<phase, result, works, at, current, list, iowait, alive, sys>>

\* The entry point returns: dfk__fiber_main calls dfk__terminate.
Terminate(f) ==
  /\ InUserCode(f)
  /\ list' = Put(list, "terminated", f)
  /\ YieldToScheduler
  /\ UNCHANGED <<phase, result, works, at, iowait, alive, sys, pc>>

\* A caller of dfk__suspend appends the fiber to its wait queue first.
Park(f, w) ==
  /\ InUserCode(f)
  /\ list' = Put(list, w, f)
  /\ pc' = [pc EXCEPT ![f] = "parked"]
  /\ YieldToScheduler
  /\ UNCHANGED <<phase, result, works, at, iowait, alive, sys>>

\* dfk__resume of the fiber at the front of a wait queue.
Unpark(f, w) ==
  /\ InUserCode(f) /\ list[w] # <<>>
  /\ list' = WakeFront(list, w)
  /\ UNCHANGED <<phase, result, works, at, current, iowait, alive, sys, pc>>

ParkReturn(f) ==
  /\ Running(f) /\ pc[f] = "parked"
  /\ pc' = [pc EXCEPT ![f] = "user"]
  /\ UNCHANGED <<phase, result, works, at, current, list, iowait, alive, sys>>

-----------------------------------------------------------------------------
\* Steps every user of the scheduler shares.
WorkStep == \/ \E f \in Fibers : DfkWork(f)
            \/ DfkWorkNoMem
            \/ DfkWorkNoEventLoop
EventLoopStep == (\E f \in Fibers : EventLoopResume(f)) \/ EventLoopSuspend
FiberStep(f) == \/ \E g \in Fibers : Spawn(f, g)
                \/ Postpone(f)
                \/ IoSuspend(f)
                \/ IoReturn(f)

\* Steps of a generic user of dfk__suspend and dfk__resume.
SchedNext ==
  \/ WorkStep
  \/ SchedulerStep
  \/ EventLoopStep
  \/ \E f \in Fibers :
       \/ FiberStep(f)
       \/ Terminate(f)
       \/ ParkReturn(f)
       \/ \E w \in WaitQueues : Park(f, w) \/ Unpark(f, w)

SchedSpec == SchedInit /\ [][SchedNext]_schedVars

-----------------------------------------------------------------------------
(***************************************************************************)
(* Properties.                                                             *)
(***************************************************************************)
\* Every variable has its type.
SchedTypeOK ==
  /\ phase \in {"idle", "work"}
  /\ result \in {"none", "ok", "nomem"}
  /\ works \in Nat
  /\ at \in {"top", "batch"}
  /\ current \in Fibers \cup SystemFibers
  /\ list \in [Lists -> Seq(Fibers)]
  /\ iowait \in Nat
  /\ alive \subseteq Fibers
  /\ sys \subseteq SystemFibers
  /\ pc \in [Fibers -> {"user", "io", "parked", "lock", "wait"}]

\* A fiber has one hook: it is in at most one list, at most once.  Appending a
\* fiber that is still linked elsewhere would corrupt both lists (list.c).
Exclusive(lists) ==
  \A k, l \in Lists : \A i \in DOMAIN lists[k], j \in DOMAIN lists[l] :
    lists[k][i] = lists[l][j] => k = l /\ i = j
HookExclusive == Exclusive(list)

\* No list refers to a fiber that was freed or that is running, and only an
\* allocated fiber runs: dfk__scheduler never yields to a freed stack.
NoDanglingFiber ==
  /\ \A l \in Lists : Members(list[l]) \subseteq alive \ {current}
  /\ current \in alive \cup SystemFibers
  /\ phase = "work" => sys = SystemFibers

\* scheduler->iowait counts exactly the fibers suspended for I/O: were it too
\* small the cycle would end under them, too large and it would never end.
IowaitExact == iowait = Cardinality(IoWaiters)

\* No allocated fiber is forgotten: it runs, or some list holds it, or it
\* waits for I/O.  Anything else could never be executed or freed again.
NoLostFiber ==
  \A f \in alive : current = f \/ Queued(f) \/ f \in IoWaiters

\* The bookkeeping of dfk__scheduler as a whole: the lists, the allocated fibers and
\* the counter iowait describe the same situation between any two switches.
SchedulerConsistent == HookExclusive /\ NoDanglingFiber /\ NoLostFiber /\ IowaitExact

(***************************************************************************)
(* The inductive invariant of SchedSpec, shared by every module that runs  *)
(* on top of the scheduler.                                                *)
(***************************************************************************)
\* What the scheduler's program point says about its lists.
SchedulerPoint ==
  /\ at = "top" => list["batch"] = <<>>
  /\ phase = "idle" => /\ at = "top" /\ current = "scheduler"
                       /\ sys = {} /\ iowait = 0
                       /\ list["pending"] = <<>> /\ list["terminated"] = <<>>

\* A fiber that was freed, or is about to be, left its entry point in user code.
EndedInUserCode ==
  \A f \in Fibers :
    f \in Members(list["terminated"]) \/ f \notin alive => pc[f] = "user"

SchedInv ==
  /\ SchedTypeOK
  /\ SchedulerConsistent
  /\ SchedulerPoint
  /\ EndedInUserCode

\* dfk_work returns only when nothing can run any more: what is left of the
\* user's fibers is parked in wait queues, and the system fibers are freed.
ExitQuiescent ==
  phase = "idle" =>
    /\ sys = {}
    /\ alive = UNION {Members(list[w]) : w \in WaitQueues}

\* Fibers in the order in which the scheduler will run them.
RunQueue == list["batch"] \o list["pending"]

\* A step leaves the run queue as it is, appends to it, or runs its first fiber.
RunsInOrder ==
  LET q == RunQueue IN
  \/ Len(q) <= Len(RunQueue') /\ SubSeq(RunQueue', 1, Len(q)) = q
  \/ q # <<>> /\ RunQueue' = Tail(q) /\ current' = Head(q)

\* Fibers run in the order in which they became ready, across the switch of
\* the pending list to the local list.
RunQueueFifo == [][RunsInOrder]_schedVars

\* The run queue runs dry again and again.  A fiber that keeps postponing itself
\* prevents it, and then nobody is ever polled for.
KeepsPolling == []<>(SchedulerAt("batch") /\ RunQueue = <<>>)

\* As long as the run queue runs dry again and again, a fiber that waits for
\* I/O is executed: the scheduler polls only when nobody is pending.
IoServed ==
  KeepsPolling => \A f \in Fibers : f \in IoWaiters ~> current = f

\* The work cycle ends once no fiber can run and none waits for I/O.
WorkEnds ==
  (phase = "work" /\ current \notin Fibers /\ RunQueue = <<>> /\ IoWaiters = {})
    ~> phase = "idle"

\* "A main fiber with entry point @ep is created and scheduled for execution"
\* (context.h): a dfk_work that returns without having done so reports an error.
OkMeansScheduled ==
  [][works' # works /\ phase' = "idle" => result' # "ok"]_schedVars
=============================================================================
