----------------------------- MODULE EventLoop -----------------------------
(***************************************************************************)
(* Blocking I/O: dfk__read and dfk_tcp_socket_write, dfk__io and the event *)
(* loop's fiber, on the epoll (epoll.c) or the select (select.c) backend,  *)
(* on top of the scheduler.                                                *)
(*                                                                         *)
(* `fds' is what dfk__io registered: the kernel's epoll set or loop->fds.  *)
(* A registration points into the stack of the fiber that waits, so one    *)
(* that outlives the wait is a dangling pointer.  `open', `ready' and the  *)
(* actions of the kernel stand for the operating system.                   *)
(*                                                                         *)
(* A call that epoll_wait or select ends with EINTR is repeated and leaves *)
(* no trace; neither call times out, so neither returns 0.                 *)
(***************************************************************************)
EXTENDS Scheduler

CONSTANTS
  Fds,         \* descriptors, which the kernel reuses
  Backends,    \* backends the build may have: "epoll", "select"
  MaxEvents,   \* size of the array passed to epoll_wait (64 in the code)
  Usages,      \* ways the program may use descriptors: "own", "shared"
  Ops,         \* what fibers wait for: "in" (read), "out" (write) or both
  NULL

ASSUME EventLoopAssumption ==
  /\ Backends \subseteq {"epoll", "select"}
  /\ MaxEvents \in Nat \ {0}
  /\ Usages \subseteq {"own", "shared"}
  /\ Ops \subseteq {"in", "out"}
  /\ NULL \notin Fibers \cup Fds \cup [fd : Fds, ev : {"in", "out"}]

Events == {"in", "out", "err"}   \* DFK_IO_IN, DFK_IO_OUT, DFK_IO_ERR

VARIABLES
  backend,  \* the backend of the build, which never changes
  usage,    \* "shared" if fibers use, and close, each other's descriptors
  open,     \* descriptors that are open
  ready,    \* events that hold for a descriptor
  user,     \* the fiber that opened a descriptor
  fds,      \* registrations, oldest first
  events,   \* what the last poll reported and the loop has not handled yet
  loop,     \* the loop's fiber: "run", "exited" (terminated), or "freed"
  call,     \* the descriptor and event a fiber in dfk__io waits for
  got,      \* the events dfk__io returns to it
  res       \* result of a fiber's last read or write

ioVars == <<backend, usage, open, ready, user, fds, events, loop, call, got, res>>
vars == <<schedVars, ioVars>>

IoInit ==
  /\ backend \in Backends /\ usage \in Usages
  /\ open = {} /\ ready = [d \in Fds |-> {}] /\ user = [d \in Fds |-> NULL]
  /\ fds = <<>> /\ events = {} /\ loop = "run"
  /\ call = [f \in Fibers |-> NULL]
  /\ got = [f \in Fibers |-> {}]
  /\ res = [f \in Fibers |-> "none"]

\* dfk_list_erase: q without its i-th element.
Without(q, i) == [j \in 1 .. Len(q) - 1 |-> IF j < i THEN q[j] ELSE q[j + 1]]

MayUse(f, d) == usage = "shared" \/ user[d] = f
Registered(d) == \E r \in Members(fds) : r.fd = d

-----------------------------------------------------------------------------
(***************************************************************************)
(* Descriptors come and go, and become ready.                              *)
(***************************************************************************)
\* dfk_tcp_socket_init, or an accepted connection.
Open(f, d) ==
  /\ InUserCode(f) /\ d \notin open
  /\ open' = open \cup {d}
  /\ ready' = [ready EXCEPT ![d] = {}]
  /\ user' = [user EXCEPT ![d] = f]
  /\ UNCHANGED <<schedVars, backend, usage, fds, events, loop, call, got, res>>

\* dfk__close.  The kernel forgets an epoll registration with its descriptor;
\* loop->fds still has the element.
Close(f, d) ==
  /\ InUserCode(f) /\ d \in open /\ MayUse(f, d)
  /\ open' = open \ {d}
  /\ ready' = [ready EXCEPT ![d] = {}]
  /\ user' = [user EXCEPT ![d] = NULL]
  /\ fds' = IF backend = "epoll" /\ Registered(d)
            THEN Without(fds, CHOOSE i \in DOMAIN fds : fds[i].fd = d) ELSE fds
  /\ UNCHANGED <<schedVars, backend, usage, events, loop, call, got, res>>

\* The peer sent data, made room in its window, closed or broke the connection.
Arrive(d, e) ==
  /\ d \in open /\ e \notin ready[d]
  /\ ready' = [ready EXCEPT ![d] = @ \cup {e}]
  /\ UNCHANGED <<schedVars, backend, usage, open, user, fds, events, loop, call, got, res>>

-----------------------------------------------------------------------------
(***************************************************************************)
(* dfk__read (e = "in") and dfk_tcp_socket_write (e = "out").              *)
(***************************************************************************)
\* read(2) or write(2) transfers something: all there is, or less.
Transfer(f, d, e) ==
  /\ ready' \in {ready, [ready EXCEPT ![d] = @ \ {e}]}
  /\ res' = [res EXCEPT ![f] = "ok"]

\* The first attempt succeeds ...
IoNow(f, d, e) ==
  /\ InUserCode(f) /\ MayUse(f, d)
  /\ d \in open /\ e \in ready[d]
  /\ Transfer(f, d, e)
  /\ UNCHANGED <<schedVars, backend, usage, open, user, fds, events, loop, call, got>>

\* ... or fails with something else than EAGAIN ...
IoFails(f, d) ==
  /\ InUserCode(f) /\ MayUse(f, d)
  /\ d \notin open \/ "err" \in ready[d]
  /\ res' = [res EXCEPT ![f] = "error"]
  /\ UNCHANGED <<schedVars, backend, usage, open, ready, user, fds, events, loop, call, got>>

\* ... or would block: dfk__io.
WouldBlock(f, d, e) ==
  /\ InUserCode(f) /\ MayUse(f, d)
  /\ d \in open /\ {e, "err"} \cap ready[d] = {}

\* The kernel's epoll set has a descriptor once.  loop->fds may have it several
\* times: the assertion of select.c that it has not is in debug builds only.
IoRegister(f, d, e) ==
  /\ WouldBlock(f, d, e)
  /\ backend = "epoll" => ~ Registered(d)
  /\ fds' = Append(fds, [fd |-> d, ev |-> e, fiber |-> f])
  /\ call' = [call EXCEPT ![f] = [fd |-> d, ev |-> e]]
  /\ IoSuspend(f)
  /\ UNCHANGED <<backend, usage, open, ready, user, events, loop, got, res>>

\* EPOLL_CTL_ADD fails for a descriptor that is registered: DFK_IO_ERR.
EpollAddFails(f, d, e) ==
  /\ backend = "epoll"
  /\ WouldBlock(f, d, e) /\ Registered(d)
  /\ res' = [res EXCEPT ![f] = "error"]
  /\ UNCHANGED <<schedVars, backend, usage, open, ready, user, fds, events, loop, call, got>>

\* The assertion on what dfk__io returned; where it fails the program ends.
Answered(f) == {call[f].ev, "err"} \cap got[f] # {}

\* dfk__io returned: give up on DFK_IO_ERR, otherwise try once more.  The second
\* attempt fails too if the connection broke in the meantime, or if another
\* fiber took what there was.
IoComplete(f) ==
  LET d == call[f].fd
      e == call[f].ev
  IN
  /\ IoReturn(f) /\ Answered(f)
  /\ \/ /\ "err" \notin got[f] /\ d \in open /\ e \in ready[d]
        /\ Transfer(f, d, e)
     \/ /\ \/ "err" \in got[f] \/ d \notin open
           \/ e \notin ready[d] \/ "err" \in ready[d]
        /\ res' = [res EXCEPT ![f] = "error"]
        /\ UNCHANGED ready
  /\ call' = [call EXCEPT ![f] = NULL]
  /\ got' = [got EXCEPT ![f] = {}]
  /\ UNCHANGED <<backend, usage, open, user, fds, events, loop>>

-----------------------------------------------------------------------------
(***************************************************************************)
(* The event loop's fiber.                                                 *)
(***************************************************************************)
Polling == Running("eventloop") /\ loop = "run" /\ list["pending"] = <<>> /\ events = {}

\* Mutant: whatever happened, what the fiber asked for is reported.
EpollEventAsked(r) == [reg |-> r, got |-> IF ready[r.fd] = {} THEN {} ELSE {r.ev}]

\* What epoll_wait says of a registration.
EpollEvent(r) == [reg |-> r, got |-> ready[r.fd] \cap {r.ev, "err"}]

\* epoll_wait: at most MaxEvents of the descriptors that are ready.
EpollWait ==
  /\ backend = "epoll" /\ Polling
  /\ LET hits == {r \in Members(fds) : EpollEvent(r).got # {}} IN
     \E E \in SUBSET hits :
       /\ E # {} /\ Cardinality(E) <= MaxEvents
       /\ events' = {EpollEvent(r) : r \in E}
  /\ UNCHANGED <<schedVars, backend, usage, open, ready, user, fds, loop, call, got, res>>

\* Membership of a registration's descriptor in the three fd_sets.
SelectEvent(r) ==
  [reg |-> r,
   got |-> {e \in {"in", "out"} : /\ e \in ready[r.fd]
                                  /\ \E q \in Members(fds) : q.fd = r.fd /\ q.ev = e}
           \cup (ready[r.fd] \cap {"err"})]

\* select: every descriptor that is ready.
SelectWait ==
  /\ backend = "select" /\ Polling
  /\ \A r \in Members(fds) : r.fd \in open
  /\ events' = {v \in {SelectEvent(r) : r \in Members(fds)} : v.got # {}}
  /\ events' # {}
  /\ UNCHANGED <<schedVars, backend, usage, open, ready, user, fds, loop, call, got, res>>

\* select fails with EBADF: the loop ends, and its fiber with it.
SelectFails ==
  /\ backend = "select" /\ Polling
  /\ \E r \in Members(fds) : r.fd \notin open
  /\ loop' = "exited"
  /\ YieldToScheduler
  /\ UNCHANGED <<phase, result, works, at, list, iowait, alive, sys, pc,
                 backend, usage, open, ready, user, fds, events, call, got, res>>

\* Mutants: the registration outlives the wait, or iowait is not decremented.
DispatchKeeps(v) ==
  /\ Running("eventloop") /\ v \in events
  /\ list' = Resumed(list, v.reg.fiber)
  /\ iowait' = iowait - 1
  /\ got' = [got EXCEPT ![v.reg.fiber] = v.got]
  /\ events' = events \ {v}
  /\ UNCHANGED <<phase, result, works, at, current, alive, sys, pc,
                 backend, usage, open, ready, user, fds, loop, call, res>>
DispatchUncounted(v) ==
  /\ Running("eventloop") /\ v \in events
  /\ list' = Resumed(list, v.reg.fiber)
  /\ got' = [got EXCEPT ![v.reg.fiber] = v.got]
  /\ events' = events \ {v}
  /\ \E i \in DOMAIN fds : fds[i] = v.reg /\ fds' = Without(fds, i)
  /\ UNCHANGED <<phase, result, works, at, current, iowait, alive, sys, pc,
                 backend, usage, open, ready, user, loop, call, res>>

\* Mutant: the reported events are dropped.
DispatchBlind(v) ==
  /\ Running("eventloop") /\ v \in events
  /\ list' = Resumed(list, v.reg.fiber)
  /\ iowait' = iowait - 1
  /\ events' = events \ {v}
  /\ \E i \in DOMAIN fds : fds[i] = v.reg /\ fds' = Without(fds, i)
  /\ UNCHANGED <<phase, result, works, at, current, alive, sys, pc,
                 backend, usage, open, ready, user, loop, call, got, res>>

\* Mutant: the front of the list is erased instead of the element found.
DispatchPopsFront(v) ==
  /\ Running("eventloop") /\ v \in events
  /\ list' = Resumed(list, v.reg.fiber)
  /\ iowait' = iowait - 1
  /\ got' = [got EXCEPT ![v.reg.fiber] = v.got]
  /\ events' = events \ {v}
  /\ fds' = Tail(fds)
  /\ UNCHANGED <<phase, result, works, at, current, alive, sys, pc,
                 backend, usage, open, ready, user, loop, call, res>>

\* One iteration over the reported descriptors: store the events, dfk__ioresume
\* and remove the registration.  select.c goes through its list in order.
Dispatch(v) ==
  /\ Running("eventloop") /\ v \in events
  /\ list' = Resumed(list, v.reg.fiber)
  /\ iowait' = iowait - 1
  /\ got' = [got EXCEPT ![v.reg.fiber] = v.got]
  /\ events' = events \ {v}
  /\ \E i \in DOMAIN fds :
       /\ fds[i] = v.reg
       /\ backend = "select" => \A j \in 1 .. i - 1, w \in events : w.reg # fds[j]
       /\ fds' = Without(fds, i)
  /\ UNCHANGED <<phase, result, works, at, current, alive, sys, pc,
                 backend, usage, open, ready, user, loop, call, res>>

\* dfk__suspend once everything is handled.
LoopSuspend ==
  /\ loop = "run" /\ events = {}
  /\ EventLoopSuspend
  /\ UNCHANGED ioVars

LoopStep ==
  \/ EpollWait \/ SelectWait \/ SelectFails
  \/ \E v \in events : Dispatch(v)
  \/ LoopSuspend

-----------------------------------------------------------------------------
\* dfk__eventloop_init makes a new, empty epoll set or list.
WorkBegins(f) ==
  /\ DfkWork(f)
  /\ fds' = <<>> /\ events' = {} /\ loop' = "run"
  /\ UNCHANGED <<backend, usage, open, ready, user, call, got, res>>

\* The scheduler frees the loop's fiber when it finds it terminated.
Scheduling ==
  \/ SchedulerCollect /\ IF loop = "exited"
                         THEN loop' = "freed" /\ UNCHANGED <<backend, usage, open, ready, user, fds, events,
                                                             call, got, res>>
                         ELSE UNCHANGED ioVars
  \/ (SchedulerExit \/ SchedulerDispatch \/ SchedulerBatchDone) /\ UNCHANGED ioVars

\* The entry point returns after the fiber closed what it opened.
TerminateClosed(f) ==
  /\ \A d \in Fds : user[d] # f
  /\ Terminate(f)
  /\ UNCHANGED ioVars

IoStep(f) ==
  \/ \E d \in Fds :
       \/ Open(f, d) \/ Close(f, d) \/ IoFails(f, d)
       \/ \E e \in Ops : \/ IoNow(f, d, e)
                         \/ IoRegister(f, d, e)
                         \/ EpollAddFails(f, d, e)
  \/ IoComplete(f)

Init == SchedInit /\ IoInit

Next ==
  \/ \E f \in Fibers : WorkBegins(f)
  \/ Scheduling
  \/ LoopStep
  \/ \E d \in Fds, e \in Ops \cup {"err"} : Arrive(d, e)
  \/ \E f \in Fibers :
       \/ IoStep(f)
       \/ TerminateClosed(f)
       \/ Postpone(f) /\ UNCHANGED ioVars
       \/ (\E g \in Fibers : Spawn(f, g)) /\ UNCHANGED ioVars

Spec == Init /\ [][Next]_vars

(***************************************************************************)
(* Fairness: the running coroutine makes progress, a fiber sooner or later *)
(* gives up control, and a ready descriptor that is polled again and again *)
(* is reported: the kernel keeps its ready list in order of arrival.       *)
(***************************************************************************)
Reports(f) == EpollWait /\ \E v \in events' : v.reg.fiber = f

Fairness ==
  /\ WF_vars(Scheduling)
  /\ WF_vars(LoopStep)
  /\ \A f \in Fibers :
       /\ SF_vars(Reports(f))
       /\ WF_vars(IoComplete(f))
       /\ WF_vars(\/ TerminateClosed(f)
                  \/ Postpone(f) /\ UNCHANGED ioVars
                  \/ \E d \in Fds, e \in Ops : IoRegister(f, d, e))

FairSpec == Spec /\ Fairness

-----------------------------------------------------------------------------
(***************************************************************************)
(* Properties.                                                             *)
(***************************************************************************)
Registration == [fd : Fds, ev : {"in", "out"}, fiber : Fibers]

\* Every variable has its type.
IoTypeOK ==
  /\ SchedTypeOK
  /\ backend \in Backends /\ usage \in Usages
  /\ open \subseteq Fds
  /\ ready \in [Fds -> SUBSET Events]
  /\ user \in [Fds -> Fibers \cup {NULL}]
  /\ fds \in Seq(Registration)
  /\ events \subseteq [reg : Registration, got : SUBSET Events]
  /\ loop \in {"run", "exited", "freed"}
  /\ call \in [Fibers -> [fd : Fds, ev : {"in", "out"}] \cup {NULL}]
  /\ got \in [Fibers -> SUBSET Events]
  /\ res \in [Fibers -> {"none", "ok", "error"}]

\* Every registration belongs to a fiber that is still suspended in the dfk__io
\* that made it: dfk__eventloop_main never follows a pointer into the stack of
\* a fiber that went on or that was freed, and resumes nobody twice.
RegistrationValid ==
  /\ \A r \in Members(fds) : /\ r.fiber \in IoWaiters
                             /\ call[r.fiber] = [fd |-> r.fd, ev |-> r.ev]
  /\ \A v \in events : v.reg \in Members(fds)
  /\ \A i, j \in DOMAIN fds : fds[i].fiber = fds[j].fiber => i = j

\* Nobody waits for a descriptor the loop does not watch: the wait would never
\* end, and iowait would keep the work cycle from ending.
WaitIsWatched ==
  usage = "own" => \A f \in IoWaiters : \E r \in Members(fds) : r.fiber = f /\ r.fd \in open

\* A descriptor can be waited for by one fiber only.
OneWaiterPerFd == backend = "epoll" \/ usage = "own"

\* The assertions after DFK_IO in dfk__read and dfk_tcp_socket_write hold: the loop
\* reports what the fiber asked for.
AnswerAsserted == \A f \in Fibers : Running(f) /\ pc[f] = "io" => Answered(f)

\* They hold unless two fibers wait for one descriptor in select.
GotWhatItWanted == OneWaiterPerFd => AnswerAsserted

(***************************************************************************)
(* The inductive invariant of Spec.                                        *)
(***************************************************************************)
\* What is reported for a descriptor then belongs to the fiber that registered it.
RegisteredOnce == OneWaiterPerFd => \A i, j \in DOMAIN fds : fds[i].fd = fds[j].fd => i = j

\* Reported events are those of one poll, hold, and include what the fiber waits for.
EventsFresh ==
  /\ events # {} => Running("eventloop")
  /\ \A v, w \in events : v.reg = w.reg => v = w
  /\ \A v \in events : v.got \subseteq ready[v.reg.fd]
  /\ OneWaiterPerFd => \A v \in events : {v.reg.ev, "err"} \cap v.got # {}

\* A fiber in dfk__io that was resumed has its answer ...
AnswerReady ==
  \A f \in Fibers : pc[f] = "io" =>
    /\ call[f] # NULL
    /\ OneWaiterPerFd /\ f \notin IoWaiters => Answered(f)

\* ... which still holds if no other fiber uses the descriptor.
AnswerHolds ==
  usage = "own" =>
    \A f \in Fibers : pc[f] = "io" =>
      /\ call[f].fd \in open /\ user[call[f].fd] = f
      /\ f \notin IoWaiters => got[f] \subseteq ready[call[f].fd]

IoInv ==
  /\ IoTypeOK
  /\ SchedInv
  /\ RegistrationValid
  /\ RegisteredOnce
  /\ EventsFresh
  /\ AnswerReady
  /\ AnswerHolds
  /\ WaitIsWatched

\* A read or write that had to wait fails only if the connection did: no event is
\* reported that does not hold, and nobody who runs between the report and the
\* second attempt consumes it.
NoSpuriousError ==
  [][\A f \in Fibers :
       usage = "own" /\ pc[f] = "io" /\ pc'[f] = "user"
         => res'[f] = "ok" \/ "err" \in ready[call[f].fd]]_vars

\* With its event loop, the system is one the module Scheduler describes, except
\* that the loop's fiber may end.
ImplementsScheduler ==
  SchedInit /\ [][SchedNext \/ (loop = "run" /\ loop' = "exited")]_schedVars

\* Polls are never starved: the loop's fiber gets control again and again.
PollsAgain == []<>Running("eventloop")

\* A fiber whose descriptor is ready runs again, even if more descriptors are
\* ready than one epoll_wait reports.
ReadyIsServed ==
  PollsAgain =>
    \A f \in Fibers :
      (f \in IoWaiters /\ {call[f].ev, "err"} \cap ready[call[f].fd] # {}) ~> current = f

\* "Any operation currently running will be interrupted" (dfk_tcp_socket_close,
\* tcp_socket.h): a fiber does not wait for ever for a descriptor that is closed.
CloseInterrupts ==
  PollsAgain =>
    \A f \in Fibers : (f \in IoWaiters /\ call[f].fd \notin open) ~> f \notin IoWaiters

\* Closing a descriptor interrupts the operation on it and does no other harm:
\* the scheduler never switches to an event loop whose fiber was freed.
LoopNotFreed == Running("eventloop") => loop # "freed"
=============================================================================
