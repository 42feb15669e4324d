------------------------------- MODULE Signal -------------------------------
(***************************************************************************)
(* Waiting for signals (signal.c) on top of the event loop: each waiting   *)
(* fiber reads from a pipe of its own, and the signal handler writes to    *)
(* the pipes of those that wait for the signal.                            *)
(*                                                                         *)
(* The handler may run between any two steps.  It walks the static list    *)
(* waiting_fibers, whose elements lie in the stack frames of dfk__sigwait. *)
(* A pipe is known by its read end: both ends are created and closed       *)
(* together.                                                               *)
(***************************************************************************)
EXTENDS EventLoop

CONSTANTS
  Signals,      \* the signals that are sent to the process
  Uncatchable   \* those that sigaction refuses (SIGKILL and SIGSTOP)

\* The pipe of a call is used by nobody else, and the call reads from it.
ASSUME SignalAssumption ==
  /\ Uncatchable \subseteq Signals
  /\ Usages \subseteq {"own"} /\ "in" \in Ops

VARIABLES
  waiting_fibers,  \* the elements of the list, in order
  installed,       \* signals whose handler is dfk__sighandler
  wait,            \* the dfk__sigwait a fiber is in
  failed,          \* some sigaction failed
  sane             \* FALSE once memory of a frame that is gone was used

sigVars == <<waiting_fibers, installed, wait, failed, sane>>
allVars == <<vars, sigVars>>

\* `todo': signals whose handler is to be installed; `heard': one of `signum' was
\* delivered since the element was appended.
NoWait == [stage |-> "none", fd |-> NULL, signum |-> {}, todo |-> {}, heard |-> FALSE]

SignalInit ==
  /\ Init
  /\ waiting_fibers = <<>> /\ installed = {}
  /\ wait = [f \in Fibers |-> NoWait]
  /\ failed = FALSE /\ sane = TRUE

Waits(f, stage) == wait[f].stage = stage
Set(f, stage) == wait' = [wait EXCEPT ![f].stage = stage]

\* An element whose dfk__sigwait has returned.
Dangling == \E e \in Members(waiting_fibers) : Waits(e.fiber, "none")

\* What the list and the handler do next is undefined.
Undefined == Dangling /\ sane' = FALSE /\ UNCHANGED <<vars, waiting_fibers, installed, wait, failed>>

-----------------------------------------------------------------------------
(***************************************************************************)
(* dfk__sigwait.                                                           *)
(***************************************************************************)
\* What wf.signum may hold for the signals S of the call: dfk_sigwait passes one
\* and a second is read from the memory behind it.
Signum(S) == IF Cardinality(S) = 2 THEN {S} ELSE {S} \cup {S \cup {s} : s \in Signals}

\* The pipe cannot be created.
PipeFails(f) ==
  /\ InUserCode(f) /\ Waits(f, "none")
  /\ res' = [res EXCEPT ![f] = "error"]
  /\ UNCHANGED <<schedVars, backend, usage, open, ready, user, fds, events, loop, call, got, sigVars>>

\* The pipe is created, on descriptors the kernel chooses, and the element appended.
Sigwait(f, S) ==
  /\ InUserCode(f) /\ Waits(f, "none") /\ open # Fds
  /\ \/ Undefined
     \/ /\ ~ Dangling
        /\ LET d == CHOOSE x \in Fds : x \notin open IN
           /\ Open(f, d)
           /\ \E signum \in Signum(S) :
                /\ wait' = [wait EXCEPT ![f] = [stage |-> "install", fd |-> d, signum |-> signum,
                                                todo |-> S, heard |-> FALSE]]
                /\ waiting_fibers' = Append(waiting_fibers, [fiber |-> f, fd |-> d, signum |-> signum])
        /\ UNCHANGED <<installed, failed, sane>>

\* One sigaction of the loop succeeds ...
Install(f, s) ==
  /\ InUserCode(f) /\ Waits(f, "install") /\ s \in wait[f].todo \ Uncatchable
  /\ installed' = installed \cup {s}
  /\ wait' = [wait EXCEPT ![f] = [wait[f] EXCEPT !.todo = @ \ {s},
                                                 !.stage = IF wait[f].todo = {s} THEN "read" ELSE "install"]]
  /\ UNCHANGED <<vars, waiting_fibers, failed, sane>>

\* ... or fails: the pipe is closed, and the element stays in the list.
InstallFails(f, s) ==
  /\ Waits(f, "install") /\ s \in wait[f].todo \cap Uncatchable
  /\ Close(f, wait[f].fd)
  /\ wait' = [wait EXCEPT ![f] = NoWait]
  /\ failed' = TRUE
  /\ UNCHANGED <<waiting_fibers, installed, sane>>

\* dfk__read from the pipe, and its second attempt once the loop resumed the fiber.
SigRead(f) ==
  /\ \/ Waits(f, "read") /\ IoNow(f, wait[f].fd, "in") /\ Set(f, "return")
     \/ Waits(f, "read") /\ IoRegister(f, wait[f].fd, "in") /\ Set(f, "reading")
     \/ Waits(f, "reading") /\ IoComplete(f) /\ Set(f, "return")
  /\ UNCHANGED <<waiting_fibers, installed, failed, sane>>

\* Mutant: the element stays in the list.
SigReturnLinked(f) ==
  /\ Waits(f, "return")
  /\ Close(f, wait[f].fd)
  /\ wait' = [wait EXCEPT ![f] = NoWait]
  /\ UNCHANGED <<waiting_fibers, installed, failed, sane>>

\* The element is erased and the pipe closed.
SigReturn(f) ==
  /\ InUserCode(f) /\ Waits(f, "return")
  /\ \/ Undefined
     \/ /\ ~ Dangling
        /\ \E i \in DOMAIN waiting_fibers :
             waiting_fibers[i].fiber = f /\ waiting_fibers' = Without(waiting_fibers, i)
        /\ Close(f, wait[f].fd)
        /\ wait' = [wait EXCEPT ![f] = NoWait]
        /\ UNCHANGED <<installed, failed, sane>>

SigStep(f) ==
  \/ PipeFails(f)
  \/ \E S \in SUBSET Signals : Cardinality(S) \in 1 .. 2 /\ Sigwait(f, S)
  \/ \E s \in Signals : Install(f, s) \/ InstallFails(f, s)
  \/ SigRead(f) \/ SigReturn(f)

-----------------------------------------------------------------------------
(***************************************************************************)
(* dfk__sighandler, called by the kernel at any time.                      *)
(***************************************************************************)
\* Mutants: the second signal is not looked at, or none is.
WokenFirst(s) ==
  {e \in Members(waiting_fibers) : s = CHOOSE x \in e.signum : TRUE}
WokenAll(s) == Members(waiting_fibers)

\* The elements the handler writes for.
Woken(s) == {e \in Members(waiting_fibers) : s \in e.signum}

Sighandler(s) ==
  /\ s \in installed
  /\ \/ Undefined
     \/ /\ ~ Dangling
        /\ ready' = [d \in Fds |-> IF \E e \in Woken(s) : e.fd = d THEN ready[d] \cup {"in"} ELSE ready[d]]
        /\ wait' = [f \in Fibers |-> [wait[f] EXCEPT !.heard = @ \/ s \in wait[f].signum]]
        /\ UNCHANGED <<schedVars, backend, usage, open, user, fds, events, loop, call, got, res,
                       waiting_fibers, installed, failed, sane>>

-----------------------------------------------------------------------------
\* The rest of the program.  Every descriptor is a pipe's: the other ones are left to
\* EventLoop, and nothing but the handler makes a pipe readable.
Others ==
  /\ \/ \E f \in Fibers : WorkBegins(f)
     \/ Scheduling
     \/ LoopStep
     \/ \E f \in Fibers :
          /\ Waits(f, "none")
          /\ \/ TerminateClosed(f)
             \/ Postpone(f) /\ UNCHANGED ioVars
             \/ (\E g \in Fibers : Spawn(f, g)) /\ UNCHANGED ioVars
  /\ UNCHANGED sigVars

SignalNext ==
  /\ sane
  /\ \/ Others
     \/ \E f \in Fibers : SigStep(f)
     \/ \E s \in Signals : Sighandler(s)

SignalSpec == SignalInit /\ [][SignalNext]_allVars

(***************************************************************************)
(* Fairness is that of EventLoop, and a fiber in dfk__sigwait goes on.     *)
(***************************************************************************)
Sane(A) == sane /\ A /\ UNCHANGED sigVars

SignalFairSpec ==
  /\ SignalSpec
  /\ WF_allVars(Sane(Scheduling))
  /\ WF_allVars(Sane(LoopStep))
  /\ \A f \in Fibers :
       /\ SF_allVars(Sane(Reports(f)))
       /\ WF_allVars(sane /\ ~ Waits(f, "none") /\ SigStep(f))
       /\ WF_allVars(Sane(Waits(f, "none") /\ (TerminateClosed(f) \/ (Postpone(f) /\ UNCHANGED ioVars))))

-----------------------------------------------------------------------------
(***************************************************************************)
(* Properties.                                                             *)
(***************************************************************************)
\* dfk_sigwait and dfk_sigwait2 report success only after a signal in wf.signum was
\* delivered during the call: no other signal, no other fiber's pipe and no earlier
\* user of the descriptor wakes the fiber.
WokenBySignal ==
  \A f \in Fibers : Waits(f, "return") => res[f] = "ok" /\ wait[f].heard

\* dfk__sighandler and the list operations find only elements in frames of calls that
\* have not returned, whenever signals come and in whatever order the calls return,
\* as long as no sigaction failed.
HandlerSound ==
  /\ ~ sane => failed
  /\ ~ failed => {e.fiber : e \in Members(waiting_fibers)} = {f \in Fibers : ~ Waits(f, "none")}

(***************************************************************************)
(* The inductive invariant of SignalSpec.                                  *)
(***************************************************************************)
Element == [fiber : Fibers, fd : Fds, signum : SUBSET Signals]
Call == [stage : {"none", "install", "read", "reading", "return"}, fd : Fds \cup {NULL},
         signum : SUBSET Signals, todo : SUBSET Signals, heard : BOOLEAN]

\* Every variable has its type.
SigTypeOK ==
  /\ waiting_fibers \in Seq(Element)
  /\ installed \subseteq Signals
  /\ wait \in [Fibers -> Call]
  /\ failed \in BOOLEAN /\ sane \in BOOLEAN

\* A call has its own pipe, which is readable only if the call heard a signal, and is
\* suspended nowhere but in the read from it.
CallSound(f) ==
  /\ pc[f] = "io" <=> Waits(f, "reading")
  /\ ~ Waits(f, "none") =>
       /\ wait[f].fd \in open /\ user[wait[f].fd] = f
       /\ "in" \in ready[wait[f].fd] => wait[f].heard
       /\ Waits(f, "reading") => call[f].fd = wait[f].fd /\ call[f].ev = "in"
       /\ Waits(f, "return") => res[f] = "ok" /\ wait[f].heard

\* The list has one element for every call, and others only after a sigaction failed.
ElementsMatch ==
  /\ \A f \in Fibers : ~ Waits(f, "none") => \E e \in Members(waiting_fibers) : e.fiber = f
  /\ \A e \in Members(waiting_fibers) :
       IF Waits(e.fiber, "none") THEN failed
       ELSE e.fd = wait[e.fiber].fd /\ e.signum = wait[e.fiber].signum
  /\ \A i, j \in DOMAIN waiting_fibers : waiting_fibers[i].fiber = waiting_fibers[j].fiber => i = j

SigInv ==
  /\ IoInv
  /\ SigTypeOK
  /\ \A f \in Fibers : CallSound(f)
  /\ ElementsMatch
  /\ \A d \in Fds : ready[d] \subseteq {"in"}
  /\ ~ sane => failed

\* A fiber that waits for a signal which is delivered returns from dfk_sigwait, even if
\* the signal comes before the fiber reads from its pipe.
SignalWakes ==
  [] sane /\ PollsAgain =>
    \A f \in Fibers : wait[f].heard ~> Waits(f, "none")

\* A fiber whose pipe is ready runs again, even if signals arrive all the time and more
\* pipes are ready than one epoll_wait reports (the event loops' dispatch).
PipesAreServed == [] sane => ReadyIsServed
=============================================================================
