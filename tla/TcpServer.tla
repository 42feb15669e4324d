----------------------------- MODULE TcpServer -----------------------------
(***************************************************************************)
(* TCP servers: dfk_tcp_serve and dfk_tcp_server_stop (tcp_server.c), the  *)
(* accept loop dfk_tcp_socket_listen (tcp_socket.c) and dfk_stop           *)
(* (context.c), on top of the scheduler.  The HTTP server's serve, stop    *)
(* and free forward to these.                                              *)
(*                                                                         *)
(* dfk_tcp_socket_listen leaves its loop only with an error, so what       *)
(* follows its successful return in dfk_tcp_serve (waiting for connections,*)
(* closing the socket, DFK_TCP_SERVER_STOPPED) is never executed, nor is   *)
(* the dfk__resume at the end of dfk_tcp_server_callback: they have no     *)
(* action here.                                                            *)
(*                                                                         *)
(* The callback data of a connection, `lud', is a local variable of        *)
(* dfk_tcp_serve.  A fiber that uses it after dfk_tcp_serve returned, that *)
(* fails an assertion or that walks a list with a hook linked twice has    *)
(* crashed: the model records that and goes no further.                    *)
(***************************************************************************)
EXTENDS Scheduler

CONSTANTS
  Servers,      \* dfk_tcp_server_t objects
  MaxBacklog,   \* bound on the connections that wait to be accepted
  MaxOrphans,   \* bound on the accepted descriptors without a fiber
  NULL

ASSUME TcpServerAssumption ==
  /\ MaxBacklog \in Nat /\ MaxOrphans \in Nat
  /\ NULL \notin Fibers \cup Servers
  /\ WaitQueues = {}

VARIABLES
  state,     \* server->_state
  conns,     \* server->_active_connections
  sock,      \* the listening socket
  backlog,   \* connections the kernel has queued on it
  frame,     \* the fiber inside dfk_tcp_serve, which owns lud
  servers,   \* dfk->_tcp_servers
  relinked,  \* a hook of that list was appended a second time
  stopped,   \* dfk->_stopped
  role,      \* what a fiber is doing: <<"user">>, <<"serve", s>>,
             \* <<"accepted", s>> before and <<"handler", s>> in the handler,
             \* <<"crashed">> once the program has come to grief in it
  stale,     \* connections of a dfk_tcp_serve that was called once more
  orphans    \* accepted descriptors that no fiber was spawned for

tcpVars == <<state, conns, sock, backlog, frame, servers, relinked, stopped, role,
             stale, orphans>>
vars == <<schedVars, tcpVars>>

TcpInit ==
  /\ state = [s \in Servers |-> "INITIALIZED"]
  /\ conns = [s \in Servers |-> 0]
  /\ sock = [s \in Servers |-> "none"]
  /\ backlog = [s \in Servers |-> 0]
  /\ frame = [s \in Servers |-> NULL]
  /\ servers = <<>> /\ relinked = FALSE /\ stopped = FALSE
  /\ role = [f \in Fibers |-> <<"user">>]
  /\ stale = {}
  /\ orphans = 0

Doing(f, r) == InUserCode(f) /\ role[f] = r

-----------------------------------------------------------------------------
(***************************************************************************)
(* dfk_tcp_serve: register with the context, create the socket, bind,      *)
(* listen, and enter the accept loop.  The program may call it again for a *)
(* server for which it failed or ended, but not while it runs.             *)
(***************************************************************************)
\* Nothing takes a server off the list: its hook is appended a second time by a
\* second call.
Registers(f, s) ==
  /\ Doing(f, <<"user">>) /\ frame[s] = NULL
  /\ servers' = IF s \in Members(servers) THEN servers ELSE Append(servers, s)
  /\ relinked' = (relinked \/ s \in Members(servers))
  /\ UNCHANGED <<schedVars, conns, stopped, orphans>>

\* dfk_tcp_socket_init fails, and leaves the socket of an earlier call.
ServeNoSocket(f, s) ==
  /\ Registers(f, s)
  /\ UNCHANGED <<state, sock, backlog, frame, role, stale>>

\* bind or listen fails; the socket stays open.
ServeNoListen(f, s) ==
  /\ Registers(f, s)
  /\ state' = [state EXCEPT ![s] = "SERVING"]
  /\ sock' = [sock EXCEPT ![s] = "open"]
  /\ backlog' = [backlog EXCEPT ![s] = 0]
  /\ UNCHANGED <<frame, role, stale>>

\* Connections of an earlier call still point to the lud of that call.
Serve(f, s) ==
  /\ Registers(f, s)
  /\ state' = [state EXCEPT ![s] = "SERVING"]
  /\ sock' = [sock EXCEPT ![s] = "listening"]
  /\ backlog' = [backlog EXCEPT ![s] = 0]
  /\ frame' = [frame EXCEPT ![s] = f]
  /\ role' = [role EXCEPT ![f] = <<"serve", s>>]
  /\ stale' = stale \cup {g \in Fibers : role[g] \in {"accepted", "handler"} \X {s}}

(***************************************************************************)
(* The accept loop.                                                        *)
(***************************************************************************)
Takes(f, s) ==
  /\ Doing(f, <<"serve", s>>)
  /\ sock[s] = "listening" /\ backlog[s] > 0
  /\ backlog' = [backlog EXCEPT ![s] = @ - 1]
  /\ UNCHANGED <<state, conns, sock, frame, servers, relinked, stopped, stale>>

Accept(f, s, g) ==
  /\ Takes(f, s)
  /\ Spawn(f, g)
  /\ role' = [role EXCEPT ![g] = <<"accepted", s>>]
  /\ UNCHANGED orphans

\* dfk_spawn fails, which nobody looks at: the loop goes on.
AcceptNoFiber(f, s) ==
  /\ Takes(f, s) /\ orphans < MaxOrphans
  /\ orphans' = orphans + 1
  /\ UNCHANGED <<schedVars, role>>

\* dfk__make_nonblock fails: the connection is closed.
AcceptDrops(f, s) ==
  /\ Takes(f, s)
  /\ UNCHANGED <<schedVars, role, orphans>>

AcceptBlocks(f, s) ==
  /\ Doing(f, <<"serve", s>>)
  /\ sock[s] = "listening" /\ backlog[s] = 0
  /\ IoSuspend(f)
  /\ UNCHANGED tcpVars

\* Mutant: the error of a socket that was shut down is ignored.
ServeIgnoresShutdown(f, s) ==
  /\ Doing(f, <<"serve", s>>)
  /\ sock[s] = "listening" /\ backlog[s] > 0
  /\ frame' = [frame EXCEPT ![s] = NULL]
  /\ role' = [role EXCEPT ![f] = <<"user">>]
  /\ UNCHANGED <<schedVars, state, conns, sock, backlog, servers, relinked, stopped,
                 stale, orphans>>

\* accept fails, as it does once the socket is shut down, and with it
\* dfk_tcp_serve, which frees lud with its stack frame and changes nothing else.
ServeFails(f, s) ==
  /\ Doing(f, <<"serve", s>>)
  /\ sock[s] = "shutdown" \/ backlog[s] > 0
  /\ frame' = [frame EXCEPT ![s] = NULL]
  /\ role' = [role EXCEPT ![f] = <<"user">>]
  /\ UNCHANGED <<schedVars, state, conns, sock, backlog, servers, relinked, stopped,
                 stale, orphans>>

(***************************************************************************)
(* dfk_tcp_server_callback in the fiber of a connection.                   *)
(***************************************************************************)
\* The dfk_tcp_serve that accepted the connection has not returned.
LudThere(f, s) == frame[s] # NULL /\ f \notin stale

ConnectionBegins(f, s) ==
  /\ Doing(f, <<"accepted", s>>) /\ LudThere(f, s)
  /\ conns' = [conns EXCEPT ![s] = @ + 1]
  /\ role' = [role EXCEPT ![f] = <<"handler", s>>]
  /\ UNCHANGED <<schedVars, state, sock, backlog, frame, servers, relinked, stopped,
                 stale, orphans>>

\* Mutant: the connection is not counted out.
ConnectionEndsUncounted(f, s) ==
  /\ Doing(f, <<"handler", s>>) /\ LudThere(f, s)
  /\ role' = [role EXCEPT ![f] = <<"user">>]
  /\ Terminate(f)
  /\ UNCHANGED <<state, conns, sock, backlog, frame, servers, relinked, stopped,
                 stale, orphans>>

\* The handler returns; nothing follows the callback in the fiber.
ConnectionEnds(f, s) ==
  /\ Doing(f, <<"handler", s>>) /\ LudThere(f, s)
  /\ conns' = [conns EXCEPT ![s] = @ - 1]
  /\ role' = [role EXCEPT ![f] = <<"user">>]
  /\ Terminate(f)
  /\ UNCHANGED <<state, sock, backlog, frame, servers, relinked, stopped, stale, orphans>>

Crash(f) ==
  /\ role' = [role EXCEPT ![f] = <<"crashed">>]
  /\ UNCHANGED <<schedVars, state, conns, sock, backlog, frame, servers, relinked, stale,
                 orphans>>

\* Either of them with a lud that is gone.
UsesDeadFrame(f, s) ==
  /\ Doing(f, <<"accepted", s>>) \/ Doing(f, <<"handler", s>>)
  /\ ~ LudThere(f, s)
  /\ Crash(f)
  /\ UNCHANGED stopped

-----------------------------------------------------------------------------
(***************************************************************************)
(* dfk_tcp_server_stop and dfk_stop, called by a fiber.                    *)
(***************************************************************************)
\* shutdown(2) succeeds for listening sockets and resets what is queued there;
\* it fails, and the state stays, for the others.
ShutDown(S) ==
  LET stops == {s \in S : sock[s] = "listening"} IN
  /\ sock' = [s \in Servers |-> IF s \in stops THEN "shutdown" ELSE sock[s]]
  /\ backlog' = [s \in Servers |-> IF s \in stops THEN 0 ELSE backlog[s]]
  /\ state' = [s \in Servers |-> IF s \in stops THEN "STOP_REQUESTED" ELSE state[s]]

\* The caller minds the assertion.
TcpServerStop(f, s) ==
  /\ InUserCode(f) /\ role[f][1] \in {"user", "handler"}
  /\ state[s] = "SERVING"
  /\ ShutDown({s})
  /\ UNCHANGED <<schedVars, conns, frame, servers, relinked, stopped, role, stale, orphans>>

\* dfk_tcp_server_stop asserts this of every server that dfk_stop finds in the list,
\* and the walk comes to each of them once.
MayStopAll == ~ relinked /\ \A s \in Members(servers) : state[s] = "SERVING"

\* The first call stops all servers of the list; later ones do nothing.
DfkStops(f) ==
  /\ InUserCode(f) /\ role[f][1] \in {"user", "handler"}
  /\ ~ stopped
  /\ stopped' = TRUE

DfkStop(f) ==
  /\ DfkStops(f) /\ MayStopAll
  /\ ShutDown(Members(servers))
  /\ UNCHANGED <<schedVars, conns, frame, servers, relinked, role, stale, orphans>>

DfkStopCrashes(f) == DfkStops(f) /\ ~ MayStopAll /\ Crash(f)

-----------------------------------------------------------------------------
\* A peer connects.
Connect(s) ==
  /\ sock[s] = "listening" /\ backlog[s] < MaxBacklog
  /\ backlog' = [backlog EXCEPT ![s] = @ + 1]
  /\ UNCHANGED <<schedVars, state, conns, sock, frame, servers, relinked, stopped, role,
                 stale, orphans>>

\* A listening socket is readable when accept would not block; a connection of
\* a handler becomes ready sooner or later.
Readable(f) ==
  \A s \in Servers : role[f] = <<"serve", s>> => sock[s] = "shutdown" \/ backlog[s] > 0

IoReady(f) == Readable(f) /\ EventLoopResume(f) /\ UNCHANGED tcpVars

Scheduling == (SchedulerStep \/ EventLoopSuspend) /\ UNCHANGED tcpVars

\* The fiber of a server or of a connection whose dfk__io returned.
Woken(f) == IoReturn(f) /\ UNCHANGED tcpVars

\* Fibers that are not in the accept loop and not about to enter a handler.
UserStep(f) ==
  /\ role[f][1] \in {"user", "handler"}
  /\ \/ IoSuspend(f)
     \/ Postpone(f)
     \/ role[f] = <<"user">> /\ (Terminate(f) \/ \E g \in Fibers : Spawn(f, g))
  /\ UNCHANGED tcpVars

ServerStep(f, s) ==
  \/ ServeNoSocket(f, s) \/ ServeNoListen(f, s) \/ Serve(f, s)
  \/ \E g \in Fibers : Accept(f, s, g)
  \/ AcceptNoFiber(f, s) \/ AcceptDrops(f, s) \/ AcceptBlocks(f, s)
  \/ ServeFails(f, s)
  \/ ConnectionBegins(f, s) \/ ConnectionEnds(f, s) \/ UsesDeadFrame(f, s)
  \/ TcpServerStop(f, s)

Init == SchedInit /\ TcpInit

Next ==
  \/ (\E f \in Fibers : DfkWork(f)) /\ UNCHANGED tcpVars
  \/ Scheduling
  \/ \E s \in Servers : Connect(s)
  \/ \E f \in Fibers : \/ IoReady(f) \/ Woken(f) \/ UserStep(f)
                       \/ DfkStop(f) \/ DfkStopCrashes(f)
                       \/ \E s \in Servers : ServerStep(f, s)

Spec == Init /\ [][Next]_vars

(***************************************************************************)
(* Fairness: the running coroutine makes progress; a fiber in user code or *)
(* in a handler gives up control; a descriptor that is ready is reported.  *)
(***************************************************************************)
Fairness ==
  /\ WF_vars(Scheduling)
  /\ \A f \in Fibers :
       /\ SF_vars(IoReady(f))
       /\ WF_vars(Woken(f))
       /\ WF_vars(role[f] = <<"user">> /\ Terminate(f) /\ UNCHANGED tcpVars)
       /\ WF_vars(\E s \in Servers :
                    \/ \E g \in Fibers : Accept(f, s, g)
                    \/ AcceptDrops(f, s) \/ AcceptBlocks(f, s) \/ ServeFails(f, s)
                    \/ ConnectionBegins(f, s) \/ ConnectionEnds(f, s) \/ UsesDeadFrame(f, s))

FairSpec == Spec /\ Fairness

-----------------------------------------------------------------------------
(***************************************************************************)
(* Properties.                                                             *)
(***************************************************************************)
Roles == {<<"user">>, <<"crashed">>} \cup {"serve", "accepted", "handler"} \X Servers

\* Every variable has its type.
TcpTypeOK ==
  /\ SchedTypeOK
  /\ state \in [Servers -> {"INITIALIZED", "SERVING", "STOP_REQUESTED"}]
  /\ conns \in [Servers -> Nat]
  /\ sock \in [Servers -> {"none", "open", "listening", "shutdown"}]
  /\ backlog \in [Servers -> 0 .. MaxBacklog]
  /\ frame \in [Servers -> Fibers \cup {NULL}]
  /\ servers \in Seq(Servers)
  /\ relinked \in BOOLEAN /\ stopped \in BOOLEAN
  /\ stale \subseteq Fibers
  /\ role \in [Fibers -> Roles]
  /\ orphans \in 0 .. MaxOrphans

\* A fiber has crashed.
Crashed == \E f \in Fibers : role[f] = <<"crashed">>

\* _active_connections is the number of fibers inside the handler, although it
\* is changed on both sides of calls that yield.
ConnectionsCounted ==
  ~ Crashed =>
    \A s \in Servers : conns[s] = Cardinality({f \in alive : role[f] = <<"handler", s>>})

(***************************************************************************)
(* The inductive invariant of Spec.                                        *)
(***************************************************************************)
\* A fiber that was freed, or is about to be, is not a server or a connection any more.
RolesEnd ==
  \A f \in Fibers : f \in Members(list["terminated"]) \/ f \notin alive => role[f] = <<"user">>

\* What follows a crash is left open.
CrashedIsLast == \A f \in Fibers : role[f] = <<"crashed">> => InUserCode(f)

TcpInv ==
  /\ TcpTypeOK
  /\ SchedInv
  /\ RolesEnd
  /\ CrashedIsLast
  /\ ConnectionsCounted

\* Users and handlers do not keep the run queue busy for ever.
PollsAgain ==
  []<>(RunQueue = <<>> /\ \A f \in Fibers : Running(f) => role[f][1] \notin {"user", "handler"})

\* A server that was asked to stop leaves its accept loop, wherever the request
\* finds it: about to accept, waiting for I/O or ready to run.
StopTakesEffect ==
  PollsAgain =>
    \A s \in Servers : state[s] = "STOP_REQUESTED" ~> (frame[s] = NULL \/ Crashed)

(***************************************************************************)
(* What the repository says and the code does not do.                      *)
(***************************************************************************)
\* dfk_tcp_server_free asserts that the server is DFK_TCP_SERVER_INITIALIZED or
\* DFK_TCP_SERVER_STOPPED: a server that was stopped, and whose dfk_tcp_serve
\* returned, can be freed.
FreeAfterStop ==
  \A s \in Servers :
    sock[s] = "shutdown" /\ frame[s] = NULL => state[s] \in {"INITIALIZED", "STOPPED"}

\* "assert(server->_state == DFK_TCP_SERVER_SERVING)" (dfk_tcp_server_stop, which
\* dfk_stop calls for every server in the list): a server that failed to get a
\* socket, or was stopped on its own, is still in the list.
StopPrecondition ==
  [][stopped' # stopped =>
       \A s \in Members(servers) : state[s] = "SERVING"]_vars

\* "A list of active tcp servers to wait for when dfk_stop() is called"
\* (context.h): a dfk_tcp_serve that was asked to stop returns after the last of
\* its connections, which use its stack frame.
StopWaits ==
  [][\A s \in Servers :
       frame[s] # NULL /\ frame'[s] = NULL /\ state[s] = "STOP_REQUESTED" =>
         \A f \in alive : role[f] \notin {"accepted", "handler"} \X {s}]_vars

\* "Stop dfk working cycle" (dfk_stop, context.h): it ends every dfk_tcp_serve.
StopEndsServing ==
  PollsAgain => \A s \in Servers : stopped ~> (frame[s] = NULL \/ Crashed)

\* "Callback is executed for each incoming connection" (dfk_tcp_socket_listen,
\* tcp_socket.h): no accepted connection is left without a fiber.
CallbackForEach == orphans = 0
=============================================================================
