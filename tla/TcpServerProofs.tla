-------------------------- MODULE TcpServerProofs --------------------------
(***************************************************************************)
(* Proof that _active_connections is exact, and that TCP servers use the   *)
(* scheduler as its interface allows, for any number of fibers, servers    *)
(* and connections.                                                        *)
(***************************************************************************)
EXTENDS TcpServer, SchedulerProofs

\* A fiber plays one role at a time.
LEMMA RoleNames ==
  /\ <<"user">> # <<"crashed">>
  /\ \A s, t : /\ <<"user">> # <<"handler", s>> /\ <<"crashed">> # <<"handler", s>>
               /\ <<"user">> # <<"serve", s>> /\ <<"crashed">> # <<"serve", s>>
               /\ <<"user">> # <<"accepted", s>> /\ <<"crashed">> # <<"accepted", s>>
               /\ <<"serve", s>> # <<"handler", t>> /\ <<"accepted", s>> # <<"handler", t>>
  /\ \A s, t : <<"handler", s>> = <<"handler", t>> => s = t
  /\ \A s \in Servers : <<"serve", s>> \in Roles /\ <<"accepted", s>> \in Roles /\ <<"handler", s>> \in Roles
  /\ <<"user">> \in Roles /\ <<"crashed">> \in Roles
BY DEF Roles

-----------------------------------------------------------------------------
(***************************************************************************)
(* TcpInv is inductive.                                                    *)
(***************************************************************************)
LEMMA InitTcpInv == Init => TcpInv
<1> SUFFICES ASSUME Init PROVE TcpInv
  OBVIOUS
<1> USE DEF Init, TcpInit
<1>1. SchedInv
  BY SchedInitInv
<1>2. TcpTypeOK
  <2>1. role \in [Fibers -> Roles]
    BY RoleNames
  <2>2. 0 \in 0 .. MaxBacklog /\ 0 \in 0 .. MaxOrphans /\ <<>> \in Seq(Servers)
    BY TcpServerAssumption
  <2> QED BY <1>1, <2>1, <2>2 DEF TcpTypeOK, SchedInv
<1>3. RolesEnd
  BY DEF RolesEnd
<1>4. CrashedIsLast
  BY RoleNames DEF CrashedIsLast
<1>5. ConnectionsCounted
  <2>1. \A s \in Servers : {f \in alive : role[f] = <<"handler", s>>} = {}
    BY DEF SchedInit
  <2> QED BY <2>1, FS_EmptySet DEF ConnectionsCounted
<1> QED BY <1>1, <1>2, <1>3, <1>4, <1>5 DEF TcpInv

\* What the lemmas below need of TcpInv.
LEMMA TcpFacts ==
  ASSUME TcpInv
  PROVE  /\ SchedInv
         /\ \A f \in Fibers : role[f] # <<"user">> => f \in alive /\ f \notin Members(list["terminated"])
         /\ \A f \in Fibers : Crashed /\ current = f => role[f] = <<"crashed">>
         /\ current \in SystemFibers \/ phase = "idle" => ~ Crashed
<1>1. \A f \in Fibers : role[f] = <<"crashed">> => phase = "work" /\ current = f /\ f \notin SystemFibers
  BY SystemNames DEF TcpInv, CrashedIsLast, InUserCode, Running, SystemFibers
<1> QED BY <1>1 DEF TcpInv, RolesEnd, Crashed

\* Steps after which every fiber has the role it had.
LEMMA SameRoles ==
  ASSUME TcpInv, TcpTypeOK', SchedInv', UNCHANGED <<role, conns>>,
         \A f \in Fibers : f \in Members(list'["terminated"]) \/ f \notin alive' => role[f] = <<"user">>,
         \A f \in Fibers : role[f] = <<"crashed">> => phase' = "work" /\ current' = f /\ pc'[f] = "user"
  PROVE  TcpInv'
<1>1. RolesEnd'
  BY DEF RolesEnd
<1>2. CrashedIsLast'
  BY DEF CrashedIsLast, InUserCode, Running
<1>3. ConnectionsCounted'
  <2>1. ASSUME NEW s \in Servers
        PROVE  {f \in alive' : role[f] = <<"handler", s>>} = {f \in alive : role[f] = <<"handler", s>>}
    <3>1. \A f \in Fibers : role[f] = <<"handler", s>> => f \in alive /\ f \in alive'
      BY RoleNames, TcpFacts
    <3>2. alive \subseteq Fibers /\ alive' \subseteq Fibers
      BY DEF TcpInv, SchedInv, SchedTypeOK
    <3> QED BY <3>1, <3>2
  <2> QED BY <2>1 DEF TcpInv, ConnectionsCounted, Crashed
<1> QED BY <1>1, <1>2, <1>3 DEF TcpInv

\* Steps of the scheduler, of the event loop and of fibers that leave the servers alone.
LEMMA SchedulingKeeps ==
  ASSUME TcpInv, UNCHANGED tcpVars,
         \/ \E f \in Fibers : DfkWork(f)
         \/ SchedulerStep \/ EventLoopSuspend
         \/ \E f \in Fibers : \/ EventLoopResume(f) \/ IoReturn(f)
                              \/ role[f] # <<"crashed">> /\ (IoSuspend(f) \/ Postpone(f))
                              \/ role[f] = <<"user">> /\ (Terminate(f) \/ \E g \in Fibers : Spawn(f, g))
  PROVE  TcpInv'
<1> USE DEF tcpVars
<1>1. SchedInv'
  BY TcpFacts, DfkWorkInv, SchedulerExitInv, SchedulerCollectInv, SchedulerDispatchInv,
     SchedulerBatchDoneInv, EventLoopSuspendInv, IoResumeInv, IoReturnInv, IoSuspendInv,
     PostponeInv, TerminateInv, SpawnInv DEF SchedulerStep
<1>2. TcpTypeOK'
  BY <1>1 DEF TcpInv, TcpTypeOK, SchedInv
<1>3. SchedInv /\ list \in [Lists -> Seq(Fibers)] /\ "terminated" \in Lists /\ "pending" \in Lists
      /\ "batch" \in Lists
  BY TcpFacts, SchedFacts, ListNames
<1>4. \A f \in Fibers : f \in Members(list'["terminated"]) \/ f \notin alive' => role[f] = <<"user">>
  <2> USE DEF Resumed, Put, PopFront
  <2>1. \A f \in Fibers : f \in Members(list["terminated"]) \/ f \notin alive => role[f] = <<"user">>
    BY DEF TcpInv, RolesEnd
  <2>2. ASSUME NEW f \in Fibers, DfkWork(f)
        PROVE  list'["terminated"] = <<>> /\ alive' = alive \cup {f}
    <3>1. list["pending"] = <<>> /\ list["terminated"] = <<>>
      BY <1>3, <2>2 DEF DfkWork, SchedInv, SchedulerPoint
    <3>2. list = [list EXCEPT !["pending"] = <<>>, !["terminated"] = <<>>]
      BY <1>3, <3>1
    <3>3. list' = [list EXCEPT !["pending"] = Append(@, f)] /\ alive' = alive \cup {f}
      BY <2>2, <3>2 DEF DfkWork
    <3> QED BY <1>3, <3>1, <3>3
  <2>3. CASE SchedulerCollect
    BY <1>3, <2>1, <2>3 DEF SchedulerCollect, Members
  <2>4. ASSUME NEW f \in Fibers, Terminate(f), role[f] = <<"user">>
        PROVE  \A g \in Fibers : g \in Members(list'["terminated"]) \/ g \notin alive' => role[g] = <<"user">>
    <3>1. Members(list'["terminated"]) = Members(list["terminated"]) \cup {f} /\ alive' = alive
      <4>1. ListsOK(list) /\ Unlinked(list, f) /\ list' = Put(list, "terminated", f) /\ alive' = alive
        BY <2>4, TcpFacts, SchedFacts DEF Terminate, InUserCode, Running
      <4> QED BY <1>3, <4>1, PutLists
    <3> QED BY <2>1, <2>4, <3>1
  <2>5. ASSUME NEW f \in Fibers,
               \/ EventLoopResume(f) \/ IoReturn(f) \/ IoSuspend(f) \/ Postpone(f)
               \/ \E g \in Fibers : Spawn(f, g)
        PROVE  list'["terminated"] = list["terminated"] /\ alive \subseteq alive'
    BY <1>3, <2>5 DEF EventLoopResume, IoReturn, IoSuspend, Postpone, Spawn
  <2>6. CASE SchedulerExit \/ SchedulerDispatch \/ SchedulerBatchDone \/ EventLoopSuspend
    <3>1. list'["terminated"] = list["terminated"] /\ alive \subseteq alive'
      BY <1>3, <2>6 DEF SchedulerExit, SchedulerDispatch, SchedulerBatchDone, EventLoopSuspend
    <3> QED BY <2>1, <3>1
  <2> QED BY <2>1, <2>2, <2>3, <2>4, <2>5, <2>6 DEF SchedulerStep, Members
<1>5. ASSUME NEW f \in Fibers, role[f] = <<"crashed">>
      PROVE  phase' = "work" /\ current' = f /\ pc'[f] = "user"
  <2>1. Crashed /\ InUserCode(f) /\ f \notin SystemFibers
    BY <1>5, SystemNames DEF TcpInv, CrashedIsLast, Crashed, SystemFibers
  <2>2. FALSE
    BY <1>5, <2>1, RoleNames DEF InUserCode, Running, SystemFibers, DfkWork, SchedulerStep, SchedulerAt,
      SchedulerExit, SchedulerCollect, SchedulerDispatch, SchedulerBatchDone, EventLoopSuspend,
      EventLoopResume, IoReturn, IoSuspend, Postpone, Terminate, Spawn
  <2> QED BY <2>2
<1> QED BY <1>1, <1>2, <1>4, <1>5, SameRoles

\* Steps that change the servers and no fiber's role.
LEMMA ServersStep ==
  ASSUME TcpInv, UNCHANGED <<schedVars, role, conns>>,
         state' \in [Servers -> {"INITIALIZED", "SERVING", "STOP_REQUESTED"}],
         sock' \in [Servers -> {"none", "open", "listening", "shutdown"}],
         backlog' \in [Servers -> 0 .. MaxBacklog],
         frame' \in [Servers -> Fibers \cup {NULL}],
         servers' \in Seq(Servers), relinked' \in BOOLEAN, stopped' \in BOOLEAN,
         stale' \subseteq Fibers, orphans' \in 0 .. MaxOrphans
  PROVE  TcpInv'
<1>1. SchedInv' /\ UNCHANGED <<phase, current, pc, list, alive>>
  BY TcpFacts, SchedStutter DEF schedVars
<1>2. TcpTypeOK'
  BY <1>1 DEF TcpInv, TcpTypeOK, SchedInv
<1> QED BY <1>1, <1>2, SameRoles DEF TcpInv, RolesEnd, CrashedIsLast, InUserCode, Running

\* dfk_list_append to dfk->_tcp_servers.
LEMMA RegistersType ==
  ASSUME servers \in Seq(Servers), NEW f \in Fibers, NEW s \in Servers, Registers(f, s)
  PROVE  servers' \in Seq(Servers) /\ relinked' \in BOOLEAN
<1>1. Append(servers, s) \in Seq(Servers)
  OBVIOUS
<1>2. servers' = servers \/ servers' = Append(servers, s)
  BY DEF Registers
<1>3. relinked' \in BOOLEAN
  BY Zenon DEF Registers
<1> QED BY <1>1, <1>2, <1>3

\* dfk_tcp_serve that fails, the accept loop without a new fiber, stopping, and a peer
\* that connects.
LEMMA QuietServerStep ==
  ASSUME TcpInv, NEW f \in Fibers, NEW s \in Servers,
         \/ ServeNoSocket(f, s) \/ ServeNoListen(f, s) \/ AcceptNoFiber(f, s) \/ AcceptDrops(f, s)
         \/ TcpServerStop(f, s) \/ DfkStop(f) \/ Connect(s)
  PROVE  TcpInv'
<1>1. /\ state \in [Servers -> {"INITIALIZED", "SERVING", "STOP_REQUESTED"}]
      /\ sock \in [Servers -> {"none", "open", "listening", "shutdown"}]
      /\ backlog \in [Servers -> 0 .. MaxBacklog] /\ MaxBacklog \in Nat
      /\ frame \in [Servers -> Fibers \cup {NULL}]
      /\ servers \in Seq(Servers) /\ stopped \in BOOLEAN /\ orphans \in 0 .. MaxOrphans
      /\ relinked \in BOOLEAN /\ stale \subseteq Fibers
  BY TcpServerAssumption DEF TcpInv, TcpTypeOK
<1>2. CASE ServeNoSocket(f, s) \/ ServeNoListen(f, s)
  <2>1. servers' \in Seq(Servers) /\ relinked' \in BOOLEAN
    BY <1>1, <1>2, RegistersType DEF ServeNoSocket, ServeNoListen
  <2>2. /\ state' \in [Servers -> {"INITIALIZED", "SERVING", "STOP_REQUESTED"}]
        /\ sock' \in [Servers -> {"none", "open", "listening", "shutdown"}]
        /\ backlog' \in [Servers -> 0 .. MaxBacklog]
    <3>1. \/ UNCHANGED <<state, sock, backlog>>
          \/ /\ state' = [state EXCEPT ![s] = "SERVING"] /\ sock' = [sock EXCEPT ![s] = "open"]
             /\ backlog' = [backlog EXCEPT ![s] = 0]
      BY <1>2 DEF ServeNoSocket, ServeNoListen
    <3>2. 0 \in 0 .. MaxBacklog
      BY <1>1
    <3> QED BY <1>1, <3>1, <3>2
  <2> QED BY <1>1, <1>2, <2>1, <2>2, ServersStep DEF ServeNoSocket, ServeNoListen, Registers
<1>3. CASE AcceptNoFiber(f, s) \/ AcceptDrops(f, s)
  <2>1. backlog' \in [Servers -> 0 .. MaxBacklog]
    <3>1. backlog[s] > 0 /\ backlog' = [backlog EXCEPT ![s] = @ - 1]
      BY <1>3 DEF AcceptNoFiber, AcceptDrops, Takes
    <3> QED BY <1>1, <3>1
  <2>2. orphans' \in 0 .. MaxOrphans
    BY <1>1, <1>3, TcpServerAssumption DEF AcceptNoFiber, AcceptDrops
  <2> QED BY <1>1, <1>3, <2>1, <2>2, ServersStep DEF AcceptNoFiber, AcceptDrops, Takes
<1>4. CASE TcpServerStop(f, s) \/ DfkStop(f)
  <2>1. PICK S : ShutDown(S)
    BY <1>4 DEF TcpServerStop, DfkStop
  <2>2. /\ state' \in [Servers -> {"INITIALIZED", "SERVING", "STOP_REQUESTED"}]
        /\ sock' \in [Servers -> {"none", "open", "listening", "shutdown"}]
        /\ backlog' \in [Servers -> 0 .. MaxBacklog]
    BY <1>1, <2>1 DEF ShutDown
  <2>3. /\ UNCHANGED <<schedVars, role, conns, frame, servers, relinked, stale, orphans>>
        /\ stopped' \in BOOLEAN
    BY <1>1, <1>4 DEF TcpServerStop, DfkStop, DfkStops
  <2> QED BY <1>1, <2>2, <2>3, ServersStep
<1>5. CASE Connect(s)
  <2>1. backlog' \in [Servers -> 0 .. MaxBacklog]
    BY <1>1, <1>5 DEF Connect
  <2> QED BY <1>1, <1>5, <2>1, ServersStep DEF Connect
<1> QED BY <1>2, <1>3, <1>4, <1>5

\* The running fiber f, or a fiber g that it spawns, takes another role that is not that of
\* a connection inside the handler.
LEMMA OtherRole ==
  ASSUME TcpInv, TcpTypeOK', SchedInv', UNCHANGED conns, ~ Crashed,
         NEW g \in Fibers, NEW r, role' = [role EXCEPT ![g] = r], r # <<"crashed">>,
         g \in alive', list'["terminated"] = list["terminated"], alive' = alive \cup {g},
         g \notin Members(list["terminated"]),
         \A s \in Servers : role[g] # <<"handler", s>> /\ r # <<"handler", s>>
  PROVE  TcpInv'
<1>1. \A f \in Fibers : role'[f] = IF f = g THEN r ELSE role[f]
  BY DEF TcpInv, TcpTypeOK
<1>2. RolesEnd'
  BY <1>1 DEF TcpInv, RolesEnd
<1>3. CrashedIsLast'
  BY <1>1 DEF CrashedIsLast, Crashed
<1>4. ASSUME NEW s \in Servers
      PROVE  {f \in alive' : role'[f] = <<"handler", s>>} = {f \in alive : role[f] = <<"handler", s>>}
  BY <1>1 DEF TcpInv, SchedInv, SchedTypeOK
<1>5. ConnectionsCounted'
  BY <1>4 DEF TcpInv, ConnectionsCounted
<1> QED BY <1>2, <1>3, <1>5 DEF TcpInv

\* dfk_tcp_serve begins and ends, and the accept loop spawns a fiber for a connection.
LEMMA RoleStep ==
  ASSUME TcpInv, NEW f \in Fibers, NEW s \in Servers,
         Serve(f, s) \/ ServeFails(f, s) \/ \E g \in Fibers : Accept(f, s, g)
  PROVE  TcpInv'
<1>1. /\ state \in [Servers -> {"INITIALIZED", "SERVING", "STOP_REQUESTED"}]
      /\ sock \in [Servers -> {"none", "open", "listening", "shutdown"}]
      /\ backlog \in [Servers -> 0 .. MaxBacklog] /\ MaxBacklog \in Nat
      /\ frame \in [Servers -> Fibers \cup {NULL}] /\ role \in [Fibers -> Roles]
      /\ servers \in Seq(Servers)
  BY TcpServerAssumption DEF TcpInv, TcpTypeOK
<1>2. /\ InUserCode(f) /\ current = f
      /\ role[f] = <<"user">> \/ role[f] = <<"serve", s>>
  BY DEF Serve, Registers, ServeFails, Accept, Takes, Doing, InUserCode, Running
<1>3. ~ Crashed
  BY <1>2, TcpFacts, RoleNames
<1>4. f \in alive /\ f \notin Members(list["terminated"])
  BY <1>2, TcpFacts, SchedFacts, ListNames
<1>5. \A t \in Servers : role[f] # <<"handler", t>>
  BY <1>2, RoleNames
<1>6. CASE Serve(f, s)
  <2>1. /\ UNCHANGED schedVars /\ role' = [role EXCEPT ![f] = <<"serve", s>>]
        /\ UNCHANGED conns
    BY <1>6 DEF Serve, Registers
  <2>2. SchedInv' /\ UNCHANGED <<list, alive>>
    BY <2>1, TcpFacts, SchedStutter DEF schedVars
  <2>3. role' \in [Fibers -> Roles]
    BY <1>1, <2>1, RoleNames
  <2>4. TcpTypeOK'
    <3>1. servers' \in Seq(Servers) /\ relinked' \in BOOLEAN
      BY <1>1, <1>6, RegistersType DEF Serve
    <3>2. /\ backlog' \in [Servers -> 0 .. MaxBacklog]
          /\ stale' \subseteq Fibers
      BY <1>1, <1>6 DEF Serve, TcpInv, TcpTypeOK
    <3>3. /\ state' \in [Servers -> {"INITIALIZED", "SERVING", "STOP_REQUESTED"}]
          /\ sock' \in [Servers -> {"none", "open", "listening", "shutdown"}]
          /\ frame' \in [Servers -> Fibers \cup {NULL}]
      BY <1>1, <1>6 DEF Serve
    <3>4. UNCHANGED <<conns, stopped, orphans>>
      BY <1>6 DEF Serve, Registers
    <3> QED BY <2>2, <2>3, <3>1, <3>2, <3>3, <3>4 DEF TcpInv, TcpTypeOK, SchedInv
  <2>5. <<"serve", s>> # <<"crashed">> /\ \A t \in Servers : <<"serve", s>> # <<"handler", t>>
    BY RoleNames
  <2> QED BY <1>3, <1>4, <1>5, <2>1, <2>2, <2>4, <2>5, OtherRole
<1>7. CASE ServeFails(f, s)
  <2>1. /\ UNCHANGED schedVars /\ role' = [role EXCEPT ![f] = <<"user">>]
        /\ UNCHANGED conns
    BY <1>7 DEF ServeFails
  <2>2. SchedInv' /\ UNCHANGED <<list, alive>>
    BY <2>1, TcpFacts, SchedStutter DEF schedVars
  <2>3. role' \in [Fibers -> Roles]
    BY <1>1, <2>1, RoleNames
  <2>4. TcpTypeOK'
    BY <1>1, <1>7, <2>2, <2>3 DEF ServeFails, TcpInv, TcpTypeOK, SchedInv
  <2>5. <<"user">> # <<"crashed">> /\ \A t \in Servers : <<"user">> # <<"handler", t>>
    BY RoleNames
  <2> QED BY <1>3, <1>4, <1>5, <2>1, <2>2, <2>4, <2>5, OtherRole
<1>8. ASSUME NEW g \in Fibers, Accept(f, s, g) PROVE TcpInv'
  <2>1. /\ Spawn(f, g) /\ g \notin alive /\ role' = [role EXCEPT ![g] = <<"accepted", s>>]
        /\ UNCHANGED conns /\ alive' = alive \cup {g} /\ list' = Put(list, "pending", g)
    BY <1>8 DEF Accept, Takes, Spawn, Resumed
  <2>2. SchedInv'
    BY <2>1, TcpFacts, SpawnInv
  <2>3. role' \in [Fibers -> Roles]
    BY <1>1, <2>1, RoleNames
  <2>4. backlog' \in [Servers -> 0 .. MaxBacklog]
    BY <1>1, <1>8 DEF Accept, Takes
  <2>5. TcpTypeOK'
    BY <1>1, <1>8, <2>2, <2>3, <2>4 DEF Accept, Takes, TcpInv, TcpTypeOK, SchedInv
  <2>6. list'["terminated"] = list["terminated"]
    BY <2>1, TcpFacts, SchedFacts, ListNames DEF Put
  <2>7. g \notin Members(list["terminated"])
    BY <2>1, TcpFacts, SchedFacts, ListNames
  <2>8. role[g] = <<"user">>
    BY <2>1 DEF TcpInv, RolesEnd
  <2>9. /\ <<"accepted", s>> # <<"crashed">>
        /\ \A t \in Servers : role[g] # <<"handler", t>> /\ <<"accepted", s>> # <<"handler", t>>
    BY <2>8, RoleNames
  <2> QED BY <1>3, <2>1, <2>2, <2>5, <2>6, <2>7, <2>9, OtherRole
<1> QED BY <1>6, <1>7, <1>8

\* dfk_tcp_server_callback counts the connection in.
LEMMA BeginsStep ==
  ASSUME TcpInv, NEW f \in Fibers, NEW s \in Servers, ConnectionBegins(f, s)
  PROVE  TcpInv'
<1> USE DEF ConnectionBegins, Doing
<1>1. /\ role \in [Fibers -> Roles] /\ conns \in [Servers -> Nat]
      /\ InUserCode(f) /\ current = f /\ role[f] = <<"accepted", s>>
  BY DEF TcpInv, TcpTypeOK, InUserCode, Running
<1>2. SchedInv' /\ UNCHANGED <<list, alive>>
  BY TcpFacts, SchedStutter DEF schedVars
<1>3. /\ ~ Crashed /\ f \in alive /\ f \notin Members(list["terminated"])
      /\ \A t \in Servers : role[f] # <<"handler", t>>
  BY <1>1, TcpFacts, RoleNames
<1>4. \A g \in Fibers : role'[g] = IF g = f THEN <<"handler", s>> ELSE role[g]
  BY <1>1
<1>5. role' \in [Fibers -> Roles]
  BY <1>1, RoleNames
<1>6. TcpTypeOK'
  BY <1>1, <1>2, <1>5 DEF TcpInv, TcpTypeOK, SchedInv
<1>7. RolesEnd' /\ CrashedIsLast'
  BY <1>2, <1>3, <1>4, RoleNames DEF TcpInv, RolesEnd, CrashedIsLast, Crashed
<1>8. ConnectionsCounted'
  <2> SUFFICES ASSUME NEW t \in Servers
               PROVE  conns'[t] = Cardinality({g \in alive : role'[g] = <<"handler", t>>})
    BY <1>2 DEF ConnectionsCounted
  <2>1. conns[t] = Cardinality({g \in alive : role[g] = <<"handler", t>>})
    BY <1>3 DEF TcpInv, ConnectionsCounted
  <2>2. alive \subseteq Fibers /\ IsFiniteSet({g \in alive : role[g] = <<"handler", t>>})
    BY SchedulerAssumption, FS_Subset DEF TcpInv, SchedInv, SchedTypeOK
  <2>3. CASE t = s
    <3>1. {g \in alive : role'[g] = <<"handler", t>>} = {g \in alive : role[g] = <<"handler", t>>} \cup {f}
      BY <1>3, <1>4, <2>2, <2>3
    <3>2. f \notin {g \in alive : role[g] = <<"handler", t>>}
      BY <1>3
    <3>3. conns'[t] = conns[t] + 1
      BY <1>1, <2>3
    <3> QED BY <2>1, <2>2, <3>1, <3>2, <3>3, FS_AddElement
  <2>4. CASE t # s
    <3>1. {g \in alive : role'[g] = <<"handler", t>>} = {g \in alive : role[g] = <<"handler", t>>}
      BY <1>3, <1>4, <2>2, <2>4, RoleNames
    <3> QED BY <1>1, <2>1, <2>4, <3>1
  <2> QED BY <2>3, <2>4
<1> QED BY <1>2, <1>6, <1>7, <1>8 DEF TcpInv

\* ... and out, after the handler returned, however often the handler yielded.
LEMMA EndsStep ==
  ASSUME TcpInv, NEW f \in Fibers, NEW s \in Servers, ConnectionEnds(f, s)
  PROVE  TcpInv'
<1> USE DEF ConnectionEnds, Doing
<1>1. /\ role \in [Fibers -> Roles] /\ conns \in [Servers -> Nat]
      /\ InUserCode(f) /\ current = f /\ role[f] = <<"handler", s>>
  BY DEF TcpInv, TcpTypeOK, InUserCode, Running
<1>2. SchedInv' /\ alive' = alive /\ Members(list'["terminated"]) = Members(list["terminated"]) \cup {f}
  <2>1. ListsOK(list) /\ Unlinked(list, f) /\ list' = Put(list, "terminated", f) /\ alive' = alive
    BY <1>1, TcpFacts, SchedFacts DEF Terminate
  <2> QED BY <2>1, TcpFacts, TerminateInv, ListNames, PutLists
<1>3. ~ Crashed /\ f \in alive
  BY <1>1, TcpFacts, RoleNames
<1>4. \A g \in Fibers : role'[g] = IF g = f THEN <<"user">> ELSE role[g]
  BY <1>1
<1>5. role' \in [Fibers -> Roles]
  BY <1>1, RoleNames
<1>6. \A t \in Servers : conns[t] = Cardinality({g \in alive : role[g] = <<"handler", t>>})
  BY <1>3 DEF TcpInv, ConnectionsCounted
<1>7. /\ alive \subseteq Fibers
      /\ \A t \in Servers : IsFiniteSet({g \in alive : role[g] = <<"handler", t>>})
  BY SchedulerAssumption, FS_Subset DEF TcpInv, SchedInv, SchedTypeOK
<1>8. conns[s] - 1 = Cardinality({g \in alive : role'[g] = <<"handler", s>>}) /\ conns[s] - 1 \in Nat
  <2>1. {g \in alive : role'[g] = <<"handler", s>>} = {g \in alive : role[g] = <<"handler", s>>} \ {f}
    BY <1>4, <1>7, RoleNames
  <2>2. f \in {g \in alive : role[g] = <<"handler", s>>}
    BY <1>1, <1>3
  <2>3. /\ IsFiniteSet({g \in alive : role'[g] = <<"handler", s>>})
        /\ Cardinality({g \in alive : role'[g] = <<"handler", s>>})
             = Cardinality({g \in alive : role[g] = <<"handler", s>>}) - 1
    BY <1>7, <2>1, <2>2, FS_RemoveElement
  <2>4. Cardinality({g \in alive : role'[g] = <<"handler", s>>}) \in Nat
    BY <2>3, FS_CardinalityType
  <2> QED BY <1>6, <2>3, <2>4
<1>9. TcpTypeOK'
  <2>1. conns' \in [Servers -> Nat]
    BY <1>1, <1>8
  <2> QED BY <1>2, <1>5, <2>1 DEF TcpInv, TcpTypeOK, SchedInv
<1>10. RolesEnd' /\ CrashedIsLast'
  BY <1>2, <1>3, <1>4, RoleNames DEF TcpInv, RolesEnd, CrashedIsLast, Crashed
<1>11. ConnectionsCounted'
  <2> SUFFICES ASSUME NEW t \in Servers
               PROVE  conns'[t] = Cardinality({g \in alive : role'[g] = <<"handler", t>>})
    BY <1>2 DEF ConnectionsCounted
  <2>1. CASE t = s
    BY <1>1, <1>8, <2>1
  <2>2. CASE t # s
    <3>1. {g \in alive : role'[g] = <<"handler", t>>} = {g \in alive : role[g] = <<"handler", t>>}
      BY <1>1, <1>4, <1>7, <2>2, RoleNames
    <3> QED BY <1>1, <1>6, <2>2, <3>1
  <2> QED BY <2>1, <2>2
<1> QED BY <1>2, <1>9, <1>10, <1>11 DEF TcpInv

\* A connection uses the frame of a dfk_tcp_serve that returned, or dfk_stop finds a server
\* it must not stop: the model ends there.
LEMMA CrashStep ==
  ASSUME TcpInv, NEW f \in Fibers, InUserCode(f), Crash(f), stopped' \in BOOLEAN
  PROVE  TcpInv'
<1> USE DEF Crash
<1>1. /\ role \in [Fibers -> Roles] /\ current = f /\ f \in alive
      /\ f \notin Members(list["terminated"])
  BY TcpFacts, SchedFacts, ListNames DEF TcpInv, TcpTypeOK, InUserCode, Running
<1>2. SchedInv' /\ UNCHANGED <<phase, current, pc, list, alive>>
  BY TcpFacts, SchedStutter DEF schedVars
<1>3. \A g \in Fibers : role'[g] = IF g = f THEN <<"crashed">> ELSE role[g]
  BY <1>1
<1>4. role' \in [Fibers -> Roles]
  BY <1>1, RoleNames
<1>5. TcpTypeOK'
  BY <1>2, <1>4 DEF TcpInv, TcpTypeOK, SchedInv
<1>6. RolesEnd' /\ CrashedIsLast'
  BY <1>1, <1>2, <1>3 DEF TcpInv, RolesEnd, CrashedIsLast, InUserCode, Running
<1>7. ConnectionsCounted'
  BY <1>3 DEF ConnectionsCounted, Crashed
<1> QED BY <1>2, <1>5, <1>6, <1>7 DEF TcpInv

LEMMA DeadFrameStep ==
  ASSUME TcpInv, NEW f \in Fibers, NEW s \in Servers, UsesDeadFrame(f, s)
  PROVE  TcpInv'
<1>1. InUserCode(f) /\ Crash(f) /\ stopped' \in BOOLEAN
  BY DEF UsesDeadFrame, Doing, TcpInv, TcpTypeOK
<1> QED BY <1>1, CrashStep

\* Every step of servers, connections, users and scheduler keeps TcpInv.
LEMMA NextTcpInv ==
  ASSUME TcpInv, [Next]_vars
  PROVE  TcpInv'
<1>1. CASE UNCHANGED vars
  BY <1>1, ServersStep DEF vars, tcpVars, TcpInv, TcpTypeOK
<1>2. CASE (\E f \in Fibers : DfkWork(f)) /\ UNCHANGED tcpVars
  BY <1>2, SchedulingKeeps
<1>3. CASE Scheduling
  BY <1>3, SchedulingKeeps DEF Scheduling
<1>4. ASSUME NEW s \in Servers, Connect(s) PROVE TcpInv'
  <2>1. backlog' \in [Servers -> 0 .. MaxBacklog]
    BY <1>4, TcpServerAssumption DEF Connect, TcpInv, TcpTypeOK
  <2> QED BY <1>4, <2>1, ServersStep DEF Connect, TcpInv, TcpTypeOK
<1>5. ASSUME NEW f \in Fibers, IoReady(f) \/ Woken(f) PROVE TcpInv'
  BY <1>5, SchedulingKeeps DEF IoReady, Woken
<1>6. ASSUME NEW f \in Fibers, UserStep(f) PROVE TcpInv'
  <2>1. role[f] # <<"crashed">>
    BY <1>6 DEF UserStep
  <2> QED BY <1>6, <2>1, SchedulingKeeps DEF UserStep
<1>7. ASSUME NEW f \in Fibers, DfkStop(f) PROVE TcpInv'
  <2>1. /\ state' \in [Servers -> {"INITIALIZED", "SERVING", "STOP_REQUESTED"}]
        /\ sock' \in [Servers -> {"none", "open", "listening", "shutdown"}]
        /\ backlog' \in [Servers -> 0 .. MaxBacklog]
    BY <1>7, TcpServerAssumption DEF DfkStop, ShutDown, TcpInv, TcpTypeOK
  <2> QED BY <1>7, <2>1, ServersStep DEF DfkStop, DfkStops, TcpInv, TcpTypeOK
<1>8. ASSUME NEW f \in Fibers, NEW s \in Servers, ServerStep(f, s) PROVE TcpInv'
  <2>1. CASE AcceptBlocks(f, s)
    <3>1. role[f] # <<"crashed">>
      BY <2>1, RoleNames DEF AcceptBlocks, Doing
    <3> QED BY <2>1, <3>1, SchedulingKeeps DEF AcceptBlocks
  <2> QED BY <1>8, <2>1, QuietServerStep, RoleStep, BeginsStep, EndsStep, DeadFrameStep DEF ServerStep
<1>9. ASSUME NEW f \in Fibers, DfkStopCrashes(f) PROVE TcpInv'
  BY <1>9, CrashStep DEF DfkStopCrashes, DfkStops
<1> QED BY <1>1, <1>2, <1>3, <1>4, <1>5, <1>6, <1>7, <1>8, <1>9 DEF Next

-----------------------------------------------------------------------------
\* TcpInv is an invariant; SchedulerConsistent is part of it.
THEOREM TcpInvariance == Spec => []TcpInv
<1>1. Init => TcpInv
  BY InitTcpInv
<1>2. TcpInv /\ [Next]_vars => TcpInv'
  BY NextTcpInv
<1> QED BY <1>1, <1>2, PTL DEF Spec

\* _active_connections (dfk_tcp_server_callback, tcp_server.c) is the number of fibers
\* inside the handler, for any number of servers and connections.
THEOREM ConnectionSafety == Spec => []ConnectionsCounted
<1>1. TcpInv => ConnectionsCounted
  BY DEF TcpInv
<1> QED BY <1>1, TcpInvariance, PTL

\* Servers and connections use the scheduler through its interface only: a step of
\* dfk_tcp_serve, of the accept loop, of the callback or of dfk_stop is a step of
\* scheduler.c, or leaves its lists and counters alone.
THEOREM TcpUsesScheduler == Spec => SchedSpec
<1>1. Init => SchedInit
  BY DEF Init
<1>2. [Next]_vars => [SchedNext]_schedVars
  <2> SUFFICES ASSUME Next PROVE SchedNext \/ UNCHANGED schedVars
    BY DEF vars
  <2>1. CASE (\E f \in Fibers : DfkWork(f)) \/ Scheduling
    BY <2>1 DEF Scheduling, SchedNext, WorkStep, EventLoopStep
  <2>2. ASSUME NEW s \in Servers, Connect(s) PROVE UNCHANGED schedVars
    BY <2>2 DEF Connect
  <2>3. ASSUME NEW f \in Fibers, IoReady(f) \/ Woken(f) \/ UserStep(f) PROVE SchedNext
    BY <2>3 DEF IoReady, Woken, UserStep, SchedNext, EventLoopStep, FiberStep
  <2>4. ASSUME NEW f \in Fibers, DfkStop(f) \/ DfkStopCrashes(f) PROVE UNCHANGED schedVars
    BY <2>4 DEF DfkStop, DfkStopCrashes, Crash
  <2>5. ASSUME NEW f \in Fibers, NEW s \in Servers, ServerStep(f, s)
        PROVE  SchedNext \/ UNCHANGED schedVars
    <3>1. CASE \/ ServeNoSocket(f, s) \/ ServeNoListen(f, s) \/ Serve(f, s)
               \/ AcceptNoFiber(f, s) \/ AcceptDrops(f, s) \/ ServeFails(f, s)
               \/ ConnectionBegins(f, s) \/ UsesDeadFrame(f, s) \/ TcpServerStop(f, s)
      BY <3>1 DEF ServeNoSocket, ServeNoListen, Serve, Registers, AcceptNoFiber, AcceptDrops,
        ServeFails, ConnectionBegins, UsesDeadFrame, Crash, TcpServerStop
    <3>2. CASE AcceptBlocks(f, s) \/ ConnectionEnds(f, s) \/ \E g \in Fibers : Accept(f, s, g)
      BY <3>2 DEF AcceptBlocks, ConnectionEnds, Accept, SchedNext, FiberStep
    <3> QED BY <2>5, <3>1, <3>2 DEF ServerStep
  <2> QED BY <2>1, <2>2, <2>3, <2>4, <2>5 DEF Next
<1> QED BY <1>1, <1>2, PTL DEF Spec, SchedSpec
=============================================================================
