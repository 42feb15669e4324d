-------------------------- MODULE EventLoopProofs --------------------------
(***************************************************************************)
(* Proof that IoInv is an invariant of EventLoop!Spec, for any number of   *)
(* fibers, descriptors and events per poll, both backends and both ways to *)
(* use descriptors, and what follows from it; and, on top of it, that      *)
(* dfk__sighandler follows only elements of calls that have not returned,  *)
(* and that a call of dfk_sigwait reports success only after one of its    *)
(* signals was delivered (SigInv, an invariant of Signal!SignalSpec).      *)
(***************************************************************************)
EXTENDS Signal, SchedulerProofs

\* dfk_list_erase drops exactly the i-th element and keeps the order of the others.
LEMMA WithoutElement ==
  ASSUME NEW S, NEW q \in Seq(S), NEW i \in DOMAIN q
  PROVE  /\ Without(q, i) \in Seq(S)
         /\ \A j \in DOMAIN Without(q, i) :
              \E k \in DOMAIN q : /\ k # i /\ Without(q, i)[j] = q[k]
                                  /\ k = IF j < i THEN j ELSE j + 1
         /\ \A k \in DOMAIN q : k # i => \E j \in DOMAIN Without(q, i) : Without(q, i)[j] = q[k]
<1>1. /\ DOMAIN q = 1 .. Len(q) /\ Len(q) \in Nat /\ i \in 1 .. Len(q) /\ Len(q) - 1 \in Nat
      /\ \A j \in 1 .. Len(q) : q[j] \in S
  OBVIOUS
<1>2. /\ DOMAIN Without(q, i) = 1 .. Len(q) - 1
      /\ \A j \in 1 .. Len(q) - 1 : Without(q, i)[j] = IF j < i THEN q[j] ELSE q[j + 1]
  BY DEF Without
<1>3. Without(q, i) \in Seq(S)
  <2>1. \A j \in 1 .. Len(q) - 1 : (IF j < i THEN q[j] ELSE q[j + 1]) \in S
    BY <1>1
  <2>2. Without(q, i) \in [1 .. Len(q) - 1 -> S]
    BY <2>1 DEF Without
  <2> QED BY <1>1, <2>2
<1>4. ASSUME NEW j \in DOMAIN Without(q, i)
      PROVE  \E k \in DOMAIN q : /\ k # i /\ Without(q, i)[j] = q[k]
                                 /\ k = IF j < i THEN j ELSE j + 1
  <2>1. CASE j < i
    BY <1>1, <1>2, <2>1
  <2>2. CASE ~ (j < i)
    <3>1. j + 1 \in DOMAIN q /\ j + 1 # i /\ Without(q, i)[j] = q[j + 1]
      BY <1>1, <1>2, <2>2
    <3> QED BY <2>2, <3>1
  <2> QED BY <2>1, <2>2
<1>5. ASSUME NEW k \in DOMAIN q, k # i
      PROVE  \E j \in DOMAIN Without(q, i) : Without(q, i)[j] = q[k]
  <2>1. CASE k < i
    BY <1>1, <1>2, <2>1
  <2>2. CASE ~ (k < i)
    <3>1. k - 1 \in DOMAIN Without(q, i) /\ ~ (k - 1 < i) /\ (k - 1) + 1 = k
      BY <1>1, <1>2, <1>5, <2>2
    <3> QED BY <1>2, <3>1
  <2> QED BY <2>1, <2>2
<1> QED BY <1>3, <1>4, <1>5

\* Erasing one of several different elements.
LEMMA EraseOne ==
  ASSUME NEW S, NEW q \in Seq(S), NEW i \in DOMAIN q,
         \A j, k \in DOMAIN q : q[j] = q[k] => j = k
  PROVE  /\ Without(q, i) \in Seq(S)
         /\ Members(Without(q, i)) = Members(q) \ {q[i]}
<1>1. Without(q, i) \in Seq(S)
  BY WithoutElement
<1>2. ASSUME NEW x \in Members(Without(q, i)) PROVE x \in Members(q) \ {q[i]}
  <2>1. PICK j \in DOMAIN Without(q, i) : x = Without(q, i)[j]
    BY DEF Members
  <2>2. PICK k \in DOMAIN q : k # i /\ x = q[k]
    BY <2>1, WithoutElement
  <2> QED BY <2>2 DEF Members
<1>3. ASSUME NEW x \in Members(q), x # q[i] PROVE x \in Members(Without(q, i))
  <2>1. PICK k \in DOMAIN q : x = q[k]
    BY DEF Members
  <2>2. \E j \in DOMAIN Without(q, i) : Without(q, i)[j] = x
    BY <1>3, <2>1, WithoutElement
  <2> QED BY <2>2 DEF Members
<1> QED BY <1>1, <1>2, <1>3

\* The registrations after one of them was removed.
LEMMA Unregister ==
  ASSUME NEW q \in Seq(Registration), NEW i \in DOMAIN q,
         \A j, k \in DOMAIN q : q[j].fiber = q[k].fiber => j = k
  PROVE  /\ Without(q, i) \in Seq(Registration)
         /\ Members(Without(q, i)) = Members(q) \ {q[i]}
         /\ \A r \in Members(Without(q, i)) : r.fiber # q[i].fiber
         /\ \A j, k \in DOMAIN Without(q, i) :
              Without(q, i)[j].fiber = Without(q, i)[k].fiber => j = k
         /\ (\A j, k \in DOMAIN q : q[j].fd = q[k].fd => j = k) =>
              \A j, k \in DOMAIN Without(q, i) : Without(q, i)[j].fd = Without(q, i)[k].fd => j = k
<1>1. \A j, k \in DOMAIN q : q[j] = q[k] => j = k
  OBVIOUS
<1>2. /\ Without(q, i) \in Seq(Registration)
      /\ Members(Without(q, i)) = Members(q) \ {q[i]}
  BY <1>1, EraseOne
<1>3. \A r \in Members(Without(q, i)) : r.fiber # q[i].fiber
  BY <1>2 DEF Members
<1>4. ASSUME NEW j \in DOMAIN Without(q, i), NEW k \in DOMAIN Without(q, i),
             \/ Without(q, i)[j].fiber = Without(q, i)[k].fiber
             \/ /\ Without(q, i)[j].fd = Without(q, i)[k].fd
                /\ \A x, y \in DOMAIN q : q[x].fd = q[y].fd => x = y
      PROVE  j = k
  <2>1. PICK a \in DOMAIN q : Without(q, i)[j] = q[a] /\ a = IF j < i THEN j ELSE j + 1
    BY WithoutElement
  <2>2. PICK b \in DOMAIN q : Without(q, i)[k] = q[b] /\ b = IF k < i THEN k ELSE k + 1
    BY WithoutElement
  <2>3. a = b
    BY <1>4, <2>1, <2>2
  <2>4. j \in Nat /\ k \in Nat /\ i \in Nat
    BY <1>2
  <2> QED BY <2>1, <2>2, <2>3, <2>4
<1> QED BY <1>2, <1>3, <1>4

-----------------------------------------------------------------------------
(***************************************************************************)
(* IoInv is inductive.  First what the lemmas below need of it.            *)
(***************************************************************************)
LEMMA IoFacts ==
  ASSUME IoInv
  PROVE  /\ \A r \in Members(fds) : r \in Registration
         /\ \A f \in IoWaiters : f \in Fibers /\ pc[f] = "io" /\ current # f
         /\ \A f \in Fibers : InUserCode(f) => f \notin IoWaiters /\ pc[f] # "io" /\ events = {}
         /\ \A f \in Fibers : Running(f) => f \notin IoWaiters /\ events = {}
         /\ \A r \in Members(fds) : /\ r.fiber \in Fibers /\ r.fiber \in IoWaiters
                                    /\ call[r.fiber].fd = r.fd /\ call[r.fiber].ev = r.ev
         /\ \A j, k \in DOMAIN fds : fds[j].fiber = fds[k].fiber => j = k
         /\ OneWaiterPerFd => \A j, k \in DOMAIN fds : fds[j].fd = fds[k].fd => j = k
         /\ \A i \in DOMAIN fds : fds[i] \in Members(fds)
<1>1. \A r \in Members(fds) : r \in Registration
  BY DEF IoInv, IoTypeOK, Members
<1>2. \A f \in IoWaiters : f \in Fibers /\ pc[f] = "io" /\ current # f
  BY SchedFacts DEF IoInv, IoWaiters
<1>3. \A f \in Fibers : Running(f) => f \notin IoWaiters /\ events = {}
  BY <1>2, SystemNames DEF IoInv, EventsFresh, Running
<1>4. \A r \in Members(fds) : r.fiber \in IoWaiters /\ call[r.fiber] = [fd |-> r.fd, ev |-> r.ev]
  BY Zenon DEF IoInv, RegistrationValid
<1>5. ASSUME NEW r \in Members(fds)
      PROVE  /\ r.fiber \in Fibers /\ r.fiber \in IoWaiters
             /\ call[r.fiber].fd = r.fd /\ call[r.fiber].ev = r.ev
  <2>1. \A c, a, b : c = [fd |-> a, ev |-> b] => c.fd = a /\ c.ev = b
    OBVIOUS
  <2>2. r.fiber \in IoWaiters /\ call[r.fiber] = [fd |-> r.fd, ev |-> r.ev]
    BY <1>4, Zenon
  <2>3. call[r.fiber].fd = r.fd /\ call[r.fiber].ev = r.ev
    BY <2>1, <2>2, Zenon
  <2> QED BY <1>2, <2>2, <2>3, Zenon
<1>6. /\ \A j, k \in DOMAIN fds : fds[j].fiber = fds[k].fiber => j = k
      /\ OneWaiterPerFd => \A j, k \in DOMAIN fds : fds[j].fd = fds[k].fd => j = k
  BY DEF IoInv, RegistrationValid, RegisteredOnce
<1>7. \A i \in DOMAIN fds : fds[i] \in Members(fds)
  BY DEF Members
<1> QED BY <1>1, <1>2, <1>3, <1>5, <1>6, <1>7 DEF InUserCode

\* Before the first work cycle nothing is registered and nobody waits (dfk__eventloop_init).
LEMMA InitIoInv == Init => IoInv
<1> SUFFICES ASSUME Init PROVE IoInv
  OBVIOUS
<1> USE DEF Init, IoInit
<1>1. SchedInv /\ pc = [f \in Fibers |-> "user"]
  BY SchedInitInv DEF SchedInit
<1>2. IoTypeOK
  BY <1>1, EventLoopAssumption DEF IoTypeOK, Events, SchedInv
<1>3. IoWaiters = {} /\ Members(fds) = {} /\ DOMAIN fds = {}
  BY <1>1, SchedFacts DEF IoWaiters, Members
<1>4. RegistrationValid /\ RegisteredOnce /\ WaitIsWatched
  BY <1>3 DEF RegistrationValid, RegisteredOnce, WaitIsWatched
<1>5. EventsFresh /\ AnswerReady /\ AnswerHolds
  BY <1>1 DEF EventsFresh, AnswerReady, AnswerHolds
<1> QED BY <1>1, <1>2, <1>4, <1>5 DEF IoInv

\* Steps of the scheduler and of fibers outside dfk__io.
LEMMA QuietStep ==
  ASSUME IoInv, SchedInv', IoWaiters' = IoWaiters,
         \A f \in Fibers : pc'[f] = "io" <=> pc[f] = "io",
         UNCHANGED <<backend, usage, open, ready, user, fds, events, call, got>>,
         loop' \in {"run", "exited", "freed"}, res' \in [Fibers -> {"none", "ok", "error"}],
         events = {} \/ UNCHANGED <<phase, current>>
  PROVE  IoInv'
<1>1. IoTypeOK'
  BY DEF IoInv, IoTypeOK, SchedInv
<1>2. RegistrationValid' /\ RegisteredOnce' /\ WaitIsWatched'
  BY DEF IoInv, RegistrationValid, RegisteredOnce, WaitIsWatched, OneWaiterPerFd
<1>3. EventsFresh'
  BY DEF IoInv, EventsFresh, Running, OneWaiterPerFd
<1>4. AnswerReady' /\ AnswerHolds'
  BY DEF IoInv, AnswerReady, AnswerHolds, Answered, OneWaiterPerFd
<1> QED BY <1>1, <1>2, <1>3, <1>4 DEF IoInv

\* Steps that change only what is known about descriptors: readiness may grow, and
\* shrink for descriptors that no fiber of its own waits for.
LEMMA ReadyStep ==
  ASSUME IoInv, UNCHANGED <<schedVars, backend, usage, fds, events, loop, call, got>>,
         open' \subseteq Fds, ready' \in [Fds -> SUBSET Events],
         user' \in [Fds -> Fibers \cup {NULL}], res' \in [Fibers -> {"none", "ok", "error"}],
         events = {} \/ \A d \in Fds : ready[d] \subseteq ready'[d],
         usage = "own" => \A f \in Fibers : pc[f] = "io" =>
           /\ call[f].fd \in open' /\ user'[call[f].fd] = f
           /\ ready[call[f].fd] \subseteq ready'[call[f].fd]
  PROVE  IoInv'
<1>1. SchedInv' /\ IoWaiters' = IoWaiters /\ UNCHANGED <<phase, current, pc>>
  BY SchedStutter DEF IoInv, schedVars
<1>2. IoTypeOK'
  BY <1>1 DEF IoInv, IoTypeOK, SchedInv
<1>3. RegistrationValid' /\ RegisteredOnce'
  BY <1>1 DEF IoInv, RegistrationValid, RegisteredOnce, OneWaiterPerFd
<1>4. WaitIsWatched'
  <2> SUFFICES ASSUME usage = "own", NEW f \in IoWaiters
               PROVE  \E r \in Members(fds) : r.fiber = f /\ r.fd \in open'
    BY <1>1 DEF WaitIsWatched
  <2>1. f \in Fibers /\ pc[f] = "io"
    BY IoFacts
  <2>2. PICK r \in Members(fds) : r.fiber = f
    BY DEF IoInv, WaitIsWatched
  <2>3. call[f] = [fd |-> r.fd, ev |-> r.ev]
    BY <2>2 DEF IoInv, RegistrationValid
  <2> QED BY <2>1, <2>2, <2>3
<1>5. EventsFresh'
  <2>1. \A v \in events : v.reg.fd \in Fds
    BY DEF IoInv, IoTypeOK, Registration
  <2> QED BY <1>1, <2>1 DEF IoInv, EventsFresh, Running, OneWaiterPerFd
<1>6. AnswerReady' /\ AnswerHolds'
  BY <1>1 DEF IoInv, AnswerReady, AnswerHolds, Answered, OneWaiterPerFd
<1> QED BY <1>1, <1>2, <1>3, <1>4, <1>5, <1>6 DEF IoInv

\* A fiber that may use a descriptor only by itself is not waiting for it.
LEMMA NotInUse ==
  ASSUME IoInv, NEW f \in Fibers, InUserCode(f), NEW d \in Fds,
         d \notin open \/ MayUse(f, d), usage = "own", NEW g \in Fibers, pc[g] = "io"
  PROVE  call[g].fd # d
BY IoFacts DEF IoInv, AnswerHolds, MayUse

\* Opening a descriptor, the kernel's events, and reads and writes that do not wait.
LEMMA DescriptorStep ==
  ASSUME IoInv, NEW d \in Fds,
         \/ \E f \in Fibers : Open(f, d) \/ IoFails(f, d)
         \/ \E e \in Ops \cup {"err"} : Arrive(d, e)
         \/ \E f \in Fibers, e \in Ops : IoNow(f, d, e) \/ EpollAddFails(f, d, e)
  PROVE  IoInv'
<1>1. /\ open \subseteq Fds /\ ready \in [Fds -> SUBSET Events]
      /\ user \in [Fds -> Fibers \cup {NULL}] /\ res \in [Fibers -> {"none", "ok", "error"}]
  BY DEF IoInv, IoTypeOK
<1>2. \A f \in Fibers : usage = "own" /\ pc[f] = "io" => call[f].fd \in open /\ user[call[f].fd] = f
  BY DEF IoInv, AnswerHolds
<1>3. \A f \in Fibers : pc[f] = "io" => call[f].fd \in Fds
  BY DEF IoInv, AnswerReady, IoTypeOK
<1>4. ASSUME NEW f \in Fibers, Open(f, d) PROVE IoInv'
  <2>1. InUserCode(f) /\ events = {} /\ d \notin open
    BY <1>4, IoFacts DEF Open
  <2>2. usage = "own" => \A g \in Fibers : pc[g] = "io" => call[g].fd # d
    BY <2>1, NotInUse
  <2>3. ready' \in [Fds -> SUBSET Events] /\ user' \in [Fds -> Fibers \cup {NULL}]
    BY <1>1, <1>4 DEF Open
  <2> QED BY <1>1, <1>2, <1>3, <1>4, <2>1, <2>2, <2>3, ReadyStep DEF Open
<1>5. ASSUME NEW f \in Fibers, NEW e \in Ops, EpollAddFails(f, d, e) PROVE IoInv'
  <2>1. res' \in [Fibers -> {"none", "ok", "error"}]
    BY <1>1, <1>5 DEF EpollAddFails
  <2> QED BY <1>1, <1>2, <1>5, <2>1, ReadyStep DEF EpollAddFails
<1>6. ASSUME NEW f \in Fibers, IoFails(f, d) PROVE IoInv'
  <2>1. res' \in [Fibers -> {"none", "ok", "error"}]
    BY <1>1, <1>6 DEF IoFails
  <2> QED BY <1>1, <1>2, <1>6, <2>1, ReadyStep DEF IoFails
<1>7. ASSUME NEW e \in Ops \cup {"err"}, Arrive(d, e) PROVE IoInv'
  <2>1. e \in Events
    BY EventLoopAssumption DEF Events
  <2>2. /\ ready' \in [Fds -> SUBSET Events]
        /\ \A x \in Fds : ready[x] \subseteq ready'[x]
    BY <1>1, <1>7, <2>1 DEF Arrive
  <2> QED BY <1>1, <1>2, <1>3, <1>7, <2>2, ReadyStep DEF Arrive
<1>8. ASSUME NEW f \in Fibers, NEW e \in Ops, IoNow(f, d, e) PROVE IoInv'
  <2>1. InUserCode(f) /\ events = {} /\ MayUse(f, d)
    BY <1>8, IoFacts DEF IoNow
  <2>2. usage = "own" => \A g \in Fibers : pc[g] = "io" => call[g].fd # d
    BY <2>1, NotInUse
  <2>3. /\ ready' \in [Fds -> SUBSET Events]
        /\ \A x \in Fds : x # d => ready'[x] = ready[x]
        /\ res' \in [Fibers -> {"none", "ok", "error"}]
    BY <1>1, <1>8 DEF IoNow, Transfer
  <2> QED BY <1>1, <1>2, <1>3, <1>8, <2>1, <2>2, <2>3, ReadyStep DEF IoNow
<1> QED BY <1>4, <1>5, <1>6, <1>7, <1>8

\* dfk__close.  The registration that the kernel forgets with the descriptor belongs to
\* another fiber, which may happen only if descriptors are shared.
LEMMA CloseStep ==
  ASSUME IoInv, NEW f \in Fibers, NEW d \in Fds, Close(f, d)
  PROVE  IoInv'
<1> USE DEF Close
<1>1. /\ open \subseteq Fds /\ ready \in [Fds -> SUBSET Events] /\ fds \in Seq(Registration)
      /\ user \in [Fds -> Fibers \cup {NULL}] /\ res \in [Fibers -> {"none", "ok", "error"}]
  BY DEF IoInv, IoTypeOK
<1>2. /\ \A r \in Members(fds) : r.fiber \in Fibers /\ pc[r.fiber] = "io" /\ call[r.fiber].fd = r.fd
      /\ \A j, k \in DOMAIN fds : fds[j].fiber = fds[k].fiber => j = k
      /\ OneWaiterPerFd => \A j, k \in DOMAIN fds : fds[j].fd = fds[k].fd => j = k
  BY IoFacts
<1>3. InUserCode(f) /\ events = {} /\ MayUse(f, d)
  BY IoFacts
<1>4. usage = "own" => \A g \in Fibers : pc[g] = "io" => call[g].fd # d
  BY <1>3, NotInUse
<1>5. ready' \in [Fds -> SUBSET Events] /\ user' \in [Fds -> Fibers \cup {NULL}]
  BY <1>1
<1>6. CASE fds' = fds
  <2>1. \A g \in Fibers : usage = "own" /\ pc[g] = "io" =>
          /\ call[g].fd \in open' /\ user'[call[g].fd] = g
          /\ ready[call[g].fd] \subseteq ready'[call[g].fd]
    BY <1>1, <1>4 DEF IoInv, AnswerHolds, AnswerReady, IoTypeOK
  <2> QED BY <1>1, <1>3, <1>5, <1>6, <2>1, ReadyStep
<1>7. CASE fds' # fds
  <2>1. Registered(d) /\ fds' = Without(fds, CHOOSE i \in DOMAIN fds : fds[i].fd = d)
    BY <1>7
  <2>2. \E i \in DOMAIN fds : fds[i].fd = d
    BY <2>1 DEF Registered, Members
  <2>3. PICK i \in DOMAIN fds : fds[i].fd = d /\ fds' = Without(fds, i)
    BY <2>1, <2>2
  <2>4. usage # "own"
    BY <1>2, <1>4, <2>3 DEF Members
  <2>5. /\ fds' \in Seq(Registration) /\ Members(fds') \subseteq Members(fds)
        /\ \A j, k \in DOMAIN fds' : fds'[j].fiber = fds'[k].fiber => j = k
        /\ OneWaiterPerFd => \A j, k \in DOMAIN fds' : fds'[j].fd = fds'[k].fd => j = k
    <3>1. /\ Without(fds, i) \in Seq(Registration)
          /\ Members(Without(fds, i)) = Members(fds) \ {fds[i]}
          /\ \A j, k \in DOMAIN Without(fds, i) :
               Without(fds, i)[j].fiber = Without(fds, i)[k].fiber => j = k
          /\ OneWaiterPerFd => \A j, k \in DOMAIN Without(fds, i) :
               Without(fds, i)[j].fd = Without(fds, i)[k].fd => j = k
      BY <1>1, <1>2, Unregister
    <3> QED BY <2>3, <3>1
  <2>6. SchedInv' /\ IoWaiters' = IoWaiters /\ UNCHANGED <<phase, current, pc>>
    BY SchedStutter DEF IoInv, schedVars
  <2>7. IoTypeOK'
    BY <1>1, <1>5, <2>5, <2>6 DEF IoInv, IoTypeOK, SchedInv
  <2>8. RegistrationValid' /\ RegisteredOnce' /\ EventsFresh'
    BY <1>3, <2>5, <2>6 DEF IoInv, RegistrationValid, RegisteredOnce, EventsFresh, OneWaiterPerFd
  <2>9. WaitIsWatched' /\ AnswerReady' /\ AnswerHolds'
    BY <2>4, <2>6 DEF IoInv, WaitIsWatched, AnswerReady, AnswerHolds, Answered, OneWaiterPerFd
  <2> QED BY <2>6, <2>7, <2>8, <2>9 DEF IoInv
<1> QED BY <1>6, <1>7

\* dfk__io registers the descriptor and suspends the caller.
LEMMA RegisterStep ==
  ASSUME IoInv, NEW f \in Fibers, NEW d \in Fds, NEW e \in Ops, IoRegister(f, d, e)
  PROVE  IoInv'
<1> USE DEF IoRegister
<1>1. PICK r \in Registration : r = [fd |-> d, ev |-> e, fiber |-> f]
  BY EventLoopAssumption DEF Registration
<1>2. r.fd = d /\ r.ev = e /\ r.fiber = f
  BY <1>1
<1>3. /\ SchedInv' /\ IoWaiters' = IoWaiters \cup {f} /\ f \notin IoWaiters
      /\ InUserCode(f) /\ events = {} /\ d \in open
      /\ pc' = [pc EXCEPT ![f] = "io"] /\ pc \in [Fibers -> {"user", "io", "parked", "lock", "wait"}]
  BY IoSuspendInv, IoFacts DEF IoInv, IoSuspend, WouldBlock, IoTypeOK, SchedTypeOK
<1>4. /\ fds \in Seq(Registration) /\ fds' = Append(fds, r)
      /\ call \in [Fibers -> [fd : Fds, ev : {"in", "out"}] \cup {NULL}]
  BY <1>1 DEF IoInv, IoTypeOK
<1>5. /\ DOMAIN fds' = 1 .. Len(fds) + 1 /\ DOMAIN fds = 1 .. Len(fds) /\ Len(fds) \in Nat
      /\ \A i \in DOMAIN fds : fds'[i] = fds[i] /\ fds'[Len(fds) + 1] = r
      /\ fds'[Len(fds) + 1] = r
      /\ fds' \in Seq(Registration)
  BY <1>4
<1>6. Members(fds') = Members(fds) \cup {r}
  BY <1>5 DEF Members
<1>7. /\ call'[f] = [fd |-> d, ev |-> e] /\ call'[f].fd = d /\ call'[f].ev = e /\ call'[f] # NULL
      /\ call' \in [Fibers -> [fd : Fds, ev : {"in", "out"}] \cup {NULL}]
      /\ \A g \in Fibers : g # f => call'[g] = call[g]
  <2>1. PICK c \in [fd : Fds, ev : {"in", "out"}] : c = [fd |-> d, ev |-> e]
    BY EventLoopAssumption
  <2>2. call' = [call EXCEPT ![f] = c]
    BY <2>1
  <2>3. c # NULL
    BY <2>1, EventLoopAssumption
  <2> QED BY <1>4, <2>1, <2>2, <2>3
<1>8. IoTypeOK'
  BY <1>3, <1>5, <1>7 DEF IoInv, IoTypeOK, SchedInv
<1>9. RegistrationValid'
  <2>1. ASSUME NEW q \in Members(fds)
        PROVE  q.fiber \in IoWaiters' /\ call'[q.fiber] = [fd |-> q.fd, ev |-> q.ev] /\ q.fiber # f
    BY <1>3, <1>7, IoFacts DEF IoInv, RegistrationValid
  <2>2. \A i \in DOMAIN fds : fds[i].fiber # f
    BY <2>1 DEF Members
  <2>3. \A i, j \in DOMAIN fds' : fds'[i].fiber = fds'[j].fiber => i = j
    BY <1>2, <1>5, <2>2 DEF IoInv, RegistrationValid
  <2> QED BY <1>2, <1>3, <1>6, <1>7, <2>1, <2>3 DEF RegistrationValid
<1>10. RegisteredOnce'
  <2>1. ASSUME OneWaiterPerFd, NEW i \in DOMAIN fds PROVE fds[i].fd # d
    <3>1. CASE backend = "epoll"
      BY <3>1 DEF Registered, Members
    <3>2. CASE usage = "own"
      <4>1. MayUse(f, d)
        BY DEF WouldBlock
      <4>2. fds[i] \in Members(fds)
        BY IoFacts
      <4>3. fds[i].fiber \in Fibers /\ pc[fds[i].fiber] = "io" /\ call[fds[i].fiber].fd = fds[i].fd
        BY <4>2, IoFacts
      <4> QED BY <1>3, <3>2, <4>1, <4>3, NotInUse
    <3> QED BY <2>1, <3>1, <3>2 DEF OneWaiterPerFd
  <2> QED BY <1>2, <1>5, <2>1 DEF IoInv, RegisteredOnce, OneWaiterPerFd
<1>11. EventsFresh'
  BY <1>3 DEF EventsFresh
<1>12. AnswerReady'
  BY <1>3, <1>7 DEF IoInv, AnswerReady, Answered, OneWaiterPerFd
<1>13. AnswerHolds'
  <2>1. usage = "own" => user[d] = f
    BY DEF WouldBlock, MayUse
  <2> QED BY <1>3, <1>7, <2>1 DEF IoInv, AnswerHolds
<1>14. WaitIsWatched'
  BY <1>2, <1>3, <1>6 DEF IoInv, WaitIsWatched
<1> QED BY <1>3, <1>8, <1>9, <1>10, <1>11, <1>12, <1>13, <1>14 DEF IoInv

\* dfk__io returns, and the read or write is tried once more.
LEMMA CompleteStep ==
  ASSUME IoInv, NEW f \in Fibers, IoComplete(f)
  PROVE  /\ IoInv'
         /\ usage = "own" => res'[f] = "ok" \/ "err" \in ready[call[f].fd]
<1> USE DEF IoComplete
<1>1. /\ Running(f) /\ pc[f] = "io" /\ f \notin IoWaiters /\ events = {}
      /\ pc' = [pc EXCEPT ![f] = "user"] /\ pc \in [Fibers -> {"user", "io", "parked", "lock", "wait"}]
  BY IoFacts DEF IoReturn, IoInv, IoTypeOK, SchedTypeOK
<1>2. SchedInv' /\ IoWaiters' = IoWaiters
  BY IoReturnInv DEF IoInv
<1>3. /\ ready \in [Fds -> SUBSET Events] /\ got \in [Fibers -> SUBSET Events]
      /\ res \in [Fibers -> {"none", "ok", "error"}]
      /\ call \in [Fibers -> [fd : Fds, ev : {"in", "out"}] \cup {NULL}]
  BY DEF IoInv, IoTypeOK
<1>4. PICK d \in Fds, e \in {"in", "out"} : call[f].fd = d /\ call[f].ev = e
  BY <1>1, <1>3 DEF IoInv, AnswerReady
<1>5. /\ ready' \in [Fds -> SUBSET Events]
      /\ \A x \in Fds : x # d => ready'[x] = ready[x]
      /\ res' \in [Fibers -> {"none", "ok", "error"}]
  BY <1>3, <1>4 DEF Transfer
<1>6. /\ \A g \in Fibers : g # f => call'[g] = call[g] /\ got'[g] = got[g] /\ pc'[g] = pc[g]
      /\ call' \in [Fibers -> [fd : Fds, ev : {"in", "out"}] \cup {NULL}]
      /\ got' \in [Fibers -> SUBSET Events] /\ pc'[f] = "user"
  BY <1>1, <1>3
<1>7. IoTypeOK'
  BY <1>2, <1>5, <1>6 DEF IoInv, IoTypeOK, SchedInv
<1>8. RegistrationValid' /\ RegisteredOnce' /\ EventsFresh' /\ WaitIsWatched'
  <2>1. \A r \in Members(fds) : r.fiber \in Fibers /\ r.fiber # f
    BY <1>1, IoFacts
  <2>2. RegistrationValid' /\ RegisteredOnce'
    BY <1>2, <1>6, <2>1 DEF IoInv, RegistrationValid, RegisteredOnce, OneWaiterPerFd
  <2>3. EventsFresh' /\ WaitIsWatched'
    BY <1>1, <1>2 DEF IoInv, EventsFresh, WaitIsWatched
  <2> QED BY <2>2, <2>3
<1>9. AnswerReady'
  BY <1>2, <1>6 DEF IoInv, AnswerReady, Answered, OneWaiterPerFd
<1>10. AnswerHolds'
  <2> SUFFICES ASSUME usage = "own", NEW g \in Fibers, pc'[g] = "io"
               PROVE  /\ call'[g].fd \in open /\ user[call'[g].fd] = g
                      /\ g \notin IoWaiters => got'[g] \subseteq ready'[call'[g].fd]
    BY <1>2 DEF AnswerHolds
  <2>1. g # f /\ pc[g] = "io" /\ call'[g] = call[g] /\ got'[g] = got[g]
    BY <1>6
  <2>2. /\ call[g].fd \in open /\ user[call[g].fd] = g /\ user[d] = f
        /\ g \notin IoWaiters => got[g] \subseteq ready[call[g].fd]
    BY <1>1, <1>4, <2>1 DEF IoInv, AnswerHolds
  <2>3. call[g].fd # d /\ call[g].fd \in Fds
    BY <2>1, <2>2 DEF IoInv, IoTypeOK
  <2> QED BY <1>5, <2>1, <2>2, <2>3
<1>11. ASSUME usage = "own", "err" \notin ready[d] PROVE res'[f] = "ok"
  <2>1. d \in open /\ got[f] \subseteq ready[d] /\ {e, "err"} \cap got[f] # {}
    BY <1>1, <1>4, <1>11 DEF IoInv, AnswerHolds, Answered
  <2>2. e \in ready[d] /\ "err" \notin got[f]
    BY <1>11, <2>1
  <2> QED BY <1>3, <1>4, <1>11, <2>1, <2>2 DEF Transfer
<1> QED BY <1>2, <1>4, <1>7, <1>8, <1>9, <1>10, <1>11 DEF IoInv

\* A poll that reports registered descriptors for which something the fiber waits for holds.
LEMMA PollStep ==
  ASSUME IoInv, Polling,
         UNCHANGED <<schedVars, backend, usage, open, ready, user, fds, loop, call, got, res>>,
         events' \subseteq [reg : Registration, got : SUBSET Events],
         \A v \in events' : /\ v.reg \in Members(fds)
                            /\ OneWaiterPerFd => {v.reg.ev, "err"} \cap v.got # {}
                            /\ v.got \subseteq ready[v.reg.fd],
         \A v, w \in events' : v.reg = w.reg => v = w
  PROVE  IoInv'
<1>1. SchedInv' /\ IoWaiters' = IoWaiters /\ UNCHANGED <<phase, current, pc>>
  BY SchedStutter DEF IoInv, schedVars
<1>2. IoTypeOK'
  BY <1>1 DEF IoInv, IoTypeOK, SchedInv
<1>3. RegistrationValid' /\ RegisteredOnce'
  BY <1>1 DEF IoInv, RegistrationValid, RegisteredOnce, OneWaiterPerFd
<1>4. EventsFresh'
  BY <1>1 DEF EventsFresh, Polling, Running, OneWaiterPerFd
<1>5. WaitIsWatched' /\ AnswerReady' /\ AnswerHolds'
  BY <1>1 DEF IoInv, WaitIsWatched, AnswerReady, AnswerHolds, Answered, OneWaiterPerFd
<1> QED BY <1>1, <1>2, <1>3, <1>4, <1>5 DEF IoInv

\* epoll_wait reports some of the ready registrations.
LEMMA EpollWaitStep ==
  ASSUME IoInv, EpollWait
  PROVE  IoInv'
<1> USE DEF EpollWait
<1>1. PICK E \in SUBSET {r \in Members(fds) : EpollEvent(r).got # {}} :
        events' = {EpollEvent(r) : r \in E}
  OBVIOUS
<1>2. ASSUME NEW r \in Members(fds)
      PROVE  /\ EpollEvent(r) \in [reg : Registration, got : SUBSET Events]
             /\ EpollEvent(r).reg = r
             /\ EpollEvent(r).got = ready[r.fd] \cap {r.ev, "err"}
  <2>1. r \in Registration /\ r.fd \in Fds
    BY IoFacts DEF Registration
  <2>2. ready[r.fd] \in SUBSET Events
    BY <2>1 DEF IoInv, IoTypeOK
  <2> QED BY <2>1, <2>2 DEF EpollEvent
<1>3. ASSUME NEW v \in events'
      PROVE  /\ v \in [reg : Registration, got : SUBSET Events] /\ v.reg \in Members(fds)
             /\ v = EpollEvent(v.reg)
             /\ {v.reg.ev, "err"} \cap v.got # {} /\ v.got \subseteq ready[v.reg.fd]
  <2>1. PICK r \in E : v = EpollEvent(r)
    BY <1>1
  <2>2. r \in Members(fds) /\ EpollEvent(r).got # {}
    BY <1>1
  <2> QED BY <1>2, <2>1, <2>2
<1>4. \A v, w \in events' : v.reg = w.reg => v = w
  BY <1>3
<1> QED BY <1>3, <1>4, PollStep

\* select reports all of them; if only one fiber waits for a descriptor, only what that
\* fiber waits for.
LEMMA SelectWaitStep ==
  ASSUME IoInv, SelectWait
  PROVE  IoInv'
<1> USE DEF SelectWait
<1>1. events' = {v \in {SelectEvent(r) : r \in Members(fds)} : v.got # {}}
  OBVIOUS
<1>2. ASSUME NEW r \in Members(fds)
      PROVE  /\ SelectEvent(r) \in [reg : Registration, got : SUBSET Events]
             /\ SelectEvent(r).reg = r
             /\ OneWaiterPerFd => SelectEvent(r).got \subseteq {r.ev, "err"}
             /\ SelectEvent(r).got \subseteq ready[r.fd]
  <2>1. r \in Registration /\ r.fd \in Fds
    BY IoFacts DEF Registration
  <2>2. ready[r.fd] \in SUBSET Events
    BY <2>1 DEF IoInv, IoTypeOK
  <2>3. OneWaiterPerFd => \A q \in Members(fds) : q.fd = r.fd => q = r
    BY IoFacts DEF Members
  <2>4. PICK g \in SUBSET Events :
          /\ g = {e \in {"in", "out"} : /\ e \in ready[r.fd]
                                        /\ \E q \in Members(fds) : q.fd = r.fd /\ q.ev = e}
                 \cup (ready[r.fd] \cap {"err"})
    BY <2>2 DEF Events
  <2>5. (OneWaiterPerFd => g \subseteq {r.ev, "err"}) /\ g \subseteq ready[r.fd]
    BY <2>3, <2>4
  <2>6. SelectEvent(r) = [reg |-> r, got |-> g]
    BY <2>4 DEF SelectEvent
  <2> QED BY <2>1, <2>5, <2>6
<1>3. ASSUME NEW v \in events'
      PROVE  /\ v \in [reg : Registration, got : SUBSET Events] /\ v.reg \in Members(fds)
             /\ v = SelectEvent(v.reg) /\ v.got \subseteq ready[v.reg.fd]
             /\ OneWaiterPerFd => {v.reg.ev, "err"} \cap v.got # {}
  <2>1. PICK r \in Members(fds) : v = SelectEvent(r) /\ v.got # {}
    BY <1>1
  <2> QED BY <1>2, <2>1
<1>4. \A v, w \in events' : v.reg = w.reg => v = w
  BY <1>3
<1> QED BY <1>3, <1>4, PollStep

\* The loop hands one reported event to the fiber that waits for it: dfk__ioresume, and
\* the registration is gone before the fiber runs again.
LEMMA DispatchStep ==
  ASSUME IoInv, NEW v \in events, Dispatch(v)
  PROVE  IoInv' /\ v.reg.fiber \in Fibers /\ EventLoopResume(v.reg.fiber)
<1> USE DEF Dispatch
<1>1. PICK i \in DOMAIN fds : fds[i] = v.reg /\ fds' = Without(fds, i)
  OBVIOUS
<1>2. PICK f \in Fibers : f = v.reg.fiber /\ f \in IoWaiters
  BY <1>1, IoFacts
<1>3. /\ fds \in Seq(Registration) /\ got \in [Fibers -> SUBSET Events]
      /\ v \in [reg : Registration, got : SUBSET Events]
  BY DEF IoInv, IoTypeOK
<1>4. EventLoopResume(f)
  BY <1>2 DEF EventLoopResume
<1>5. /\ SchedInv' /\ IoWaiters' = IoWaiters \ {f} /\ UNCHANGED <<phase, current, pc>>
  BY <1>4, IoResumeInv DEF IoInv, EventLoopResume
<1>6. /\ fds' \in Seq(Registration) /\ Members(fds') = Members(fds) \ {v.reg}
      /\ \A r \in Members(fds') : r.fiber # f
      /\ \A j, k \in DOMAIN fds' : fds'[j].fiber = fds'[k].fiber => j = k
      /\ OneWaiterPerFd => \A j, k \in DOMAIN fds' : fds'[j].fd = fds'[k].fd => j = k
  <2>1. /\ Without(fds, i) \in Seq(Registration)
        /\ Members(Without(fds, i)) = Members(fds) \ {fds[i]}
        /\ \A r \in Members(Without(fds, i)) : r.fiber # fds[i].fiber
        /\ \A j, k \in DOMAIN Without(fds, i) :
             Without(fds, i)[j].fiber = Without(fds, i)[k].fiber => j = k
        /\ OneWaiterPerFd => \A j, k \in DOMAIN Without(fds, i) :
             Without(fds, i)[j].fd = Without(fds, i)[k].fd => j = k
    BY <1>3, IoFacts, Unregister
  <2> QED BY <1>1, <1>2, <2>1
<1>7. /\ got' = [got EXCEPT ![f] = v.got] /\ got' \in [Fibers -> SUBSET Events]
      /\ got'[f] = v.got /\ \A g \in Fibers : g # f => got'[g] = got[g]
  BY <1>2, <1>3
<1>8. IoTypeOK'
  BY <1>5, <1>6, <1>7 DEF IoInv, IoTypeOK, SchedInv
<1>9. RegistrationValid' /\ RegisteredOnce'
  <2>1. \A w \in events' : w.reg \in Members(fds')
    BY <1>6 DEF IoInv, RegistrationValid, EventsFresh
  <2>2. \A r \in Members(fds') : r.fiber \in IoWaiters' /\ call[r.fiber] = [fd |-> r.fd, ev |-> r.ev]
    BY <1>5, <1>6 DEF IoInv, RegistrationValid
  <2> QED BY <1>6, <2>1, <2>2 DEF RegistrationValid, RegisteredOnce, OneWaiterPerFd
<1>10. EventsFresh'
  BY <1>5 DEF IoInv, EventsFresh, Running, OneWaiterPerFd
<1>11. /\ call[f].ev = v.reg.ev /\ call[f].fd = v.reg.fd
       /\ v.got \subseteq ready[v.reg.fd]
       /\ OneWaiterPerFd => {v.reg.ev, "err"} \cap v.got # {}
  BY <1>1, <1>2, IoFacts DEF IoInv, EventsFresh
<1>12. AnswerReady'
  BY <1>5, <1>7, <1>11 DEF IoInv, AnswerReady, Answered, OneWaiterPerFd
<1>13. AnswerHolds'
  BY <1>5, <1>7, <1>11 DEF IoInv, AnswerHolds
<1>14. WaitIsWatched'
  <2> SUFFICES ASSUME usage = "own", NEW g \in IoWaiters, g # f
               PROVE  \E r \in Members(fds') : r.fiber = g /\ r.fd \in open
    BY <1>5 DEF WaitIsWatched
  <2>1. PICK r \in Members(fds) : r.fiber = g /\ r.fd \in open
    BY DEF IoInv, WaitIsWatched
  <2> QED BY <1>2, <1>6, <2>1
<1> QED BY <1>2, <1>4, <1>5, <1>8, <1>9, <1>10, <1>12, <1>13, <1>14 DEF IoInv

\* dfk_work makes a new event loop; the last one had no registrations left that matter.
LEMMA WorkBeginsStep ==
  ASSUME IoInv, NEW f \in Fibers, WorkBegins(f)
  PROVE  IoInv'
<1> USE DEF WorkBegins
<1>1. SchedInv /\ SchedInv' /\ IoWaiters' = IoWaiters
  BY DfkWorkInv DEF IoInv
<1>2. phase = "idle" /\ iowait = 0 /\ f \notin alive /\ pc' = [pc EXCEPT ![f] = "user"]
  BY <1>1 DEF DfkWork, SchedInv, SchedulerPoint
<1>3. IoWaiters = {}
  BY <1>1, <1>2, IoFinite, FS_EmptySet DEF SchedInv, SchedulerConsistent, IowaitExact
<1>4. \A g \in Fibers : pc'[g] = "io" => pc[g] = "io"
  BY <1>1, <1>2 DEF SchedInv, SchedTypeOK
<1>5. Members(fds') = {} /\ DOMAIN fds' = {} /\ fds' \in Seq(Registration)
  BY DEF Members
<1>6. IoTypeOK'
  BY <1>1, <1>5 DEF IoInv, IoTypeOK, SchedInv
<1>7. RegistrationValid' /\ RegisteredOnce' /\ EventsFresh' /\ WaitIsWatched'
  BY <1>1, <1>3, <1>5 DEF RegistrationValid, RegisteredOnce, EventsFresh, WaitIsWatched
<1>8. AnswerReady' /\ AnswerHolds'
  BY <1>1, <1>4 DEF IoInv, AnswerReady, AnswerHolds, Answered, OneWaiterPerFd
<1> QED BY <1>1, <1>6, <1>7, <1>8 DEF IoInv

\* Steps of the scheduler, of the loop's fiber and of fibers that do no I/O.
LEMMA OtherStep ==
  ASSUME IoInv,
         \/ Scheduling \/ LoopSuspend \/ SelectFails
         \/ \E f \in Fibers : \/ TerminateClosed(f)
                              \/ Postpone(f) /\ UNCHANGED ioVars
                              \/ (\E g \in Fibers : Spawn(f, g)) /\ UNCHANGED ioVars
  PROVE  IoInv' /\ (\A f \in Fibers : pc'[f] = "io" <=> pc[f] = "io")
<1> USE DEF ioVars
<1>1. /\ SchedInv /\ loop \in {"run", "exited", "freed"} /\ res \in [Fibers -> {"none", "ok", "error"}]
      /\ events # {} => Running("eventloop")
      /\ pc \in [Fibers -> {"user", "io", "parked", "lock", "wait"}]
  BY DEF IoInv, IoTypeOK, EventsFresh, SchedInv, SchedTypeOK
<1>2. CASE Scheduling
  <2>1. SchedulerCollect \/ SchedulerExit \/ SchedulerDispatch \/ SchedulerBatchDone
    BY <1>2 DEF Scheduling
  <2>2. SchedInv' /\ IoWaiters' = IoWaiters
    BY <1>1, <2>1, SchedulerCollectInv, SchedulerExitInv, SchedulerDispatchInv, SchedulerBatchDoneInv
  <2>3. pc' = pc /\ events = {}
    BY <1>1, <2>1 DEF SchedulerCollect, SchedulerExit, SchedulerDispatch, SchedulerBatchDone,
                      SchedulerAt, Running
  <2>4. /\ UNCHANGED <<backend, usage, open, ready, user, fds, events, call, got, res>>
        /\ loop' \in {"run", "exited", "freed"}
    BY <1>1, <1>2 DEF Scheduling
  <2> QED BY <1>1, <2>2, <2>3, <2>4, QuietStep
<1>3. CASE LoopSuspend
  BY <1>1, <1>3, EventLoopSuspendInv, QuietStep DEF LoopSuspend, EventLoopSuspend
<1>4. CASE SelectFails
  BY <1>1, <1>4, LoopYieldInv, QuietStep DEF SelectFails, Polling
<1>5. ASSUME NEW f \in Fibers, TerminateClosed(f)
      PROVE  IoInv' /\ (\A g \in Fibers : pc'[g] = "io" <=> pc[g] = "io")
  <2>1. Terminate(f) /\ UNCHANGED ioVars
    BY <1>5 DEF TerminateClosed
  <2>2. events = {} /\ pc' = pc
    BY <2>1, IoFacts DEF Terminate, InUserCode
  <2> QED BY <1>1, <2>1, <2>2, TerminateInv, QuietStep
<1>6. ASSUME NEW f \in Fibers, Postpone(f), UNCHANGED ioVars
      PROVE  IoInv' /\ (\A g \in Fibers : pc'[g] = "io" <=> pc[g] = "io")
  <2>1. events = {} /\ pc' = pc
    BY <1>6, IoFacts DEF Postpone, InUserCode
  <2> QED BY <1>1, <1>6, <2>1, PostponeInv, QuietStep
<1>7. ASSUME NEW f \in Fibers, NEW g \in Fibers, Spawn(f, g), UNCHANGED ioVars
      PROVE  IoInv' /\ (\A h \in Fibers : pc'[h] = "io" <=> pc[h] = "io")
  <2>1. events = {}
    BY <1>7, IoFacts DEF Spawn, InUserCode
  <2>2. pc[g] = "user"
    BY <1>1, <1>7 DEF Spawn, SchedInv, EndedInUserCode
  <2>3. \A h \in Fibers : pc'[h] = "io" <=> pc[h] = "io"
    BY <1>1, <1>7, <2>2 DEF Spawn
  <2> QED BY <1>1, <1>7, <2>1, <2>3, SpawnInv, QuietStep
<1> QED BY <1>2, <1>3, <1>4, <1>5, <1>6, <1>7

\* Every step preserves IoInv, and a fiber comes back from dfk__io only through IoComplete.
LEMMA NextIoInv ==
  ASSUME IoInv, [Next]_vars
  PROVE  /\ IoInv'
         /\ \A f \in Fibers : usage = "own" /\ pc[f] = "io" /\ pc'[f] = "user"
                                => res'[f] = "ok" \/ "err" \in ready[call[f].fd]
<1>1. CASE UNCHANGED vars
  <2>1. SchedInv' /\ IoWaiters' = IoWaiters
    BY <1>1, SchedStutter DEF IoInv, vars
  <2> QED BY <1>1, <2>1, QuietStep DEF vars, ioVars, schedVars, IoInv, IoTypeOK
<1>2. ASSUME NEW f \in Fibers, WorkBegins(f)
      PROVE  IoInv' /\ \A g \in Fibers : pc[g] = "io" => pc'[g] = "io"
  <2>1. pc[f] = "user" /\ pc' = [pc EXCEPT ![f] = "user"]
    BY <1>2 DEF WorkBegins, DfkWork, IoInv, SchedInv, EndedInUserCode
  <2>2. \A g \in Fibers : pc[g] = "io" => pc'[g] = "io"
    BY <2>1 DEF IoInv, SchedInv, SchedTypeOK
  <2> QED BY <1>2, <2>2, WorkBeginsStep
<1>3. CASE \/ Scheduling \/ LoopSuspend \/ SelectFails
           \/ \E f \in Fibers : \/ TerminateClosed(f)
                                \/ Postpone(f) /\ UNCHANGED ioVars
                                \/ (\E g \in Fibers : Spawn(f, g)) /\ UNCHANGED ioVars
  BY <1>3, OtherStep
<1>4. CASE EpollWait \/ SelectWait
  BY <1>4, EpollWaitStep, SelectWaitStep DEF EpollWait, SelectWait, schedVars
<1>5. ASSUME NEW v \in events, Dispatch(v) PROVE IoInv' /\ pc' = pc
  BY <1>5, DispatchStep DEF Dispatch
<1>6. ASSUME NEW d \in Fds, NEW e \in Ops \cup {"err"}, Arrive(d, e) PROVE IoInv' /\ pc' = pc
  BY <1>6, DescriptorStep DEF Arrive, schedVars
<1>7. ASSUME NEW f \in Fibers, IoStep(f)
      PROVE  /\ IoInv'
             /\ \A g \in Fibers : usage = "own" /\ pc[g] = "io" /\ pc'[g] = "user"
                                    => res'[g] = "ok" \/ "err" \in ready[call[g].fd]
  <2>1. ASSUME NEW d \in Fds, Open(f, d) \/ IoFails(f, d) PROVE IoInv' /\ pc' = pc
    BY <2>1, DescriptorStep DEF Open, IoFails, schedVars
  <2>2. ASSUME NEW d \in Fds, Close(f, d) PROVE IoInv' /\ pc' = pc
    BY <2>2, CloseStep DEF Close, schedVars
  <2>3. ASSUME NEW d \in Fds, NEW e \in Ops, IoNow(f, d, e) \/ EpollAddFails(f, d, e)
        PROVE  IoInv' /\ pc' = pc
    BY <2>3, DescriptorStep DEF IoNow, EpollAddFails, schedVars
  <2>4. ASSUME NEW d \in Fds, NEW e \in Ops, IoRegister(f, d, e)
        PROVE  IoInv' /\ \A g \in Fibers : pc[g] = "io" => pc'[g] = "io"
    <3>1. pc' = [pc EXCEPT ![f] = "io"]
      BY <2>4 DEF IoRegister, IoSuspend
    <3>2. \A g \in Fibers : pc[g] = "io" => pc'[g] = "io"
      BY <3>1 DEF IoInv, SchedInv, SchedTypeOK
    <3> QED BY <2>4, <3>2, RegisterStep
  <2>5. CASE IoComplete(f)
    <3>1. IoInv' /\ (usage = "own" => res'[f] = "ok" \/ "err" \in ready[call[f].fd])
      BY <2>5, CompleteStep
    <3>2. pc' = [pc EXCEPT ![f] = "user"]
      BY <2>5 DEF IoComplete, IoReturn
    <3>3. \A g \in Fibers : g # f /\ pc[g] = "io" => pc'[g] = "io"
      BY <3>2 DEF IoInv, SchedInv, SchedTypeOK
    <3> QED BY <3>1, <3>3
  <2> QED BY <1>7, <2>1, <2>2, <2>3, <2>4, <2>5 DEF IoStep
<1> QED BY <1>1, <1>2, <1>3, <1>4, <1>5, <1>6, <1>7 DEF Next, LoopStep, vars, schedVars

-----------------------------------------------------------------------------
(***************************************************************************)
(* What follows for every behaviour.                                       *)
(***************************************************************************)
\* IoInv is an invariant: registrations, suspended fibers, reported events and the
\* answers stored for dfk__io fit together between any two steps.
THEOREM IoInvariance == Spec => []IoInv
<1>1. Init => IoInv
  BY InitIoInv
<1>2. IoInv /\ [Next]_vars => IoInv'
  BY NextIoInv
<1> QED BY <1>1, <1>2, PTL DEF Spec

\* dfk__eventloop_main (epoll.c, select.c) never follows a registration of a fiber that
\* is not suspended in the dfk__io that made it.
THEOREM RegistrationSafety == Spec => []RegistrationValid
<1>1. IoInv => RegistrationValid
  BY DEF IoInv
<1> QED BY <1>1, IoInvariance, PTL

\* Nobody waits in dfk__io for a descriptor that the loop does not watch.
THEOREM WatchSafety == Spec => []WaitIsWatched
<1>1. IoInv => WaitIsWatched
  BY DEF IoInv
<1> QED BY <1>1, IoInvariance, PTL

\* The assertions after DFK_IO in dfk__read and dfk_tcp_socket_write hold on epoll, and on
\* select as long as no two fibers use a descriptor.
THEOREM GotSafety == Spec => []GotWhatItWanted
<1>1. IoInv => GotWhatItWanted
  <2> SUFFICES ASSUME IoInv, OneWaiterPerFd, NEW f \in Fibers, Running(f), pc[f] = "io"
               PROVE  Answered(f)
    BY DEF GotWhatItWanted, AnswerAsserted
  <2>1. f \notin IoWaiters
    BY IoFacts
  <2> QED BY <2>1 DEF IoInv, AnswerReady
<1> QED BY <1>1, IoInvariance, PTL

\* A read or write that waited in dfk__io fails only if the connection failed, if no other
\* fiber uses the descriptor: what the loop reported still holds at the second attempt.
THEOREM AnswerSafety == Spec => NoSpuriousError
<1>1. IoInv /\ [Next]_vars =>
        [\A f \in Fibers : usage = "own" /\ pc[f] = "io" /\ pc'[f] = "user"
                             => res'[f] = "ok" \/ "err" \in ready[call[f].fd]]_vars
  BY NextIoInv
<1> QED BY <1>1, IoInvariance, PTL DEF Spec, NoSpuriousError

\* With both event loops of the library, the scheduler's lists and counters change only
\* as dfk__scheduler and its interface change them, until the loop's fiber ends.
THEOREM SchedulerRefined == Spec => ImplementsScheduler
<1>1. Init => SchedInit
  BY DEF Init
<1>2. IoInv /\ [Next]_vars => [SchedNext \/ (loop = "run" /\ loop' = "exited")]_schedVars
  <2> SUFFICES ASSUME IoInv, Next
               PROVE  SchedNext \/ (loop = "run" /\ loop' = "exited") \/ UNCHANGED schedVars
    BY DEF vars
  <2>1. ASSUME NEW f \in Fibers, WorkBegins(f) PROVE SchedNext
    BY <2>1 DEF WorkBegins, SchedNext, WorkStep
  <2>2. CASE Scheduling
    BY <2>2 DEF Scheduling, SchedNext, SchedulerStep
  <2>3. CASE EpollWait \/ SelectWait
    BY <2>3 DEF EpollWait, SelectWait
  <2>4. CASE SelectFails
    BY <2>4 DEF SelectFails, Polling
  <2>5. ASSUME NEW v \in events, Dispatch(v) PROVE SchedNext
    <3>1. v.reg.fiber \in Fibers /\ EventLoopResume(v.reg.fiber)
      BY <2>5, DispatchStep
    <3> QED BY <3>1 DEF SchedNext, EventLoopStep
  <2>6. CASE LoopSuspend
    BY <2>6 DEF LoopSuspend, SchedNext, EventLoopStep
  <2>7. ASSUME NEW d \in Fds, NEW e \in Ops \cup {"err"}, Arrive(d, e) PROVE UNCHANGED schedVars
    BY <2>7 DEF Arrive
  <2>8. ASSUME NEW f \in Fibers, IoStep(f) PROVE SchedNext \/ UNCHANGED schedVars
    <3>1. ASSUME NEW d \in Fds, Open(f, d) \/ Close(f, d) \/ IoFails(f, d) PROVE UNCHANGED schedVars
      BY <3>1 DEF Open, Close, IoFails
    <3>2. ASSUME NEW d \in Fds, NEW e \in Ops, IoNow(f, d, e) \/ EpollAddFails(f, d, e)
          PROVE  UNCHANGED schedVars
      BY <3>2 DEF IoNow, EpollAddFails
    <3>3. ASSUME NEW d \in Fds, NEW e \in Ops, IoRegister(f, d, e) PROVE SchedNext
      BY <3>3 DEF IoRegister, SchedNext, FiberStep
    <3>4. CASE IoComplete(f)
      BY <3>4 DEF IoComplete, SchedNext, FiberStep
    <3> QED BY <2>8, <3>1, <3>2, <3>3, <3>4 DEF IoStep
  <2>9. ASSUME NEW f \in Fibers,
               \/ TerminateClosed(f) \/ Postpone(f) \/ \E g \in Fibers : Spawn(f, g)
        PROVE  SchedNext
    BY <2>9 DEF TerminateClosed, SchedNext, FiberStep
  <2> QED BY <2>1, <2>2, <2>3, <2>4, <2>5, <2>6, <2>7, <2>8, <2>9 DEF Next, LoopStep
<1> QED BY <1>1, <1>2, IoInvariance, PTL DEF Spec, ImplementsScheduler

-----------------------------------------------------------------------------
(***************************************************************************)
(* SigInv is inductive.                                                    *)
(***************************************************************************)
LEMMA NoWaitFacts == NoWait \in Call /\ NoWait.stage = "none"
<1>1. PICK b \in BOOLEAN : b = FALSE
  OBVIOUS
<1>2. NoWait = [stage |-> "none", fd |-> NULL, signum |-> {}, todo |-> {}, heard |-> b]
  BY <1>1 DEF NoWait
<1>3. NoWait \in Call
  BY <1>2 DEF Call
<1> QED BY <1>2, <1>3

\* Before the first call nobody waits for a signal.
LEMMA InitSigInv == SignalInit => SigInv
<1> SUFFICES ASSUME SignalInit PROVE SigInv
  OBVIOUS
<1> USE DEF SignalInit
<1>1. IoInv
  BY InitIoInv
<1>2. NoWait \in Call /\ NoWait.stage = "none"
  BY NoWaitFacts
<1>3. SigTypeOK
  <2>1. wait \in [Fibers -> Call]
    BY <1>2
  <2>2. waiting_fibers \in Seq(Element) /\ installed \subseteq Signals
    OBVIOUS
  <2>3. failed \in BOOLEAN /\ sane \in BOOLEAN
    BY Zenon
  <2> QED BY <2>1, <2>2, <2>3, Zenon DEF SigTypeOK
<1>4. \A f \in Fibers : Waits(f, "none") /\ ~ Waits(f, "reading") /\ pc[f] = "user"
  BY <1>2 DEF Waits, Init, SchedInit
<1>5. \A f \in Fibers : CallSound(f)
  BY <1>4 DEF CallSound
<1>6. ElementsMatch
  BY <1>4 DEF ElementsMatch, Members
<1>7. \A d \in Fds : ready[d] \subseteq {"in"}
  BY DEF Init, IoInit
<1> QED BY <1>1, <1>3, <1>5, <1>6, <1>7 DEF SigInv

\* What the lemmas below need of SigInv.
LEMMA SigFacts ==
  ASSUME SigInv
  PROVE  /\ usage = "own"
         /\ open \subseteq Fds /\ ready \in [Fds -> SUBSET Events]
         /\ user \in [Fds -> Fibers \cup {NULL}] /\ res \in [Fibers -> {"none", "ok", "error"}]
         /\ wait \in [Fibers -> Call] /\ waiting_fibers \in Seq(Element)
         /\ \A f \in Fibers : ~ Waits(f, "none") =>
              wait[f].fd \in Fds /\ wait[f].fd \in open /\ user[wait[f].fd] = f
         /\ Dangling => failed
<1>1. usage = "own"
  BY SignalAssumption DEF SigInv, IoInv, IoTypeOK
<1>2. /\ open \subseteq Fds /\ ready \in [Fds -> SUBSET Events]
      /\ user \in [Fds -> Fibers \cup {NULL}] /\ res \in [Fibers -> {"none", "ok", "error"}]
  BY DEF SigInv, IoInv, IoTypeOK
<1>3. wait \in [Fibers -> Call] /\ waiting_fibers \in Seq(Element)
  BY DEF SigInv, SigTypeOK
<1>4. \A f \in Fibers : ~ Waits(f, "none") =>
              wait[f].fd \in Fds /\ wait[f].fd \in open /\ user[wait[f].fd] = f
  BY <1>2 DEF SigInv, CallSound
<1>5. Dangling => failed
  BY DEF SigInv, ElementsMatch, Dangling
<1> QED BY <1>1, <1>2, <1>3, <1>4, <1>5

\* Every element of waiting_fibers is that of some fiber.
LEMMA ElementFacts ==
  ASSUME SigInv
  PROVE  \A x \in Members(waiting_fibers) : x \in Element /\ x.fiber \in Fibers
<1>1. \A x \in Members(waiting_fibers) : x \in Element
  BY DEF SigInv, SigTypeOK, Members
<1> QED BY <1>1 DEF Element

\* A step of one fiber, or of nobody in particular, leaves the calls of the others sound.
LEMMA OthersSound ==
  ASSUME SigInv, NEW g \in Fibers, wait'[g] = wait[g], pc'[g] = "io" <=> pc[g] = "io",
         call'[g] = call[g], res'[g] = res[g],
         ~ Waits(g, "none") => /\ wait[g].fd \in open' /\ user'[wait[g].fd] = g
                               /\ "in" \in ready'[wait[g].fd] => "in" \in ready[wait[g].fd]
  PROVE  CallSound(g)'
BY DEF SigInv, CallSound, Waits

\* Steps that leave descriptors and calls alone.
LEMMA CallsKept ==
  ASSUME SigInv, IoInv', UNCHANGED <<sigVars, open, ready, user, call, res>>,
         \A f \in Fibers : pc'[f] = "io" <=> pc[f] = "io"
  PROVE  SigInv'
<1> USE DEF sigVars
<1>1. SigTypeOK' /\ ElementsMatch'
  BY DEF SigInv, SigTypeOK, ElementsMatch, Waits
<1>2. ASSUME NEW f \in Fibers PROVE CallSound(f)'
  BY SigFacts, OthersSound
<1> QED BY <1>1, <1>2 DEF SigInv

\* The scheduler, the event loop and fibers outside dfk__sigwait.
LEMMA OthersStep ==
  ASSUME SigInv, Others
  PROVE  SigInv'
<1>1. IoInv /\ UNCHANGED sigVars
  BY DEF SigInv, Others
<1>2. ASSUME NEW f \in Fibers, WorkBegins(f) PROVE SigInv'
  <2>1. pc[f] = "user" /\ pc' = [pc EXCEPT ![f] = "user"]
    BY <1>1, <1>2 DEF WorkBegins, DfkWork, IoInv, SchedInv, EndedInUserCode
  <2>2. \A g \in Fibers : pc'[g] = "io" <=> pc[g] = "io"
    BY <1>1, <2>1 DEF IoInv, SchedInv, SchedTypeOK
  <2> QED BY <1>1, <1>2, <2>2, WorkBeginsStep, CallsKept DEF WorkBegins
<1>3. CASE \/ Scheduling \/ LoopSuspend \/ SelectFails
           \/ \E f \in Fibers : \/ TerminateClosed(f)
                                \/ Postpone(f) /\ UNCHANGED ioVars
                                \/ (\E g \in Fibers : Spawn(f, g)) /\ UNCHANGED ioVars
  <2>1. IoInv' /\ (\A f \in Fibers : pc'[f] = "io" <=> pc[f] = "io")
    BY <1>1, <1>3, OtherStep
  <2>2. UNCHANGED <<open, ready, user, call, res>>
    BY <1>3 DEF Scheduling, LoopSuspend, SelectFails, TerminateClosed, ioVars
  <2> QED BY <1>1, <2>1, <2>2, CallsKept
<1>4. CASE EpollWait \/ SelectWait
  <2>1. IoInv' /\ UNCHANGED <<open, ready, user, call, res, pc>>
    BY <1>1, <1>4, EpollWaitStep, SelectWaitStep DEF EpollWait, SelectWait, schedVars
  <2> QED BY <1>1, <2>1, CallsKept
<1>5. ASSUME NEW v \in events, Dispatch(v) PROVE SigInv'
  <2>1. IoInv' /\ UNCHANGED <<open, ready, user, call, res, pc>>
    BY <1>1, <1>5, DispatchStep DEF Dispatch
  <2> QED BY <1>1, <2>1, CallsKept
<1> QED BY <1>2, <1>3, <1>4, <1>5 DEF Others, LoopStep

\* Using an element of a call that returned: possible only after a sigaction failed.
LEMMA UndefinedStep ==
  ASSUME SigInv, Undefined
  PROVE  SigInv'
<1> USE DEF Undefined
<1>1. failed /\ UNCHANGED vars
  BY SigFacts
<1>2. IoInv'
  BY <1>1, NextIoInv DEF SigInv
<1>3. SigTypeOK' /\ ElementsMatch'
  BY DEF SigInv, SigTypeOK, ElementsMatch, Waits
<1>4. ASSUME NEW f \in Fibers PROVE CallSound(f)'
  BY <1>1, SigFacts, OthersSound DEF vars, schedVars, ioVars
<1>5. ready' = ready
  BY <1>1 DEF vars, ioVars
<1> QED BY <1>1, <1>2, <1>3, <1>4, <1>5 DEF SigInv

\* A dfk__sigwait that gets no pipe returns and changes nothing else.
LEMMA PipeFailsStep ==
  ASSUME SigInv, NEW f \in Fibers, PipeFails(f)
  PROVE  SigInv'
<1> USE DEF PipeFails, sigVars
<1>1. res' \in [Fibers -> {"none", "ok", "error"}] /\ \A g \in Fibers : g # f => res'[g] = res[g]
  BY SigFacts
<1>2. IoInv'
  BY <1>1, SigFacts, ReadyStep DEF SigInv, CallSound, IoInv, AnswerHolds
<1>3. SigTypeOK' /\ ElementsMatch'
  BY DEF SigInv, SigTypeOK, ElementsMatch, Waits
<1>4. UNCHANGED pc
  BY DEF schedVars
<1>5. ASSUME NEW g \in Fibers PROVE CallSound(g)'
  <2>1. CASE g = f
    BY <1>4, <2>1 DEF SigInv, CallSound, Waits
  <2>2. CASE g # f
    BY <1>1, <1>4, <2>2, SigFacts, OthersSound
  <2> QED BY <2>1, <2>2
<1> QED BY <1>2, <1>3, <1>5 DEF SigInv

\* dfk__sigwait makes a pipe and appends its element.
LEMMA SigwaitStep ==
  ASSUME SigInv, NEW f \in Fibers, NEW S \in SUBSET Signals, Sigwait(f, S), ~ Undefined
  PROVE  SigInv'
<1> USE DEF Sigwait
<1>1. InUserCode(f) /\ Waits(f, "none") /\ open # Fds /\ ~ Dangling
  OBVIOUS
<1>2. PICK d \in Fds, signum \in Signum(S) :
        /\ d \notin open /\ Open(f, d)
        /\ wait' = [wait EXCEPT ![f] = [stage |-> "install", fd |-> d, signum |-> signum,
                                        todo |-> S, heard |-> FALSE]]
        /\ waiting_fibers' = Append(waiting_fibers, [fiber |-> f, fd |-> d, signum |-> signum])
        /\ UNCHANGED <<installed, failed, sane>>
  <2>1. \E x \in Fds : x \notin open
    BY <1>1, SigFacts
  <2> QED BY <1>1, <2>1
<1>3. IoInv' /\ pc' = pc /\ call' = call /\ res' = res
  BY <1>2, DescriptorStep DEF SigInv, Open, schedVars
<1>4. signum \in SUBSET Signals
  BY DEF Signum
<1>5. PICK e \in Element : e = [fiber |-> f, fd |-> d, signum |-> signum]
  BY <1>4 DEF Element
<1>6. PICK w \in Call : /\ w = [stage |-> "install", fd |-> d, signum |-> signum, todo |-> S, heard |-> FALSE]
                        /\ w.stage = "install" /\ w.fd = d /\ w.signum = signum
  <2>1. PICK b \in BOOLEAN : b = FALSE
    OBVIOUS
  <2>2. PICK w \in Call : w = [stage |-> "install", fd |-> d, signum |-> signum, todo |-> S, heard |-> b]
    BY <1>4 DEF Call
  <2>3. w = [stage |-> "install", fd |-> d, signum |-> signum, todo |-> S, heard |-> FALSE]
    BY <2>1, <2>2, Zenon
  <2> QED BY <2>2, <2>3
<1>7. /\ wait' = [wait EXCEPT ![f] = w] /\ waiting_fibers' = Append(waiting_fibers, e)
      /\ e.fiber = f /\ e.fd = d /\ e.signum = signum
  BY <1>2, <1>5, <1>6
<1>8. /\ wait' \in [Fibers -> Call] /\ wait'[f] = w /\ \A g \in Fibers : g # f => wait'[g] = wait[g]
      /\ waiting_fibers' \in Seq(Element)
  BY <1>7, SigFacts
<1>9. SigTypeOK'
  BY <1>2, <1>8 DEF SigInv, SigTypeOK
<1>10. /\ DOMAIN waiting_fibers' = 1 .. Len(waiting_fibers) + 1
       /\ DOMAIN waiting_fibers = 1 .. Len(waiting_fibers) /\ Len(waiting_fibers) \in Nat
       /\ \A i \in DOMAIN waiting_fibers : waiting_fibers'[i] = waiting_fibers[i]
       /\ waiting_fibers'[Len(waiting_fibers) + 1] = e
       /\ Members(waiting_fibers') = Members(waiting_fibers) \cup {e}
  <2>1. waiting_fibers \in Seq(Element)
    BY SigFacts
  <2>2. /\ DOMAIN waiting_fibers' = 1 .. Len(waiting_fibers) + 1
        /\ DOMAIN waiting_fibers = 1 .. Len(waiting_fibers) /\ Len(waiting_fibers) \in Nat
        /\ \A i \in DOMAIN waiting_fibers : waiting_fibers'[i] = waiting_fibers[i]
        /\ waiting_fibers'[Len(waiting_fibers) + 1] = e
    BY <1>7, <2>1
  <2> QED BY <2>2 DEF Members
<1>11. ElementsMatch'
  <2>1. \A x \in Members(waiting_fibers) : x.fiber \in Fibers /\ x.fiber # f
    BY <1>1, ElementFacts DEF Dangling
  <2>2. \A g \in Fibers : ~ Waits(g, "none")' => \E x \in Members(waiting_fibers') : x.fiber = g
    BY <1>7, <1>8, <1>10 DEF SigInv, ElementsMatch, Waits
  <2>3. \A x \in Members(waiting_fibers') :
          IF Waits(x.fiber, "none")' THEN failed'
          ELSE x.fd = wait'[x.fiber].fd /\ x.signum = wait'[x.fiber].signum
    <3>1. ASSUME NEW x \in Members(waiting_fibers)
          PROVE  IF Waits(x.fiber, "none")' THEN failed'
                 ELSE x.fd = wait'[x.fiber].fd /\ x.signum = wait'[x.fiber].signum
      <4>1. wait'[x.fiber] = wait[x.fiber] /\ ~ Waits(x.fiber, "none")
        BY <1>1, <1>8, <2>1 DEF Dangling
      <4> QED BY <4>1 DEF SigInv, ElementsMatch, Waits
    <3>2. ~ Waits(e.fiber, "none")' /\ e.fd = wait'[e.fiber].fd /\ e.signum = wait'[e.fiber].signum
      BY <1>6, <1>7, <1>8 DEF Waits
    <3> QED BY <1>10, <3>1, <3>2
  <2>4. \A i, j \in DOMAIN waiting_fibers' : waiting_fibers'[i].fiber = waiting_fibers'[j].fiber => i = j
    <3>1. \A i \in DOMAIN waiting_fibers : waiting_fibers[i].fiber # f
      BY <2>1 DEF Members
    <3> QED BY <1>7, <1>10, <3>1 DEF SigInv, ElementsMatch
  <2> QED BY <2>2, <2>3, <2>4 DEF ElementsMatch
<1>12. /\ ready' \in [Fds -> SUBSET Events] /\ ready'[d] = {} /\ user'[d] = f /\ d \in open'
       /\ \A x \in Fds : x # d => ready'[x] = ready[x] /\ user'[x] = user[x] /\ (x \in open => x \in open')
  BY <1>2, SigFacts DEF Open
<1>13. ASSUME NEW g \in Fibers PROVE CallSound(g)'
  <2>1. CASE g = f
    <3>1. pc[f] # "io"
      BY <1>1 DEF InUserCode
    <3> QED BY <1>3, <1>6, <1>8, <1>12, <2>1, <3>1 DEF CallSound, Waits
  <2>2. CASE g # f
    <3>1. ~ Waits(g, "none") => wait[g].fd \in Fds /\ wait[g].fd # d /\ wait[g].fd \in open /\ user[wait[g].fd] = g
      BY <1>2, SigFacts
    <3> QED BY <1>3, <1>8, <1>12, <2>2, <3>1, OthersSound
  <2> QED BY <2>1, <2>2
<1>14. \A x \in Fds : ready'[x] \subseteq {"in"}
  BY <1>12 DEF SigInv
<1> QED BY <1>2, <1>3, <1>9, <1>11, <1>13, <1>14 DEF SigInv

\* Updates of the record of a call.
LEMMA StageSet ==
  ASSUME SigInv, NEW f \in Fibers, NEW st \in {"read", "reading", "return"}, Set(f, st)
  PROVE  /\ wait' \in [Fibers -> Call]
         /\ wait'[f].stage = st /\ wait'[f].fd = wait[f].fd
         /\ wait'[f].signum = wait[f].signum /\ wait'[f].heard = wait[f].heard
         /\ \A g \in Fibers : g # f => wait'[g] = wait[g]
<1>1. wait \in [Fibers -> Call]
  BY SigFacts
<1>2. wait' = [wait EXCEPT ![f] = [wait[f] EXCEPT !.stage = st]]
  BY DEF Set
<1>3. PICK c : c = [wait[f] EXCEPT !.stage = st]
  OBVIOUS
<1>4. /\ c \in Call /\ c.stage = st /\ c.fd = wait[f].fd
      /\ c.signum = wait[f].signum /\ c.heard = wait[f].heard
  <2>1. wait[f] \in Call
    BY <1>1
  <2> QED BY <1>3, <2>1 DEF Call
<1>5. wait' = [wait EXCEPT ![f] = c]
  BY <1>2, <1>3
<1>6. wait' \in [Fibers -> Call] /\ wait'[f] = c /\ \A g \in Fibers : g # f => wait'[g] = wait[g]
  BY <1>1, <1>4, <1>5
<1> QED BY <1>4, <1>6

\* Calls that go on: the list is as it was.
LEMMA ElementsKept ==
  ASSUME SigInv, NEW f \in Fibers, ~ Waits(f, "none"), wait'[f].stage # "none",
         wait'[f].fd = wait[f].fd, wait'[f].signum = wait[f].signum,
         \A g \in Fibers : g # f => wait'[g] = wait[g], UNCHANGED <<waiting_fibers, failed>>
  PROVE  ElementsMatch'
BY ElementFacts DEF SigInv, ElementsMatch, Waits

\* One sigaction succeeds.
LEMMA InstallStep ==
  ASSUME SigInv, NEW f \in Fibers, NEW sg \in Signals, Install(f, sg)
  PROVE  SigInv'
<1> USE DEF Install
<1>1. IoInv' /\ UNCHANGED <<open, ready, user, call, res, pc>>
  BY NextIoInv DEF SigInv, vars, ioVars, schedVars
<1>2. /\ wait' \in [Fibers -> Call]
      /\ wait'[f].stage \in {"install", "read"} /\ wait'[f].fd = wait[f].fd
      /\ wait'[f].signum = wait[f].signum /\ wait'[f].heard = wait[f].heard
      /\ \A g \in Fibers : g # f => wait'[g] = wait[g]
  <2>1. PICK st \in {"install", "read"} : st = IF wait[f].todo = {sg} THEN "read" ELSE "install"
    OBVIOUS
  <2>2. wait \in [Fibers -> Call]
    BY SigFacts
  <2>3. PICK w \in Call : w = [wait[f] EXCEPT !.todo = @ \ {sg}, !.stage = st]
    BY <2>2 DEF Call
  <2>4. w.stage = st /\ w.fd = wait[f].fd /\ w.signum = wait[f].signum /\ w.heard = wait[f].heard
    <3>1. \A c \in Call : LET x == [c EXCEPT !.todo = @ \ {sg}, !.stage = st] IN
            x.stage = st /\ x.fd = c.fd /\ x.signum = c.signum /\ x.heard = c.heard
      BY DEF Call
    <3> QED BY <2>2, <2>3, <3>1
  <2>5. wait' = [wait EXCEPT ![f] = w]
    BY <2>1, <2>3
  <2> QED BY <2>2, <2>4, <2>5
<1>3. SigTypeOK'
  BY <1>2 DEF SigInv, SigTypeOK
<1>4. ElementsMatch'
  BY <1>2, ElementsKept DEF Waits
<1>5. ASSUME NEW g \in Fibers PROVE CallSound(g)'
  <2>1. CASE g = f
    BY <1>1, <1>2, <2>1 DEF SigInv, CallSound, Waits
  <2>2. CASE g # f
    BY <1>1, <1>2, <2>2, SigFacts, OthersSound
  <2> QED BY <2>1, <2>2
<1> QED BY <1>1, <1>3, <1>4, <1>5 DEF SigInv

\* The end of dfk__sigwait closes the pipe, whether the element is erased or forgotten.
LEMMA CallEnds ==
  ASSUME SigInv, NEW f \in Fibers, ~ Waits(f, "none"), Close(f, wait[f].fd),
         wait' = [wait EXCEPT ![f] = NoWait]
  PROVE  /\ IoInv' /\ wait' \in [Fibers -> Call] /\ Waits(f, "none")'
         /\ \A g \in Fibers : g # f => wait'[g] = wait[g]
         /\ \A g \in Fibers : CallSound(g)'
         /\ \A x \in Fds : ready'[x] \subseteq {"in"}
<1>1. PICK d \in Fds : d = wait[f].fd /\ user[d] = f
  BY SigFacts
<1>2. IoInv' /\ pc' = pc /\ call' = call /\ res' = res /\ InUserCode(f)
  BY <1>1, CloseStep DEF SigInv, Close, schedVars
<1>3. /\ \A x \in Fds : x # d => /\ ready'[x] = ready[x] /\ user'[x] = user[x]
                                 /\ (x \in open => x \in open')
      /\ ready'[d] = {}
  BY <1>1, SigFacts DEF Close
<1>4. /\ wait' \in [Fibers -> Call] /\ wait'[f].stage = "none"
      /\ \A g \in Fibers : g # f => wait'[g] = wait[g]
  BY SigFacts, NoWaitFacts
<1>5. ASSUME NEW g \in Fibers PROVE CallSound(g)'
  <2>1. CASE g = f
    BY <1>2, <1>4, <2>1 DEF CallSound, Waits, InUserCode
  <2>2. CASE g # f
    <3>1. ~ Waits(g, "none") => wait[g].fd \in Fds /\ wait[g].fd # d /\ wait[g].fd \in open /\ user[wait[g].fd] = g
      BY <1>1, <2>2, SigFacts
    <3> QED BY <1>2, <1>3, <1>4, <2>2, <3>1, OthersSound
  <2> QED BY <2>1, <2>2
<1>6. \A x \in Fds : ready'[x] \subseteq {"in"}
  BY <1>3 DEF SigInv
<1> QED BY <1>2, <1>4, <1>5, <1>6 DEF Waits

\* A sigaction fails: the element stays in the list.
LEMMA InstallFailsStep ==
  ASSUME SigInv, NEW f \in Fibers, NEW sg \in Signals, InstallFails(f, sg)
  PROVE  SigInv'
<1> USE DEF InstallFails
<1>1. ~ Waits(f, "none")
  BY DEF Waits
<1>2. /\ IoInv' /\ wait' \in [Fibers -> Call] /\ Waits(f, "none")'
      /\ \A g \in Fibers : g # f => wait'[g] = wait[g]
      /\ \A g \in Fibers : CallSound(g)'
      /\ \A x \in Fds : ready'[x] \subseteq {"in"}
  BY <1>1, CallEnds
<1>3. SigTypeOK'
  BY <1>2 DEF SigInv, SigTypeOK
<1>4. ElementsMatch'
  BY <1>2, ElementFacts DEF SigInv, ElementsMatch, Waits
<1> QED BY <1>2, <1>3, <1>4 DEF SigInv

\* dfk__sigwait erases its element and returns.
LEMMA SigReturnStep ==
  ASSUME SigInv, NEW f \in Fibers, SigReturn(f), ~ Undefined
  PROVE  SigInv'
<1> USE DEF SigReturn
<1>1. ~ Waits(f, "none") /\ ~ Dangling
  BY DEF Waits
<1>2. /\ IoInv' /\ wait' \in [Fibers -> Call] /\ Waits(f, "none")'
      /\ \A g \in Fibers : g # f => wait'[g] = wait[g]
      /\ \A g \in Fibers : CallSound(g)'
      /\ \A x \in Fds : ready'[x] \subseteq {"in"}
  BY <1>1, CallEnds
<1>3. PICK i \in DOMAIN waiting_fibers :
        waiting_fibers[i].fiber = f /\ waiting_fibers' = Without(waiting_fibers, i)
  BY <1>1
<1>4. /\ waiting_fibers \in Seq(Element)
      /\ \A j, k \in DOMAIN waiting_fibers : waiting_fibers[j].fiber = waiting_fibers[k].fiber => j = k
  BY SigFacts DEF SigInv, ElementsMatch
<1>5. /\ waiting_fibers' \in Seq(Element)
      /\ Members(waiting_fibers') = Members(waiting_fibers) \ {waiting_fibers[i]}
      /\ \A j \in DOMAIN waiting_fibers' :
           \E k \in DOMAIN waiting_fibers : /\ k # i /\ waiting_fibers'[j] = waiting_fibers[k]
                                            /\ k = IF j < i THEN j ELSE j + 1
  <2>1. Without(waiting_fibers, i) \in Seq(Element)
    BY <1>4, WithoutElement
  <2>2. \A j, k \in DOMAIN waiting_fibers : waiting_fibers[j] = waiting_fibers[k] => j = k
    BY <1>4
  <2>3. Members(Without(waiting_fibers, i)) = Members(waiting_fibers) \ {waiting_fibers[i]}
    BY <1>4, <2>2, EraseOne
  <2>4. \A j \in DOMAIN Without(waiting_fibers, i) :
          \E k \in DOMAIN waiting_fibers : /\ k # i /\ Without(waiting_fibers, i)[j] = waiting_fibers[k]
                                           /\ k = IF j < i THEN j ELSE j + 1
    BY <1>4, WithoutElement
  <2> QED BY <1>3, <2>1, <2>3, <2>4
<1>6. SigTypeOK'
  BY <1>1, <1>2, <1>5 DEF SigInv, SigTypeOK
<1>7. ElementsMatch'
  <2>1. \A e \in Members(waiting_fibers) : e.fiber = f => e = waiting_fibers[i]
    BY <1>3, <1>4 DEF Members
  <2>2. \A g \in Fibers : ~ Waits(g, "none")' => \E e \in Members(waiting_fibers') : e.fiber = g
    <3> SUFFICES ASSUME NEW g \in Fibers, ~ Waits(g, "none")'
                 PROVE  \E e \in Members(waiting_fibers') : e.fiber = g
      OBVIOUS
    <3>1. g # f /\ ~ Waits(g, "none")
      BY <1>2 DEF Waits
    <3>2. PICK e \in Members(waiting_fibers) : e.fiber = g
      BY <3>1 DEF SigInv, ElementsMatch
    <3> QED BY <1>3, <1>5, <3>1, <3>2
  <2>3. \A e \in Members(waiting_fibers') :
          IF Waits(e.fiber, "none")' THEN failed'
          ELSE e.fd = wait'[e.fiber].fd /\ e.signum = wait'[e.fiber].signum
    <3> SUFFICES ASSUME NEW e \in Members(waiting_fibers')
                 PROVE  IF Waits(e.fiber, "none")' THEN failed'
                        ELSE e.fd = wait'[e.fiber].fd /\ e.signum = wait'[e.fiber].signum
      OBVIOUS
    <3>1. e \in Members(waiting_fibers) /\ e.fiber # f /\ e.fiber \in Fibers
      BY <1>5, <2>1, ElementFacts
    <3>2. wait'[e.fiber] = wait[e.fiber] /\ ~ Waits(e.fiber, "none")
      BY <1>1, <1>2, <3>1 DEF Dangling
    <3> QED BY <3>1, <3>2 DEF SigInv, ElementsMatch, Waits
  <2>4. ASSUME NEW j \in DOMAIN waiting_fibers', NEW k \in DOMAIN waiting_fibers',
               waiting_fibers'[j].fiber = waiting_fibers'[k].fiber
        PROVE  j = k
    <3>1. PICK a \in DOMAIN waiting_fibers :
            waiting_fibers'[j] = waiting_fibers[a] /\ a = IF j < i THEN j ELSE j + 1
      BY <1>5
    <3>2. PICK b \in DOMAIN waiting_fibers :
            waiting_fibers'[k] = waiting_fibers[b] /\ b = IF k < i THEN k ELSE k + 1
      BY <1>5
    <3>3. a = b
      BY <1>4, <2>4, <3>1, <3>2
    <3>4. j \in Nat /\ k \in Nat /\ i \in Nat
      BY <1>4, <1>5
    <3> QED BY <3>1, <3>2, <3>3, <3>4
  <2> QED BY <2>2, <2>3, <2>4 DEF ElementsMatch
<1> QED BY <1>1, <1>2, <1>6, <1>7 DEF SigInv

\* A call goes on in dfk__read or returns from it.
LEMMA CallGoesOn ==
  ASSUME SigInv, IoInv', NEW f \in Fibers, ~ Waits(f, "none"),
         NEW st \in {"read", "reading", "return"}, Set(f, st),
         UNCHANGED <<waiting_fibers, installed, failed, sane, open, user>>,
         \A x \in Fds : ready'[x] \subseteq ready[x],
         \A g \in Fibers : g # f => /\ pc'[g] = pc[g] /\ call'[g] = call[g] /\ res'[g] = res[g],
         pc'[f] = "io" <=> st = "reading",
         st = "reading" => call'[f].fd = wait[f].fd /\ call'[f].ev = "in",
         st = "return" => res'[f] = "ok" /\ wait[f].heard
  PROVE  SigInv'
<1>1. /\ wait' \in [Fibers -> Call]
      /\ wait'[f].stage = st /\ wait'[f].fd = wait[f].fd
      /\ wait'[f].signum = wait[f].signum /\ wait'[f].heard = wait[f].heard
      /\ \A g \in Fibers : g # f => wait'[g] = wait[g]
  BY StageSet
<1>2. SigTypeOK'
  BY <1>1 DEF SigInv, SigTypeOK
<1>3. ElementsMatch'
  BY <1>1, ElementsKept
<1>4. CallSound(f)'
  <2>1. /\ wait[f].fd \in Fds /\ wait[f].fd \in open /\ user[wait[f].fd] = f
        /\ "in" \in ready[wait[f].fd] => wait[f].heard
    BY SigFacts DEF SigInv, CallSound
  <2> QED BY <1>1, <2>1 DEF CallSound, Waits
<1>5. ASSUME NEW g \in Fibers, g # f PROVE CallSound(g)'
  <2>1. ~ Waits(g, "none") => wait[g].fd \in Fds /\ wait[g].fd \in open /\ user[wait[g].fd] = g
    BY SigFacts
  <2> QED BY <1>1, <1>5, <2>1, OthersSound
<1> QED BY <1>2, <1>3, <1>4, <1>5 DEF SigInv

\* dfk__read from the pipe: at once, or after dfk__io.
LEMMA SigReadStep ==
  ASSUME SigInv, NEW f \in Fibers, SigRead(f)
  PROVE  SigInv'
<1> USE DEF SigRead
<1>1. UNCHANGED <<waiting_fibers, installed, failed, sane>> /\ "in" \in Ops /\ ~ Waits(f, "none")
  BY SignalAssumption DEF Waits
<1>2. PICK d \in Fds : /\ d = wait[f].fd /\ user[d] = f /\ d \in open
                       /\ "in" \in ready[d] => wait[f].heard
  BY <1>1, SigFacts DEF SigInv, CallSound
<1>3. CASE Waits(f, "read") /\ IoNow(f, d, "in") /\ Set(f, "return")
  <2>1. IoInv' /\ pc' = pc /\ call' = call /\ open' = open /\ user' = user /\ InUserCode(f)
    BY <1>1, <1>3, DescriptorStep DEF SigInv, IoNow, schedVars
  <2>2. /\ \A x \in Fds : ready'[x] \subseteq ready[x]
        /\ res'[f] = "ok" /\ \A g \in Fibers : g # f => res'[g] = res[g]
        /\ "in" \in ready[d]
    BY <1>3, SigFacts DEF IoNow, Transfer
  <2> QED BY <1>1, <1>2, <1>3, <2>1, <2>2, CallGoesOn DEF InUserCode
<1>4. CASE Waits(f, "read") /\ IoRegister(f, d, "in") /\ Set(f, "reading")
  <2>1. IoInv' /\ ready' = ready /\ open' = open /\ user' = user /\ res' = res
    BY <1>1, <1>4, RegisterStep DEF SigInv, IoRegister
  <2>2. /\ pc' = [pc EXCEPT ![f] = "io"] /\ call' = [call EXCEPT ![f] = [fd |-> d, ev |-> "in"]]
    BY <1>4 DEF IoRegister, IoSuspend
  <2>3. pc'[f] = "io" /\ \A g \in Fibers : g # f => pc'[g] = pc[g]
    BY <2>2 DEF SigInv, IoInv, SchedInv, SchedTypeOK
  <2>4. call'[f].fd = d /\ call'[f].ev = "in" /\ \A g \in Fibers : g # f => call'[g] = call[g]
    <3>1. call \in [Fibers -> [fd : Fds, ev : {"in", "out"}] \cup {NULL}]
      BY DEF SigInv, IoInv, IoTypeOK
    <3> QED BY <2>2, <3>1
  <2> QED BY <1>1, <1>2, <1>4, <2>1, <2>3, <2>4, CallGoesOn
<1>5. CASE Waits(f, "reading") /\ IoComplete(f) /\ Set(f, "return")
  <2>1. /\ IoInv' /\ open' = open /\ user' = user
        /\ usage = "own" => res'[f] = "ok" \/ "err" \in ready[call[f].fd]
    BY <1>5, CompleteStep DEF SigInv, IoComplete
  <2>2. /\ pc' = [pc EXCEPT ![f] = "user"] /\ call' = [call EXCEPT ![f] = NULL]
        /\ Running(f) /\ pc[f] = "io"
    BY <1>5 DEF IoComplete, IoReturn
  <2>3. pc'[f] = "user" /\ \A g \in Fibers : g # f => pc'[g] = pc[g] /\ call'[g] = call[g]
    BY <2>2 DEF SigInv, IoInv, IoTypeOK, SchedTypeOK
  <2>4. call[f].fd = d /\ call[f].ev = "in"
    BY <1>1, <1>2, <1>5 DEF SigInv, CallSound
  <2>5. got[f] \subseteq ready[d] /\ {"in", "err"} \cap got[f] # {} /\ ready[d] \subseteq {"in"}
    <3>1. IoInv /\ f \notin IoWaiters /\ usage = "own" /\ ready[d] \subseteq {"in"}
      BY <2>2, SigFacts, IoFacts DEF SigInv
    <3> QED BY <2>2, <2>4, <3>1 DEF IoInv, AnswerHolds, AnswerReady, Answered, OneWaiterPerFd
  <2>6. "err" \notin ready[call[f].fd] /\ wait[f].heard
    BY <1>2, <2>4, <2>5
  <2>7. (\A x \in Fds : ready'[x] \subseteq ready[x]) /\ \A g \in Fibers : g # f => res'[g] = res[g]
    BY <1>5, <2>4, SigFacts DEF IoComplete, Transfer
  <2>8. usage = "own"
    BY SigFacts
  <2> QED BY <1>1, <1>2, <1>5, <2>1, <2>3, <2>6, <2>7, <2>8, CallGoesOn
<1> QED BY <1>2, <1>3, <1>4, <1>5

\* The handler writes to the pipes of the calls that wait for the signal, and to no other.
LEMMA SighandlerStep ==
  ASSUME SigInv, NEW sg \in Signals, Sighandler(sg), ~ Undefined
  PROVE  SigInv'
<1>1. /\ ~ Dangling /\ UNCHANGED <<schedVars, backend, usage, open, user, fds, events, loop, call, got, res,
                                    waiting_fibers, installed, failed, sane>>
      /\ ready' = [d \in Fds |-> IF \E e \in Woken(sg) : e.fd = d THEN ready[d] \cup {"in"} ELSE ready[d]]
  BY DEF Sighandler
<1>2. /\ ready' \in [Fds -> SUBSET Events]
      /\ \A d \in Fds : /\ ready[d] \subseteq ready'[d] /\ ready'[d] \subseteq ready[d] \cup {"in"}
                        /\ (\E e \in Woken(sg) : e.fd = d) \/ ready'[d] = ready[d]
  BY <1>1, SigFacts DEF Events
<1>3. IoInv'
  <2>1. \A f \in Fibers : pc[f] = "io" => call[f].fd \in Fds /\ call[f].fd \in open /\ user[call[f].fd] = f
    BY SigFacts DEF SigInv, IoInv, IoTypeOK, AnswerHolds
  <2> QED BY <1>1, <1>2, <2>1, SigFacts, ReadyStep DEF SigInv
<1>4. /\ wait' \in [Fibers -> Call]
      /\ \A f \in Fibers : /\ wait'[f].stage = wait[f].stage /\ wait'[f].fd = wait[f].fd
                           /\ wait'[f].signum = wait[f].signum
                           /\ wait[f].heard => wait'[f].heard
                           /\ sg \in wait[f].signum => wait'[f].heard
  <2>1. ASSUME NEW c \in Call
        PROVE  \E b \in BOOLEAN : /\ b = (c.heard \/ sg \in c.signum)
                                  /\ [c EXCEPT !.heard = b] \in Call
                                  /\ [c EXCEPT !.heard = b].stage = c.stage
                                  /\ [c EXCEPT !.heard = b].fd = c.fd
                                  /\ [c EXCEPT !.heard = b].signum = c.signum
                                  /\ [c EXCEPT !.heard = b].heard = b
    <3>1. PICK b \in BOOLEAN : b = (c.heard \/ sg \in c.signum)
      BY Zenon
    <3>2. /\ [c EXCEPT !.heard = b] \in Call
          /\ [c EXCEPT !.heard = b].stage = c.stage
          /\ [c EXCEPT !.heard = b].fd = c.fd
          /\ [c EXCEPT !.heard = b].signum = c.signum
          /\ [c EXCEPT !.heard = b].heard = b
      BY DEF Call
    <3> QED BY <3>1, <3>2, Zenon
  <2> wait' = [f \in Fibers |-> [wait[f] EXCEPT !.heard = @ \/ sg \in wait[f].signum]]
    BY DEF Sighandler
  <2>2. ASSUME NEW f \in Fibers
        PROVE  /\ wait'[f] \in Call /\ wait'[f].stage = wait[f].stage /\ wait'[f].fd = wait[f].fd
               /\ wait'[f].signum = wait[f].signum
               /\ wait[f].heard => wait'[f].heard
               /\ sg \in wait[f].signum => wait'[f].heard
    <3>1. PICK c \in Call : c = wait[f]
      BY SigFacts
    <3>2. wait'[f] = [c EXCEPT !.heard = (c.heard \/ sg \in c.signum)]
      BY <1>1, <3>1
    <3>3. PICK b \in BOOLEAN : /\ b = (c.heard \/ sg \in c.signum)
                               /\ [c EXCEPT !.heard = b] \in Call
                               /\ [c EXCEPT !.heard = b].stage = c.stage
                               /\ [c EXCEPT !.heard = b].fd = c.fd
                               /\ [c EXCEPT !.heard = b].signum = c.signum
                               /\ [c EXCEPT !.heard = b].heard = b
      BY <2>1, Zenon
    <3>4. wait'[f] = [c EXCEPT !.heard = b]
      BY <3>2, <3>3, Zenon
    <3>5. wait'[f] \in Call /\ wait'[f].stage = c.stage /\ wait'[f].fd = c.fd /\ wait'[f].signum = c.signum
      BY <3>3, <3>4
    <3>6. c.heard \/ sg \in c.signum => wait'[f].heard
      BY <3>3, <3>4, Zenon
    <3> QED BY <3>1, <3>5, <3>6, Zenon
  <2>3. wait' \in [Fibers -> Call]
    BY <1>1, <2>2
  <2> QED BY <2>2, <2>3
<1>5. SigTypeOK'
  BY <1>1, <1>4 DEF SigInv, SigTypeOK
<1>6. ElementsMatch'
  <2>1. \A f \in Fibers : Waits(f, "none")' <=> Waits(f, "none")
    BY <1>4 DEF Waits
  <2>2. ASSUME NEW e \in Members(waiting_fibers)
        PROVE  ~ Waits(e.fiber, "none")' /\ e.fd = wait'[e.fiber].fd /\ e.signum = wait'[e.fiber].signum
    <3>1. e.fiber \in Fibers /\ ~ Waits(e.fiber, "none")
      BY <1>1, ElementFacts DEF Dangling
    <3>2. e.fd = wait[e.fiber].fd /\ e.signum = wait[e.fiber].signum
      BY <3>1 DEF SigInv, ElementsMatch
    <3> QED BY <1>4, <2>1, <3>1, <3>2
  <2>3. /\ \A f \in Fibers : ~ Waits(f, "none") => \E e \in Members(waiting_fibers) : e.fiber = f
        /\ \A i, j \in DOMAIN waiting_fibers : waiting_fibers[i].fiber = waiting_fibers[j].fiber => i = j
    BY DEF SigInv, ElementsMatch
  <2> QED BY <1>1, <2>1, <2>2, <2>3 DEF ElementsMatch
<1>7. UNCHANGED pc
  BY <1>1 DEF schedVars
<1>8. ASSUME NEW f \in Fibers, ~ Waits(f, "none"), "in" \in ready'[wait[f].fd] PROVE wait'[f].heard
  <2>1. PICK d \in Fds : d = wait[f].fd /\ user[d] = f
    BY <1>8, SigFacts
  <2>2. CASE "in" \in ready[d]
    <3>1. wait[f].heard
      BY <1>8, <2>1, <2>2 DEF SigInv, CallSound
    <3> QED BY <1>4, <3>1, Zenon
  <2>3. CASE "in" \notin ready[d]
    <3>1. PICK e \in Woken(sg) : e.fd = d
      BY <1>2, <1>8, <2>1, <2>3
    <3>2. e \in Members(waiting_fibers) /\ sg \in e.signum
      BY DEF Woken
    <3>3. e.fiber \in Fibers /\ ~ Waits(e.fiber, "none")
      BY <1>1, <3>2, ElementFacts DEF Dangling
    <3>4. e.fd = wait[e.fiber].fd /\ e.signum = wait[e.fiber].signum
      BY <3>2, <3>3 DEF SigInv, ElementsMatch
    <3>5. e.fiber = f
      BY <2>1, <3>1, <3>3, <3>4, SigFacts
    <3> QED BY <1>4, <3>2, <3>4, <3>5
  <2> QED BY <2>2, <2>3
<1>9. ASSUME NEW f \in Fibers PROVE CallSound(f)'
  <2>1. \A st : Waits(f, st)' <=> Waits(f, st)
    BY <1>4 DEF Waits
  <2>2. CallSound(f) /\ wait'[f].fd = wait[f].fd
    BY <1>4 DEF SigInv
  <2>3. wait[f].heard => wait'[f].heard
    BY <1>4, Zenon
  <2>4. /\ pc'[f] = "io" <=> Waits(f, "reading")'
        /\ ~ Waits(f, "none")' =>
             /\ wait'[f].fd \in open' /\ user'[wait'[f].fd] = f
             /\ "in" \in ready'[wait'[f].fd] => wait'[f].heard
             /\ Waits(f, "reading")' => call'[f].fd = wait'[f].fd /\ call'[f].ev = "in"
             /\ Waits(f, "return")' => res'[f] = "ok" /\ wait'[f].heard
    BY <1>1, <1>7, <1>8, <2>1, <2>2, <2>3 DEF CallSound
  <2> QED BY <2>4 DEF CallSound
<1>10. \A d \in Fds : ready'[d] \subseteq {"in"}
  BY <1>2 DEF SigInv
<1> QED BY <1>1, <1>3, <1>5, <1>6, <1>9, <1>10 DEF SigInv

\* Every step of fibers, event loop, scheduler and signal handler keeps SigInv.
LEMMA NextSigInv ==
  ASSUME SigInv, [SignalNext]_allVars
  PROVE  SigInv'
<1>1. CASE UNCHANGED allVars
  <2>1. UNCHANGED vars /\ UNCHANGED <<sigVars, open, ready, user, call, res, pc>>
    BY <1>1 DEF allVars, vars, schedVars, ioVars
  <2>2. IoInv'
    BY <2>1, NextIoInv DEF SigInv
  <2> QED BY <2>1, <2>2, CallsKept
<1>2. CASE Others
  BY <1>2, OthersStep
<1>3. ASSUME NEW f \in Fibers, SigStep(f) PROVE SigInv'
  <2>1. CASE Undefined
    BY <2>1, UndefinedStep
  <2>2. CASE PipeFails(f) \/ SigRead(f)
    BY <2>2, PipeFailsStep, SigReadStep
  <2>3. ASSUME NEW S \in SUBSET Signals, Sigwait(f, S), ~ Undefined PROVE SigInv'
    BY <2>3, SigwaitStep
  <2>4. ASSUME NEW s \in Signals, Install(f, s) \/ InstallFails(f, s) PROVE SigInv'
    BY <2>4, InstallStep, InstallFailsStep
  <2>5. CASE SigReturn(f) /\ ~ Undefined
    BY <2>5, SigReturnStep
  <2> QED BY <1>3, <2>1, <2>2, <2>3, <2>4, <2>5 DEF SigStep
<1>4. ASSUME NEW s \in Signals, Sighandler(s) PROVE SigInv'
  BY <1>4, UndefinedStep, SighandlerStep
<1> QED BY <1>1, <1>2, <1>3, <1>4 DEF SignalNext

-----------------------------------------------------------------------------
\* SigInv is an invariant, and with it IoInv: the event loop is as sound when signal
\* handlers write to pipes between any two steps.
THEOREM SigInvariance == SignalSpec => []SigInv
<1>1. SignalInit => SigInv
  BY InitSigInv
<1>2. SigInv /\ [SignalNext]_allVars => SigInv'
  BY NextSigInv
<1> QED BY <1>1, <1>2, PTL DEF SignalSpec

\* dfk__sighandler and the operations on waiting_fibers (signal.c) find only elements of
\* calls that have not returned, as long as no sigaction failed.
THEOREM HandlerSafety == SignalSpec => []HandlerSound
<1>1. SigInv => HandlerSound
  <2> SUFFICES ASSUME SigInv, ~ failed
               PROVE  {e.fiber : e \in Members(waiting_fibers)} = {f \in Fibers : ~ Waits(f, "none")}
    BY DEF HandlerSound, SigInv
  <2>1. \A e \in Members(waiting_fibers) : e.fiber \in Fibers /\ ~ Waits(e.fiber, "none")
    BY ElementFacts DEF SigInv, ElementsMatch
  <2>2. \A f \in Fibers : ~ Waits(f, "none") => \E e \in Members(waiting_fibers) : e.fiber = f
    BY DEF SigInv, ElementsMatch
  <2> QED BY <2>1, <2>2
<1> QED BY <1>1, SigInvariance, PTL

\* dfk_sigwait and dfk_sigwait2 (signal.c) report success only after one of the signals
\* in wf.signum was delivered during the call.
THEOREM WakeSafety == SignalSpec => []WokenBySignal
<1>1. SigInv => WokenBySignal
  BY DEF SigInv, CallSound, WokenBySignal, Waits
<1> QED BY <1>1, SigInvariance, PTL
=============================================================================
