# A TLA+ development for dfk

dfk is a C framework for network services: cooperative fibers (libcoro
coroutines) on one thread, a scheduler, an event loop on epoll or select,
mutexes and condition variables, TCP sockets and servers, and an HTTP server on
top.  This directory holds TLA+ modules translated from the code under `src/`,
TLC configurations that check them on small instances, and TLAPS proofs.

1. Inventory
2. Plan
3. The modules and the code
4. What the runs check and show
5. Bounds
6. Fairness
7. What is proved
8. Where the repository says one thing and the code does another
9. What is not modelled

## 1. Inventory

Everything runs on one thread.  Control moves between coroutines only in
`dfk_yield`, so the code between two yields is atomic, and the interesting
interleavings are those of fibers at their yield points, of the event loop and
of the outside world (descriptors, peers, signals).

| Component | Source | State | Operations | Interacts with |
|---|---|---|---|---|
| Work cycle | `context.c` | `_scheduler`, `_eventloop`, `_comeback`, `_stopped`, `_tcp_servers` | `dfk_init`, `dfk_work`, `dfk_stop` | spawns the scheduler's fiber, which returns to it; `dfk_stop` stops the TCP servers |
| Scheduler | `scheduler.c` | `current`, `pending`, `terminated`, `iowait` | the loop `dfk__scheduler`, `dfk__resume`, `dfk__suspend`, `dfk__iosuspend`, `dfk__ioresume`, `dfk__postpone`, `dfk__terminate` | called by everything that blocks |
| Fibers | `fiber.c` | one heap block with the stack, one list hook | `dfk_spawn`, `dfk_yield`, entry and exit | scheduler |
| Mutex | `mutex.c` | `_owner`, `_waitqueue` | `lock`, `trylock`, `unlock` | scheduler |
| Condition variable | `cond.c` | `_waitqueue` | `wait`, `signal`, `broadcast` | scheduler, mutex |
| Event loop | `epoll.c`, `select.c`, `eventloop.c` | the epoll set in the kernel, or `loop->fds` | `dfk__io`, `dfk__eventloop_main` | suspends and resumes fibers through `iowait` |
| Blocking I/O | `read.c`, `close.c`, `make_nonblock.c`, `tcp_socket.c` | the descriptor | try, wait in `dfk__io`, try once more; close | event loop |
| TCP sockets | `tcp_socket.c` | `_socket`, `_flags` | `connect`, `listen` (the accept loop), `read`, `write`, `readv`, `writev`, `shutdown`, `close` | event loop; spawns a fiber per connection |
| TCP server | `tcp_server.c` | `_state`, `_active_connections`, the local `lud` of `dfk_tcp_serve` | `serve`, `stop`, `free`, the connection callback | sockets, context, the connections' fibers, which use `lud` |
| Intrusive list | `list.c` | head, tail, size; hooks with `next`/`prev` or their XOR | append, prepend, insert, rinsert, erase, rerase, pop, clear, move, swap, iterators | used by everything above |
| AVL tree | `avltree.c` | root, hooks with links and balance | insert, erase, find, iterate | string map |
| String map | `strmap.c` | an AVL tree of items | insert, erase, get, iterate, item allocation | HTTP headers and arguments |
| Arena | `arena.c` | list of segments, list of objects with cleanup | alloc, alloc with cleanup, free all | HTTP request |
| Sponge | `sponge.c` | base, cur, size, capacity | write, read, readv, writev | replaces a socket in HTTP tests |
| Signals | `signal.c` | the static list `waiting_fibers`, a pipe per wait | `dfk_sigwait`, `dfk_sigwait2`, the signal handler | event loop; the handler runs asynchronously |
| HTTP connection | `http/protocol.c`, `http/server.c` | `keepalive`, `nrequests`, an arena per request | the loop over the requests, skipping of a body | TCP server, request, response, the user's handler |
| HTTP request | `http/request.c` | headers buffers, `_remainder`, `_body_nread`, the parser | reading of the headers, query arguments, `dfk_http_request_read` | http_parser, arena, string map, socket |
| HTTP response | `http/response.c` | map of headers, `_headers_flushed`, length, status | setters, flush, `write`, `writev` | string map, arena, socket |
| File server | `middleware/fileserver.c` | base path, buffer size | a request handler: listings and files | request, response, files |
| URL encoding | `urlencoding.c` | none | encode, decode, hints | query of a request |
| Utilities | `strtoll.c`, `misc.c`, `malloc.c`, `error.c` | none that is shared | number parsing, buffers, allocation hooks | HTTP |
| C++ bindings, libcoro | `c++/`, `thirdparty/` | - | wrappers, context switch | - |

What makes each part correct, and where it is hard:

- *Scheduler and fibers.*  A fiber has a single list hook, so it must be in at
  most one list; freed fibers must not be named anywhere; `iowait`, counted in
  one coroutine and discounted in another, must be exact, because the work
  cycle ends by it; nobody may be forgotten; the run queue is fair.  The event
  loop is polled only when the run queue is empty, so I/O can starve.
- *Mutex and condition variable.*  The owner is chosen at `unlock`, long before
  the new owner runs; `dfk_cond_wait` is three operations with two yields.
  Mutual exclusion, no lost wake-up, no barging, the order promised by
  `cond.h`.
- *Event loop and blocking I/O.*  A registration is a pointer into the stack of
  the waiting fiber; it must end with the wait.  Readiness is reported before
  other fibers run and used after; descriptors may be closed and reused in
  between.
- *TCP server.*  Stop requests, failures and connections in any order; the
  connections use a stack frame of the serving fiber.
- *List, AVL tree, string map, arena, sponge.*  Sequential; what is hard is a
  long sequence of legal calls, the XOR layout, rotations at several levels,
  keys of different lengths, unsigned arithmetic at the end of a segment and
  offsets across a reallocation.

- *Signals.*  The handler runs between any two steps, walks a static list whose
  elements lie on the stacks of the waiting fibers, and talks to them through
  pipes.  An element must not outlive its frame, and a signal that comes before
  the fiber reads must not be lost.
- *HTTP.*  Bytes arrive in any pieces; a buffer may hold the headers, a part of
  the body and the beginning of the next request; the handler reads as much of
  the body as it likes, and sets headers, a length, or writes, in any order;
  the client leaves at any time.  Where one request ends and the next begins,
  what the client can know of the end of a response, and that a connection
  does end, depend on all of these.
- *URL encoding.*  Decoding must undo encoding within the sizes the hints
  promise; a query must be split where the client put separators.

`PROJECT.json` lists the hazards with their lines and the properties that
would catch them.

## 2. Plan

1. *Done.*  `Scheduler` (work cycle, scheduler, fibers), `Mutex`, `Cond` (the
   composition of the three), the abstract `Monitor` it implements, and the
   proofs `SchedulerProofs` and `CondProofs`.
2. *Done.*  `EventLoop` and `TcpServer`, each on top of `Scheduler`.
3. *Done.*  The sequential parts: `List` against the abstract `ListADT`,
   `AvlTree` and `Strmap` (which instantiates it), `Arena`, `Sponge`.
4. *Done.*  `Signal` on top of `EventLoop`; the HTTP layer as `HttpRequest`,
   `HttpResponse`, `HttpProtocol` and `FileServer`, each extending the one
   before; `UrlEncoding` with its properties in `UrlProperties`.
5. *Done.*  Theorems about every component but the tree, the string map and URL
   encoding: `SchedulerProofs`, `CondProofs`, `EventLoopProofs`,
   `TcpServerProofs`, `MemoryProofs`, `RequestProofs`, `HttpProofs`, and
   `Induction` with the facts on sequences they rest on (section 7).
6. `connect` and `readv` of TCP sockets; list iterators that live across
   operations; a signal handler that interrupts a list operation.

The modules are written to be proved about: parameters are constants with named
assumptions, invariants are conjunctions of named parts, and there is no
`RECURSIVE` operator.

## 3. The modules and the code

**Scheduler** (`scheduler.c`, `fiber.c`, `dfk_work`).  `current` names the
coroutine that runs, and every action is what one coroutine does up to its next
yield, or the part of it that belongs to one call.  All `dfk_list_t` that can
hold fibers are the components of the one function `list`, as a fiber has one
hook; "batch" is the local list of `dfk__scheduler`.  `Fibers` are addresses
and are reused after `dfk__fiber_free`.  `at` is the program point of the
scheduler's fiber: `SchedulerCollect` is the top of its loop (exit test failed,
free the terminated, take over the pending list), `SchedulerDispatch` yields to
the next fiber of the batch, `SchedulerBatchDone` decides whether to yield to
the event loop, `SchedulerExit` goes back to `dfk_work`.  `pc` says in which
library call a fiber gave up control.  Before the first dispatch the code has
`current == NULL`; the model says `"scheduler"`, and no code reads it then.
`DfkWorkNoMem` and `DfkWorkNoEventLoop` are the two ways in which allocation
fails.  `Park` and `Unpark` are a generic user of `dfk__suspend` and
`dfk__resume`; they are replaced by the actual users in the modules that
follow.

**Mutex** (`mutex.c`).  `owner` is `_owner`, `list[m]` the wait queue.  `held`
and `target` are the caller's side: which mutexes a fiber believes to hold, and
which one the call it is in is about.  Callers keep the rules the assertions
state: they unlock and wait only with a mutex they hold, and return from their
entry point without one.

**Cond** (`cond.c`) adds condition variables and defines `Next`, in which any
running fiber makes any call.  `dfk_cond_wait` is `CondWait` (hand over,
enqueue, suspend) followed by `CondWaitReturn` or by `CondWaitRelock` and
`MutexLockReturn`.

**Monitor** is the abstract specification: a holder, an entry queue and sleepers,
without scheduler, run queue or hand-over.  The mapping in `Cond` puts an owner
that has not returned from `dfk_mutex_lock` yet at the head of the entry queue.

**EventLoop** (`epoll.c`, `select.c`, `read.c`, `close.c`, parts of
`tcp_socket.c`).  `backend` is a compile-time option of the code and a variable
that never changes in the model, so that one run covers both builds; `usage`
says whether fibers keep to their own descriptors or share and close each
other's.  `fds` holds the registrations, `events` what one poll reported and
the loop has not handled yet.  `IoRegister` is the wait of `dfk__io`.  epoll
refuses a second registration of a descriptor (`EpollAddFails`); select takes
it, because the assertion against it is in debug builds only, which are not the
default, and `SelectEvent` reports to both what either asked for.  `IoComplete`
is the second attempt; it fails if the descriptor was closed, if the connection
broke after the report, or if another fiber took what there was.  Where the
assertion on the answer (`Answered`) does not hold, the fiber takes no further
step.  The kernel (`Arrive`, what `epoll_wait` and
`select` report) is modelled from how the code uses it.

**TcpServer** (`tcp_server.c`, the accept loop of `tcp_socket.c`, `dfk_stop`).
`role` says what a fiber is doing, `frame` which fiber's stack holds `lud`,
`stale` which connections have a `lud` of an earlier `dfk_tcp_serve`.  Nothing
takes a server out of `dfk->_tcp_servers`, so a `dfk_tcp_serve` that is called
again, after a failure or a stop, appends a hook that is linked already
(`relinked`).  A second call while the first one is running is not modelled.
`dfk_tcp_socket_listen` leaves its loop only with an error, so the end of
`dfk_tcp_serve` is unreachable and has no action.  `dfk_stop` walks the list
and `dfk_tcp_server_stop` asserts that each server is serving: `DfkStop` is the
call that finds all of them so, `DfkStopCrashes` the one that fails the
assertion or walks a list with a hook linked twice.  A fiber in which that
happens, or which uses `lud` after its `dfk_tcp_serve` returned, becomes
`<<"crashed">>` and the properties say nothing about what follows.

**Signal** (`signal.c`) extends `EventLoop`: the wait of `dfk__sigwait` is a
read, with `IoNow`, `IoRegister`, `IoComplete` and `Close` of that module.
`waiting_fibers` is the static list, `wait` the call a fiber is in, from the
creation of the pipe over one `sigaction` per signal and the read to the return.
`Sighandler` may happen between any two steps and makes the pipes of the
elements that name the signal readable.  Both ends of a pipe are one
descriptor.  `Signum` is a choice: `dfk_sigwait` passes the address of one
number and two are read.  Using an element whose `dfk__sigwait` has returned is
undefined; `sane` becomes FALSE and nothing is said of what follows.  All
descriptors of this model are pipes; `EventLoop` has the others.

**HttpRequest** (`http/request.c`).  The client's bytes are `stream`, a sequence
of cells; a cell is a stretch that http_parser treats alike (a piece of the
URL, of a header's name or value, the end of the headers, a byte of a body, the
size line of a chunk, the last chunk).  As bytes are read in order, the code's
buffers and pointers become positions: `sent`, `got`, and the last `req.rem` of
what was got, which is `_remainder`.  `ReadHeaders` is one round of the loop of
`dfk__http_request_read_headers`, with the callbacks' checks of lengths
(`Oversized`), the switch to another buffer (`NextBuffer`) and what comes after
`on_headers_complete` (`HeadersComplete`).  That http_parser is given the whole
buffer, and not what was read, is `StaleBytes`.  `dfk_http_request_read` is a
call (`ReadCall`), one step per round of its loop, by where the bytes come
from, and a return.  `pc` is "aborted" after a failed assertion, "spinning" in a
loop that nothing ends, and "undefined" where memory is overrun; `conf.ndebug`
selects builds without assertions.  http_parser is external: it consumes up to
the end of a message and accepts only the first byte of a request line as the
beginning of a request (no byte of a body is one).

**HttpResponse** (`http/response.c`).  Of the map of headers two keep their text.
`Insert` is any of the setters: they differ in what they copy, which is not
modelled, and a name that is in the map already keeps its value.
`FlushOutcomes` and `WriteOutcomes` are the results
of a call: the response, what reached the wire, the failures used up and the
value returned.  `out.mishaps` is a history of what went wrong, which the
properties use to say what they do not promise; no action reads it.

**HttpProtocol** (`http/protocol.c`) is the connection's loop, with the client
and a handler in user code.  A handler declares a length and whether it keeps
the connection, makes up to `conf.calls` calls (reads of one or two bytes, the
setters, writes in one piece or two) and returns success or an error.  What it
hands to a setter that does not copy is taken to stay valid until the headers
are flushed; `response.h` does not say whose duty that is.  `Respond` is everything between the return of the handler and the
skipping of the body.

**FileServer** (`middleware/fileserver.c`) adds the file server as a handler and
states the properties of the whole layer.  A request's path refers to a file, a
directory, nothing, or something `stat` refuses; a listing is a number of
pieces, counted once by the formula of the code (`Niov`) and once by what is
filled in (`Pieces`).

**UrlEncoding** and **UrlProperties** (`urlencoding.c`, the query in
`request.c`).  Pure functions on sequences of bytes; `HttpRequest` uses
`ParseQuery`.  `AddArgument` goes to the end of `dfk_strmap_insert`, which drops
a key that is equal to a stored one or begins with it.  With three keys and
more the tree decides whether the search meets such a key ("AB" is stored
behind "AA" and "A"), so `UrlProperties` stays at two.  `UrlProperties` builds every text and every list of arguments up
to a bound.

**List** and **ListADT** (`list.c`).  `List` is the code at the level of
pointers in both layouts.  A pointer is a set of hooks, so that the XOR of
addresses is the symmetric difference, and an address where there is no hook is
a set of several.  `ListNext` pairs every operation with the step of `ListADT` that
`list.h` documents; `seq` is a history variable no operation reads.

**AvlTree** and **Strmap** (`avltree.c`, `strmap.c`).  The tree with its links
and balances, one definition for the two mirror images of each case of the
code.  `Strmap` instantiates it with the comparison of keys and is what the
runs use.  Insertion and erasure are written with recursive functions, as the
loops of the code follow links.

**Arena** and **Sponge** (`arena.c`, `sponge.c`).  Sizes are small numbers, the
subtraction on `size_t` wraps at `SizeMax`.  The n-th byte written to a sponge
is the number n.  `MCData` chooses one of list, arena, sponge, string map and URL
functions for a behaviour, as they share nothing.

The proofs are in modules of their own.  Each extends the module it is about
and, where the component runs on the scheduler, the proofs of what is below it:

| Module | extends | proves about |
|---|---|---|
| `SchedulerProofs` | `Scheduler` | the lists, and the scheduler under any use of its interface |
| `CondProofs` | `Cond`, `SchedulerProofs` | mutexes and condition variables: the invariant `IInv` and its consequences, the order of fibers and of waits, and the refinement of `Monitor` |
| `EventLoopProofs` | `Signal`, `SchedulerProofs` | both event loops, `dfk__io`, reading and writing; `dfk_sigwait` and the signal handler |
| `TcpServerProofs` | `TcpServer`, `SchedulerProofs` | the count of connections, and the use of the scheduler |
| `MemoryProofs` | `Arena`, `Sponge`, `List`, `Induction` | the bounds of arena and sponge, the pointers of lists |
| `Induction` | | induction on the naturals, concatenation, `FlattenSeq` and sums: no component of its own |
| `RequestProofs` | `FileServer`, `Induction` | where requests and bodies begin and end in the stream |
| `HttpProofs` | `RequestProofs` | the headers of responses, their length and content, and the end of a connection |

`PROJECT.json` maps every definition to its lines.

## 4. What the runs check and show

| Run | Module, config | What it shows |
|---|---|---|
| `cond` | `MCCond`, `MCCond.cfg` | the safety of scheduler and fibers (`SchedulerConsistent`, `ExitQuiescent`), of mutexes (`MutexCorrect`, `AbandonedOnlyByDeadlock`), the inductive invariant `WaitInv` of the proofs, the order of the run queue and of waits, and the refinement `ImplementsMonitor` |
| `cond_live` | `MCCond`, `MCCondLive.cfg` | `IoServed`, `WorkEnds`, `LockGranted`, `WokenReturns` |
| `io` | `MCEventLoop`, `MCIo.cfg` | both backends, private and shared descriptors; `ImplementsScheduler` says that scheduler and event loop together still behave as `Scheduler`, whose own event loop is abstract |
| `signal` | `Signal`, `MCSignal.cfg` | `WokenBySignal`, `HandlerSound`, `SignalWakes`; `PipesAreServed` although one `epoll_wait` reports fewer pipes than are ready |
| `tcp` | `MCTcpServer`, `MCTcp.cfg` | `ConnectionsCounted`, `StopTakesEffect` |
| `http` | `MCHttp`, `MCHttp.cfg` | `RequestBoundary`, `BodyInOrder`, `ResponseFramed`, `ClosedAsAnnounced`; `RequestAnswered` and `ConnectionEnds` under fairness |
| `data` | `MCData`, `MCData.cfg` | lists: `IterationCorrect`, `InvalidOnlyInMiddle`; arena: `Disjoint`, `OverrunOnlyBehindLarge`; sponge: `StreamFifo`; string maps: `Balanced`, `VisitsMembers`, and `GetExact` for keys none of which is a prefix of another; URLs: `CodecInverse`, `QueryExact` |
| `io_close` | `MCEventLoop`, `MCIoClose.cfg` | a violation of `CloseInterrupts`, see section 8 |
| `tcp_stop_wait`, `tcp_stop_twice` | `MCTcpServer`, `MCTcpStopWait.cfg`, `MCTcpStopTwice.cfg` | violations of `StopWaits` and `StopPrecondition`, see section 8 |
| `strmap_prefix`, `arena_large` | `MCData`, `MCStrmapPrefix.cfg`, `MCArenaLarge.cfg` | violations of `GetExact` and `InBounds`, see section 8 |

Some of the properties deserve a word.

- `AbandonedOnlyByDeadlock`: `dfk_work` returns when nothing is pending and
  nobody waits for I/O, even if fibers wait for a mutex.  It does so only if
  the mutex's owner is parked as well, so no fiber is abandoned that could have
  been served.
- `CondFifo` uses the history variable `ahead`: of two waiters with the same
  mutex, the first to call returns first, through any mixture of signals,
  broadcasts and lock contention.
- `NoSpuriousError` and `WaitIsWatched` hold when fibers use their own
  descriptors.  With shared ones `RegistrationValid` is what is left, and with
  epoll `GotWhatItWanted`.  `NoSpuriousError` does not say that the second
  attempt succeeds: it may fail, but only because the connection did.
- `GotWhatItWanted` is the assertion `AnswerAsserted` under the condition
  `OneWaiterPerFd`; without the condition it is false (section 8).
- `StopTakesEffect` starts where a request has reached a server.  The requests
  that never do, because `dfk_stop` fails an assertion or comes too early, are
  the subject of `tcp_stop_twice` and of `StopEndsServing` (section 8).
- `InvalidOnlyInMiddle` and `OverrunOnlyBehindLarge` delimit two known defects:
  everything else stays correct.
- `WokenBySignal` is about `wf.signum`, which may hold a signal the caller did
  not ask for (section 8); `HandlerSound` excepts only what follows a failed
  `sigaction`.
- `RequestBoundary` holds for clients that wait for the response, bodies with a
  length, and lengths that are understood.  Chunked bodies are not skipped,
  pipelined bytes are dropped with the remainder: section 8.
- `ResponseFramed` is about responses on connections that are kept: there the
  client knows the end of a response only from its length.  A handler that
  writes less than it declared, or flushes without a length, has an
  "incomplete" response by its own fault.
- `RequestAnswered` asks for headers that arrive in one piece, and
  `ConnectionEnds` names the two loops that do not end.
- `QueryExact` is an equivalence: arguments arrive unchanged if and only if no
  separator was encoded in them, no value is empty, and no key is equal to an
  earlier one or begins with it.

Some hazards of `PROJECT.json` have a note and no property: the mishap is a
behaviour of the model, and the properties near it except it by name (a failed
`sigaction`, the endless skipping of a body, short writes, and others).  These
properties show that nothing else goes wrong; that the mishap does not happen
is not claimed.

Deadlock checking is off where the system may stop: the model ends after
`MaxWork` work cycles, `dfk_work` may block in `epoll_wait` for ever, and the
models of lists, servers, signals and connections stop at undefined behaviour
or a failed assertion; a connection also stops when it is closed.

## 5. Bounds

- `cond`: four fibers, two mutexes, one condition variable, two work cycles.
  Four fibers give an owner, a fiber that was handed the mutex, a waiter behind
  it and one that signals or tries to barge; two mutexes let callers deadlock
  and be abandoned; the second work cycle starts with what the first one left
  parked.
- `cond_live`: three fibers, one mutex and one condition variable.  With one
  mutex callers cannot deadlock, which `LockGranted` needs.
- `io`: two fibers and two descriptors with `MaxEvents = 1`, so that there are
  more ready descriptors than one poll reports, and a descriptor can be closed,
  reused and waited for by two fibers.  `WaitQueues` is empty: the interplay
  with mutexes is the subject of `cond`.
- `tcp`: one server, three fibers (the server's and two connections or
  stoppers), a backlog of two, at most one orphaned descriptor.  Fiber
  addresses are reused, so later connections meet everything earlier ones left.
- `signal`: two fibers, two pipes, two signals that can be caught and one that
  cannot, `MaxEvents = 1`: two waits overlap in every order, share a signal or
  not, and two pipes are ready at once.
- `http`: two or three requests per connection, with bodies of up to two bytes and
  a buffer of one byte for skipping them; headers buffers of seven cells and
  names and values of up to two, so that headers fill a buffer exactly, almost,
  and need another one; one failure per connection and one or two calls of a
  handler.  `MCSetups` lists the combinations: sound requests, failures,
  requests the code does not get right (chunked, padded length, too long, a bad
  query, many headers) with and without assertions, with pipelining and with
  headers in pieces, limits of -1 to 2 requests, and the file server.  Files of
  three cells with a buffer of two take two rounds of the copy loop.
- `data`, lists: two lists and four hooks: an element with neighbours on both
  sides, another list to move and swap with, and a free hook.
- `data`, string maps: thirteen items, twelve keys: twelve nodes are the smallest AVL tree in
  which one erase rotates at two levels; the thirteenth item is a duplicate.
- `data`, memory: sizes in words, segments of twelve words with a header of two and
  objects that nearly fill a segment, five objects; reads and writes of up to
  four bytes on a sponge that starts with three.
- `data`, URLs: texts of up to five bytes out of '%', two hexadecimal digits, 'g' and
  255, so that escapes are whole, cut short or wrong, and up to two arguments
  with keys and values of up to two bytes out of 'A', '&' and '='.
- `SizeMax` is large enough that only the subtraction wraps.

Symmetry is used where only safety is checked; in the liveness runs it is not.

## 6. Fairness

Cooperative scheduling has no preemption: what runs keeps running until it
yields.  Hence weak fairness of the coroutine that runs (the scheduler, the
event loop, the return from a library call) states no more than that C code is
executed.  A fiber in user code is assumed to give up control at some time; dfk
documents nothing else, and a fiber that computes for ever stops the program.
A fiber that holds a mutex and runs again and again is assumed to release it.
The scheduler polls only when the run queue is empty, so everything about I/O
is conditional on `KeepsPolling` or `PollsAgain`: fibers that keep postponing
themselves do starve I/O.  Strong fairness of `EventLoopResume` (of `Reports`,
`IoReady`) says that a descriptor that is polled again and again is reported:
the kernel keeps ready descriptors in order of arrival, and in `Scheduler`,
where readiness is not modelled, that the peer answers or disconnects.

In `Signal` a fiber inside `dfk__sigwait` goes on whenever it can, and signals
come or do not come: there is no fairness of `Sighandler`.  In the HTTP layer
the connection's fiber takes a step whenever one is possible, and as a handler
makes a bounded number of calls it returns.  The client owes nothing: it may
stop in the middle of a request, so `RequestAnswered` starts when a request has
been sent and `ConnectionEnds` when the client has left.

## 7. What is proved

Everything here holds for every value of the constants that the named
assumptions of the modules allow.  Every theorem about all behaviours rests on
an inductive invariant with the same three facts: the initial states satisfy
it, every action keeps it (one lemma per action or per group of actions that
touch the same state), and the property follows from it.

### Scheduler and fibers (`SchedulerProofs`)

`SchedNext` lets anybody who runs on the scheduler call anything of its
interface, in the places where its users do.  `SchedNextInv` shows that
`SchedInv` survives every such step, and `SchedNextInOrder` that fibers run in
the order in which they became ready; `SchedulerCorrect` draws the conclusion
for the scheduler on its own.  The modules on top show that their actions are
steps of `SchedNext`, and add only what is theirs.

That a fiber is in at most one list is not inductive by itself: appending is
safe only because the fiber is in no list, which depends on where fibers
suspend.  `SchedInv` therefore ties the lists to program points.
`SchedulerPoint`: the batch is empty at the top of the loop, and outside
`dfk_work` there is nothing pending or terminated.  `NoDanglingFiber`: the
running fiber is in no list.  `NoLostFiber`: every other one is in a list or
waits for I/O.  `EndedInUserCode`: a fiber that is terminated or freed is in no
library call.  `IowaitExact` is about the cardinality of a set that changes by
one element; its finiteness comes from that of `Fibers`.  The first part of the
module states what appending, popping, waking one, waking all and taking over a
list do to the members of all lists.

Assumed: `Fibers` is finite, and the names of system fibers and of the
scheduler's lists are not addresses of fibers or wait queues.

### Mutexes and condition variables (`CondProofs`)

- `Invariance`: `Spec => []IInv`.  `IInv` adds to `SchedInv` where fibers block
  (`WhereBlocked`: a fiber in a wait queue is inside the call that put it there,
  with that mutex or condition variable, and a terminated or freed fiber holds
  nothing), `OwnerAgrees` and `NoWaitOnFree`.  With these the owner named at
  `unlock` is the fiber that is resumed, and it finds itself owner when it runs.
- `SchedulerSafety`, `MutexSafety`, `ExitSafety` and `AbandonSafety` are the
  invariants of the run `cond`.  Their parts are theorems too: `TypeCorrect`,
  `HookSafety`, `DanglingSafety`, `LostSafety`, `IowaitCorrect`, `OwnerSafety`
  (hence mutual exclusion), `LockAssertion` (the assertion that ends
  `dfk_mutex_lock`), `WaitSafety` (no lost wake-up) and `OwnerAliveSafety`.
- `RunOrder`: `Spec => RunQueueFifo`.
- `WaitInvariance` and `CondOrder`: `Spec => CondFifo`, the wait-invoke ordering
  of `cond.h`.  The history variable `ahead` says who called first; `WaitOrder`
  says what that means at every moment.  A waiter passes through three queues,
  the condition variable's, the run queue and the mutex's, and `NearerReturn`
  compares two of them in whichever queues they are.  The hard case is a waiter
  that wakes up while another one, woken before it, already queues for the
  mutex or was handed it.
- `MonitorRefined`: `Spec => ImplementsMonitor`.  Every action maps to a step
  of `Monitor` or a stutter; hand-over is the case in which the concrete queue
  loses its head and the abstract one, where the new owner is still first,
  does not.

Assumed in addition: the wait queues are the mutexes and the condition
variables, no queue is both, and `NULL` is none of them and no fiber.

### Event loops (`EventLoopProofs`)

`IoInvariance`: `Spec => []IoInv`, for both backends, private and shared
descriptors.  From it `RegistrationSafety`, `WatchSafety`, `GotSafety`, the
action property `AnswerSafety` (`NoSpuriousError`: an attempt that had to wait
fails only if the connection did), and `SchedulerRefined`
(`ImplementsScheduler`): with a real event loop the scheduler still does what
`Scheduler` says, until the loop's fiber ends.  `RegistrationValid` alone is
not inductive: between the poll and the dispatch, reports must belong to
registrations that are still there (`EventsFresh`), each to one of them
(`RegisteredOnce`, which the select loop does not enforce and which is
therefore stated, like what depends on it, under `OneWaiterPerFd`), and between the dispatch and the moment the fiber runs the
answer must be in place (`AnswerReady`) and, with private descriptors, remain
true (`AnswerHolds`).

Assumed: the names of backends and usages, at least one event per poll, and
that `NULL` is no fiber, descriptor or call.

### Signals (`EventLoopProofs`)

`SigInvariance`: `SignalSpec => []SigInv`, where `SigInv` contains `IoInv`, so
that the event loop is as sound with signal handlers between any two of its
steps.  From it `HandlerSafety` and `WakeSafety`.  `CallSound` says that a call
has a pipe of its own, readable only if a signal was heard; `ElementsMatch`
that the static list has one element per call, and others only after a failed
`sigaction`.  Assumed: pipes are not shared, as `dfk__sigwait` creates them.

### TCP servers (`TcpServerProofs`)

`TcpUsesScheduler`: `Spec => SchedSpec`, so everything proved about the
scheduler holds with servers, connections and `dfk_stop`.  `TcpInvariance` and
`ConnectionSafety`: `_active_connections` is exact.  The count changes by one
when a connection's fiber changes its role; that a fiber which ended has no
role (`RolesEnd`) is what makes the addresses of fibers reusable.  Both cover
calls of `dfk_tcp_serve` that fail and are repeated; after a crash
(`CrashedIsLast`) the count is not claimed any more.

### Arena, sponge and lists (`MemoryProofs`)

- `SpongeInvariance`, `SpongeFifo`: for any initial capacity, any sizes of reads
  and writes and any sequence of them.  `SpongeInv` says byte by byte
  (`Numbered`) what `StreamFifo` says with sequences; the byte-wise form
  survives the concatenation and the copy to a new block.
- `ArenaInvariance`, `ArenaDisjoint`, `ArenaOverrun`: for any segment size and
  any objects.  `BelowUsed` says that everything handed out lies in front of
  `used`.  `SegmentsSound` bounds `used`, which excludes that it wraps;
  `size - used` does wrap, and `FullOnlyBehindLarge` says when.

Assumed: a segment holds more than two headers, and all objects together are
smaller than `SizeMax` (a program that has them all in memory).

- `ListInvariant`, `ListCorrect`, `ListInvalidOnlyInMiddle`: for any number of
  lists, any finite set of hooks, both layouts and any sequence of operations.
  `IterationCorrect` is about the walk along the links and says nothing of the
  single pointers, which is what the operations change.  `ListInv` does: the
  header of a list and every hook in it hold the pointers of the sequence
  (`HeaderOf`, `Chain`), no hook occurs twice, and `_list` of a hook tells the
  lists apart (`Separate`), so that an operation on one leaves the others
  alone.  For each operation there is a lemma on the one or two neighbours it
  rewrites; `_p` toggled by both addresses is the XOR of the new neighbours.
- `Visits`: a walk over such pointers is the sequence.  It is proved by
  `Induct` on the length of the walk, for the function of iterators that the
  sequence determines.
- `OperationMends` says of every operation that it either keeps all lists
  linked or is the erasure, in the XOR layout, of an element between two others;
  by the lemmas it rests on that is `dfk_list_rerase`.

Assumed: there are finitely many hooks, `DFK_PDEADBEEF` is the address of none,
and no list is at NULL (a hook whose `_list` is NULL is in no list).

### Induction (`Induction`)

The library's induction theorems take the predicate as an operator, which the
provers cannot instantiate.  `Induct` states induction for a set of naturals
instead: a set that contains 0, and n + 1 with n, contains all of them.  It is
proved from the least element of the complement, and that from the minimum of
a finite interval.  `FlattenEnds` and `EndsCover` say where the parts of a
`FlattenSeq` end and that every position lies in one part; `SumRec`,
`SumOfNaturals` and `SumOfOne` say what `FoldLeft` sums up.

### Requests (`RequestProofs`)

Both theorems are about any script of requests, any sizes of names, values,
bodies and chunks, any way the stream is cut, and any handler.

- `BodyInvariant` and `BodyOrder`: `Spec => []BodyInOrder`.  `BodyInOrder`
  alone says nothing of the bytes that are still in `_remainder` or in the
  socket.  `BodyTaken` does: until the message is complete, as many bytes have
  been handed out as the body has in front of `ParsedTo`, the position up to
  which http_parser has consumed the stream.  The lemmas in front say what
  `Cells` makes of a request and where `Stream` puts it.
- `BoundaryInvariant` and `BoundarySafety`: `Spec => []RequestBoundary`, for a
  client that waits for its responses and requests that are sound.  It needs
  `BodyInv`, that only the handler or the skipping loop reads (`OneReader`),
  that the client has sent no more than the request in progress
  (`ClientWaits`), and that this request begins where the last one ended
  (`AtBoundary`).  The hard cases are a buffer that holds the end of the
  headers and all of the body, and a body the handler left unread.

Assumed: the fields of a request have their types (`WellTyped`), and the buffer
for skipping is not empty.

### Responses and connections (`HttpProofs`)

`HttpInvariance`: `Spec => []HttpInv`, for any requests, any client and both
handlers, through failures of memory and of the socket.  From it
`AnnounceSafety` (`ClosedAsAnnounced`).  `HandlerFlushes`: while the handler is at work either nothing is
on the wire or the handler flushed the headers, and a Connection item is its
own.  That decides, when the handler has returned, whether the Connection
header that `dfk__http_protocol` adds is sent, which is `Announced`.
`WithinLimit` keeps room for the request in progress, and for one more if the
connection is to be kept.  Assumed: `keepalive_requests` is an integer.

`ResponseInvariant` and `FramingSafety`: `Spec => []ResponseFramed`.  Whether a
response is framed is decided when the headers are flushed, and by whom: by a
first write, before the content is known; by the file server, which has set
the length of the file; or by `dfk__http_protocol` after the handler returned,
which then supplies a length of 0.  `ContentInOrder` says that nothing is on
the wire before the headers are, and the content in order after;
`HandlerCounts` that the handler's own count (for the file server, the offset
in the file and what is left of it) is what is on the wire; `Settled` names the
program points at which this has to add up.

### Only model-checked

- Liveness (`IoServed`, `WorkEnds`, `LockGranted`, `WokenReturns`,
  `SignalWakes`, `PipesAreServed`, `StopTakesEffect`, `RequestAnswered`,
  `ConnectionEnds`): it needs fairness and `ENABLED`, which are out of the
  prover's reach.
- `CodecInverse` and `QueryExact`, `Balanced`, `VisitsMembers` and `GetExact`:
  heights and walks in `AvlTree` and decoding in `UrlEncoding` are recursive
  functions.  `Induct` says what such a function computes only once it is known
  that a function with these equations exists, which has to be shown by
  constructing it, for every one of them.

## 8. Where the repository says one thing and the code does another

Shown by runs:

- `io_close`: `tcp_socket.h` says of `dfk_tcp_socket_close` that "Any operation
  currently running will be interrupted."  With epoll the kernel drops the
  registration and the waiting fiber waits for ever, and `iowait` with it.
- `tcp_stop_wait`: `context.h` says that `dfk_stop` waits for the servers;
  `dfk_tcp_serve` returns while connections are active that use its frame.
- `tcp_stop_twice`: `dfk_tcp_server_stop` asserts that the server is serving, and
  `dfk_stop` calls it for every server that was ever started: one that got no
  socket, or that was stopped on its own, is still in the list.
- `strmap_prefix`: a key of which a key in the map is a proper prefix is taken
  for that key.
- `arena_large`: after an object that nearly fills or exceeds a segment,
  `size - used` wraps, and the next object is placed behind the block (in
  debug builds the assertion in `dfk__arena_bytes_available` fails first).

Stated as formulas in the modules and violated when they are added to a
configuration; no run is spent on them:

- `OkMeansScheduled` (`Scheduler`): `dfk_work` returns `dfk_err_ok` although the
  event loop's fiber could not be allocated and the main fiber never ran.
- `LoopNotFreed` (`EventLoop`, add to `MCIo.cfg`): with select, closing a
  descriptor that is waited for ends the loop, and the scheduler switches to
  its freed fiber.
- `AnswerAsserted` (`EventLoop`, add to `MCIo.cfg`): `read.c` asserts that a read
  is resumed with `DFK_IO_IN`, `tcp_socket.c` the same of a write.  In select, of
  two fibers that wait for one descriptor, one to read and one to write, both
  are resumed when it is ready for either, and the assertion of the other fails.
- `FreeAfterStop`, `StopEndsServing`, `CallbackForEach` (`TcpServer`, add to
  `MCTcp.cfg`): a server that served can never be freed without tripping an
  assertion; `context.h` says of `dfk_stop` "Stop dfk working cycle", and a
  `dfk_tcp_serve` that is called afterwards does not look at `_stopped` and
  serves for ever; a connection for which no fiber can be spawned is accepted
  and forgotten.
- `HasRoom` (`Arena`): an object that uses up a segment exactly makes the
  assertion of the next allocation fail.

In the XOR layout `dfk_list_rerase` follows an invalid address for an element
between two others (`InvalidOnlyInMiddle`).  In debug builds `dfk_avltree_erase`
asserts `tree == e->_tree`, and `dfk_avltree_insert` never assigns `_tree`.

Signals, as modelled and delimited by the properties:

- `dfk_sigwait` tests `nsignals` where `nsignals > 1` is meant and reads a second
  number behind the argument: a signal nobody asked for may end the wait.
- When `sigaction` fails the element stays in `waiting_fibers`, in a frame that
  is gone.

HTTP, as modelled and delimited by the properties:

- http_parser is given the whole buffer instead of the bytes that were read, so
  headers that arrive in two reads are parsed with stale memory between them.
- Headers that do not end within the first buffer are never accepted, although
  `headers_buffer_count` buffers are documented: the rest of the current buffer
  is too small for the assertion, or the parser is out of step; the copy into a
  new buffer takes `nparsed` bytes from the middle of the old one.
- "If request handler hasn't read all bytes of the body, we have to skip them"
  (`protocol.c`): not done for chunked bodies, whose rest becomes the next
  request.  What a client pipelined behind a request is dropped with the
  remainder, and a read of a chunked body swallows what follows the message.
- The warning of `protocol.c` says that a Connection header set by the handler
  "will be overwritten"; the map keeps the first one.  (It also looks into the
  request's headers, not the response's.)  Headers the handler flushes by
  writing carry no Connection header at all.
- A client that closes its side inside a body keeps the skipping loop busy for
  ever; a read error there is stored in a `size_t` and taken for a length.  A
  handler that reads on behind the end of a body meets an assertion, or an
  endless loop without assertions.
- Short writes: headers are truncated, the file server goes on with the next
  buffer and later misses the bytes, `dfk_tcp_socket_writev` returns the length
  of its last piece.  Without memory the response is a status line alone, a
  Content-Length item that cannot be allocated is inserted as NULL, and a
  request header that cannot be allocated is ignored if it is the last.
- A query is decoded before it is split, so an encoded separator separates; an
  empty value is an error or takes the separator for its first byte.  An argument
  whose key is equal to an earlier one or begins with it is dropped.

## 9. What is not modelled

The public `dfk_yield(from, to)` between two fibers of the user's choice
(`fiber.h`): in the model a fiber gives up control to the scheduler only.
`dfk_tcp_serve` of one server by
two fibers at once.  Whether a header's name and value are copied or pointed to.
Bodies with two chunks that are not empty and malformed chunks.  A connection
that breaks between two pieces of one `writev`.

`connect` (one wait for writability and a table of result codes) and `readv` of
TCP sockets; the malloc variants of string map items, which change no map; a
signal that interrupts a list operation half-way; http_parser's callbacks that
only log; the text of listings and the composition of paths.  Utilities other
than the length check of `dfk_strtoll` and error strings hold no state that
other components share.  C++ bindings are thin wrappers.  libcoro and http_parser
are third-party; the transfer of control of libcoro is the assignment to
`current`, and http_parser is modelled from how `request.c` uses it.  Stack
sizes, fiber names, logging, alignment, `FD_SETSIZE` and a failing
`epoll_create` are left out.
