# A TLA+ verification of unifiedstreaming/media-processing

The repository holds `cuti`, a C++ library for services that handle requests
over TCP, and two such services, which encode video with x264 and x265. What is
hard in it is in `cuti`: a dispatcher whose threads share one event loop, event
loops with cancellable callbacks, buffers that race data against timeouts, and
an RPC protocol whose two sides must agree whatever fails; around it are a daemon
that starts in three processes, a log that rotates and encoders that delay their
samples. That is what these modules model and what TLC checks on small instances.
TLAPS proves the safety of it for every instance, of all modules but the wire
format, and each refinement too (section 5).

Paths below are relative to `src/`.

## 1. Inventory

| Component | State it keeps | Operations | What makes it hard | What makes it correct |
|---|---|---|---|---|
| core mutex and wakeup flag (`cuti/cuti/dispatcher.cpp:49-160, 566-700`) | internal mutex, `locked_`, number of urgent waiters, two condition variables; an atomic counter and an event pipe | `urgent_lock`, `normal_lock`, `unlock`, `raise`, `lower` | notifications after the unlock, spurious wakeups, the flag changed in two steps and by `stop()` without the mutex | one holder, urgent threads first, no lost wakeup, pipe and counter agree |
| dispatcher and thread pool (`dispatcher.cpp`) | lists of monitored and served clients, the pool, the number of idle threads | `run`, `stop`, `serve`, `select_client`, `resume_monitoring`, `handle_request`, `join` | clients that move between lists and threads, eviction at a limit, a stop that races with handlers | each client has one owner; somebody monitors; `stop()` makes `run()` return; requests are taken up |
| list arena (`list_arena.hpp`) | an array of nodes, a free stack | add, move, remove, splice | ids are recycled; moves to where an element is already | links match, no id is lost or used twice |
| indexed heap (`indexed_heap.hpp`) | elements, a free stack, a binary heap of ids | add, remove, clear | removal from the middle | heap order, indexes inverse to the order |
| selectors (`epoll_`, `poll_`, `select_`, `kqueue_selector.cpp`) | registrations on two lists, what the kernel watches for | `call_when_*`, `cancel_when_*`, `select` | the kernel returns tickets that may have been recycled; events wait for each other | a callback is selected once, for its own event, not after it was cancelled, and eventually |
| default scheduler (`default_scheduler.cpp`) | the alarms, a selector, `poll_first_` | `wait`, `call_alarm`, `cancel` ... | two sources that could starve each other | alarms in order; both sources are served |
| buffers (`nb_inbuf.cpp`, `nb_outbuf.cpp`) and throughput checker (`throughput_checker.hpp`) | data, an error, a callback, two tickets | read, write, flush, request and cancel a callback, switch the checker on and off | data, tick and cancellation in any order; partial writes; spurious wakeups | the stream is intact; a pending callback is scheduled and called at the right time; silence is reported |
| RPC engine and client (`rpc_engine.hpp`, `rpc_client.cpp`), request handler (`request_handler.cpp`) | two state machines of the engine, one of the handler | a call; the handling of a request | reply and request overlap, each can fail and cut the other short | both sides agree on success, stay in step, never wait for each other |
| client cache (`simple_nb_client_cache.cpp`) | a list of idle connections | `obtain`, `store`, `invalidate_entries` | several threads, age, failure of a server | a connection has one owner, fits the call, and is not used after a failure |
| token readers and writers (`async_readers.*`, `async_writers.*`, lists) | what is read or written so far | read or write a value | suspension within a value | what is written is what is read; half a value is not a value; the next message is found |
| event pipe, signal handler (`event_pipe.cpp`, `signal_handler.cpp`) | a pipe; the handler of each signal and its predecessor | construct, destroy, call | signals between two steps of a constructor or destructor | a signal finds the innermost handler |
| service and daemon (`service.cpp`, `process_utils.cpp`) | parent, child and grandchild, the confirmation pipe between them, the pidfile | `run_attended`, `run_as_daemon` | every step of every process may fail or be killed | the parent learns the outcome; the pidfile has one owner; a stop is heard |
| logging (`logger.cpp`, `file_backend.cpp` ...) | the log and its rotated files, the number of lost messages | `report`, rotation | a rename that fails half way, a message that cannot be written | no file is lost but the oldest; losses are reported |
| configuration, options, files, formatting, endpoints, sockets, resolver | little or none | parse, convert, wrap system calls | | |
| encode handler (`x26x_es_utils/.../encode_handler.hpp`), sessions, protocol types, the two services | an encoding session | read parameters, frames; write headers, samples | two streams at once; samples are delayed, reordered, and flushed at the end | as many samples as frames, or an error; the call ends |
| `x264`, `x265`, `usp-builder`, `with_dll_dir` | vendored or build code | | | |

How they interact: each pooled thread runs `serve()`. It takes the *core mutex*,
waits in the core's *scheduler* (alarms in an *indexed heap*, file descriptors
in a *selector*, whose tickets come from a *list arena*) for a client that has
input, gives the mutex up and runs a *request handler* for that client's
*buffers* on a scheduler of its own. On return it takes the mutex as an urgent
waiter, which raises the core's *wakeup flag* and so ends the wait of the thread
that has it. Clients of a service use the *RPC client*, which takes connections
from a *client cache* and runs an *RPC engine* over the same buffers.

`PROJECT.json` lists every component with its status, and every place in the
code that is hard to test (`hazards`) with the properties that cover it.

## 2. Modules

An arrow reads "is shown to implement".

| Module | Models | Notes |
|---|---|---|
| `PriorityLock` | what the dispatcher expects of its core mutex | abstract |
| `CoreMutex` -> `PriorityLock` | `core_mutex_t`, `wakeup_flag_t`, the stop sequence of `run()` | one action per access to shared state |
| `RequestServer` | what `dispatcher_t` promises its peers and its owner | abstract |
| `Dispatcher` -> `RequestServer` | `dispatcher_t`: serving, monitoring, eviction, starting threads, stop and join | the mutex is a `PriorityLock` |
| `DispatcherProofs` | theorems of `Dispatcher` | section 5 |
| `Places` | loops along a list: the elements at some of its places, and where so many steps along its links lead | recursive functions |
| `SequenceFacts` | lemmas about lists without duplicates, about `Places` and about recursion | used by all proofs |
| `Lists` | lists of elements with small stable ids | abstract |
| `ListArena` -> `Lists` | `list_arena_t` | |
| `PriorityQueue` | | abstract |
| `IndexedHeap` -> `PriorityQueue` | `indexed_heap_t` | |
| `Selector` | what `selector.hpp` promises | abstract |
| `Registrations` | what the four selectors share: the arena of callbacks, the lists and what a user may call | its arena is a `Lists` |
| `EpollSelector`, `PollSelector`, `SelectSelector`, `KqueueSelector` -> `Selector` | `epoll_selector_t` with the kernel's interest list, `poll_selector_t` with its pollfds, `select_selector_t` with its fd_sets, `kqueue_selector_t` with its one-shot filters | |
| `Selectors` | the four together, for one run and one refinement mapping | |
| `SelectorsProofs` | theorems of `Selectors` | section 5 |
| `Scheduler` | `default_scheduler_t` | its selector is a `Selector` |
| `ThroughputChecker` | `throughput_checker_t`, as operators | |
| `NbCallbacks` | what the two buffers share: a callback, its tickets and the checker's | |
| `NbInbuf`, `NbOutbuf` | `nb_inbuf_t`, `nb_outbuf_t` | |
| `NbBuffers` | an input or an output buffer, for one run | extends both |
| `NbBuffersProofs` | theorems of `NbBuffers` | section 5 |
| `Logger` | `logger_t` and `file_backend_t` with the directory it rotates in | |
| `SequentialParts` | one of the arena, the heap and the logger, for one run | |
| `StructureProofs` | theorems about the arena and the heap of `SequentialParts` | section 5 |
| `Rpc` | `rpc_engine_t`, `request_handler_t` and the connection between them | over whole tokens |
| `RpcProofs` | theorems of `Rpc` | section 5 |
| `WireFormat` | the token readers and writers, and messages that are cut short | over characters |
| `EncodeCall` | `encode_handler_t`, an encoding session, and the client's call | over frames and samples |
| `SignalHandler` | what `signal_handler_t`'s steps do to the set-up of a signal, as operators | |
| `NestedHandlers` | handlers that come and go, with signals between their steps | |
| `Daemon` | `run_as_daemon()` and `run_attended()` in their processes | its handler is a `SignalHandler` |
| `Services` | a daemon's launches or nested handlers, for one run | |
| `ServiceProofs` | theorems of `Services`, `Scheduler` and `EncodeCall` | section 5 |
| `ClientCache` | `simple_nb_client_cache_t` and the calls that use it | |
| `SequentialProofs` | theorems of `CoreMutex`, of `ClientCache` and about the log of `SequentialParts` | section 5 |

So the chain is: an abstract module takes a component's place in the next module
up. `CoreMutex` implements the lock that `Dispatcher` uses; `ListArena`
implements the lists of the four selectors, which implement the selector of
`Scheduler`; the fairness that `NbInbuf` and `NbOutbuf` ask of alarms is the
`AlarmsGoOff` that `Scheduler` is checked for.

How state and actions correspond to the code: variables bear the names of the
members they stand for (`monitored_clients_` is `monitored_clients`), and `map`
in `PROJECT.json` gives the lines of every definition. Some correspondences
that are not obvious:

- **Threads.** `pc` is where a thread is in `serve()` or in `core_mutex_t`. In
  `CoreMutex` a step ends at every access to state that the internal mutex does
  not protect. In `Dispatcher` a step is one call made with the core mutex held
  (`resume_monitoring()`, the `stopping` test, one callback of
  `select_client()`), so that other threads, peers and signals come between.
- **Selected events.** `select()` may find several events at once. `detected` in
  `Dispatcher` is those that were found and are still to be delivered: a thread
  that was woken, or has selected a client, leaves them to the next.
- **The cache's clock** is read in a step of its own (`StartObtain`, `Fail`), as
  the code does before it takes the mutex: `at` is where a call is, `expiry` the
  time it has computed.
- **Errors of a connection** in `Rpc` belong to one buffer: `InputFails` leaves
  unread what is in flight to that side, `OutputFails` loses what it has not
  sent, and the other direction goes on.
- **Condition variables** are the sets of threads that sleep on them; a thread
  may also be woken for nothing, or be notified when it no longer sleeps.
- **The wakeup flag** is its counter and the number of bytes in its pipe, in
  `CoreMutex`; raising and lowering are one step each in `Dispatcher`.
- **Exceptions** are alternatives of the action that throws: a scheduler out of
  tickets, an input that refuses a value, a source or sink that fails.
- **Callbacks.** A module with callbacks (`NbInbuf`, `Scheduler`) lets its user
  act between any two of them. What is registered with the scheduler is kept
  apart from the ticket the code remembers, so that a forgotten cancellation is
  a callback that still arrives.
- **Parts side by side.** `Selectors`, `NbBuffers`, `SequentialParts` and
  `Services` let the initial state choose which part runs; the others stay at
  rest. Each part is a module of its own, and the sum has the properties that
  are asked of all of them.
- **Processes.** In `Daemon` each launch has a parent, a child and a server (the
  grandchild, or the process itself in the foreground); `pc` says where each
  is. A step is one call that can fail; a failure unwinds the destructors in
  order (`Throw`).
- **Encoders** keep back any of their frames and hand out the samples in any
  order; what the libraries decide is left to nondeterminism.
- **Characters.** In `WireFormat` a reader takes one character in a step, so it
  stops and goes on at every character, as it does when the buffer runs out.
  What a type expects is a stack of goals, which stands for the nested readers.
- **Tokens.** In `Rpc` a message is a sequence of tokens. Tokens carry the
  number of their call, which the code does not have; it is only used in the
  properties.

Every operator whose comment begins with "Mutant" is a version of the next
definition with a plausible bug. No specification uses it: it documents which
mistake the property named in `PROJECT.json` would reveal.

## 3. Runs

`tlc -config MCx.cfg MCx.tla` repeats a run. A module whose constants a
configuration can give needs no MC module: `CoreMutex`, `EncodeCall`,
`NbBuffers`, `Rpc`, `Scheduler` and `SequentialParts` are checked as they are,
with the configuration of the same name. `MCDispatcher` has two.

| Run | Bounds | Distinct states | What it shows |
|---|---|---|---|
| `core_mutex` | 3 threads and `run()` | 14,595 | `IInv` (the inductive invariant of the proofs), `PipeFollowsFlag`, refinement of `PriorityLock`; the holder gives way, a free lock is taken, a stop completes |
| `dispatcher_safety` | 3 connections, 2 threads, 1 monitored connection, 1 waiting request each, symmetry | 376,702 | `IInv` (one owner for each client, counters, asserts; the inductive invariant of the proofs), somebody monitors, `run()` leaves nothing, refinement of `RequestServer` |
| `dispatcher_liveness` | 3 connections that send again and again, the third of which is without stops and closes; 2 threads, 1 unread signal, no limit of connections | 193,860 | `stop()` makes `run()` return; a request is taken up |
| `sequential_parts` | arenas of up to 4 nodes; heaps of up to 6 elements with 2 priorities; a log of 4 messages of each of 2 processes, 2 to a file, 2 rotated files, 3 failures | 531,865 | links, order, indexes and free stacks, what the files hold of what was written, notices and losses (`PartsInv`), refinement of `Lists` and `PriorityQueue`; a rotation loses nothing but what is too old |
| `selectors` | each of the four: 2 descriptors, 2 directions, 3 tickets, batches of 1 (epoll) and 2 (kqueue), a limit of 4 pollfds | 28,888 | lists and kernel agree (`Inv`), refinement of `Selector`, no event starves |
| `scheduler` | 2 events, 2 tickets, 2 points in time | 31,672 | the alarm that is waited for stays the first (`SchedulerInv`), alarms in order, and neither source starves |
| `buffers` | buffers of 3, streams of 5, checker of 2 bytes a tick, 2 ticks long, limit 3 | 78,800 | asserts, scheduled callbacks and intact streams (`Inv`); callbacks come at the right time; silence is reported |
| `services` | 2 launches, of which one a daemon (as it is, as a dry run, or without a pidfile), with 2 signals each and 1 kill; 3 nested handlers | 137,154 | one owner of the pidfile, outcomes that are true, the innermost handler (`ServicesInv`); the parent is told; a stop is heard |
| `encode_call` | 4 frames, 2 of which the encoder keeps back, 2 tokens on the wire | 54,290 | success means one sample of each frame, flush comes last, and where each frame is on its way (`Inv`, the inductive invariant of the proofs); the call ends |
| `wire_format` | each number of 6 bits for a reader of 5, an enumeration of 4 values over 3 bits, each kind of value with each escape, a request of 2 arguments; then a second message; 2 characters on the wire | 780,132 | what is submitted was written, and a message is only refused for a reason (`Inv`); reading ends |
| `rpc` | 2 calls, 1 argument, 1 value, buffers and wire of 1 token | 220,877 | both sides in step, and what is in flight fits what both have done (`Inv`, the inductive invariant of the proofs); success is mutual, both sides complete |
| `client_cache` | 3 threads, 4 connections, 2 servers, cache of 2, age 2 of 3, symmetry | 374,071 | one owner and order (`CacheInv`), a call gets the best connection for the time at which it looked at the clock, failure invalidates |

Why the bounds are enough to be of use:

- *Core mutex.* Three threads give a holder, an urgent and a normal waiter at
  once, and two urgent waiters that share the flag with `run()`. What does not
  depend on fairness is proved for any number.
- *Dispatcher.* With two threads one can monitor while the other serves, and
  both can serve, which leaves nobody to monitor. One monitored connection and
  three clients make eviction happen on `accept()` and on return from a
  request. `run()` is called again and again, a signal may come before, during
  and between calls. Requests do not come to an end: the bound is on those that
  wait on a connection, and its peer sends the next when one is taken. In
  `dispatcher_liveness` two clients can so keep both threads busy, or push the
  monitoring one aside as they return, while a third waits. Once the
  third has connected, there is no stop and no peer closes its connection
  (`LivenessSpec`): two clients are enough to have both threads in handlers when
  `run()` ends.
- *Sequential parts.* All arenas of four nodes include one list with three
  elements and two with one, so moves within, between and next to oneself. Six
  elements are the fewest for which a removal makes the replacement go *up* (it
  comes from the other branch at depth two), and two priorities are enough for
  that. Two rotated files and three failures let a
  rotation fail at either rename and again at its retries, and a restart finds
  what it left.
- *Selectors.* With three tickets for four events, two may wait in the pending
  list while the third is cancelled and its ticket given out again.
- *Buffers.* The stream is longer than the buffer, so the buffer is used more
  than once, and ticks pass without, with too few and with enough bytes.
- *RPC.* A request has three tokens (name, argument, EOM) and so has the reply of
  a method that writes more than it should; a proper one has two. Buffer
  and wire hold two in a direction, so both can be blocked. A second call shows
  what the first left behind on the connection.
- *Services.* Two launches race for one pidfile. One kill is enough to take away
  any of the three processes at any step; two signals to stop a server and to
  arrive once more while it unwinds.
- *Encode call.* Four frames with two kept back have the encoder return nothing,
  an earlier frame, and two frames at the flush; two tokens on the wire make
  both streams block.
- *Wire format.* The readers and writers are the same for every width; five bits
  have numbers of one and of two digits, and the written ones exceed the largest
  readable one by one, by less than ten, and by a digit. The cut comes at every
  character of every message. The second message shows whether the reader has
  found the end of the first.
- *Cache.* Three threads suffice for one to invalidate what the second stored
  while the third waits for the mutex with a time that has become old, or has a
  connection in use.

Every bound is a constant, and is marked "bound:" where it is declared if the
code has no such limit. `CHECK_DEADLOCK FALSE` is said where the modelled world
may come to its end: `dispatcher_liveness` when all connections are closed and nobody
stops it any more, `ClientCache` when no connections and no time are left,
`Rpc` when all calls have been made, `EncodeCall` and `WireFormat` when the call
or the conversation is over, `Services` when every process has ended,
`SequentialParts` when all messages have been logged. In `Dispatcher` the limit
`max_concurrent_requests_` = 0 (no limit) is not modelled.

## 4. Fairness

Each module states its fairness with the reason; in short:

- Threads run and mutexes are granted in the end. `CoreMutex` asks weak
  fairness of each thread's own steps. So does `Dispatcher`, and of the core
  mutex only that *some* thread takes it when it is free, which is what
  `FreeLockIsTaken` says: no thread is sure of its turn. Waiting for the
  network or for a request handler is *not* fair: `HolderGivesWay`, `StopReturns`
  and `StopCompletes` hold although no peer ever sends and no handler returns.
- `RequestIsTakenUp` says what follows *if* each request is over at some time
  (`HandlersReturn`, which is its hypothesis and not part of the
  specification): its method returns, and the throughput checker ends the
  transfers of a peer that is too slow.
- Selectors deliver every event in the end (`ReadyIsSelected`): `Scheduler`
  assumes it, the four selectors are checked for it. `Dispatcher` assumes nothing
  of the order in which its selector delivers what it has found, only that
  it looks again when all of that is delivered. The kernel's
  part in `ReadyIsSelected` is strong fairness: an event that is ready again and again is
  reported in the end (`epoll_wait()` rotates its ready list), and the part of a
  limited batch that is left out is not always the same.
- Time passes and a due alarm goes off: assumed in the buffers, checked in
  `Scheduler`. A source or a sink need never become ready.
- In `Rpc` event loops run and the wire delivers. No call need be made, and
  nothing need fail. The throughput checker is relied on only once something *has*
  failed (`SomethingFailed`): then an input that gets nothing and an output that
  gets nothing through fail in the end. Until then both sides have to get on
  without it, so that a deadlock of two healthy sides would be found.
- In `Daemon` each process runs (weak fairness of its steps); that it fails, is
  killed or gets a signal is never required. `ParentIsTold` therefore holds
  although children die, and `StopIsHeard` for a signal that finds the handler.
- In `EncodeCall` and `WireFormat` the event loops of both sides call back what
  is ready. No failure, no cut and no hang-up is required.

## 5. Proofs

`tlapm M.tla` checks the proofs of module `M`. Every theorem holds for all values
of the constants that satisfy the named assumption of the module it is about;
there are no others, and TLC evaluates each of them in a run.

| Module | Theorem | Establishes |
|---|---|---|
| `DispatcherProofs` | `Invariance` | `[]IInv`: one owner for each client, counts, asserts |
| | `ThereIsAMonitor` | `[]SomebodyMonitors` |
| | `NothingIsLeft` | `[]RunLeavesNothing` |
| | `DispatcherIsRequestServer` | every behaviour is one of `RequestServer` |
| `SelectorsProofs` | `Invariance` | `[]Inv`: lists and kernel agree, for each of the four |
| | `SelectorsImplementSelector` | every behaviour of each of the four is one of `Selector` |
| `NbBuffersProofs` | `Invariance` | `[]Inv`: the asserts, who calls a pending callback, the stream |
| | `CallsAreReady` | `CalledWhenReady` |
| `RpcProofs` | `Invariance` | `[]Inv`: both sides in step |
| | `MutualSuccess` | `[]SuccessIsMutual` |
| `ServiceProofs` | `ServicesInvariance` | `[]ServicesInv`: the pidfile's owner, what the parent is told, the innermost handler |
| | `SchedulerInvariance` | `[]SchedulerInv`: the alarm that is waited for is there and is the first |
| | `OrderIsKept` | `AlarmsInOrder` |
| | `EncodeInvariance` | `[]Inv`: where each frame and each sample is |
| | `SamplesMatch` | `[]SamplesMatchFrames`: one sample of each frame |
| `StructureProofs` | `StructuresInvariance` | links, indexes, heap order and free stacks |
| | `PartsImplement` | `ImplementsAbstract`: every behaviour of the arena is one of `Lists`, of the heap one of `PriorityQueue` |
| `SequentialProofs` | `Invariance` | `Spec => []IInv` of the core mutex |
| | `TypeCorrect`, `MutexIsExclusive`, `FlagIsCounted` | the parts of `IInv` that a reader is after |
| | `FlagIsUpWhenLowered` | the `assert(was_up)` of `urgent_lock()` |
| | `PipeIsConsistent` | `[]PipeFollowsFlag` |
| | `CoreMutexIsPriorityLock` | every behaviour is one of `PriorityLock` |
| | `CacheInvariance` | `[]CacheInv`: one owner, the order of the cache, the right server |
| | `ConnectionsFit` | `FitsTheCall` |
| | `FailuresInvalidate` | `FailureInvalidates` |
| | `LogInvariance` | what the log's files hold, which losses are told of |
| | `LossesAreToldInvariance` | `[]LossesAreTold`, a part of `PartsInv` |
| | `LogIsContinued` | `LogIsKept` |
| | `PartsInvariance` | `[]PartsInv`: the arena, the heap and the log |

TLC checks each of these invariants, the inductive one included, in a run before
it is proved. Most are themselves inductive; `PartsInv` follows from a stronger
one for the arena and the heap, for which the refinement that TLC checks in the
same run is the evidence.

**Core mutex** (`ThreadsAssumption`: threads are finitely many).
`MutualExclusion` is not inductive, nor is the agreement of
counter and pipe: `locked_` and the counters are changed under the *internal*
mutex, the pipe in a step after the counter. `IInv` adds who owns the internal
mutex (`InternalOwner`: exactly the threads in `raise()` and `lower()`, so at
most one of them is between counter and pipe), that a thread only lowers the
flag while nobody holds the core mutex (`LowerWhileFree`), what a thread is
about to do outside (`TasksFit`), that `n_urgent_waiters_` counts the registered
threads (`CountsWaiters`), and the pipe's bytes while a thread or `run()` is on
its way from the counter to the pipe (`PipeBytes`). The proof goes through the
actions in three lemmas, for control (`NextControl`), counters (`NextCounts`)
and the pipe (`NextPipe`); the counters need that adding or removing one thread
changes a cardinality by one (`CountJoins`, `CountLeaves`). The refinement maps
the holder to the thread between `core_lock_t`'s constructor and destructor,
which `HolderLemma` shows to be unique, and each action to one of the lock or to
a stutter (`ThreadStepRefines`, `MainStepRefines`).

**Dispatcher** (`DispatcherAssumption`: clients are finitely many, there is a
limit of concurrent requests of one or more, the others are numbers).
`ClientOwnership` and `Counts` say where a client is and who is counted; they
are kept only because threads hold the core mutex where they should and know
what they are about (`ThreadsFit`), because no thread is added behind the back
of `join()` (`RunFits`: how far `run()` has got, and that until it joins there
is an idle thread or all that there can be), and because a request that is to be
handled is there (`RequestsAreThere`): the peer cannot take back what it has sent. There is a
lemma for each conjunct (`ThreadsStayFit`, `ThreadsKeepOwnership`,
`ThreadsKeepCounts` ...), and one for the other actors (`OthersKeep`). That
somebody monitors (`IInvMeansSomebodyMonitors`) is then a matter of counting: of
the threads that have a client each serves one of its own (`EachServesOne`).
The refinement maps a connection's state to where its client is.

**Selectors** (`SelectorsAssumption`, `RegistrationsAssumption`). The four
lists-and-ids parts are the same and are proved once: `Share` says that watched
and pending list share the tickets, each is on one of them once, and a lemma for
each operation says what it does to that (`RegisteredKeeps`, `RemovedKeeps`,
`TakenKeeps`). A new ticket is none that is in use since `list_arena_t` gives
out no such id (`NewTicket`). `SharedStep` is what an operation of any of the
four must be for the registrations; it keeps the lists (`SharedStepKeeps`) and is
a step of `Selector` (`SharedStepRefines`) if `select()` finds *watched*
registrations of events that are *ready*. That is where the kernel comes in:
`PollKeeps`, `SelectKeeps`, `EpollKeeps` and `KqueueKeeps` show that what each
selector is told of is such, because the kernel, or the array, has exactly the
watched tickets, and that it goes on to have them. `fd_` being -1 just for the
pending ones is what makes `cancel_ticket()` delete the right event. kqueue is
the epoll selector with one instance: `KernelRegistered`, `KernelCancelled` and
`KernelSelected` are about both.

**Buffers** (`NbCallbacksAssumption`: buffers have room for something, lengths
are numbers; `ThroughputAssumption`: ticks take time and ask for a byte or more,
since with a minimum of zero bytes no tick is ever low and nothing is checked).
Any tickets, checkers, buffer size and stream. The
invariant says what may call the buffer at each time: nothing (`Quiet`), an
alarm that is due at once (`AtOnce`), or the source or sink and, with a checker,
one timer (`Waits`), and that this is what the scheduler has registered. The
throughput checker's loop over the ticks that have passed is bounded by
`PassedTicksFit`. `CallsAreReady` needs what is in the buffers at that time
(`InputIs`, `OutputIs`).

**RPC** (`RpcAssumption`: numbers of arguments, values and calls; buffers and
wire have room for one token). No conjunct of what a reader is after, that both
sides are in step and agree on success, is inductive: tokens are in flight. The
invariant describes what is in flight by what both sides have done.
`RequestFits` says that what the server has not read, in its buffer, on the wire
and in the client's, is the end of the previous request if the handler is not
done with that, followed by the current request up to what the client has
written (`RequestAfter`), or an error and an EOM where it has cut it short
(`EomFits`). `ReplyFits`, `ReplyRead`, `ReplyWritten` and `ReplyDrained` do so
for the reply, whose end is only written when the method has succeeded and all
values are out (`Complete`, which is how the server's `Success` reaches the
client). An input buffer that fails leaves what is in flight to it unread, and
an output buffer that fails loses what it has not sent: either way the other
side gets the beginning of a message, and no EOM. A transfer
between buffers and wire changes none of that (`NetworkKeeps`), a writer adds
at one end (`PutAdds`), a reader takes from the other (`ReaderTakes`), and each
conjunct has a lemma for the steps that touch it (`RequestFitsStep`,
`ReplyReadStep` ...). That nothing of one call is read in the next follows.

**Client cache** (`ClientCacheAssumption`). The invariant is `OneOwner`,
the order of the entries by time and `ServesItsCall`. What a lookup does to the
list is to take out one element and a tail that is too old; `FreshIsPrefix` shows
that what is fresh *is* a prefix when the newest are first, `InvalidateLeaves`
what is left when a server's entries go. `ConnectionsFit` says what a call gets in
terms of the time that `obtain()` has computed when it was called. The entries
may change while it waits for the mutex, but the order of their times does not,
so the search still stops at the right one. It does not say that a connection
has been in use within the last `MaxAge` when it is handed out: see the
observations.

**Services** (`ServicesAssumption`: the bounds are numbers; any launches, however
configured, and any nested handlers). That one process at most has the pidfile, and
that the parent's report is true, follows from what concerns one launch at a
time, `LocalInv`: its processes were forked in order (`ForksInOrder`), who holds
the pipe's ends and whether there is a byte in it fits where they are
(`PipeTellsTheTruth`), the server's handler is in place for as long as it should
be (`HandlerInPlace`), and what the pidfile says of it is explained by where its
server is (`PidfileIsExplained`). A step is one launch's: `KeepsInv` says that it
keeps that launch's part and leaves the others `Untouched`, and has a lemma for
each action. For nested handlers the invariant is that their lifetimes nest
(`LifetimesNest`) and that each remembers the one around it
(`RememberTheEnclosing`), between the two steps of a constructor or a
destructor, too.

**Scheduler** (`SchedulerAssumption`). While `wait()` polls between two looks at
the alarms, no callback runs and no alarm comes or goes, so the id it keeps stays
that of the first.

**Encode call** (`EncodeCallAssumption`: numbers of frames and of those that the
encoder keeps; the network has room for one token). That a success means one
sample of each frame needs the whole way of a frame. `RequestInOrder` says that
what is on the wire is the request from where the server is, `Taken`;
`ServerFollowsRequest` that `Taken` is what the handler's step implies. The
frames it has read are then in its hand, in the encoder, on the wire or with
the client: in one of these at most (`NothingTwice`), and, for as long as
nothing has failed, in one at least (`NothingLost`). The end of the samples is
sent when the encoder has none left (`EndIsLast`), so a client that has read it
has all (`ClientHasAll`). `DistinctIsCounted` turns "no frame twice" into the
count that `SamplesMatchFrames` is about.

**List arena and indexed heap** (`PartsAssumption`). Both are arrays whose
entries point at each other. The invariants, `ArenaSound` and `HeapSound`, say
that the state is *some* values that fit: `ArenaFits` relates the nodes to the
lists they stand for, `HeapFits` the elements to the order of their ids. These
are predicates of values, so what an operation does to the array is shown
without a thought of time: each action equals an operator on values
(`MoveElementBeforeIs`, `RemoveElementIs` ...), that operator leaves values that
fit, and the values before and after are a step of the abstract module
(`ListsStep`, `QueueStep`). The free stacks are chains of links in both
(`Stacked`); ids are pushed to and popped from its top (`PushedOn`,
`PoppedFrom`), and a chain whose links have not changed is the same chain
(`SameStack`).

In the arena, a list is a *ring* of links through its root, and no two rings
share a node (`Linked`). Adding, moving and removing are made of two changes:
`Unlinking` takes an element out of its ring, `Inserting` puts one into a ring
before another. That the links say what `Along` finds, and that an element is on
one list only, are inductions along the places of a ring (`OnOneList`). A moved element may be
its own successor's neighbour, which is why a move is unlinking *and then*
inserting; an element that is moved before itself is unlinked and
put back where it was: the links that are written twice end up as they were
(`MovedNowhere`). Removing a list
pushes all of its elements at once (`ListGone`).

In the heap, swim and sink are loops. Their invariants are that the heap is in
order but for one element and its parent (`UpFrom`), or its children
(`DownFrom`); in each the children of that element are no less than its parent
(`Around`), which is what makes one swap enough to go on. The last element,
which takes the place of a removed one, may have to go either way: `CutFits`.
That the front is the least is by the smallest counterexample
(`FrontIsFirst`): its parent would be a smaller one.

**Log** (`PartsAssumption`: a file has room for two entries or more, so that a
rotation's notice leaves room for the message; with less, each message would
rotate again, and nothing is proved). The operators of `Logger` take a log
as a record, and so do the lemmas: `LogFits` says that the files, from the
oldest on, hold the end of what was written, in the order of the processes, and
that a rotation's notice is remembered as long as it is in the newest file;
`Whole` adds that each process's messages follow (`FollowIn`) and that before
each message all earlier ones are there or told of, once, and what is still to
be told is counted (`CountedFor`). A rotation is a loop
of renames from the oldest file on, each of which may fail: `RotatedSoFar` says
what the files are when it has got so far. What it loses is the oldest file
alone, since no file is renamed to one that exists. `LogKeeps` is kept by the
steps of a report, in order; of its notice and its message one at most
rotates. A process that starts again has told of nothing
and counts from the start, and the files are as the killed one left them.

**Shared lemmas.** A list of which elements are left out keeps its order and
doubles nothing (`WhatIsLeft`); `AtPlaces` is such a list (`AtPlacesLeaves`). That
is a recursive function. The prover cannot use the library's theorems about
induction, which take an operator; `LeastOf` and `SetInduction` derive what the
proofs need from the well-foundedness of the natural numbers, with a *set* in
place of a predicate, and `FunctionByRecursion` that a recursive function on the
natural numbers satisfies its equations.

What is only model-checked, and why:

- *Liveness*, in all modules: the prover has no rules for `ENABLED`.
- *`WireFormat`*: that what is read is what was written depends on a grammar of
  messages, on what decimal digits mean and on powers of two; each takes an
  induction of its own, and the prover knows nothing about exponents. `Rpc` and
  `EncodeCall` are proved over whole tokens; that characters make up tokens,
  also those of a message that is cut inside one, is what `wire_format` checks.

## 6. Not modelled

- *x264 and x265* are vendored third-party code. They make up nine tenths of the
  repository's lines (and their kernels, in assembler and intrinsics, are pure
  arithmetic), which is why a small share of all lines is mapped here. Of `cuti`
  and the two services, what keeps state across calls is modelled but for the
  items below.
- *Windows.* Windows variants of the event pipe, the signal handler, the service
  and the sockets.
- *Wire format:* the mappings of user types to tuples.
- *Logging:* a change of the backend at run time, and the backends that only
  format and write (stream, syslog).
- *Service:* change of user, umask and directory happen before the steps that
  matter and can only throw, as the modelled ones do.
- *Circular buffer*: no program uses it, only a unit test.
- *Encoding sessions* translate settings and frames for the libraries. *Bound
  buffers, subroutines and results* are the glue between the modelled state
  machines. *Configuration, formatting, sockets, resolver*: calls of libraries
  and of the system, or text, with no state of their own to speak of.

### Observations

Things the models show that no document of the repository contradicts, so that
none of them is listed as a finding:

- *A connection may be older than `max_age`.* `obtain()` computes
  `expiry_timestamp` before it takes the mutex
  (`simple_nb_client_cache.cpp:51-54`, and `invalidate_entries()` likewise at
  173-176), so one that has to wait for the mutex may hand out a connection that
  has been unused for `max_age` or more. `FitsTheCall` is therefore about the
  time at which the call looked at the clock. The next use finds a connection
  that the server has closed, and fails.
- *The wire format is safe to cut.* `on_reply_error()` (`rpc_engine.hpp:131-137`)
  ends a half-written request inside a token. Numbers and identifiers refuse to
  end with their message ("avoid submitting a half-baked value"), strings to
  contain a bare newline; `wire_format` checks that this is enough.
- *An encoder that fails to give its headers stops the server.*
  `encode_handler_t::create_session` calls `sample_headers()` outside its `try`
  block (`encode_handler.hpp:90-93`); what it throws ends in
  `pooled_thread_t::run` (`dispatcher.cpp:785-811`), which logs it as fatal and
  aborts. `EncodeCall` has that as `AbortServer`.
- *A daemon without a parent.* If the parent goes (by Ctrl-C, say) before the
  grandchild confirms, the grandchild writes to a pipe that nobody reads and
  dies of SIGPIPE with its pidfile left behind. So does one that gets SIGTERM
  before the handler is in place or after it has been taken down.
- *A child that is killed from outside* makes the parent report a failure while
  the grandchild may go on.
- *A rotation that fails at its last rename* is tried again with the next
  message, and each attempt drops one more of the oldest files
  (`file_backend.hpp:34-40`), so that fewer than `rotation_depth` may be left.
  Where the notice of a rotation cannot be written, none is attempted
  (`file_backend.cpp:98-101`). Messages that are lost meanwhile are counted, and
  reported by `logger_t` with the next that succeeds.
- *kqueue* holds one filter for a descriptor and a direction, with the ticket in
  it: a second registration for the same event would replace the first's. The
  callers never watch an event twice, and `KqueueSelector` assumes that.
- *Idle buffers.* The throughput checker only looks at the clock when it is told about a
  transfer or at a tick. Ticks that pass while a buffer has no callback pending
  count as low ticks at the next transfer (`throughput_checker.hpp:92-104`), so a
  user who pauses for longer than `low_ticks_limit_` ticks without cancelling the
  check gets an error at the next. `NbInbuf` and `NbOutbuf` model that as it is.

## 7. Plan

In order of importance. Done: 1 to 8, and 9 but for what is left there.

1. `CoreMutex`, `PriorityLock`, with proofs: everything else runs under this lock.
2. `Dispatcher`, `RequestServer`: what the program is.
3. `ListArena`, `IndexedHeap`: what tickets are made of.
4. The selectors and `Scheduler`: the event loop.
5. `NbInbuf`, `NbOutbuf`, `ThroughputChecker`: data against timeouts.
6. `Rpc`, `ClientCache`, `WireFormat`: the protocol and its connections.
7. `EncodeCall`: the one method that streams both ways.
8. `SignalHandler`, `Daemon`, `Logger`: what a service needs around it.
9. Proofs. Done: the safety of every module but `WireFormat`, and the
   refinements: `CoreMutex` of `PriorityLock`, `Dispatcher` of `RequestServer`,
   the four selectors of `Selector`, `ListArena` of `Lists` and `IndexedHeap` of
   `PriorityQueue`. Left: that what `WireFormat` reads is what was written, for
   any conversation.
