# A TLA+ development of MUD

MUD is a C++ framework for network programs: an event loop with a pool of worker
threads, timers, a message broker, stream I/O over TCP, UDP and pipes, protocol layers
(HTTP, TLS, SOAP), cryptography, XML and HTML.  This directory holds specifications of
its concurrent core, of its I/O and protocol layers and of its algorithms, the TLC
configurations that check them on small instances, and proofs of the main properties
with TLAPS. All line numbers are of the POSIX build.

Contents: 1 the system, 2 the modules, 3 the runs, 4 fairness, 5 the proofs, 6 where
code and documents disagree, 7 what is done and what stays out.

## 1. The system

A program makes an `event_loop`.  A thread calls `loop()`, which starts a pool of worker
threads on one task queue and one thread per *mechanism*; on POSIX that is the select
mechanism, which waits with `select()` for the handles of all registered events.  A
triggered event is taken off the mechanism's list and pushed as a task; the worker that
runs the task publishes the event on the message broker and puts it back when its topic
still has subscribers.  When `select()` times out its thread dispatches the timers.
Everything above (TCP, the HTTP client and server) subscribes to these messages and runs
in handlers, on any worker.

### The core, modelled

| component | state it keeps | operations | talks to | what is hard | what makes it correct |
|---|---|---|---|---|---|
| task queue, workers, pool (`core/task.h`) | `_tasks`, `_available`, `_terminate`, the threads | push, pop, wait_pop, initiate, terminate, wait | called by the select mechanism and the event loop; runs event tasks | lost wake-ups, join against terminate, failed thread creation, restart | no task lost or run twice; nobody sleeps on work; join is a barrier |
| message broker (`core/message`) | `_listeners`, a recursive mutex | attach, detach, move, notify | everyone who subscribes | handlers that attach, detach, destroy, nest or throw during a notification | handlers serialised; a destroyed object is not called; lists say what was asked |
| select mechanism (`core/posix/select_mechanism`) | `_events`, the self pipe, `_running` | add, remove, demultiplex, initiate, terminate | pushes tasks, dispatches timers, asks the broker | an event handed to a worker is off the list while threads add and remove | no event lost, one per topic, no sleep on a stale set |
| timers (`core/timer`, `timer_dispatcher`) | the sorted list of running timers, type and expiration of each | start, at, stop, dispatch, wait_duration | loop thread, broker | users write a timer before they take the mutex, the loop reads it meanwhile | active timers are listed once and signalled; the loop does not oversleep |
| event loop (`core/event_loop`) | `_mechanisms`, `_running`, the ready and terminate promises | add, remove, loop, terminate, ready | pool, mechanisms | terminate against start, restart against a loop that is stopping | ready means running, the end means quiet, terminate ends it |

### I/O and protocols, modelled

| component | state it keeps | operations | talks to | what is hard | what makes it correct |
|---|---|---|---|---|---|
| TCP (`io/tcp`, `posix/socket`) | sockets, `_connected`, the accept, connect and receive events | open, close, the ready handlers, destruction | events of the loop, messages to the layer above, the kernel's table of descriptors | any thread closes or destroys while a worker is in a handler; numbers of descriptors are reused; accept fails | who is connected has its own descriptor; one disconnection is told once; nobody is cut off; the end of a peer is served |
| stream buffer, pipe (`io/streambuf`, `pipe`) | the put and get areas over one array | overflow, sync, underflow, clear of the stream | read() and write() of a device | short writes, failures, full areas, ends, datagrams | what comes out is what went in, whole and in order |
| UDP (`io/udp`) | one endpoint shared by reader and writer | read, flush, naming an endpoint | stream buffer | the endpoint changes while a reply is gathered | a reply goes to the sender |
| communicator layers, HTTP client and server (`protocols`) | the client's connector, communicator, request and promise; the server's peers | request, connect, disconnect, respond, stop | TCP, the broker | overlapping requests, refused connections, ends in the middle, stop() against handlers | a future gets the response to its own request; stop() is a barrier; requests are answered |
| HTTP messages, heads, chunks, remediation | a body that is read | read, write, remediate | streams | how long a body is, what a field may contain | one message ends where the next begins; a head is read as it was written |
| TLS extensions and hello | items of extensions | size, write, read | streams | sizes are computed before anything is written | what is written is read back |

### Algorithms, modelled

| component | what is hard | what makes it correct |
|---|---|---|
| cipher streams, modes, padding (`crypto/block_cipher`, `padding`) | flush at and within blocks, look-ahead for the last block, several texts; the counter and the hash of GCM | decrypting an encrypted text gives it back; the standard's tag |
| hash streams, sponge, HMAC, HKDF (`crypto/sha`, `keccak`, `hmac`, `hash`, `hkdf`) | padding at a block boundary, two words of length, failing chains, one HMAC object for many keys | the digest of the message, however it is cut; the keys of RFC 5869 |
| AES, SHA rounds, Keccak, X25519 | tables, key schedules, words of 64 bits, limbs that carry late | the standards' examples; equal shared keys |
| big integers (`core/bigint`) | carries, signs, the byte before and the byte after | the integer of the operations |
| buffers, buffer streams (`core/buffer`, `bufferstream`) | growing, shrinking, own ranges | the bytes that were put |
| log (`core/log`) | settings that other threads change, numbers of threads | every message above the severity is written once |
| UTF, URI, JSON (`core`) | bounds of codepoints, decoding twice, escapes | a text is read as what it says and written as what it was read from |
| XML queries, names and namespaces (`xml`) | separators, prefixes that hide others | a query selects what its steps say; a prefix stands for the nearest definition |
| character references (`xml`, `html`) | tables of a scanner and the tool that makes them | a reference is the longest name of the list |

### Not modelled

| component | why |
|---|---|
| IP addresses, host, interface (`io`) | wrappers of name resolution and ioctl without state of their own |
| SOAP (`protocols/soap`) | one XML message class, no behaviour over time |
| poly_map, poly_vector, factory, optional (`core`) | thin wrappers of the standard library's containers; what was seen in them is in section 6 |
| UUID, endian, hexdump (`core`) | conversions of a fixed number of bytes |
| handles, select sockets (`core`) | typed descriptors, and the self pipe for systems without pipes |
| XML parser and text nodes, HTML | grammars and generated tables (the tools that make them are in CharReference and Unicode), value classes of one string |
| user interface (`ui`) | not part of the build (`Makefile.am:28`), and uses a `simple_task` that core no longer has |
| Windows variants, test framework, samples, documents | not part of the POSIX library |

What is hard to test is listed, at its line, under "hazards" in `PROJECT.json`; a hazard
there names the properties that cover it, or says why none does, and its note says which
cases the properties leave to their conditions.

## 2. The modules

A member function that is one critical section of one lock is one action.  Where the
code touches shared state outside a lock, blocks, or calls user code, the function is
split there and `pc` (or `loop`, `stack`) says how far each thread is.

**TaskService, TaskPool** (`task.h`).  TaskService is what the queue and its workers
promise: a FIFO of tasks, a set of tasks being executed, a set of finished ones.
TaskPool is the code.  `Push`, `Pop` and `Terminate` are critical sections of
`_cv_lock`.  `wait_pop()` is `CheckTerminated` (the worker's own test), then `WaitTake`,
`WaitNothing` or `WaitBlock` by the predicate of the condition variable; `notify_one`
wakes any one sleeper, `notify_all` all of them, and `SpuriousWake` wakes one without a
reason, as the library may.  `Execute` returns from the task, or catches what it throws.
A pool's owner goes through `Initiate`, one `CreateWorker` per thread or `CreateFails`
when `std::thread` throws, `AllReady`, `BeginWait`, `JoinAll`; only then may it initiate
again. `Service == INSTANCE TaskService WITH ...` maps the queue to `tasks` and the
tasks in hand to those executed.

**Broker** (`message.cpp`, `message.h`, `object.h`).  `subs[p][m]` counts how often the
list of topic `p` holds method `m`: no document promises an order of calls, so
`notify()` may call the methods of its copy in any order.  A method is a member function
with its object, or a static function; all static functions hash alike (`HashOf`), as in
the code.  `Publish` takes the recursive mutex and pushes a frame with the copy,
`Invoke` calls one method of it, `HandlerReturns`, `NotifyReturns` and `HandlerThrows`
(which unwinds one call) leave it.  A thread inside a handler may do everything a thread
outside may: `Attach`, `Detach`, `Destroy`, `MoveConstruct`, `MoveAssign`, `Publish`.
`attached` and `life` are history; so is `assigned`, which remembers that an object was
move-assigned.

**SelectMechanism** (`select_mechanism.cpp`, `select_pipe.cpp`, `event.cpp`).  The loop
thread is `Test`, `Multiplex` (builds the descriptor sets under `_lock`), `SelectEnter`,
then `SelectReady` or `SelectTimeout`, then `Demultiplex` (reads at most one byte of the
pipe, moves triggered events to tasks), or `RemoveBadf` when a descriptor was closed;
`PublishTimedOut` runs the timers.  `select()` fails for a closed descriptor only: with
another errno, EINTR among them, it throws out of the loop's thread
(`select_mechanism.cpp:176`), and that is left out.  `Add`, `Remove` and `Terminate`
change the state; the byte is always a step of its own, `Trigger`, which waits while the
pipe is full, and until then the caller is in `nop` (`locked` while it holds `_lock`, as
add and remove do).  A worker is `Take`, `Publish`, `HandlerReturns` or `HandlerThrows`, `Check` (does the
topic still have subscribers), `ReAdd` or `Drop`. Masks and the set of exceptions are
left out: a handle is ready in the way its event asks for.  `wanted` is history: the
event last added for a topic and not removed, unsubscribed, closed or lost to an
exception; `added` counts how often that was a new one, up to twice.  `Holds`,
`Queued`, `Held` and `Somewhere` name the places an event can be at: on the list, in a
task, in a worker's hands.

**TimerService, TimerDispatcher** (`timer.cpp`, `timer_impl.h`, `timer_dispatcher.cpp`).  A call of a
user is `WriteType`, `WriteDue` (no lock) and `ChangeList` (the dispatcher's mutex, the
sort, the changed event).  The loop's thread is `Multiplex`, `WaitSize` and `WaitBegin`
(wait_duration() reads the size before it takes the mutex; if the list has become empty
`begin()` is dereferenced all the same, which here gives an arbitrary old deadline or a
crash), `SelectReady`, `SelectOther` or `SelectTimeout`, then `DispatchLock`, and for
each expired timer `ReadTimer`, `StoreDue`, `Spend`, `Publish`, `HandlerReturns`;
`HandlerStops` is a handler that stops a timer, and finds the mutex held by its own
thread (`relock`).  The changed event is a byte that `Capture` and `ReAdd` serve as a
worker does.  The epoch of a periodic timer is the time of its start.  `Sorted` gives
all the orders that `std::sort` may leave timers of the same expiration in.
TimerService is what a user sees: the last call for each timer and whether it has
returned, the time of its next signal, the timer about to be signalled.  There a signal
is `Expire`, `Advance` (to the first point of the timer's grid that is not past) and
`Signal`; no list, lock, loop or sleep exists.  `Service == INSTANCE TimerService WITH
...` maps to it: what a call will write counts as written when the call begins, and a
timer that is being stopped loses its time (`Withdraw`) when `stop()` writes it, when
the list drops it or when the call returns, whichever is first.

**EventLoop** (`event_loop.cpp`).  `loop()` is `Call`, `Assert`, `NewPromise`,
`InitiatePool`, `CreateWorkers` or `CreateFails`, `InitiateMechanism`, `StartMechanism`,
`SetReady`, `WaitMechanism`, `JoinPool`, `Finish`; `terminate()` is `Terminate`,
`TerminatePool` (takes `_lock`), `TerminateMechanism`, `ClearRunning`, `Renew`, and for
a thread outside the loop `Waited` on the future.  The pool and the mechanism are
reduced to what the modules above say of them (`WorkersEnd`, `MechanismEnds`); a worker
in `terminate()` has not ended.  `regular` is history: it stays true as long as
terminate() was not called while a loop was starting, nor loop() while another one or a
termination was under way, and no thread creation failed. What happens otherwise is in
section 6.

**Tcp** (`tcp.cpp`, `posix/socket.cpp`).  `os` is the process's table of descriptors; a
socket object is a number in it (`fd`), which close() gives back but keeps, and the
destructor gives back once more.  An event is `listed`, in a `task`, or gone, as
SelectMechanism promises; a worker that is in a handler holds the broker's mutex, and
detach() waits for it, as Broker promises.  A worker is `Trigger`, `Publish`, the
handler, `Check` and `ReAdd`. The acceptor's handler is `Accept` or `AcceptFails`,
`Open`, `Register`; a communicator's is `Peek` or `PeekFails`, then what the user's
handler does (`HandlerReads`, `HandlerCloses`, `HandlerReturns`).  The sockets that
`accept()` returns are blocking (only the listening socket, `tcp.cpp:424`, and the
connector's, `:576`, are set otherwise, and Linux does not hand the flag down): a handler
that reads past what arrived (`HandlerReadsOn`) waits in `recv()` with the broker's mutex
until `Recv` finds data, the end or an error.  A handler is assumed to read all that was
announced to it before it returns.  close() is `Close` (the test and reset of `_connected`), `Clear`,
`Detach`, `Shut`, `Announce`, from a handler, from `UserCloses` or from `UserDestroys`,
which ends with `Drop`.  `announced` and `past` are history; `past` names what has gone
wrong (a foreign number closed or read from, two threads in close(), a living peer cut
off, a failed accept()).

**Http** (`client.cpp`, `server.cpp`, `communicator.h`, the connector of `tcp.cpp`).  A
client has one connector, one communicator, one saved request and one promise.
request() is `SaveRequest`, `NewPromise`, `TestConnected`, then `Connect`,
`ConnectAgain` or `SendRequest`, without a lock; the handlers (`ConnectReady`,
`OnConnected`, `Open`, `SendSaved`, `ClientReady`, `ClientReads`, ..., `SetValue`;
`AcceptReady`, `PeerReads`, `Respond`) run one at a time.  server::stop() is
`StopBegins`, `StopDetaches`, one `ClearPeer` per peer, `StopEnds`.  A message travels
in parts, and a read takes the parts that have arrived.  The server's sockets are
blocking, so a read of half a request waits there and fails only when the client closes
(`PeerGivesUp`); the client's read tries ten times and may give up before.

**StreamBuffer** (`streambuf.cpp`, with `read()` and `write()` of TCP, pipe and UDP).  A
writer's array with its put pointer, what is on its way through a stream or as
datagrams, and a reader's area.  `Put` and `Overflow` store a character, `Sync` (in
`Overflow` and `Flush`) is taken whole, in part or not at all; `Clear` lets a program
write on after a failure.  overflow() stores before it writes, so a put pointer that
failures have moved through the room behind the put area leaves the array: that is
`Overrun`, after which nothing is claimed.  The reader is `Get`, `Unget`,
`UnderflowStream`, `UnderflowDatagram`, `Eof` and `ClearReader`.

The modules below are each about one object, or a writer and a reader, and have one
property, named here; the cases in which the code does not keep it are conditions of the
property and are described in section 6.  **MCAlgorithms** puts them side by side:
`part` says which of them a behaviour is one of, and the variables `x1` to `x12` are
those of that part, so that one run explores all parts and two properties collect
theirs.  It extends StreamBuffer, so the streams have their own variables and properties
in the same run.

| module | code | state and actions | property |
|---|---|---|---|
| Udp | `udp.cpp` | the shared endpoint, queue of datagrams, put and get area | `RepliesToSender` |
| HttpFraming | `message.cpp`, `chunk.cpp`, `remediator.cpp` | a connection cut anywhere, the reader's state | `KeepsBoundaries`: one message in, the same one out |
| HttpHead | `message.cpp`, `field.cpp`, `uri.cpp` | a written head and what comes of it after up to one change | `ReadsHeads`: heads are read back, cut heads refused, accepted ones mean what they are rewritten to |
| TlsHello | `extension.cpp`, `message.cpp`, `dissect.cpp` | extensions of every class, the wire, its readers | `ReadBack` |
| CipherStream | `block_cipher.cpp`, `padding.cpp` | the two mode objects, put area, chained stream | `RoundTrip` |
| Gcm | `block_cipher.cpp` (gcm), `types.cpp` (counter) | counter, hash and tag on 128 bits, block by block | `CountsAndTags`: text and tag of NIST SP 800-38D |
| Digest | `sha.cpp`, `keccak.cpp`, `hmac.h`, `hash.cpp` | blocks, padding, lengths, the stream, over an abstract compression | `DigestOfMessage` |
| Hkdf | `hkdf.cpp` | the HMAC object and the loop of key() | `KeysExpand`: the keys of RFC 5869, however often |
| Sha, Keccak, Aes | the rounds | words of 32 and 64 bits as limbs, the state round by round | `DigestsAgree`, `SpongeAgrees`, `BlockBack`: the standards' examples, constants and inverses |
| X25519 | `x25519.cpp` | limbs of the ladder beside numbers of a smaller field | `KeysAgree` |
| Bigint | `bigint.cpp` | a register through chains of operations, beside an integer | `Exact` |
| Buffer | `buffer.cpp`, `bufferstream.cpp` | the array with its capacity, beside the bytes it should hold | `HoldsBytes` |
| Log | `log.cpp` | settings, objects of several threads, targets | `Logged` |
| XmlQuery, Namespaces | `xml/src` | the compiler and evaluator of queries; definitions on the path to a name | `Selects`, `Scopes` |
| Json, Uri, Unicode | `core/src` | texts of pieces, their values, what is written again | `Parses`, `Locates`, `Transforms` |
| CharReference | `xml/src`, `html/src` | lists of entities, the tables made of them, lookups | `Refers` |

The reference of a property is not the code's algorithm: a big integer stands beside an
integer of TLA+, GCM beside a product of polynomials, AES's tables beside the field, a
query beside the paths of names, a written text beside the reading of it.

Each module has, before its actions, a section of faulty variants of some of them; they
are no part of any specification and serve to test that each property notices the fault
it is there for.

## 3. The runs

| run | module and instance | states | what it shows |
|---|---|---|---|
| taskpool | 3 tasks, 3 workers | 50 thousand | any number of initiate, terminate, wait cycles with failing creation and spurious wake-ups: `WorkConserving` (while a worker sleeps, every queued task has an awake worker coming), `PlacedOnce`, `JoinedMeansQuiet`, `ServiceSpec` (the refinement), `QueuedRuns`, `WaitReturns` |
| broker | 2 threads, 2 objects, 2 topics, 1 member function, 1 static function, `MaxDepth` 2, `MaxDup` 2, symmetric | 376 thousand | `Serialised`, `DestroyIsBarrier` (destruction outside all handlers), `MembersAgree` (until the first move assignment) |
| select | 2 users, 2 workers, 1 topic, 2 handles, `PipeCapacity` 3, `MaxCalls` 4, symmetric | 225 thousand | with closed descriptors, exceptions, handlers that call back and a full pipe: `OnePerTopic` (once on the list, and a topic that was added once has its event at one place), `NeverSleepsOnChange`, `Accounted` |
| select_live | 1 user, 1 worker, 1 topic, 1 handle, `PipeCapacity` 8, `MaxCalls` 5 | 65 thousand | `SignalledIsTaken`, `TerminateEnds`, while the pipe has room |
| select_removed | as select_live, `PipeCapacity` 4, `MaxCalls` 4, without failures | stops | **violated**: `RemovedStaysAway` |
| timers | 1 user, 2 timers, `Interval` {1}, `MaxTime` 2, `MaxCalls` 3 | 456 thousand | `OnlyActiveListed`, `NeverOversleeps`, `StartedIsSignalled`, `ServiceSpec` (the refinement, which has `OneShotOnce` in it), for timers that are stopped before they are started again |
| timer_restart | the same, timers may be started while active | stops | **violated**: `OneShotOnce` |
| event_loop | 2 looping threads, 1 thread outside, 1 worker, `MaxLoops` 2, `MaxStops` 3 | 82 thousand | `ReadyMeansRunning`, `EndedMeansQuiet`, `NeverThrows`, `TerminateEndsLoop` (and the wait for the future ends), in regular histories |
| event_loop_heard | 1 of each, `MaxLoops` 1, `MaxStops` 1 | stops | **violated**: `TerminateIsHeard` |
| tcp | 2 connections, 1 acceptor, 1 worker, 1 user, `MaxFd` 3, `MaxData` 1, `MaxCalls` 1 | 117 thousand | closing and destroying any endpoint at any moment: `ReadsOwn`, `DisconnectedOnce`, `CalledForCause` (a handler's first read does not block, no living peer is cut off), `EndIsServed` (unless a handler that reads on is blocked by another peer) |
| http | 1 client, `MaxRequests` 3, `Parts` 2 | 52 thousand | refusals, ends, `Connection: close`, HTTP/1.0, stop() at any moment: `OwnAnswer`, `StopIsBarrier`, `Answered` |
| algorithms | MCAlgorithms, each part with its own bounds; StreamBuffer with areas of 3 and 1 characters, `MaxPut` 5, `MaxClears` 2, `MaxPackets` 2 | 570 thousand | short and failed writes, cut datagrams, ends, a put pointer behind the array: `Conserved` (every character is once, in order, with the reader, in an area or on the way), `StaysInArray` (not before more than `Putbacksize` failures were cleared); `Delivers` (datagrams, messages, hellos, logs), `Computes` (cryptography, integers, buffers, texts) |

The bounds, and why they are enough:

* taskpool: a lost wake-up needs a sleeper, an awake worker that steals the task, and a
  second task; three of each leave one over.  Nothing is bounded in time: the state
  space is finite because a task is pushed once.
* broker: depth 2 has a handler inside a handler, where the mutex is owned twice and an
  inner call destroys what the outer copy still holds.  `MaxDup` only bounds the entries
  that move assignments pile up.  Two topics are needed for moves that touch one list
  and not the other.
* select: two workers hold two generations of one topic's event, a third would hold a
  third of the same; two handles tell the generations apart.  `PipeCapacity` 3 with four
  calls and re-adds fills the pipe and blocks a writer with the lock held and without.
  In select_live it is larger than the calls can fill, since a full pipe stalls the loop
  for real (section 6).
* timers: two timers are the least that can be out of order; three calls are start,
  stop, start; the clock's three points make a timer due now, later and twice, and two
  timers due together, which the sort may exchange.  Intervals of 2 with a clock up to 3
  and two users without the liveness property pass too; they take too long for a
  routine run.
* event_loop: two runs show what a run leaves to the next; three terminations are one
  for each run and one too many.
* tcp: two connections on three descriptors, so that the number of a closed connection
  is given to the next; one worker, since the broker's mutex lets one handler run at a
  time, against one user thread that closes or destroys in the middle of it.
* http: clients share nothing but the mutex, so one client has all interleavings; three
  requests are one on a fresh connector, one on a live connection and one after its end;
  two parts are a message that comes in halves.
* algorithms, streams: five characters fill the put area of two twice; two cleared failures are one
  more than the put-back area has room for, so that the array is left.
* algorithms, other parts: the bounds stand in the WITH clauses of MCAlgorithms.  Areas and blocks of
  a few bytes make every position in a block and every overflow happen (full areas after
  one character more than they hold; messages of two blocks and one byte); words, ports,
  counters and fields are narrow, so that they wrap and carry, with bytes of two, four
  or eight bits; texts are all sequences of pieces that the readers tell apart, up to
  the length at which a part follows another of its kind.  AES, GCM, SHA and Keccak have
  their real widths, on the examples of the standards and on messages that end at a
  block boundary.

Deadlock is checked for taskpool and broker.  The other configurations say
`CHECK_DEADLOCK FALSE` because the system really may stop: calls are bounded, a loop has
ended, a handler has locked itself out, the loop's thread waits for a call that need not
come, peers and programs owe nothing, or the input of an algorithm is used up.

## 4. Fairness

Only what the scheduler and the handlers must do is fair: threads that can run do run,
tasks and handlers return (WF of the worker's, loop's and callers' steps once a call has
begun).  Nobody is obliged to push, publish, add, start, call loop() or terminate(), nor
a descriptor to become ready, a handler to throw or a thread creation to fail.

TimerDispatcher assumes more: WF of `Tick` (time passes, up to `MaxTime`), and SF of
`SelectTimeout`, that a loop which could time out again and again does so once.  The
code does not guarantee the latter: timers are looked at only when `select()` times out
(`select_mechanism.cpp:181`), so a descriptor that is always ready starves them.
`StartedIsSignalled` therefore says that the timers are served *if* the loop is not
saturated; the starvation itself is listed as a hazard.

Tcp assumes SF of `Trigger`, `Publish`, `Check`, `Detach` and `Announce`: the list is
looked at every round, tasks are taken in their order, and a thread that waits for the
broker's mutex gets it in the end although others take it meanwhile.  All other steps of
a thread that has begun are WF; a handler in `recv()` goes on when there is something to
receive, and nothing obliges its peer to send, so while one is `Blocked` nobody else need
be served. Http assumes the same of readiness, of refusals and of
the two steps of stop() that take the mutex; a client's read gives up (its ten waits of a
millisecond pass) necessarily only when nothing more can come, and a server's only at the
end of the connection.  Peers, programs and
users owe nothing in either.

## 5. The proofs

TLAPS checks the following for every value of the constants.

**TaskPoolProofs**, from `WorkerAssumption` (finitely many workers) and
`NoneAssumption`: `TypeCorrect`, `NoLostWakeup` (`[]WorkConserving`), `TasksPlacedOnce`,
`JoinIsBarrier`, `Refinement` (`Spec => ServiceSpec`), `WorkGoesOn` and `JoinGoesOn`.
The invariant is `IInv ==
TypeOK /\ FlagAgrees /\ HandAgrees /\ PoolAgrees /\ NoneAsleep /\ PlacedOnce /\
WorkConserving`.  `WorkConserving` alone is not inductive: a push relies on `_available`
to say whether the queue was empty (`FlagAgrees`), and a terminated queue must have no
sleepers (`NoneAsleep`); counting the coming workers needs the finite-set theorems.  The
refinement needs `PlacedOnce` (a task taken is executed by nobody else) and two lemmas
on `Head`, `Tail`, `Append`.  `WorkGoesOn` follows from `WorkConserving` and
`FlagAgrees`, `JoinGoesOn` from `NoneAsleep` and `PoolAgrees`.

**BrokerProofs**, from `DistinctAssumption`: `TypeCorrect`, `HandlersSerialised`,
`DetachIsBarrier`, `ListsFaithful`.  The invariant is `IInv == StateTypeOK /\ Serialised
/\ SubsAlive /\ DestroyIsBarrier`; `SubsAlive` (no list holds a method of an object that
is not alive) is what makes the copy of a new notify() free of destroyed objects, and
`Serialised` what makes the stacks empty when an object is destroyed from outside.
`ListsFaithful` is proved for the specification until its first move assignment.

**SelectMechanismProofs**, from `DistinctAssumption` and `CapacityAssumption`:
`InvHolds`, `TypeCorrect`, `TopicsUnique`, `NoLostWakeUp`, `NoEventLost`.  The invariant
is `IInv == TypeOK /\ JobsHeld /\ OnePerTopic /\ NeverSleepsOnChange /\ Accounted`;
`JobsHeld` (a worker between two tasks holds none, and one inside a task holds one) is
needed because an event's place moves from list to queue to worker and back.
`TopicsUnique` says more than that a topic is listed once: while a topic was added
only once, its event is at one place of all lists, queues and hands (`AtOnePlace`), so
that no two workers serve it at a time.  That is what Tcp and Http take for granted of
the loop when one task at a time is made of a descriptor.  The proof is one lemma per
way an event moves (`AddPlaces`, `DemultiplexPlaces`, `TakePlaces`, `ReAddPlaces`;
`PlacesKept` for the others).

**EventLoopProofs**, from `ThreadAssumption`: `TypeCorrect`,
`ReadyIsRunning`, `EndIsQuiet`, `PromisesSetOnce`, `NoneIsStuck`.  The invariant is `IInv == TypeOK /\
PointsAgree /\ PromisesCounted /\ LockAgrees /\ (regular => RegularRun)`.  `PointsAgree`
says which of loop() and terminate() a thread may be in and what it waits for,
`PromisesCounted` bounds the promises by the calls, `LockAgrees` gives `_lock` to the
threads that are inside it, and `RegularRun` says, for each place of the thread that
runs the loop, what pool, mechanism and promises are: the first three properties are its
consequences.  `NoneIsStuck` needs `EndInv` as well: until a call has made its promise
the last one has its value (`Settled`), nobody holds the future of a loop that is
starting (`Fresh`), so that whoever waits for the promise of the present run has told
its pool and its mechanism (`Awaited`), no worker waits for the end of its own loop,
and a loop that waits for its mechanism has one (`MechanismMade`).

**TcpProofs**, from `DistinctAssumption` and `BoundAssumption`: `Invariant`,
`TypeCorrect`, `OwnDescriptor` (`[]ReadsOwn`), `AnnouncedOnce` (`[]DisconnectedOnce`),
`CalledForACause` (`[]CalledForCause`), `NobodyForgotten`, for any number of connections,
workers and users.  The invariant joins `TypeOK` with seventeen parts.  `ThreadsAgree`,
`HandlersSerialised`, `InOneTask`, `EarlyUntouched`, `OpenedAlone` and `DestroyedAlone`
say where threads may be together; `NumbersKept`, `OwnersAgree` and `ClosersAgree`
follow the ownership of a descriptor through close() and the destructor; `OneEnds`,
`EndsAnnounced` and `DestroyedCloses` make the thread that reset `_connected` the only
one to announce; `StreamsGood`, `ReadinessKept` and `NoneCut` carry the readiness that
a task was made for into its handler, which is why the first read there does not block,
and an empty one is the end of the peer.  `SeenTo` says who will look at each endpoint next: its event is with the loop or
a task and its handler is attached, or a worker is about to register it, or a thread is
closing it; a descriptor whose endpoint is not connected is with the handler that has
just accepted it or with a thread about to give it back.

**TimerDispatcherProofs**, from `TimerAssumption` (times and intervals are numbers up to
`MaxTime`): `TypeCorrect`, `ListIsActive` (`[]OnlyActiveListed`), `SignalledOnce`
(`[]OneShotOnce`), `WakesInTime` (`[]NeverOversleeps`) and `Refinement`, for any users,
timers and number of calls.  None of the three invariants is inductive.  Users write a timer without the mutex, so
the invariant says who may: `CallsAgree` (one user per timer), `StartsUnlisted` (a timer
that is being started is on no list, so the loop does not read it), `TypesWritten`.
`StatusAgrees` relates a timer whose calls have returned to the list, with the exception
of the one that dispatch() has in hand, and `DispatchAgrees` says how far dispatch() has
come with it and which timers are still to be signalled.  That the loop does not
oversleep needs the byte of the changed event: `ChangesCounted` and `WakeAgrees` follow
it through the pipe, the worker and back, and `OrderKept` makes the first of the list
the earliest.  `SortedFacts` says what a sort keeps, whichever of the orders it chooses.

`Refinement` (`Spec => ServiceSpec`) needs more, `Overlaps` (`[]RInv`).  The loop's
thread reads an expiration, and a `stop()` without a lock may set type and expiration
before the thread stores the next one over it: a stopped timer then has a time again
while `stop()` waits for the mutex.  `StoppedStaysOut` is why nobody is signalled by it:
dispatch() only goes forward, so the position lies behind, and its final sort drops the
timer since its type is UNKNOWN.  `StoreAgrees` says that what is stored otherwise is
the next point of the grid (by `AdvancedGrid`, arithmetic on quotients), `PublishAgrees`
that it has not passed when the message is published, `CallsWritten` what the calls have
written, `BusyAgrees` that a timer in use has a caller, and `EpochPast` that the time
dispatch() was given has come.  `MappedHolds` spells out the mapping once for timers in
a call and once for the others; then there is one lemma per step that TimerService
sees (`BeginMaps`, `WriteMaps`, `ReturnMaps`, `HandlerStopsMaps`, `ExpireMaps`,
`AdvanceMaps`, `SignalMaps`, `SortMaps`, `TickMaps`), and `Invisible` for the rest.

**HttpProofs**, from `NoneAssumption` and `BoundAssumption`: `TypeCorrect`, `OwnAnswers`
(`[]OwnAnswer`), `StopIsABarrier` (`[]StopIsBarrier`), `RequestInOnePlace`,
`WaitingHasPromise`, `RequestNotForgotten`, for any clients, number of requests and
parts.  The invariant is `IInv == TypeOK /\
SocketsOwned /\ StopIsBarrier /\ ExchangesAgree`.  `OwnAnswer` speaks of the futures
that are complete, and says nothing of what is on its way; `ExchangesAgree` does.  For
each client that awaits its responses, the request or its response is at one of seven
places at a time (in the program, saved in the connector, at the opening of the
connection, on the way to the server, in its handler, on the way back, in the client's
handler: `InOnePlace`), it is the one of the promise, which nobody has set
(`OwnPromise`), and handlers read whole messages (`ReadsWhole`).  `SocketsOwned` says
who may close the socket under a handler, which keeps a server's handler from running
on for a peer that stop() has cleared.  That a request is at one place *at least* is a
second invariant, `KeptInv == IInv /\ PromisesAgree /\ RequestsKept`: a future that
waits is the one of the client's promise, also when requests overlap or a connection
ends (`PromisesAgree`), and the request of a client to which nothing has happened is
carried by somebody, or its connection has ended and on_disconnected() is to come
(`RequestsKept`).

**StreamBufferProofs**, from `SizeAssumption` (the put-back area is smaller than the
buffer): `TypeCorrect`, `NothingLost` (`[]Conserved`), `ArrayKept` (`[]StaysInArray`),
for buffers of any size and any number of characters, failures and writes.  No run
checks `TypeCorrect` on its own, as it is proved here.  The invariant is `IInv == TypeOK /\ PointerKept /\ TakenAgrees /\ Conserved /\
StaysInArray`.  `PointerKept` bounds the put pointer by the failures that were cleared,
so that `Putbacksize` of them are harmless; `TakenAgrees` (what the reader took last is
the start of its area) is what makes unget() give back the right character.  A read
needs to know what `FlattenSeq` makes of any number of writes, and that is a recursive
definition.  The library's induction theorems take an operator and cannot be used; the
module proves by a least counterexample instead: `LeastNumber`, from the
well-foundedness of the naturals (`WFMin`), gives `NumbersByInduction` over a set of
numbers, `JoinExists` and `JoinsAgree` the recursive function that the community module
chooses, and `FlattenAppend`, `FlattenTail` and `FlattenOne` what the actions need of it.

The bounds of the runs (`MaxDepth`, `MaxDup`, `MaxCalls`, `MaxLoops`, `MaxStops`,
`MaxFd`, `MaxData`, `MaxTime`, `MaxRequests`, `MaxPut`, `MaxClears`, `MaxPackets`) are
arbitrary in the theorems, so they are not bounds of the proofs.

Liveness is beyond the prover, and so is ENABLED.  What liveness rests on is safety, and
that part is proved, without ENABLED: that what must happen is never forgotten, and that
somebody can go on, with guards spelled out (TLC confirms on the instance of the run
that those of `NoneIsStuck` are those of the actions).

| model-checked | its safety part, a theorem |
|---|---|
| `QueuedRuns` | `WorkGoesOn`: an open queue with tasks and a live worker has a worker that is not asleep |
| `WaitReturns` | `JoinGoesOn`: after terminate() no joined worker is asleep |
| `SignalledIsTaken`, `TerminateEnds` | `NoLostWakeUp`: the loop does not sleep on what is out of date without a wake-up under way; `NoEventLost` |
| `StartedIsSignalled` | `WakesInTime`: select() does not sleep past the first expiration; `ListIsActive` |
| `TerminateEndsLoop` | `NoneIsStuck`: while a loop starts or is to end, or somebody is in terminate() or waits for its future, some thread goes on |
| `EndIsServed` | `NobodyForgotten`: every descriptor in use has somebody to see to it |
| `Answered` | `RequestNotForgotten`: a request that waits is with somebody, or its connection has ended and the client is to hear of it |

Only model-checked:

* the liveness properties of the left column, as such;
* `Delivers` and `Computes` of MCAlgorithms, whose modules reach RECURSIVE
  operators, which the prover cannot use;
* the properties that are violated.

## 6. Where code and documents disagree

Three of these are runs that show a counterexample:

* `select_removed`: `remove()` (`select_mechanism.cpp:111`) looks on the list only.
  While a worker handles the event it is in its task, and comes back afterwards, though
  `event_loop.h:104` calls remove() thread-safe and `event_loop_test.cpp:248` expects a
  removed handler not to be called.
* `timer_restart`: `insert()` (`timer_dispatcher.cpp:51`) lists an active timer a second
  time; a once-off timer is then signalled twice, against `timer.h:48`.
* `event_loop_heard`: a terminate() between the start of loop() and the start of its
  mechanisms (`event_loop.cpp:226`) is forgotten: the workers end and the loop stays.

Others are in the models (they are why a property has its condition) but have no run of
their own:

* Broker: an object that an earlier handler of the same message destroys is still called
  (`message.cpp:132`), though `object.h:65` recommends detach() in the destructor for
  exactly that; a move assignment can list one subscription twice; static functions
  cannot be told apart; a handler that waits for another thread's handler waits for
  ever.
* SelectMechanism: the task's stale copy of an event replaces a newer one of the same
  topic; a handler that throws loses its event; a full pipe stops the loop and the
  thread that holds `_lock`; terminate() followed at once by initiate() leaves the
  latter in join(); an exception of a timer's handler leaves the loop's thread function,
  and so does an interrupted `select()` (which is not in the model).
* TimerDispatcher: `on_expired()` may overwrite the expiration that `stop()` has just
  set, though stopped timers are to have max(); an expiration that equals the time of the
  dispatch is left as it is (`timer.cpp:110`), where the comment at `timer.cpp:101` says
  "until the next point past the time_point", so that the timer is signalled twice for
  it; a start that races with the end of a once-off timer is lost; a timer's handler
  that starts or stops a timer locks a mutex its thread holds; `wait_duration()` may
  dereference the begin of an empty list.
* EventLoop: after a failed thread creation the next loop() takes the partial pool for a
  running one, and is ready without workers; a terminate() that overlaps a restart stops
  it half way or replaces its promise; the promises are assigned and set without a
  common lock.

In the modules below, the cases are conditions of the property or members of `past`.

TCP and HTTP:

* `communicator.h:83` calls a communicator the sole owner of its device, but close()
  keeps the number and the destructor closes it again: by then it may be another
  connection's, which is cut and read by the wrong handler.  Two threads in close() both
  announce disconnected().  A failed accept() ends the acceptor.  When a handler of
  connected() closes, open() goes on and registers the closed communicator.  A refused
  connection is reported to nobody.
* `tcp.cpp:104-106` says that a read blocks for ten waits of a millisecond at most.  That
  holds for the connector's socket; an accepted socket is a blocking one, so a handler
  that reads further than what arrived waits in `recv()` without a limit, with the
  broker's mutex, and no other connection is served until its peer sends or ends.  On the
  connector's side such a read gets the end of the stream, and the connection is closed
  under a living peer.
* A client serves one connection: its connector's socket is moved out and the next
  connection needs a new client.  It has one promise: an overlapping request replaces
  it.  A disconnection leaves the future pending.  The server never forgets a peer, and
  does not start again after stop().  A handler that waits for another handler waits
  under the broker's mutex.
* Request bodies without Content-Length become the next request.  `message.cpp:219`
  keeps a static buffer that threads share.
* Heads: a URI with "," is not read back; decoded spaces are written as they are; host
  and scheme of an absolute request URI are lost on writing; "12a" passes for a number;
  values with tabs or bytes from 127 on are refused; "Connection: close, x" and a
  trailing space throw; Content-Type is not registered; Date is off by an hour in summer
  time and takes trailing text.

Streams and datagrams:

* A short write makes the next flush send the head again; a flush of nothing sends an
  empty datagram, which the reader takes for the end; a datagram longer than the area is
  cut; more failed writes that a program clears and repeats than the put-back area has
  characters let the put pointer run past the array (`streambuf.cpp:99`, `Overrun`).
* UDP: reader and writer share one endpoint, so a reply that is held back goes to the
  next sender, and after ostr(endpoint) a plain ostr() goes to that endpoint too,
  against `udp.h:164`; a stream that failed once never recovers while readiness is still
  published; its socket is a blocking one too, so a handler that reads further than the
  datagrams that arrived waits with the broker's mutex; close() neither detaches nor
  announces.
* TLS: server_name counts 1 instead of 3 bytes beside each name, and the certificate
  types 4 instead of 5; server_certificate_type reads the client's type, heartbeat is
  constructed with the type of signature_algorithms, cookie writes a length of two bytes
  and reads one, three classes throw in write, and server_name cannot be made from a
  view.

Cryptography:

* Cipher streams: a GCM text of full blocks has no tag (`block_cipher.h:944`); a flush
  at a block boundary makes the stream bad, and one within a block cannot be decrypted;
  partial writes of the chained buffer are dropped; a second text is not padded; close()
  of a stream that was read writes padding.
* GCM: the counter carries through 64 bits (`types.cpp:49`) where the standard's stops
  at 32, so that some initialization vectors that are not of 12 bytes give another text
  and tag; decrypting does not compare the tag.
* Digests: a failed write of the chained buffer hashes the characters twice; `shake.cpp`
  switches at 128 and 256 where capacities are 256 and 512; SHA3-384 is not registered;
  HKDF does not refuse more blocks than its counter of one byte counts.

Integers, buffers, log:

* Bigint: -300 + -5 is -49, 5 - -300 is 49, -3 * -257 is 3, 1000 / 200 is 1 after a
  write before the remainder; equality reads one byte too far; zero times a negative is
  not zero; shift_right by more bytes than there are leaves the array; `bigint("")` is
  not initialised.
* Buffer: `buffer.h:446` promises zeros, but a buffer that shrinks and grows shows its
  old bytes; inserting a range of itself reads shifted or freed bytes; a reader of a
  bufferstream can read the room behind the text; an odd nibble is lost; a buffer that
  was moved from holds a null pointer.
* Log: the first line of a thread bears a number one higher than its later ones
  (`log.h:77`); the severity of a message that was not flushed is replaced by the next
  one's; targets and path are read under two locks; an object keeps the severity it read
  first, though `log.h:53` says any message.

Texts:

* XML queries: explicit axes never work; "//" is taken for "/"; a separator at the end,
  and any rest such as "[1]", is ignored; names with "_" or "." are refused; an error
  after text() may read an unset message; absolute paths start at the node; unknown
  functions select nothing; copying an empty query dereferences null.
* Namespaces: a definition replaces one of the same URI, not of the same prefix (against
  the comment at `document.cpp:105`); of two prefixes for one URI in an element the
  second is dropped; attributes without a prefix take the default namespace;
  `attribute.cpp:199` tests `!key2` twice; resolved_ns returns null where
  `element.h:175` promises the unresolved definition.
* JSON: "nfalse", "ftrue", "n5", "-", "1e" and "01" are accepted; `\n`, `\r` and `\t`
  become form feed, tab and "t", `\f` and `\u` are unknown; strings are written without
  escapes; the 129th character of a string is written behind `buf[128]`
  (`json.cpp:166`), before the array is emptied (`Overrun`, after which nothing is
  claimed); a number at the end leaves the stream failed;
  operator!= equals operator==.
* UTF: the conversions to a codepoint return 0; surrogates are accepted; a codepoint at
  the end of a stream fails it, and one before a hexadecimal digit reads as another;
  numeric references throw for plane 16 and take bit 23, surrogates and numbers that
  wrap; the tool of the entities gets every second plane wrong, and writes one element
  past `shifts`.
* Character references: an ampersand that begins no reference leaves the tables; "&#;"
  inserts NUL; a text ends at its first NUL; html's escape() changes nothing, and the
  exception of html's test "Ambiguous ampersand exception" is never thrown.
* URIs: parameters are decoded twice, and the last is scanned again when its value has
  "="; a key without "=" runs over "&"; path and query are written without encoding;
  user information that was encoded is not read back; a port is lost for unknown schemes
  and wraps at 16 bits; a ":" at the start is dropped; "/." is not stable; a relative
  path with ":" in its first segment is read as a scheme; authority of a relative URI is
  not written; two `++iter` of decode stand in one expression; `table[ch]` is out of
  range from 0x80 on.

Seen while reading code that is not modelled: iterators of poly_map own the pair that
`->` makes (`poly_map.h:133`) and delete it (`:116`), so that copying one deletes it
twice and a second `->` leaks; poly_vector's pop_back() does not compile; `+`, `-` and
the difference of the reverse iterators in `internal/iterator.h:493` go the other way
than `++` and `+=`.

Hazards that no property covers, as they do happen: a full pipe stalls the loop
(`select_pipe.cpp:133`), a saturated loop starves the timers
(`select_mechanism.cpp:181`), and a second message that came with the first waits in the
stream buffer unannounced (`tcp.cpp:740`).  Others happen in the models and are what a
property names as its condition: destruction inside a handler of the same message
(`message.cpp:132`), an exception of a handler (`select_mechanism.cpp:375`), an initiate()
that overtakes the end of the loop (`:125`), a timer's handler that calls its timer
(`timer.cpp:185`), a number that is closed twice (`socket.cpp:758`), a failed accept()
(`tcp.cpp:506`), and the requests that are never answered (`client.cpp:124`).

## 7. What is done, and what stays out

Done: all modules above, and the proofs of section 5.  Every safety property of the
concurrent modules and of the stream buffer that a passing run checks is a theorem for
every value of the constants, both refinements (TaskPool of TaskService, and timer::impl
with timer_dispatcher of TimerService) are proved step by step, and so is the safety
part of every liveness property.

Not proved: liveness itself; `Delivers` and `Computes`, which are recursive definitions
over data, checked by TLC within the bounds of MCAlgorithms; and what the code does
outside the conditions of the properties (calls of loop() and terminate() at wrong
moments, numbers closed twice, timers started while active, requests that overlap),
which section 6 describes.

Not modelled, beyond the table in section 1: the setting up of sockets and their
options, which are single calls of the operating system; generated tables of entities,
scanners and parsers (some 8,700 lines of `html`), which are data; the declarations and
comments of the headers, which hold no behaviour of their own; the Windows and other
variants of the same classes; and the handshake of TLS, of which the repository has only
the messages.  What remains of the modelled files is, for the most part, tracing,
wording, conversions to text and code that is compiled out.
