# A TLA+ model of mutiplex

mutiplex is a small C++ network library: one event loop per thread, non-blocking
TCP connections on it, an acceptor and a connector that create connections, and a
server that runs several loops. This directory models it in TLA+, checks the
models with TLC on small instances, and proves with TLAPS, for every value of the
constants, every safety property the runs check but one: the refinement of the session
a connection's user sees. Liveness is left to TLC.

## 1. The system

| part | state | operations | meets the others through |
|---|---|---|---|
| `EventLoop` | `running_`, `mutex_` with `pending_callbacks_`, `task_queue_`, the eventfd, `epoll_events_`, `connections_`, `recv_buffer_` | `run`, `post_callback`, `stop`, `on_new_connection`, `remove_connection`, the `epoll_ctl` wrappers | calls `handle_events` of every ready source; runs the closures others post |
| `EventSource` | `state_`, `interest_ops_`, `ready_ops_` and the kernel's registration | enabling and disabling operations, `handle_events` | registers with the loop; calls back its connection, connector, acceptor |
| `Connection` | `state_`, `buffer_out_`, its event source, the references that keep it alive | `close`, `force_close`, two `write`s, the event handlers | posts closures to its loop; the loop's map holds it; calls the user |
| `CircularBuffer` | `data_`, `capacity_`, `in_`, `out_` | `put` (with `resize`), `get`, `write_to_fd`, `clear` | the output buffer of a connection |
| `ByteBuffer` | data, `position_`, `limit_`, `mark_` | the methods of a Java-style buffer | `recv_buffer_` of the loop, payload of `write` |
| `TcpServer` | `io_loops_`, `threads_`, `count_down_` with `mutex_` and `cv_` | `run`, `shutdown`, the destructor | creates loops and acceptors on its threads, stops and deletes loops |
| `Connector` | `fd_`, its event source | `start_connect`, `handle_connected`, `handle_error` | hands its descriptor to a `Connection` |
| `Acceptor`, `ServerSocket` | the listening socket and its source | the accepting callback; `bind`, `accept` | created and destroyed on an I/O thread; hands descriptors to `on_new_connection` |
| `InetAddress` | `ip_` and `port_`, in network order | parsing, formatting, `resolve` | given to `bind` and to connections |
| `Slice` | a pointer and a size | comparison, prefixes | nothing in the library uses it |
| `Timestamp`, `callbacks.h`, `Debug.h` | none that matters | clock, aliases, logging | — |

What is hard in it:

* **threads**: `post_callback` and `stop` race with `run`; `write` tests `state_`
  without a lock; `shutdown` races with the start and the end of the server;
* **lifetime**: a connection lives as long as the map, a user or a queued closure
  holds a `shared_ptr`, but event sources and one closure use plain pointers;
* **order**: what `close`, `force_close` and `write` do happens later, in closures
  that may run after the connection was closed by another one;
* **the kernel**: short writes, end of file, resets, an attempt that fails after
  epoll reported it writable, an `accept4()` that fails, descriptors whose numbers
  are reused while `connections_` is keyed by them;
* **arithmetic**: ring counters that wrap at 2^32, capacities near 2^31.

`PROJECT.json` lists each such hazard at its line, with the properties about it.

## 2. The modules

The states of a module are those of one object and of the threads that use it; a
comment at each variable names the member it stands for. History variables, marked
*history*, are read by properties only (and `accepted`, `aborts` and `posted` also carry
the bounds). Operators under the heading *Mutants* are plausible slips; no action uses
them.

**EventLoop** — the owner thread walks through the statements of `run()` (`phase`),
each remote thread through `post_callback()` (push under `mutex_`, then notify and
unlock) and `stop()` (flag, then notify). A callback is `[by, n]`, the n-th one of
a thread. Any code on the owner thread (a handler, a callback, a task, code before
`run()`) may post one more callback and may call `stop()` (`OwnerCode`).
`epoll_wait` returns any non-empty set of sources that fits `epoll_events_`, the
eventfd among them whenever its counter is not zero unless others fill the array;
it may time out when nothing is ready, and may fail, which ends `run()`.

**EventSource** — operators on a record with the library's view (`state`,
`interest`) and the kernel's (`watched`, `armed`). `epoll_ctl` calls that fail are
logged by the code and have no effect here. Used by Connection and Connector.

**Connection** — one connection from `on_new_connection()` to its deletion, on a
loop that runs the cycle of EventLoop restricted to it (`Poll`, the steps of
`handle_events()`, `Swap`, `RunCallback`, `RunTask`). The user is a constant:
`Scripts` gives the calls it may make in each callback, `Holders` who may keep a
`ConnectionPtr`, `RemoteCalls` what another thread may call. A closure is a record
with what it calls, whether it captured `self` or `this`, and a length, which is at
least one byte for a `write()`. `Accepted` is what a script posts: all of it but the
`write()`s that a closed connection refuses (`Refused`). `Release`
ends every step that may drop a reference: the object is deleted when none is left.
Undefined behaviour and failed assertions end the run (`fault`); the cfgs switch
deadlock checking off for that reason.

**Session** — the same connection as its user sees it: established, bytes accepted and
handed to the socket while it is open, closed exactly once, freed after that. What
`write()` accepted is at every moment taken by the socket or still unsent: `Send` moves
exactly the bytes the socket took, and an open connection closes only with nothing unsent.
Only one that fails (reset, or with a `force_close()` queued by a failed write) may give
unsent bytes up, and `write()` closures that come after its closing are discarded.
`Status` and `Unsent` in Connection map its state: `Unsent` counts the bytes in
`buffer_out_` and in all `write()` closures still queued, in every state; an object
deleted without `closed_callback_`, or closed twice, has a status Session does not know.

**Acceptor** — one loop with many connections. A connection is reduced to what it does
to the others: the closures posted for it, its entry in `connections_`, its descriptor,
the `ConnectionPtr`s that keep it alive; which of the branches of `handle_events()` and
of the closures that look at its own bytes is taken is a free choice. The map is a
function from descriptors and -1, since a failed `accept4()` makes a Connection with
descriptor -1; erasing and looking up go by number, as in the code. The kernel has an
accept queue and a descriptor table that gives out the lowest free number. `Release`
deletes, at the end of every step, the connections without references, which frees
their descriptors. The user takes `ConnectionPtr`s in `established_callback_`, lets go of
them in any callback, and makes one call per callback. Letting go of the last one of a
closed but still watched connection in an event callback deletes an event source that
`active_events` may still hold; the loop then follows a dangling pointer (`HandleStale`),
which ends the process. `NoStalePointer` says that nothing else leaves one. One restriction
on the user is an assumption the code makes silently: it does not `close()` a closed
connection in `closed_callback_` (the loop over `task_queue_` would never end). A batch may
leave the listening socket out, as one that fills `epoll_events_` does. A peer may give up
between `epoll_wait` and `accept4()`, at most `MaxAborts` times.

**CircularBuffer** — the ring with unsigned integers of `Width` bits and memory as a
function whose fresh cells are `Junk`. Powers of two are a recursive function,
`TwoTo`, about which TLAPS can reason (it knows nothing of `^`). The payload is a periodic stream, so that a
lost, repeated or displaced byte shows. Behaviours end when `resize()` goes beyond its
allocation; the branch for a full buffer copies nothing beyond it, but its counters then
claim more bytes than there are, and the model ends there too. **ByteStream** is what such a buffer
promises: bytes come out once and in order.

**ByteBuffer** — every method as an operator on a record, and the reading callback's
`clear, read, position, flip` as one step (`Receive`). Assertions are guards: the
caller's obligations. `skip()` is called with a number that is not negative. The capacity, which the code stores in network order in front
of the data and converts back on every read, is a constant.

**TcpServer** — main in `run()` and then in the destructor, the I/O threads in
`run_cb`, and one call of `shutdown()`. main holds `mutex_` from its test of `count_down_`
until its wait has begun (`main = "tested"`), two steps; the critical section of an I/O
thread is one. A loop is what EventLoop shows of it: it
ends after `stop()` or when `epoll_wait` fails. The use of a NULL or deleted loop
and an exception on a thread end the process.

**Connector** — several Connectors and the descriptor table with numbers that are
reused; the connection a Connector creates appears as the owner of the descriptor.
`start_connect()` is called at most once per Connector, as the programs of
`benchmark/` do, and a Connector is not deleted while its event is among the
`active_events`: neither inside its own callbacks nor in the handler of another source of
the same batch.

**Slice**, **InetAddress** — pure operators. Slices point into one memory and may
overlap; `memcmp` is the difference at the first place where the bytes differ. A text
is what the parser tells apart: whether it has a colon, the address before it, the
number after it. `resolve()` is its loop: `LoopEnd` is a recursive function that steps
through the results of `getaddrinfo()`.

The MC modules hold what only TLC needs (the users of a connection).

Under *Inductive strengthening* the modules end with the invariants that the proofs
use. They are no properties of their own; TLC was run on each of them before it was
proved.

## 3. The runs

| run | shows | bounds, and why they suffice |
|---|---|---|
| EventLoop | `NoLostWakeup`, `NothingLost`, `InvokedInOrder`, `EpollEventsBounded`, `PostedIsInvoked`, `StopEndsRun` | owner and two remote threads (contention for `mutex_`), two posts each (order), eventfd limit 2 (reached), `epoll_events_` of 1 with two sources (it overflows and grows) |
| ConnectionAny | `EpollAgrees`, `WritingHasBytes`, `BytesHaveWriter`, `ClosedIsFinal` | a user that makes any call in any callback, on both threads; two accepted bytes, two waiting closures: one closing and one writing closure in every order |
| ConnectionWriter | `NoUseAfterFree`, `DispatchedWhileOpen`, `ClosedIsFreed`, `ImplementsSession`, `ResetCloses` | users that write in every callback, with either `write()` (in the error callback with the one that holds a reference), and leave closing to the library, of which the echo server is one; six bytes in writes of one or two, so that short writes happen, and four waiting closures, so that several writes wait together with the library's closing ones |
| ConnectionAssert, ConnectionNull, ConnectionDatetime | violations, see below | the user that shows each |
| CircularBufferRing | `Window`, `CapacityBounded`, `ImplementsStream`, `OverrunOnlyAtLimit` | 4-bit integers: the counters wrap after sixteen bytes and the largest capacity is 8, so wrap, growth by several resizes and the limit all happen; every initial capacity; puts and gets of up to 5 bytes; a payload of period 3, which no displacement by a power of two preserves; states are compared without `io`, which no action reads |
| CircularBufferAppend | violation, see below | 4-bit integers |
| ByteBuffer | `Ordered`, `ReadsWhatWasPut` | three bytes of two values |
| TcpServer | `RunReturnsLast`, `LoopOutlivesAcceptor`, `NoSleepAtZero`, `ShutdownEnds` | three I/O threads |
| Connector | `NoForeignClose`, `OneOutcome`, `HandedOver`, `AttemptReported` | two Connectors, two descriptors: numbers are reused |
| Acceptor | `NoStalePointer`, `MapHoldsTheOpen`, `NoDescriptorLeak`, `BacklogTaken` | two descriptors, so that two connections share a batch, numbers are reused and descriptors run out; the user keeps one `ConnectionPtr`, so that a closed connection outlives its map entry and can be dropped in another one's callback; one peer that gives up, after which an `accept4()` with free descriptors fails; five objects, so that the next accept always finds one; one user call may wait, besides those of the library |

Each passing run also checks its module's `TypeOK`, except where another run of the
same module does. The comments in the modules state every property in words.

Four runs find the code in disagreement with itself:

* **ConnectionNull**: `force_close()` uses `buffer_out_`, which is null until the
  first write, and which `has_bytes_to_write()` expects to be null. A reset by the
  peer before anything was written is enough.
* **ConnectionAssert**: `force_close()` sets the interest to 0 without telling epoll
  and empties the buffer. If a user keeps the `ConnectionPtr`, the next writable
  event fails the assertion of `handle_write()`.
* **ConnectionDatetime**: a short write while disconnecting disables writing, and
  the rest of the bytes the connection was kept for is never written.
* **CircularBufferAppend**: `resize()` of a full buffer whose content begins at the
  start of the memory forgets to append the new bytes. `ImplementsStream` names this
  step, and the overrun beyond 2^31, as the only ones that are not steps of a stream.

`ConnectionNull` is why ConnectionWriter and ConnectionAny end some behaviours early:
after the fault there is no process. `ClosedIsFreed` allows for that.

### Fairness

* EventLoop: weak fairness of the owner's own steps, of the second half of
  `post_callback()` and of `stop()`: threads that run keep running. I/O, the timeout
  and failures are never required, so the liveness properties hold although only the
  eventfd wakes the loop. `mutex_` needs no more than weak fairness because the
  owner asks for it only a bounded number of times while others hold it: posts are
  bounded.
* Connection: weak fairness of the loop thread, including `epoll_wait`, which returns
  after one second at the latest. The peer and the other thread owe nothing.
* Acceptor: weak fairness of the loop thread, again including `epoll_wait`. New peers,
  peers that give up and the end of `run()` are never required. The listening socket is
  level-triggered and ready while its queue is not empty, but a batch may be too small for
  all that is ready; since every batch that fills `epoll_events_` doubles it
  (`EventLoop.cpp:147`, and `EpollEventsBounded` says where that ends), it cannot be left
  out for ever: strong fairness of `PollListener`.
* TcpServer: every thread, and a loop whose `running_` is false ends (`StopEndsRun`).
  Strong fairness of `CountDown`: a thread that asks for `mutex_` gets it in the end,
  although main, woken spuriously, may take it again and again.
* Connector: the loop handles ready events, and TCP decides an attempt in the end.

## 4. The proofs

Each proof module extends the module it is about; `tlapm` checks every leaf. The
theorems hold for every value of the constants that the module's ASSUME admits. The
same constants bound the counters (posts, accepted bytes, waiting closures), so every finite
bound is covered, however large.

| module | theorem | states |
|---|---|---|
| EventLoopProofs | `TypeCorrect`, `WakeupNeverLost`, `CallbacksInvokedInOrder`, `NoCallbackLost`, `EventArrayBounded` | `TypeOK`, `NoLostWakeup`, `InvokedInOrder`, `NothingLost`, `EpollEventsBounded` |
| ConnectionProofs | `TypeCorrect`, `EpollInSync`, `WaitsWithBytes`, `BytesNotStranded`, `StaysClosed` | `TypeOK`, `EpollAgrees`, `WritingHasBytes`, `BytesHaveWriter`, `ClosedIsFinal` |
| | `CarefulNeverFreedInUse`, `CarefulDispatchedWhileOpen` | `NoUseAfterFree`, `DispatchedWhileOpen`, under `CarefulUser` |
| CircularBufferProofs | `TypeCorrect`, `WindowFits`, `OverrunAtLimit`, `ResizeProportional`, `BytesInOrder` | `TypeOK`, `Window`, `OverrunOnlyAtLimit`, `CapacityBounded`, `ImplementsStream` |
| ByteBufferProofs | `TypeCorrect`, `MarkPositionLimit`, `BytesRoundTrip` | `TypeOK`, `Ordered`, `ReadsWhatWasPut` |
| TcpServerProofs | `TypeCorrect`, `RunReturnsAfterLoops`, `AcceptorGoneFirst`, `LastWakeupNotLost` | `TypeOK`, `RunReturnsLast`, `LoopOutlivesAcceptor`, `NoSleepAtZero` |
| ConnectorProofs | `TypeCorrect`, `ClosesOnlyItsOwn`, `ReportedOnce`, `HandOverComplete` | `TypeOK`, `NoForeignClose`, `OneOutcome`, `HandedOver` |
| AcceptorProofs | `TypeCorrect`, `PointersLive`, `OpenConnectionsInMap`, `DescriptorsKept` | `TypeOK`, `NoStalePointer`, `MapHoldsTheOpen`, `NoDescriptorLeak` |
| ValueProofs | see below | what the value classes compute |

### EventLoop

Assumed: finitely many sources, limits of at least one.

* `NoLostWakeup` only speaks about the moment before `epoll_wait`, which is not
  inductive: `WakeInv` says for every moment that what is pending is announced by the
  eventfd, or its thread still holds `mutex_`, or `run()` has yet to reach its swap. It
  is inductive because the push precedes the notification and draining the eventfd
  precedes the swap.
* `QueuesInOrder` is behind `CallbacksInvokedInOrder` and `NoCallbackLost`: `TaskInv`
  (`task_queue_` is exactly the owner's outstanding callbacks, consecutive) with
  `PendingInv` (the vector being run comes before what is pending, both in posting
  order per thread, and together they cover what is outstanding). That a callback runs
  right after its predecessor is not visible in either queue alone, hence the
  conjunction over both.

### Connection

For every user: every set of scripts of calls in each callback, every call of another
thread, any holders. The one restriction is `write()` of at least one byte (section 5).

* `OpenInv` is the inductive invariant. `EpollAgrees`, `WritingHasBytes` and
  `BytesHaveWriter` need each other, and two facts more: a connection that is not closed
  is in the map, hence alive, so `Release` cannot free it in the middle of a handler;
  and a closed one has nothing to write, so the closures that are still queued leave it
  closed (`StaysClosed`).
* `NoUseAfterFree` does not hold for every user: `write(const void*, len)` captures
  `this`, and a `ConnectionPtr` kept for long reaches a closed connection. `CarefulUser`
  is what the library silently expects: the user keeps no `ConnectionPtr`, and does not
  call that `write()` behind a `close()` or `force_close()` of the same callback nor in
  `error_callback_`, where a `force_close()` is queued already. The echo and datetime
  servers satisfy it, which the ASSUME `BenchmarksAreCareful` of MCConnection lets TLC
  confirm. Under it `LifeInv` is inductive: behind every closure that closes the
  connection all closures are references, so a closed connection lives exactly until
  its queue is empty, and the queue is empty before `epoll_wait`.

### CircularBuffer

For every width of at least two bits, every initial capacity, every length a put or a
get may have, every payload.

* `CircularBufferInvariant`: `TypeOK` and `Window` are inductive together. The lemmas
  under it are about unsigned arithmetic: every power of two up to the capacity divides
  2^`Width` (`Divides`), so masking commutes with the wrapping addition (`MaskedAdd`);
  `RoundupFacts` gives what `roundup_pow_of_two()` returns.
* `BytesInOrder` is the refinement of ByteStream, one lemma per operation (`PutContent`,
  `ResizeContent`, `TakeContent`, `WriteToFdContent`). Each shows where in the memory
  the i-th byte of the content is before and after the step, in the one or two pieces
  that `memcpy` moves. It is the property as the run has it, so the two steps in which
  `resize()` goes wrong are excepted here too.

What `TwoTo` computes needs an induction. The library's induction theorems take an
operator as a parameter and are of no use to the installed provers; `LeastElement` and
`UpTo` state induction for *sets* of numbers, which has no such parameter.

### ByteBuffer

`BufferInvariant`: for every capacity `TypeOK`, `Ordered` and `ReadsWhatWasPut` are
inductive together. The order of the indices keeps `put` and `get` inside the memory,
and that the content is what was put bounds `reset` while filling.

### TcpServer

For every number of I/O threads, at least one. `CountsThreads`: `CountInv` says that
`count_down_` is the number of threads that have not counted down (`Counting`), and how
far main may be for it. `NoSleepAtZero` is a part of it, because the wakeup that it
promises is what main's next step relies on; it is inductive because no thread can count
down between main's test and its wait. `CoveredShutdownSafe` adds that a
`shutdown()` that began after all loops were published meets no null entry.

### Connector

For every set of Connectors and of descriptor numbers, finite or not.
`ConnectorInvariant`: `AttemptInv` (who watches `fd_` at each stage of an attempt) with
`OwnerInv` (the descriptor table is exactly what the Connectors and Connections hold).
Neither is inductive alone: that a descriptor is closed once follows from who reacts to
the event, and that the event is not one of a reused number from the table.

### Acceptor

For every finite set of descriptors, as a process has, and as many Connection objects
as entries, kept pointers and the next accept need. `AcceptorInvariant`: `RefInv` (an
object exists exactly while something refers to it), `FdInv` (the table, `fd_` and the
map's keys agree) and `BatchInv` (what is left of a batch is still kept by the map or
the user, or was let go of by the user in this very batch, `dropped`). `FdInv` is why erasing by number never hits the wrong connection: the number
is reused only after the object is deleted. `FreshExists` counts the objects, so that
`accept` always finds one.

### Values

`ValueProofs`, for all memories, sizes and addresses:

* `CompareIsOrder`, `CompareZeroIsEqual`, `CompareAntisymmetric`, `CompareTransitive`:
  `Slice::compare()` is the lexicographic order, a total one, and agrees with
  `operator==`. `MemcmpSign` reduces the sign of `memcmp` to the first place where the
  bytes differ, which exists because the naturals are well-founded.
* `PrefixTakenOff`: `starts_with()` is the prefix relation and fits `remove_prefix()`.
* `AddressRoundTrip`, `PortWraps`: the constructor and `to_string()` are inverse, byte
  order included, and a port in a text counts modulo 2^16.
* `ResolveFirstReachable`: what `resolve()` returns. `LoopFindsFirst` shows where its loop
  ends: that the recursive function exists, by giving it explicitly, and by induction from
  the last result that it is the first one that connects.

### Only model-checked

All liveness properties, since fairness and ENABLED are beyond the prover:
`PostedIsInvoked`, `StopEndsRun`, `ClosedIsFreed`, `ResetCloses`, `ShutdownEnds`,
`AttemptReported`, `BacklogTaken`. And `ImplementsSession`, whose mapping adds up the
lengths of the queued closures (section 6). Only proved: Slice and InetAddress.

## 5. Not modelled

Time and logging: `Timestamp` reads the clock and its values are only passed through.
The socket options of `ServerSocket`. Who owns the buffer given to
`write(const ByteBufferPtr&)`: the closure reads it later, and nothing in the repository
says whether the caller may go on using it. `start_connect()` called twice. Signals:
`SIGPIPE` and its disposition are the program's, `EINTR` appears as a failing
`epoll_wait`. A `ConnectionPtr` used after its loop is deleted. `write()` of zero bytes. `skip()` of a
negative number, which its assertion lets through. A `Connector` deleted while its event
is in the batch being handled, which leaves a dangling pointer as dropping a
`ConnectionPtr` there does.
The connections of Acceptor and the bytes of Connection are not in one model: together
they exceed what TLC can explore, and the properties of either do not need the other.

## 6. Plan

1. *Done*: EventLoop, EventSource, Connection with Session, CircularBuffer with
   ByteStream, ByteBuffer, TcpServer, Connector, Acceptor, Slice, InetAddress, their
   runs, the proofs of section 4.
2. The refinement of Session (`ImplementsSession`) for every user that only writes, on
   `OpenInv` and `LifeInv`: a lemma on what an append and a removal add to the recursive
   `LenIn`, then one step of Session or a stutter per action.
