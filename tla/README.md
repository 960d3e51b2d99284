# QuantEngine: specification, model checking and proofs

QuantEngine is the beginning of a trading exchange in C++20: a matching engine
with its limit order book, and the infrastructure under it (a lock-free queue,
a memory pool, an asynchronous logger, TCP sockets over epoll). This directory
holds TLA+ modules that model it, the TLC configurations that check them, and
TLAPS proofs.

- `tlc -workers 2 -config <file>.cfg <module>` runs a check,
- `tlapm <module>.tla` checks the proofs of a module.

`PROJECT.json` lists the components, runs, theorems, hazards and findings, and
maps each definition to the lines it models.

## The system

| Component | State | Operations | Talks to |
|---|---|---|---|
| `LFQueue` (include/lf_queue.h) | a ring, two atomic indices, an atomic counter | getNextToWriteTo, updateWriteIndex, getNextToRead, updataReadIndex, size | one producer and one consumer thread that use its pointers |
| `MemPool` (include/mem_pool.h) | blocks with a free flag, a cursor | allocate, deallocate, updateNextFreeIndex | its owner, one thread |
| `MEOrderBook` (src/me_order_book.cpp) | two pools; a ring of price levels per side, a ring of orders per level; a price table; a table of client order ids | add, cancel, checkForMatch, match and their helpers | calls back into `MatchingEngine` to send responses and market updates |
| `MatchingEngine` (src/matching_engine.cpp) | one book per ticker, three queues, `run_`, its own `Logger`, a detached thread | start, stop, run, processClientRequest, send* | request queue in, response and update queues out |
| `Logger` (src/logger.cpp) | a queue, a file, `running_`, a thread | log, pushValue, flushQueue, destructor | every component; one producer per logger is assumed |
| Exchange main (src/exchange_main.cpp) | the two global objects | main, signal_handler | builds and destroys engine and logger |
| Thread start (include/thread_utils.h) | the flags running, failed | createAndStartThread | the new thread, which borrows its creator's stack |
| `TCPSocket` (src/tcp_socket.cpp) | fd, two buffers with an index each | connect, send, sendAndRecv, set*, get* | kernel; a receive callback |
| `TCPServer` (src/tcp_server.cpp) | an epoll fd, a listener, four socket lists | listen, poll, sendAndRecv, del, close | kernel; sockets; two callbacks |
| Socket helpers (src/socket_utils.cpp) | none | createSocket and option setters | kernel |
| Assertions, time, types (include/macros.h, time_utils.h, types.h) | none | ASSERT, FATAL, conversions | everything |
| Build files, samples (CMakeLists.txt, preknown/) | none | – | nothing the exchange uses |

How they interact: `main` makes a logger and an engine. Each logger has a thread
that moves what was logged from a queue to a file. The engine has a thread that
takes requests from a queue, and its books answer through two more queues.
SIGINT runs a handler on top of `main`, which destroys logger and engine while
the other threads run. The order book is single-threaded but is a heap of
pointers, and the pools it uses hand freed blocks out again. The TCP part is
one thread that polls; the kernel, the peers and the callbacks are the other actors.

The project as it stands does not link into one exchange: the zero-argument
`checkForMatch()` that `add` calls and the order book's `toString` are declared
and not defined, `processClientRequest` does nothing with an order, and the
CMake files have no target for the engine. The models follow each component's
code as it is; what a program may call, and what is left out of that, is said with each module.

What makes each component correct, and what is hard about it:

- **LFQueue**: FIFO, no loss or duplication, no slot used by two threads at once,
  `size()` not misleading. Hard because an update is two atomic steps and
  because nothing stops a producer that is a whole lap ahead.
- **MemPool**: no block handed out twice, none lost, no fatal end with room left.
  Hard because the cursor is computed in one call and trusted in a later one.
- **MEOrderBook**: orders in use = orders in the rings = what a subscriber to the
  updates believes; first in, first out; handles never stale; loops end. Hard
  because a broken pointer shows only several calls later.
- **Logger, engine, main**: closed logs are complete, nothing is used after it was
  freed, shutdown ends. Hard because the signal may come anywhere and threads
  are stopped by flags and sleeps.
- **TCPSocket, createSocket**: each direction is a byte stream whatever the sizes of
  the pieces, buffers in bounds, and no descriptor left open by anything but createSocket
  (which leaves some). Hard because the kernel takes a part of what it is given, any call may
  fail, and buffers outlive connections.
- **TCPServer**: the lists and the epoll agree, no event is missed, no byte is lost but with
  a connection that was reset, everyone is accepted and served. Hard because each event is reported
  once, and peers act between any two system calls.

## Modules

| Module | Models |
|---|---|
| `LFQueue` | the ring: its four variables and the atomic steps its methods are made of |
| `FifoChannel` | the abstract specification: a bounded FIFO channel |
| `SPSC` | a producer and a consumer thread on an `LFQueue`; refines `FifoChannel` |
| `SPSCProofs` | the theorems about `SPSC` |
| `MemPool` | the pool as operators on a record `[free, cursor]`, used wherever there is a pool |
| `MemPoolClient` | a pool under a client that may pass deallocate anything |
| `MemPoolFacts` | lemmas: what allocating and freeing do to a pool of any size, for the client's pool and the book's two |
| `MemPoolProofs` | the theorems about `MemPoolClient` |
| `MEOrderBook` | the order book of one ticker, on two `MemPool`s |
| `MEOrderBookProofs` | the theorems about `MEOrderBook` |
| `Exchange` | main, the signal handler, two logger threads, the engine's thread |
| `ExchangeProofs` | the theorems about `Exchange` |
| `TCPSocket` | the two buffers of a socket, as operators on a record |
| `CreateSocket` | createSocket, system call by system call, and the kernel's descriptors |
| `ByteStream` | the abstract specification of one direction of a connection |
| `TCPClient` | a program with one `TCPSocket` that connects, a kernel and a peer; each direction refines `ByteStream` |
| `TCPServer` | the server's thread, the epoll and its peers, on one `TCPSocket` for each |
| `TCPSocketProofs` | lemmas: what the operations of a `TCPSocket` return, and sequences that are cut and joined |
| `TCPClientProofs` | the theorems about `TCPClient` |
| `TCPServerProofs` | the theorems about `TCPServer` |
| `MC*` | the modules the `.cfg` files are for |

### LFQueue, SPSC, FifoChannel

One action of `SPSC` is one atomic operation of the code, or one use of the slot
that a pointer leads to. A thread's load of its own index and the following
store are one step, because no other thread stores that index.
`updateWriteIndex` is `PublishElement` then `CountElement`, `updataReadIndex` is
`RetireElement` then `UncountElement`. The consumer runs one of the code's three
loops: `MatchingEngine::run` trusts `getNextToRead` alone, `Logger::flushQueue`
asks for `size()` as well, and the test's `ConsumeFunc` asks `size()` first and
calls FATAL if the pointer is null after all. The `num_elements_` counter keeps
its unsigned width (`CounterMod`): `MatchingEngine::run` may take an element
before it is counted, and the counter then wraps to 2^w - 1 and back.

`SizedSpec` adds what the code takes for granted: that the producer never begins
an element with `NumElem - 1` outstanding (`HasRoom`). The queues of the exchange have
262144 slots, the loggers' 8 Mi. `Spec` is the code without that assumption.

### MemPool, MemPoolClient

A pool is a record of free flags and the cursor. `Increments` is how far
`updateNextFreeIndex` walks, or that it comes back to where it began, which is
FATAL. That happens as soon as the last block is taken, so a pool of N blocks
serves N - 1 objects and dies serving the N-th.

### MEOrderBook

Blocks are numbers, pointers are block numbers or `Null`, and a freed block keeps
its contents, so a stale pointer reads what the program would read. Each member
function is an operator from a book to a book; the actions are the public calls
`Add`, `Cancel` (its three ways out), `CheckForMatch`, and one action per turn of
its loop (`Match`, `CheckForMatchReturns`). A process that ends stays in its last
state with a `status` that says how.

Decisions a reader should know:

- The constructor writes neither the price table nor the client table (me_order_book.h:14 and 18 have
  no initialiser). What an element holds before its first write is what the allocator gave, and
  `Init` takes any of `FreshPrices` and `FreshIds`, tables of `Null` and `Wild`, a pointer that leads to no memory of the process. A
  book is allocated by `new` (matching_engine.cpp:11) and is over 2 GB (256 rows of 1 Mi
  pointers), which on Linux comes as fresh pages of zeroes: tables of `Null` are that build, and `Wild` is
  one whose allocator gives out used memory. A call that follows `Wild` ends with
  `"segv"`: an `add` at a price never seen, a `cancel` of an id never added. Left out is garbage that
  happens to be the address of readable memory.
- `add` calls a `checkForMatch()` without arguments that does not exist. What
  it leaves is any quantity up to the one asked for, zero included.
- `getNextPriority` reads through a null level when the price is new. This
  is undefined behaviour too; `NullLevelRead` gives its outcomes: `"segv"`, which is
  what a Linux build does, and `"reads_null"`, the read yields a null
  order pointer and the priority is 1 (a target where address zero is readable). Runs about
  what happens *after* a first order need the second.
- All other reads through null end with `"segv"`.
- The walk in `addOrderAtPrice` declares `add_after` again inside the loop, so the
  loop always goes round to the best level. `WalkedInto` models that: insertion
  before the best, or `"hang"` when freed levels have cut the ring. `"hang"` takes
  four levels and nine orders, more than the exhaustive runs have.
- Market updates are modelled by what a subscriber to all of them has built.
  The contents of client responses are abstracted away; they do not come back.
- `cancel` with a client id past the table is rejected; with an order id past it,
  `std::array::at` throws and the process terminates. `add` with ids past the
  table writes out of bounds and is not modelled.

### Exchange

`main` has a program counter; `handler` has its own, because the handler runs on
top of `main` wherever `main` was and never returns to it. `thread[t]` is where
each of the three threads is. A call of `log()` is `LogLength` elements of two steps
each, so the signal can come between the two statements of `updateWriteIndex`. A
logger's queue is two numbers, which is what its two loops test.

- The `sleep_for`s and `usleep` are delays of any length, with one exception. The
  destructor of `MatchingEngine` clears `run_`, sleeps one second *instead of
  joining*, and then takes away what the engine's thread uses. `GraceSteps` is the number
  of steps that the thread takes in that second if it can run, and
  `GraceAssumption` says it is no smaller than one turn of its loop. This is an
  assumption on the scheduler which the code makes without saying so; with
  one step less, TLC shows the thread inside a freed engine.
- `createAndStartThread` hands its thread references to temporaries that are gone as soon
  as the creator has seen `running`. `CallsFunc` is a correct call while the creator is
  still waiting, and any of `LateCalls` (run, crash) after that.
- Requests come from a gateway that is not under `src/` (`Request`, external).
- The handler is not async-signal-safe: it frees memory and writes to `std::cout`,
  and could wait for a lock that the interrupted `main` holds inside malloc. Locks of the C
  library are not modelled. The kernel is taken to deliver SIGINT to the main thread, as Linux does
  while that thread does not block it.

### TCPSocket, CreateSocket, TCPClient, ByteStream

A buffer of a `TCPSocket` is the sequence of the bytes below its index; nothing
reads behind the index. Bytes are numbered as they are written, so a lost,
repeated or misplaced byte shows. `TCPClient` is one thread that uses one socket:

- `connect` is `Connect`, which closes, and one action per system call of `createSocket`
  (`CreateSocketSteps`). Each call may fail; the function then returns -1 and the
  descriptor it had stays open (`lost`). A failing getaddrinfo has the outcome of a failing first
  `socket()` and is not told apart. Only the TCP branch is modelled: nothing asks for UDP, a
  TTL or an interface.
- createSocket goes through all addresses even after one worked, and returns the last
  descriptor. The earlier ones are `lost` too.
- `sendAndRecv` is two steps, `Receives` (recvmsg and the callback) and `Sends` (::send
  and the ASSERT), and the peer acts between them. The kernel takes what it has
  room for; if that is not all, the ASSERT ends the process, with what was taken on its way.
- The callback takes the data and resets the index, as the test's do, or keeps it, as
  `defaultRecvCallback` does.
- A connection that ends loses what the kernel has of it. The send buffer stays, and
  goes out on the next connection; `ByteStream` has both (`End` drops what is furthest on its
  way only).
- `send` does not look at the size of its buffer. More than fits ends the
  model's process as `"overrun"`, for an undefined write behind the buffer.

### TCPServer

A peer is one connection and the `TCPSocket` the server makes for it. The program calls `poll`,
`sendAndRecv`, `listen` and `close` in any order, one call at a time. tests/test_tcpserver.cpp polls
several times in a row while it connects (line 39) and alternates afterwards (49-50); both are among the orders.

- `recv_callback_` is one of three. `"keeps"` is `defaultRecvCallback`, which the constructor
  installs: it logs and leaves the index, so the buffer fills and recvmsg is then asked for nothing.
  `"replies"` is the test's: it resets the index and sends what it was given behind a header (23 bytes there,
  `HeaderLength` in the model). `"silent"` resets the index and sends nothing.
- Data is lost with its socket in two ways. `poll` deletes the sockets that earlier polls found hung up, so
  a second `poll` with no `sendAndRecv` between drops what came before the reset. And behind
  a buffer that `defaultRecvCallback` has let fill, what arrives is never received. `NothingUnreadWhenDropped` excludes
  these two, with `polled` and `callback`, and says that there is no third.
- A reply that is longer than what is left of the send buffer is written behind it: `process` is then `"overrun"`.
  The buffer is always empty when a reply comes, so only a reply longer than all of it does this (`RepliesFit`).
- The lists are sets, because each `push_back` is guarded by a `find`.
  `send_sockets_` is left out: a socket enters it on EPOLLOUT, which `epoll_add` never asks for.
- The epoll is edge-triggered: an event puts a descriptor into `ready`, `epoll_wait`
  empties `ready` and reports each descriptor's state *at that moment* (`Events`). What a descriptor
  already has when it is added counts as an event.
- `Poll` is one step up to the accept loop: what a peer does between the deletions and `epoll_wait`
  commutes with the deletions. The accept loop is one step a turn, and `sendAndRecv` two steps
  a socket, so peers act in between.
- A reset is EPOLLHUP together with EPOLLIN, and data that arrived before it can still be
  read. A reply to a reset connection, or to one whose kernel buffer is full, fails the ASSERT and
  ends the server: the code does so. The end of a peer's stream is read as no data and never noticed.
- What `accept` cannot do for want of descriptors (`AcceptFails` with a backlog) leaves
  connections that no later event announces, unless another one comes (`stalled`).
- The kernel's buffers are taken to be no larger than the socket's (64 MiB).
- `handled` is what the callback has read and taken out of the buffer, `owed` the replies that a peer has not read
  yet. A reset empties `owed`: nobody waits for those.

## Runs

| Run | Instance | Shows |
|---|---|---|
| `mempool` | 7 blocks | every sequence of allocations and of right, repeated and foreign deallocations |
| `queue` | 4 slots, counter mod 16, 9 elements | the ring is a FIFO channel for all three loops; every element arrives |
| `queue_lap` | 3 slots, no room assumption | *violation*: `size()` is 3 and `getNextToRead` null |
| `book_structure` | 1 client, 1 id, 4 adds, prices and quantities 1, 2, 3 blocks, ids used again; tables zeroed or with one wild price and one wild id | rings and pools agree; FIFO in a level; partial and full fills; a subscriber has the book; each turn of the matching loop fills something or ends the process |
| `book_calls` | 2 clients, 2 ids each, 3 adds, prices 1, 2, 4 on 3 levels, quantity 1, ids used once at a time; one wild id, and one wild price or none | no level leaks; prices that share a level do not break the rings; no handle leads to another client's or id's order; a cancel that answers leaves no such order |
| `book_first_order` … `book_stale` | 3 adds | *violations*: see Findings |
| `exchange` | logs of 2 elements, room for 3, 2 requests | SIGINT anywhere: complete logs, nothing used after free, an end |
| `tcp_socket` | buffers of 2, kernel buffers of 2, 3 bytes each way, 2 connects, 2 addresses, 3 descriptors | both directions are byte streams; only createSocket leaves descriptors open; what arrives is received |
| `tcp_server` | 2 peers, one with 3 bytes and one with 1, buffers of 2, kernel buffers of 2, a header of 1, `events_` of 2 | calls in any order, three callbacks: the lists agree, no hang-up is missed, no byte lost, repeated or dropped but as said above; all are accepted and served |

Why the bounds are enough. *Queue*: with four slots the indices wrap twice in nine
elements, an empty, a partly filled and a full ring occur at every index, and
the counter wraps below zero; the theorems remove the bounds. *Pool*: seven blocks allow gaps of every
pattern around a cursor at either end; the theorems remove the bound. *Book*: a ring of
three orders has a first, a middle and a last; two prices give two levels on both sides; the prices of `book_calls` collide modulo 3
(4 is congruent to 1); a third block makes freed blocks come back
under the pointers that still lead to them. With two quantities an order can be filled in two turns, and a taker
that has filled one order has something left for the next; with two clients and two ids a handle could lead to an order of the wrong
one. The entries of a fresh table are independent, so one wild entry beside null ones shows what either does. In `book_structure` ids are
reused, which makes handles overwrite each other; `book_calls` has them unique because `CancelLeavesNoOrder` is false otherwise (below).
The theorems remove all these bounds.
*Exchange*: two elements per log put the signal before, between and after
pushes; a queue of three makes producers wait for the logger thread; `GraceSteps` is
exactly `LongestTurn`. *Socket*: with buffers of two and three bytes, pieces of every size, a full, a
partial and a refused send, a full receive buffer and an overrun all occur; two
connects have one that ends or fails before another; two addresses leave a descriptor
that is not returned, and three descriptors run out. *Server*: two peers have every
order of their events against each other's and against the server's steps, one deleted while the other
is served; a third byte cannot be in the kernel with the first two, so it comes in a later round. Buffers of two fill up under
`defaultRecvCallback`, and a reply to two bytes is one too long. The second peer needs
no more than one byte to be received from between any two of the first's. The
theorems about the server remove the bounds.

Deadlock is checked in every run. A process that has ended stutters
explicitly (`Stopped`, `Ended`).

### Fairness

`SPSC`: the consumer's loop runs, and an `updateWriteIndex` that was begun is
finished; nobody has to produce. `Exchange`: each thread that can take a step
does so eventually (the operating system runs every thread; none has a
priority); nobody has to send a request or a signal. `TCPClient`: a `createSocket` that was begun goes
on, and the program goes on calling `sendAndRecv`. `TCPServer`: a call that was begun goes
on (weak fairness of the thread), and the program calls `poll` and `sendAndRecv` again and again, in whatever order (strong
fairness of each: either is enabled only between calls). That is the loop of the test program and less than it does.
No peer has to do anything, and the program need not connect, listen or send.
`MEOrderBook` and `MemPoolClient` need no fairness: their properties are of states and steps.

What the liveness properties do not say: `ShutdownCompletes` counts a crash as an end, so it says nothing of the late
call in `createAndStartThread`; and since pushes in `Exchange` wait for room, it does not show the wait for ever of a lapped logger,
which is `queue_lap`'s state. `NothingUsedAfterFree` holds under `GraceAssumption` only. `RequestsAreServed` and
`EverythingIsReceived` are about callbacks that reset the index.

## Findings

Each is a run whose property states what the repository says.

1. `queue_lap` – a producer one lap ahead makes a full ring look empty; the
   queue's own test calls FATAL there. A logger whose ring is lapped exactly waits for ever in its
   destructor.
2. `book_first_order` – the first order to rest at a price reads through null.
3. `book_sides` – buys go to `asks_by_price_`, sells to `bids_by_price_`, and takers are
   matched against their own side.
4. `book_buys` – the shadowed `add_after` leaves buys out of price order.
5. `book_stale` – levels are added to one list and taken from the other's head, so a
   canceled order is found, filled and freed again, and `MemPool` asserts.

Also seen, with no run of their own: a lower sell never becomes the best (me_order_book.cpp:115); prices congruent modulo
`ME_MAX_PRICE_LEVELS` share a level under the first one's price
(me_order_book.cpp:16); an order id that is sent twice overwrites the handle of the
first order, which can then not be canceled (`CancelLeavesNoOrder` fails with
`ClientsReuseIds = TRUE`); `getNextPriority` returns the last priority and not one
more, so all orders of a level have the same; SIGINT between the two
statements of `updateWriteIndex` in `main` loses one visible element of the log (the exception
in `ClosedLogIsComplete`).

And in the TCP part: `createSocket` connects to every address it is given and returns only the last
descriptor (socket_utils.cpp:75); its error paths close nothing; accepted sockets that were deleted
are never closed or freed, and `disconnected_sockets_` never shrinks (tcp_server.cpp:58);
`epoll_wait` is told it may write one event more than there are sockets, whatever the length of
`events_` (tcp_server.cpp:61); the default receive callbacks never reset the index, so the
buffer fills and data stops (tcp_socket.cpp:48); a `poll` after a `poll` drops what a reset connection still had
(tcp_server.cpp:58); the tables of a book are not initialised (me_order_book.h:14, 18); `sendAndRecv` reads a control
buffer that recvmsg does not fill for a socket without SO_TIMESTAMP (tcp_socket.cpp:61); the multicast test
`atoi(ip) & 0xe0` also holds for addresses such as 192.x (socket_utils.cpp:110).

## Proofs

**SPSC** (`SPSCProofs`), for every ring size, counter width, number of elements and set of
consumer loops, from `LFQueueAssumption` and `SPSCAssumption`. The inductive
invariant `IInv` is the type invariant and five parts. `RingInv`: the write index is the read index plus the
outstanding elements, modulo the size, and the slots between hold the elements that follow the last one retired. `ProducerInv` and `ConsumerInv`:
what each thread's pointer means where it stands. `CountInv`: the counter is
counted minus uncounted elements, modulo its width, with the two facts that keep
`size()` honest for the loops that ask. `LoopInv`: no loop leaves its own steps. The properties alone are not
inductive: order of reading needs the contents of slots nobody is at. From `IInv`
follow `TypeCorrect`, `ReadsInOrder`, `SlotsDoNotRace`, `CountIsExactAtRest`,
`CounterDoesNotWrap`, `SizeIsHonest` and `RingImplementsFifo`, the refinement: publishing is
a send, reading is a receive, everything else stutters.

**MemPoolClient** (`MemPoolProofs`, `MemPoolFacts`), for every number of blocks: `TypeCorrect`,
`PoolAgreesWithClient`, `AllocateNeverAsserts`, `FatalOnlyWhenFull`, `FreedBlockIsNotNext`. The invariant
is that the cursor of a pool that has not ended lies on a free block. `Increments`
is a minimum over the walk, so the lemma to prove is that the walk ends on the first free
block and comes round only when there is none.

**MEOrderBook** (`MEOrderBookProofs`), for pools, tables, prices and quantities of every size, whether
clients reuse ids or not, whatever pointers to no object the two tables hold at first and whichever way a read through null
ends, from `MEOrderBookAssumption` and
`NullAssumption` (a null pointer is told from an object): `TypeCorrect`, `LevelsStayMapped`
(`LevelsAreMapped`), `HandlesStayLive` (`HandlesAreLive`), `FirstComeFirstFilled` (`FirstInFirstOut`),
`SubscriberKnows` (`SubscriberHasTheBook`), `RingsHoldTheOrders` (`EveryOrderInItsRing`),
`CancelsAreComplete` (`CancelLeavesNoOrder`, for clients that do not reuse the id of a resting order) and
`TurnsFill` (`EachTurnFills`). The
inductive invariant is the type invariant, `SubscriberHasTheBook` and, while the process runs, the five parts
of `BookInv`:

- `PointersInv`: a level pointer, stale or not, leads to a level that was constructed, and from it to an
  order that was. This is all that holds of the two lists of levels: freed levels do cut them, as the
  findings show. It is enough, because no read through such a list changes anything but the
  list (`Relinked`), or it ends the process.
- `MapInv`: the levels in use are the mapped ones, each at one index.
- `LinksInv`: orders in use are linked in both directions within their index, and but for the link back to
  the first one each link leads to a younger order. `FirstInFirstOut` alone says nothing of the links that
  `removeOrder` writes through.
- `BlocksInv`: market order ids are given out once, and a freed order has `prev_order_` on itself or null, so
  no write through a stale pointer to it reaches an order in use.
- `HandlesInv`: the client table leads to orders in use with its ids, and to all of them unless
  ids are reused.

`EveryOrderInItsRing` says which orders the walk of a ring meets. The walk is a recursive function, whose
existence is derived first. By the pigeonhole principle as many hops as there are blocks come back to
an order already met, so what the walk meets is closed under `next_order_`. Were an order of the index missed,
take the oldest: the link that leads to it comes from an older order of its index, which is met, and so is
what it leads to. Each induction is an argument about a least counterexample. A second invariant,
`OpenInv`, says that no order rests with nothing left. So a turn that finds an order in use fills something, and one
that is led to a freed order by a stale head frees it again, which is an assertion: `TurnsFill`. It bounds the
turns of a call by its quantity, so that `checkForMatch` ends whenever its thread runs.

**Exchange** (`ExchangeProofs`), for every length of a log call, room of a queue and number of
requests, from `ExchangeAssumption` and `GraceAssumption`: `TypeCorrect`, `EngineGoneFirst`
(`NothingUsedAfterFree`) and `LogsAreComplete` (`ClosedLogIsComplete`). The inductive invariant has
five parts besides the type invariant. `Places`: each thread is in its own loop and is made
once. `LoggingInv`: where a `log()` may be in progress. `GraceInv`: during the sleep,
the steps taken and `Remaining`, a bound on the steps the engine's thread still takes, are
together no more than `GraceSteps`; each of its steps uses up one, so when the sleep ends none
remain. `CountInv`: a logger's size is what is visible minus what is not yet counted,
which is why it never drops below zero. `DownInv`: after a destructor has seen an empty queue it
stays empty. `ClosedLogIsComplete` alone is not inductive: that nothing is pushed after the
flush follows from who may still be in a `log()`, and that from `EngineGoneFirst`.

**TCPServer** (`TCPServerProofs`), for any number of peers and bytes, any length of `events_` and
buffers of every size, from `TCPBufferAssumption` and `TCPServerAssumption`: `TypeCorrect`,
`ListsStayEqual`, `HangupsAreNoted`, `BatchesAreFinished`, `NothingIsDropped` (`NothingUnreadWhenDropped`), `RepliesDoFit`
(`RepliesFit`), `RequestsAreNotLost` and `RepliesStayInOrder`. The inductive
invariant is the type invariant, `ListsAgree`, `HangupNeverMissed` and three parts. `BufferInv`: the send buffer is
empty but between the two halves of one socket's turn, and the receive buffer is if the callback resets the index, so one receive takes all
that the kernel has; without it the bounds of the buffers are not inductive. `BatchInv`: what was received is remembered in `recv` until the
callback. `DropInv`: a socket that was found hung up is reset and gets nothing more; with a callback that resets the index, what it had is
received in the `sendAndRecv` that follows the poll, so that a later poll drops nothing. For
`NoRequestIsLost` the lemmas of `TCPSocketProofs` say how each operation cuts a sequence and joins
the pieces elsewhere: the concatenation of what was read, the receive buffer and what has
arrived changes in one step only, the one in which a peer sends a byte. `RepliesInOrder` is the same argument for
what leaves and the send buffer; it changes when a callback replies and when the peer reads.

**TCPClient** (`TCPClientProofs`), for buffers of every size and any number of addresses,
descriptors, bytes and connects, from `CreateSocketAssumption`, `TCPBufferAssumption` and
`TCPClientAssumption`: `TypeCorrect`, `LeaksAreCreateSockets`
(`OnlyCreateSocketLeaks`), and the refinements
`OutboundIsStream` and `InboundIsStream`. The inductive invariant has two halves that share no variable.
`SocketInv` is about descriptors: `CallInv` says which of its system calls the `createSocket` in
progress has made, and on which descriptor, so that a descriptor that is returned has been through all of
them. Its part `DescriptorsAccountedFor` says that between calls the open descriptors are the program's and those in `lost`; that only
createSocket adds to `lost` is `LeaksAreCreateSockets`. `StreamInv` is about bytes: the types, and `LinkInv`, that the kernel has nothing of a connection
that is not there. Every step is then a write, a receive, an end or a stutter of `ByteStream`: a `connect`
on an established connection is an end that drops all that was leaving and keeps the send buffer.

Only model-checked: all liveness (`EveryElementArrives`, `ShutdownCompletes`, `RequestsAreTaken`,
`EverythingIsReceived`, `ConnectionsAreAccepted`,
`RequestsAreServed`): the prover has no rules for fairness and ENABLED. Every invariant, action
property and refinement of a passing run is a theorem. Proved and in no run: `NoImmediateReuse`, `BatchIsFinished`
and `DescriptorsAccountedFor`.

## Plan

Modelled: the queue, the pool, the order book, the exchange's life, sockets and the server.
Proved: every safety property of the passing runs. Liveness stays with the model checker.

## Not modelled

- The format scan of `log()` (logger.h:67, logger.cpp:101): its two FATALs need a format whose holes do not match
  the arguments, and every call in the repository has as many arguments as holes. What
  a call leaves is a number of elements in the queue, which `Exchange` has.
- The failure path of `createAndStartThread` (thread_utils.h:22): the exchange passes core -1 everywhere, and no
  core is set.
- `MatchingEngine::stop`, which nothing calls; the UDP, TTL and interface parts of socket_utils.cpp, which
  nothing asks for.
- `TCPServer::del` from a callback inside `sendAndRecv`, which invalidates the loop's iterator: undefined,
  and no callback in the repository does it. `add` with ids past the table, for the same reason.
- Pure formatting and conversion: types.h, the `toString`s, time strings; CMake files; `preknown/`, language samples
  that the exchange does not use.
