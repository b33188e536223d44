# A verification of TinyWebServer

TLA+ specifications of the server and its libraries, the TLC configurations that
check them on small instances, and TLAPS proofs of what holds for every instance.
Paths are relative to the repository.

## 1. The system

A multi-reactor HTTP server. The main thread accepts connections and hands each
to one of a pool of threads; each of these runs an `EventLoop` (an edge-triggered
epoll, an eventfd, a queue of functors, a timer wheel). A `Connection` belongs to
one loop and is read, written and closed in that loop's thread. With
`SO_REUSEPORT` the loops accept for themselves.

| Component | State | Operations | Talks to | What makes it hard | What makes it correct |
|---|---|---|---|---|---|
| EventLoop (`reactor/event_loop.cpp`) | `pending_functors_`, `calling_pending_functors_`, eventfd, `quit_`, `registered_fds_`, maps of callbacks | Loop, QueueInLoop, Wakeup, DoPendingFunctors, UpdateEvent, RemoveEvent, Quit | every thread queues functors; Connection registers events | queueing races with the swap of the queue and with sleeping; the table must agree with epoll | no functor lost or reordered, no sleep on work, no spinning |
| EventLoopThread, Pool | threads, `loops_`, `next_` | Start, Stop, GetNextLoop | Server | Stop races with a thread that starts or ends | Stop returns; no use of a loop that is gone |
| BatchIOHandler | lists of readable, writable and failed descriptors | ProcessBatch, GroupEvents | EventLoop | a batch is grouped before it is handled; descriptors are reused | each event reaches its connection, no half of an edge is lost |
| TimerWheel | slots of tasks, `timers_`, `current_slot_`, statistics | AddTimeout, RemoveTimeout, Tick, Clear | EventLoop calls Tick; Connection arms | modular arithmetic, rounds; callbacks under the mutex | each timer fires once, after its delay |
| Connection | `state_`, buffers, descriptor, timers | ConnectEstablished, HandleRead, HandleWrite, Send, Shutdown, HandleClose, OnTimeout | loop, server, keep-alive manager, message callback | closing in the middle of a callback that goes on; short writes; half-close; limits | closed once and for good, released, output delivered, half-close after the last byte |
| Server | `connections_`, `next_`, the listening sockets | constructor, Start, Run, HandleAccept, HandleAcceptInSubReactor, RemoveConnection, Stop | all | two threads share the table; descriptors are reused; with SO_REUSEPORT clients arrive before Start | an entry is the owner of its descriptor; no client is forgotten in a queue |
| Message callback (`main.cpp`) | the connection's input buffer | parse, validate, respond, erase, shut down | Connection, KeepAliveManager | pipelined and partial requests; Send may close | every request answered or the connection closed |
| KeepAliveManager | an entry per descriptor | OnRequestStart, OnRequestComplete, OnConnectionClose | Connection | keyed by a number that is reused | entries go with their connections; `close` is honoured |
| BufferChain | queue of nodes, `total_bytes_` | Append, GetIov, Advance, Clear | Connection | partial writes across nodes, at most 16 per writev | sends the bytes appended, in order |
| ThreadPool | queue, `stop_` | AddTask, Worker, destructor | - | stop against add and wait | no accepted task lost, destructor returns |
| AsyncLogger | two buffers, list of full buffers | Append, Flush, Stop, ThreadFunc | every thread | double buffering, Flush against the writer | no line lost, in order, Flush waits |
| TimerManager | heap and index map | AddTimer, AdjustTimer, HandleExpiredTimers, RemoveTimer | - | the index map must follow every swap; callbacks change the heap | heap order, map agrees; callbacks run earliest first and never early, none that is due is left |
| MemoryPool | free lists, slabs | Allocate, Deallocate, Clear | - | sharing between threads | no block handed out twice |
| StaticResourceManager | LRU list, map, total size | GetResource, Load_, Evict_ | HttpResponse, BufferChain | the lock is given up while a file is loaded; files change; evicted files are still being sent | list, map and total agree; what is announced is what is sent |
| HTTP/2 (`src/http2`) | connection and stream states, settings, dynamic table | frame handlers, Send*, Close | not wired into the server | input in pieces, frames in illegal orders, callbacks that close, evictions | frames reassembled and answered once; a side ends once; the table within its size |
| ServerConfig | the options | LoadFromFile, Reload, Validate, getters | Server, Connection | reloads against each other and against readers; a reload that fails half-way | one reload at a time, whole configurations, a bad file changes nothing |
| MultiListenSocket, PluginManager | descriptors; plugins | CreateSockets, CloseAll; load, notify | Server | one of several calls fails | descriptors closed, a plugin told in order |
| ConditionalRequestHandler, RequestValidator | none | decisions and normalisation | main.cpp | precedence, path traversal | agrees with a reference definition |

`PROJECT.json` lists the rest (formatting, metrics, plugins, errors, load generators)
with the reason why each is left out (section 6), and the hazards, each at its line.

## 2. Modules

| Module | Models | State and actions |
|---|---|---|
| `CountdownTimers` | abstract: what a timer service promises | a countdown per descriptor; Arm, Disarm, Tick, DisarmAll |
| `TimerWheel` | `src/timer/timer_wheel.cpp` | a task per descriptor (slot, remaining_ticks), `current_slot_`; one action per public method, for each holds the mutex throughout. The three statistics are kept as their balance |
| `TimerWheelProofs` | proofs | |
| `EventLoop` | loop, thread and pool: functors, wakeups, start and stop | a program counter per loop (`check`, `wait`, `events`, `swap`, `run`, ...) and for the controller; QueueInLoop and Quit are two steps each, because other threads can come between the queue (or `quit_`) and the eventfd |
| `EventLoopProofs` | proofs | |
| `Kernel` | external: a TCP socket and edge-triggered epoll | records with the receive queue, the number of unsent bytes, `wr_shut` and what the peer has done; `Poll`, `Revents`, `Edge` |
| `ConnectionReactor` | Connection, Server's accepting, registration and batches of EventLoop, the message callback, KeepAliveManager | see below |
| `ConnectionReactorProofs`, `ReactorRoutingProofs` | proofs: who owns a descriptor; where its events go | |
| `AsyncLogger` | `src/async_Logger.cpp` | a caller's test of `running_` and its work under the mutex, the thread's swap, its writing and its notification, and the three parts of Stop are steps of their own. A vector of buffers is the sequence of the lines in it; spare buffers are left out, for a missing buffer is treated as an empty one |
| `ThreadPool` | `src/thread_pool.cpp` | a critical section is a step, notify_one and notify_all come after it in steps of their own; a woken worker takes the mutex again, and may wake for nothing. Tasks may add tasks |
| `StandaloneProofs` | proofs, of `AsyncLogger`, `ThreadPool`, `Hpack`, `MemoryPool` and `TimerManager` | |
| `TimerQueue` | abstract: timers kept by their time | a time per descriptor that has a timer; Add, Adjust, Remove, and Begin, Fire, End of a round of callbacks, Advance |
| `TimerManager` | `src/timer_manager.cpp` | the heap and its index map as they are, del_ and the calls as operators on the pair. The loops of siftup_ and siftdown_ are given by what they come to: the path the node takes (`Rise`, `Fall`), along which each node moves one place and the map with it (`Carried`). The callbacks that HandleExpiredTimers runs may call the manager |
| `MemoryPool` | `src/memory_pool.cpp` | slabs per size class, statistics at the width of size_t; a call is a step, for it holds the mutex |
| `H2Connection` | `h2_connection.cpp`, `h2_frame_parser.cpp` | the peer's bytes behind its preface (`wire`), each known by its frame and place, handed over in pieces; one step per turn of ProcessData's loop, one handler per type of frame |
| `H2Stream` | `h2_stream.cpp` | the state and what each side has sent; one action per method |
| `Http2Proofs` | proofs, of the connection and of a stream | |
| `Hpack` | `hpack_decoder.cpp` | the dynamic table by the sizes of its entries; a block field by field; DecodeInteger on bytes |
| `ServerConfig` | `src/config/server_config.cpp` | a configuration is a function from its fields; Reload's flag, load, validation, lock, field-by-field copy, unlock and reset are steps |
| `ServerStartup` | the constructor of Server, Start, Run, both accept handlers, MultiListenSocket, PluginManager, and main's order of calls | the main thread's program counter, listening sockets with their queues and the edge epoll owes, a loop's HandleAccept cut at each accept |
| `StartupProofs` | proofs, of `ServerConfig` and `ServerStartup` | |
| `HttpRules` | ConditionalRequestHandler, RequestValidator, the choice of a response | pure definitions: NormalizePath, IsPathWithinRoot, ShouldReturn304, ... with the reference definitions they are compared to |
| `StaticServing` | one request for a file: HttpRules, StaticResourceManager, HttpResponse, BufferChain, HandleWrite | a program counter per connection, cut where the cache's mutex is given up or the disk is read; the disk changes between. Sums of sizes and of bytes left are cardinalities |
| `StaticServingProofs` | proofs: the cache; the chain and the stream | |
| `MCConnectionReactor`, `MCPools`, `MCHttp2`, `MCStartup`, `MCStaticServing` | instances for TLC | symmetry; values of constants; components that do not interact, side by side in one run: a behaviour is one of either of them |

`ConnectionReactor` composes the components that share a connection. Its variables
carry the source's names (`registered_fds_`, `read_callbacks_`, `connections_`, ...).
The thread of a loop is cut where another actor's step makes a difference:

    poll --EpollWait--> batch --HandleRead--> [limit --PauseReading-->] dispatch
    dispatch --RequestStart--> header --SendHeader--> body --SendBody--> complete
    complete --RequestComplete--> dispatch | return;  dispatch --NoHeader, BadRequest--> return
    batch --HandleWriteEvent--> return --Return--> batch   (~Connection if the last reference)
    batch --HandleErrorEvent, RunFunctor--> batch --NextRound--> poll
    poll --TimerFires--> deadlock

Between any two of these steps the peers may send, close, reset or read, the other
loops may move and the accepting thread may take a descriptor that has just been
closed. `HandleRead`, `HandleWrite`, `Send`, `Shutdown` and `HandleClose` are the
whole functions; a close includes the cancelled timers, RemoveEvent, the keep-alive
entry and the server's entry, in one step, for nobody can come between them that
would notice.

Abstractions. A request is its kind: `ok`; `last` (asks for Connection: close);
`err` (answered with a status of 400 or more); `bad` (the parser refuses it); `part`
(a piece without the end of a header). A response is a header of one byte and a body
of `BodySize`; only lengths are kept of output. The queue of functors holds
ConnectEstablished calls only; that none is lost is what `EventLoop` shows. Timers
have no delay: an armed one may fire in any round (`TimerWheel` has the delays). The
read and write timeouts, `Close` and `ResumeReading` are called by nobody.
`EventLoop`, in turn, knows nothing of sockets: a callback is an action that may queue
a functor.

`StaticServing` composes what a GET passes through:

    idle --Receive--> init --CheckConditions--> exists --CheckExists--> find | send
    find --FindCached--> load | send;  load --LoadResource--> send --SendResponse--> idle | closing

and HandleWrite takes any part of what is queued at any time. The file is looked at
three times on this way (for the condition, for its existence and to map it), and may
change in between; the cache's mutex is given up between the lookup and the loading. A
byte of a body is its origin (the mapping and the offset), so `StreamIntact` can tell a
body that is cut short or mixed from a right one.
`GetFileStat` reads two clocks to convert a time: taken as one. A mapped file that is
truncated in place (SIGBUS) is left out: files are replaced.

`HttpRules` takes a path as a sequence of tokens: `/`, `.`, `..`, a name, and `?` and
`#`, which begin what is cut off. The static and
Huffman tables of `Hpack` are text and are left out. `ServerConfig` follows the code of
LoadFromJsonObject in reading the section `metrics`; the comment after it
(`server_config.cpp:410`), which says that metrics are not read, is out of date.

## 3. Runs

A run that passes and the questions it answers:

| Run | Bounds | Shows |
|---|---|---|
| `TimerWheel` | 2 descriptors, 3 slots, 3 cycles, timeouts 0..10 | type, the balance of statistics, and that the wheel implements independent countdowns. The timeouts cover refusal at both ends, less than a turn, one turn, and several turns with and without remainder; the second descriptor is there to be disturbed |
| `EventLoop` | 2 loops, 2 producers, 2 functors | no functor lost, doubled or overtaken; no sleep on work; every functor runs; no spinning; Stop returns if every thread had entered Loop(). Two functors suffice for one in the batch while the other is queued, by a producer or by the first; the second loop is the one Stop reaches while it joins the first |
| `Reactor` | 3 connections, 1 descriptor, 2 requests each of every kind, buffers of 2 and 3 bytes, input limit 1, resets, timers; main thread accepts; symmetric in the connections | the state of a connection against its output, its registration, its half-close, its release and its entries in the tables; and what a callback still does after its connection was closed under it (`ClosedForGood`): PauseReading after a read that closed, sending after Send closed. One descriptor forces reuse; output of a response (3) just fits and two do not, so Send closes on the output limit; two requests exceed the input limit of one. Deadlock is not checked: after the timer's self-deadlock (section 5) the only loop really stops |
| `ReactorTwoLoops` | 3 connections, 2 descriptors, 2 loops that accept for themselves, resets; symmetric in the connections | no event of a batch reaches a connection that got its descriptor in the middle of the batch; the tables keyed by descriptors name the owner of the descriptor, although two threads hand descriptors to each other; the table of registrations agrees with epoll. The input never exceeds its limit here: beyond it the table and epoll part (`ReactorDeaf`, section 5) |
| `ReactorLive` | 2 connections, 2 requests each, send buffer 1 | everything sent is read, output drains, a connection whose peer closes is destroyed |
| `AsyncLogger` | 2 threads, 3 lines (one oversize), buffers of 1 line, 2 starts; the file may not open | no line lost, doubled or overtaken; each is written; Flush returns while the log runs; Stop leaves nothing behind. A buffer of one line makes every other line a full buffer; the second start meets the lines of callers that the first Stop overtook |
| `Pools` | 2 workers, 1 client, 3 tasks; 6 timers, a timeout of 1 ms and a tick of half a one; 3 classes, slabs of 2, 1 and 1 blocks, 4 allocations, size_t modulo 16 | no wakeup lost, no accepted task lost or doubled, the destructor returns; heap order and index map after every call, also from callbacks, and with them timers kept by their time (`ImplementsQueue`); no block out twice, statistics exact. Three tasks suffice for one queued, one running that adds another, and one refused; six timers give a heap of three levels, where siftup_ and siftdown_ both move; 16 lets the counters wrap. The assumption `SiftsAreLoops` compares `siftup_` and `siftdown_` with the code's loops, swap by swap, on all heaps of up to 7 nodes with 3 different times |
| `Http2` | 2 frames of 13 kinds in pieces of every length, callback that closes; 3 accepted calls per side; a table of 120 bytes, entries of 33 to 130 | frames are reassembled whatever the pieces (after a preface in one piece), SETTINGS and PING are answered once, the close is reported once; a side of a stream ends once and its close is reported once; table usage is the sum of its entries, and an insertion fits or empties the table. DecodeInteger is compared to an encoder at every boundary (`IntegersDecoded`, an assumption) |
| `Startup` | 2 reloading threads, 1 reader, 4 files; 8 sets of options, 3 clients, 2 sockets | one reload at a time; no reader sees two files; no client stays in the queue of a socket nobody watches unless accept failed; in the traditional mode everything is set before the first connection, and a plugin is told of the open before the close. The options have none, fewer, as many and more sockets than threads, and a bad address; the good file has an integer beyond the width of an int, which wraps (`AsInt`; an int has 2^30 values here, for TLC's own integers end at 2^31) |
| `StaticServing` | 2 connections, 3 requests (plain, conditional, refused) for 2 paths, files of 0, 1 and 3 bytes, cache of 3 bytes, 2 iovecs, 3 mappings, 2 responses each, 1 change on disk; symmetric in the connections | map, list and total of the cache agree; the bytes of a connection are its responses in order, each as long as announced and the whole of one file. The larger file fills the cache, so it evicts and is evicted; two responses of header and body exceed a writev of two. The assumptions of `HttpRules` compare NormalizePath with the walk it stands for, and with IsPathWithinRoot, on all paths of up to 6 tokens |

Fairness. A loop's thread takes a step whenever it can: its epoll_wait has a timeout
of at most a second, and no callback blocks, the timer's apart. Peers that read go on
reading (`PeerRead`); without that nothing can be promised about output. The log's
thread waits with a time limit. A worker of the thread pool, a caller between its unlock and its notification, and the
destructor go on when nothing blocks them; a sleeping worker is not woken by fairness.
Nobody has to send, accept, queue, append, flush, add or stop. All fairness is weak:
every step, once possible, stays so until its thread takes it.

The passing runs state the limits under which a property holds: `RegistrationAgrees`
needs input within its limit, `OutputDrained` and `FinReaped` complete requests and no
resets, `StopReturnsOnceEntered` threads that have entered Loop(). `FlushReturns` a log that
runs and callers that pause (a Flush may starve under endless appends: it needs to find
the vector empty when it is woken). Section 5 has what happens otherwise.

## 4. Proofs

`TimerWheelProofs`, from `WheelAssumption` (a positive number of slots and cycles, a
finite set of descriptors):

- `WheelTypeOK`: type correctness.
- `WheelStatsCoverActive`: `unaccounted >= Cardinality(Active)`, inductive with the
  types; the leaves are facts about cardinalities of the sets of active and due timers.
- `WheelAlwaysConsistent`: the two together, as the run checks them.
- `WheelImplementsCountdown`: refinement. The mapping is `TicksLeft(f)`, the distance
  from `current_slot_` to the task's slot plus the remaining rounds: although a task
  with rounds left moves by one slot per visit, each tick takes exactly one off this
  sum. Each action maps to its abstract counterpart; the arithmetic of `%` is isolated
  in lemmas about `Ahead`.

`EventLoopProofs`, from `PoolAssumption`, for any number of loops, producers and functors:

- `LoopTypeOK`.
- `LoopQueueInv`: the inductive invariant. `FunctorsInOrder` by itself is not inductive,
  since the swap would drop a non-empty batch; `BatchOnlyInRun` says the batch is empty
  outside `run`. `WakeupPending` is not inductive either, because a functor may be
  queued by a callback (no wakeup) or by a functor (wakeup only while
  `calling_pending_functors_`); `CallingInRun` ties the flag to the `run` step and
  `WakeupOutsideEvents` says that pending work outside `events` and `swap` has its wakeup.
- `LoopFunctorsInOrder`, `LoopWakeupPending`: the two safety properties.

`StandaloneProofs`, from `LoggerAssumption`, for any number of callers, lines and any
capacity:

- `LoggerTypeOK`: the type invariant (TLC need not check it again).
- `LoggerStreamInv`: the inductive invariant. `LinesInOrder` needs `ThreadHolds` (the
  thread holds lines only in `write`; before Start and after the join it has ended), or a
  swap, or Stop's write, could overtake lines the thread still holds. With it
  `LoggerLinesInOrder` and `LoggerStopWritesAll` follow.

`ConnectionReactorProofs`, from `ReactorAssumption`, for any number of connections,
descriptors and loops, any buffer sizes and limits, both accept modes, with and without
idle timers and resets:

- `ReactorAlwaysConsistent`: the inductive invariant. `DescriptorOwner` is not inductive:
  a close erases entries by number, so one must know that the connection that closes
  still owns its number (`OneOwner`, `AliveState`), that the thread that closes it is
  the one of its loop and got it through the callback registered for that number
  (`Current`, `Callbacks`, `TimersOwned`), and that a connection waiting for its
  ConnectEstablished is in one queue, once (`Queued`). `Closed` adds that a closed
  connection is the one its loop handles and has no entries, `HalfClosed` that a
  connection once half-closed is never connected again.
- The nine steps of a callback are treated as one: `CallbackOn` says what such a step may
  do (change the state of its own connection, and with `kClosed` take out its entries),
  `CallbackStep` that this preserves the invariant; one lemma per function of Connection
  (`Closing`, `Writing`, `Sending`, `ShuttingDown`) shows that it does no more. Accepting
  rests on `FreeFdIsFree`: the lowest free descriptor exists and has no owner.
- `ReactorDescriptorOwner`, `ReactorClosedIsReleased`, `ReactorHalfClosedWhenDrained`
  follow.

`StandaloneProofs`, from `WorkersAssumption`, for any number of workers, clients and
tasks:

- `PoolTypes`.
- `PoolAwakeForTasks`: while tasks are queued some worker is awake or a notification is
  on its way. Inductive only with `ExitedIsLast`: when a worker has exited, `stop_` is
  set and the queue is empty for good, because AddTask refuses from then on.
- `PoolTasksAccountedFor`: an accepted task is in the queue, in the hands of exactly one
  worker, or done. `RunningHolds` ties a worker's place to its task; `PlacesInv` says that
  what is accepted and not done is queued once or held once, never both.

`ReactorRoutingProofs`, from the same assumption and on top of `ReactorAlwaysConsistent`:

- `ReactorAlwaysRouted`: the inductive invariant `RouteInv`. `EventsRouted` is not
  inductive: a callback may close its connection, whose number accept then gives to
  another, so the batch must name a connection once (`OneEventEach`) and never the one
  whose callback runs (`OthersWait`); and what epoll has on its ready list, or watches,
  must be in the loop's table (`ReadyWatched`, `WatchedRegistered`), or the next owner's
  registration would go astray. `OutWatched` exempts the writer SIGPIPE has struck.
- `ReactorTypeOK`, `ReactorEventsRouted` and `ReactorOutputWatched` follow. `GroupEvents`
  sorts, in the model by a CHOOSE: `ByFdSorts` shows, by taking the smallest descriptor
  out of the set and putting it first, that there is a sorted sequence to choose.
- `ReactorRegistrationAgrees` has the hypothesis `[]InputBounded`, which is what the
  code needs: with an input over its limit PauseReading enters a descriptor in the table
  that was closed in the same read (`ReactorDeaf`, section 5). Every behaviour of
  `ReactorTwoLoops`, where a single request never reaches the limit, satisfies it.
  `RegInv` adds to `RouteInv` that what is listed is watched and that a closed connection
  is not.
- `ReactorClosedForGood` has no hypothesis: the property itself names the exception. A
  closed connection sends and queues nothing more, and its registration only shrinks,
  unless its input is over the limit, when PauseReading has it watched for output.
  `OverLimit` says that a thread about to call PauseReading has a connection over its
  limit in hand; `ClosesWell` is what the step that closes leaves behind, and
  `StaysClosed` what every later one keeps.

`Http2Proofs`, from `FramesAssumption` (lengths are natural numbers), for any frames, any
number of them and any cut:

- `H2FramesReassembled`, by `H2Inv`. There is an offset for each frame into the bytes
  sent, and the buffer is the bytes from the offset of the first frame not yet removed up
  to the last byte received (`StreamCut`): that is what makes the header at its head the
  next frame's, and the sum of the headers' lengths the place of the one after. Until the
  preface is complete, what is left of it is what has not been received
  (`PrefacePending`), unless it came in pieces (`torn`, section 5). `NoneWaits` is about
  the return of ProcessData.
- `H2AnsweredOnce`: the frames are removed in the order they were sent (`InOrder`), and
  each handler adds the answer its frame is due and no other (`Answers`).
- From `CallsAssumption`, `StreamTypes` and `StreamAlwaysEndsOnce`, inductive together,
  for every number of calls on a stream.

`StartupProofs`:

- From `ContentAssumption`, for any threads and files: `ConfigTypes`;
  `ConfigReloadExclusive`, inductive with the types; `ConfigAlwaysWhole`, by `LockInv`
  (the holder of the mutex is in the steps between lock and unlock), `CopyInv` (a reload
  that holds it has passed Validate, and the fields it has copied are those of its file)
  and `SeenWhole` (when nobody holds it the configuration is that of one file, and what a
  reader has seen is a section of one file).
- From `StartupAssumption` (numbers of threads and sockets within the model's bounds
  `MaxThreads` and `MaxSockets`), for any options: `StartupAlwaysConsistent`, by
  `StartupInv`. `SocketsInv` numbers the descriptors in the order of their creation,
  `AssignInv` follows a socket from AssignListenSockets through a loop's queue into its
  epoll, `VisitOwed` says that an accepting loop, or an edge it has not seen yet, is owed
  to every queue with a client in it. With them
  `StartupNoClientForgotten`; `CallbackSet`, `ClientsOnce` and `AcceptedLate` give
  `StartupReadyForConnections`.

`StaticServingProofs`, from `StaticAssumption` (limits and sizes are natural numbers,
`None` is not a file, a number of a resource or a request), for any connections, requests,
files, limit of the cache and number of iovecs, by the inductive invariant `StaticInv`:

- `StaticCacheConsistent`. `Books` is what the property says of list, map and total; a hit
  keeps them (`HitBooks`), and so does the insertion of a resource behind which the last k
  of the list were dropped (`InsertBooks`), if they made room or there was nothing left to
  drop (`EvictionsMakeRoom`, by the least k). The double check is needed exactly where
  `InsertBooks` asks for a path that is not in the map. Sums are cardinalities of rows of
  cells, so that adding a row adds its length (`RowsTogether`): no induction is needed.
- `StaticStreamIntact`. `Chain` places every byte left in the chain in the stream. Append
  puts the same bytes at the end of both (`ChainAppend`), Advance moves along
  (`ChainAdvance`): all that is left in front of a node grows by what was taken, with the
  offset of the node a write ends in adding up (`AdvanceLeft`, by the least node that would
  disagree). The chain holds no node that is used up (`Begun`), which Advance relies on. A
  200 carries a whole file because of what its thread has settled on its way
  (`SettledFor`): a thread that is to send a 200 holds a resource of the path it was asked for.
  Resources are never changed, whatever happens to the files (`Grown`).

`StandaloneProofs` also has:

- From `HpackAssumption` (sizes are natural numbers), for any names, values, sizes of the
  table and orders of insertions, size updates and resets: `HpackUsageExact`, by `HpackInv`.
  Besides the property it says that the usage never exceeds `InitialTableSize`: an
  insertion that fits the limit of the moment, which is never larger, keeps it. With the
  4096 of the code the sum `dynamic_table_usage_ + entry_size` is thus compared without
  wrapping. `HpackInsertFits`
  is an action property: a literal field that is not larger than the limit is added
  within it. The entries that go are the fewest that make room (`Evictions`), and with
  none left an entry fits by the first test of AddToDynamicTable.
- From `MemoryAssumption` (classes have limits and at least one block a slab, `SizeT` is
  positive), for any classes and sizes, with any blocks of malloc out at a Clear:
  `PoolMemoryConsistent`, by `MemoryInv`. Allocate takes a block of the slab it finds, so
  one must know that a base address names one slab of one class, that a slab's marks are
  the indices of its blocks that are out (`SlabAgrees`), and that a block's size says
  whether it has a slab at all (`PlacesAgree`). A slab and a list of slabs are each taken
  apart once (`PlaceTaken`, `OneSlab`), `BlockTaken` and `BlockReturned` put them
  together. The statistics wrap at `SizeT`; what is compared is the remainder
  (`EqualModulo`), which is why blocks out at a Clear are counted apart for good.
- The sums of both are cardinalities of rows of cells, as in `StaticServingProofs`.
- From `TimerAssumption` (timeouts are integers, of either sign; `MaxTicks` only bounds
  TLC), for any descriptors, timeouts and callbacks: `TimerHeapConsistent` and
  `TimerImplementsQueue`, by `TimerInv`: the heap is ordered (`OrderedTo`), and the map
  leads from every descriptor to its node and from every node to its place (`Mapped`); the
  second half is what makes the moved nodes find their entries. A call first leaves a heap
  that is ordered but for one node (`OrderedBut`: the parent of that place still comes
  before its children, as siftdown_ and siftup_ both need), and a sift restores it
  (`Sifted`). A sift only exchanges the places of its path among themselves (`Permutes`),
  so every descriptor keeps its node (`CarriedKeeps`). That the places above a node form
  one chain is the recursive part: `Ancestors` is a recursive function, shown to exist by
  the smallest upward closed sets (`AncestorsAre`), its facts by the least place that
  would break them. The refinement needs that the first node is an earliest timer
  (`FirstIsEarliest`) and that a whole number of milliseconds left is none exactly when
  less than one is left (`RemainingDue`).

  What `TimerQueue` promises of a callback is what the code does: HandleExpiredTimers
  deletes the first timer as it finds it after the callback. If the callback changed which
  timer comes first (it removed or adjusted its own), the timer deleted is another one,
  whose callback has not run.

Model-checked only: liveness (fairness and ENABLED are beyond the prover), and the
assumptions that compare operators with reference definitions (`SiftsAreLoops`,
`IntegersDecoded`, those of `HttpRules`). Every invariant, every action property and
every refinement of a passing run is proved.

## 5. Where the code and its documentation disagree

Each is a configuration that TLC ends with a counterexample. `PROJECT.json` lists two of
them as runs, with the text they contradict; those marked * are further configurations
of the same modules, to be run by hand.

| Run | Promise | What the code does |
|---|---|---|
| `ReactorTimer` | connections that time out are cleaned up | the timer's callback waits for the mutex its own thread holds |
| `StaticPrecedence` | If-None-Match takes precedence over If-Modified-Since | a 304 although the ETag does not match |
| `StaticDates` * | dates are GMT | mktime takes them for local time |
| `Http2Preface` * | the bytes consumed are the preface's | of a preface in two pieces the second call skips both, and with it the first bytes of the frames |
| `StartupEarlyAccept` * | connections have their message callback | with SO_REUSEPORT the loops accept before SetOnMessage |
| `StartupRestart` * | server options need a restart | a reload replaces them for every reader |
| `TimerWheelSeconds` * | a timeout is in seconds, one tick each | 60 s fires at the next tick, 61 s after two |
| `TimerWheelStats` * | Clear updates the statistics | adds the size of a map it has emptied |
| `EventLoopQuitLost` * | Stop waits for the threads to end | Loop() forgets a Quit that came first |
| `EventLoopQuitDangling` * | a loop lives as long as its thread | Quit writes to a loop that may be gone |
| `ReactorInputLimit` * | input buffers are bounded | everything is read before the limit is looked at |
| `ReactorCloses` * | the book of keep-alives does not leak; Connection: close closes; a half-close loses no response | a request handled after the close is booked again; nobody closes; end of file closes at once, and the responses are dropped (three counterexamples, with `-continue`) |
| `ReactorSigpipe` * | SIGPIPE is ignored | it is not |
| `ReactorReset` * | ERR and HUP drive the state machine to its close | they unregister and leave the connection |
| `ReactorStall` * | the second half of a short write is sent | not if the edge that announces room is also readable |
| `ReactorDeaf` * | the table lists what is registered | closed descriptors stay in it after PauseReading |
| `AsyncLoggerFlush` * | Flush waits until everything is written | it waits until the vector is empty, which the thread makes it before it writes |
| `AsyncLoggerFlushStuck` * | Flush no longer waits for ever | it does if Stop comes in between |

## 6. Not modelled, and what is left

Not modelled: `http_parser.cpp`, which nothing calls; ServerMetrics, independent atomic
counters; Logger and StructuredLogger, formatting; Error, codes and texts; the load
generators and scripts. Of the modelled components, what nothing calls is left out
(`PROJECT.json` says what); so ServerConfig's ToJsonString, and Validate of the shared
object, both of which read without the lock.

Assumed or left out within modelled components:

- `EventLoop` has no ProcessTimers: its only callback, Connection::OnTimeout, queues no
  functor. One that did would queue from the loop's own thread with
  `calling_pending_functors_` false, wake nobody, and see its functor run only when
  epoll_wait returns. The timer's callback itself is an action of `ConnectionReactor`.
- `AsyncLogger` takes an fwrite to an open file to write all of a buffer; after a short
  one (`async_Logger.cpp:194`) the code complains on stderr and drops the rest.
- `MemoryPool` is called by callers that return a block once and with its size. The test
  that returns one twice (`test/test_memory_pool.cpp:161-165`) is outside of it.
- The plugins' hooks around a request (`main.cpp:115`, `main.cpp:152`) change no state
  of the server.
- `TimerWheel` erases a task from the list it is in. The code computes the slot anew and
  may call erase on another list, which unlinks the node all the same in libstdc++.

Time is nowhere in seconds: the loop ticks its wheel once per iteration
(`event_loop.cpp:49`), and how long an iteration takes is up to the traffic. The
`TimerWheel` module has ticks, `ConnectionReactor` lets an armed timer fire in any round.

Left for later: a refinement of `ConnectionReactor`'s queue of functors by `EventLoop`,
and one of a connection's output, of which `ConnectionReactor` knows the length, by
`StaticServing`'s chain.

## 7. Running

    tlc -config Reactor.cfg MCConnectionReactor
    tlc -config ReactorTwoLoops.cfg MCConnectionReactor
    tlc -config AsyncLogger.cfg AsyncLogger
    tlc -config Pools.cfg MCPools               (likewise Http2, Startup, StaticServing)
    tlapm ConnectionReactorProofs.tla           (likewise the other *Proofs modules)

The operators marked "Mutant" state plausible bugs of the operator that follows them;
`PROJECT.json` says which property finds which.
