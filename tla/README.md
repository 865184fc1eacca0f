# DuoDuo in TLA+

DuoDuo is a C++ network library in the style of trantor and muduo: event loops on
epoll, TCP servers and connections, a hierarchical timing wheel with a thread pool, a
pooled buffer allocator after Netty's, and a small HTTP server. This directory holds
TLA+ models of its concurrent core, of its timer and of its allocator, the TLC configurations that check them, and TLAPS
proofs of the properties that matter most. Everything is read from `src/`; line numbers
in this file and in the modules refer to it.

## 1. The system

| part | state | operations | talks to |
|---|---|---|---|
| `MpscQueue` | `head_`, `tail_` (atomic pointers), a chain of nodes | `enqueue`, `dequeue`, `empty`, destructor | used by `EventLoop` for functors |
| `EventLoop` | `quit_`, `looping_`, `callingPendingFuncs_`, `funcs_`, `activeChannels_`, the wakeup fd | `loop`, `quit`, `runInLoop`, `queueInLoop`, `runAfter`, `updateChannel`, `removeChannel` | `Poller`, `Channel`, `Timer`; other threads through `queueInLoop` and `quit` |
| `EventLoopThread`, `EventLoopThreadPool` | `loop_`, three promises, the thread | constructor, `run`, `wait`, `getLoop`, destructor; round robin | owns a loop in its own thread |
| `Channel`, `Poller` | events asked for and reported, kNew/kAdded/kDeleted | `enableReading`, ..., `handleEvent`, `poll` | epoll, `TcpConnection`, `Acceptor`, `Connector` |
| `TcpConnection` | `state_`, `outputBuffer_`, `inputBuffer_`, the channel | `send`, `shutdown`, `forceClose`, handlers of the channel | its I/O loop; the user's callbacks |
| `TcpServer` | `connSet_`, the loop pool | `newConnection`, `connectionClosed`, destructor | base loop, I/O loops |
| `Acceptor`, `Connector` | listening or connecting socket, `status_`, `retry_` | accept; connect, retry, stop | a loop, `Timer` |
| `ThreadPool` | `m_tasks`, `m_isStarted`, mutex and condition | `addTask`, `take`, `stop` | runs timer tasks and tickers |
| `Timer`, `Ticker`, `TimingWheel`, `TimerTaskList`, `DelayQueue` | wheels of buckets, `m_expiration`, the clock, the delay queue | `add`, `advanceClock`, `flush`, `poll` | `ThreadPool`, every `EventLoop` |
| `PoolArena`, `PoolChunk`, `PoolChunkList`, `PoolSubpage`, `SizeClass` | runs of pages, bitmaps, usage lists | allocate, free, split, merge | `PoolThreadCache` |
| `PoolThreadCache`, `PoolByteBuf`, `Recycler` | cached handles; capacity and indices of a buffer | allocate, add, trim; write, grow, read, give back | arenas |
| `LongAddr` | a base and striped cells | `add`, `sum` | arena metrics |
| HTTP | parser state per connection | `parseRequest`, `onMessage` | `TcpConnection` |

What makes the code hard:

* **Lock-free hand-over.** `enqueue` is an exchange followed by a store; in between, the
  chain is broken and everything enqueued later is invisible. The consumer deletes nodes
  that a producer may still hold as `prevhead`.
* **Wakeups.** `queueInLoop` writes the wakeup fd only when it must; `callingPendingFuncs_`
  is read before anything initialises it; `ThreadPool` uses one `notify_one` per task and
  changes its flag outside the mutex.
* **The ends of things.** `quit` before, while and after `loop`; destructors that quit a
  loop, join its thread, and leave functors behind; a server destroyed while its
  connections are alive.
* **Callbacks.** User code runs in the middle of handlers and may send on, shut down or
  close any connection of the loop, the current one included.
* **Shared buckets and clocks.** The buckets of a wheel are copies that share one list;
  tickers poll the delay queue without the lock they flush under; each wheel has a clock
  of its own.
* **Two indexes of the same runs.** A chunk finds free runs by class in queues and by page
  in a map; an arena finds chunks by usage in lists whose bounds overlap, and subpages in
  pools they enter and leave as they fill.
* **Two threads for one connection.** The base loop holds the set, the I/O loop the
  connection, user threads the pointers.

For each component correctness means: the queue delivers each item once, in the order of
each producer, and touches no freed memory; the loop never sleeps over a functor and ends
after `quit`; the thread handshake always comes to an end; the pool executes what it
accepted; a connection's bytes go out whole and in order, its FIN after its data, and it
ends exactly once; the wheel fires each task once and not early; the allocator never hands
out the same bytes twice; a connector answers its caller and leaves no socket behind.
`PROJECT.json` lists the hazards one by one, with the properties
that are aimed at them; those of parts that are not modelled carry a note.

## 2. The modules

| module | models | notes |
|---|---|---|
| `MpscQueueSpec` | what the queue promises | places are reserved, linked, taken; only the linked prefix is visible |
| `MpscQueue` | `src/MpscQueue.h` | one action per atomic access, on node addresses that are reused |
| `MpscQueueProofs` | | proofs about `MpscQueue` |
| `EventLoop` | `src/EventLoop.cpp` | instantiates `MpscQueueSpec` for `funcs_` |
| `EventLoopThreadProofs` | | proofs about `EventLoop` and `EventLoopThread` |
| `ConnectorProofs` | | proofs about `Connector` |
| `TcpConnectionProofs` | | proofs about `TcpConnection` |
| `EventLoopThread` | `src/EventLoopThread.cpp` | EXTENDS `EventLoop`: the same loop actions, with the thread function and an owner |
| `ThreadPool` | `src/timer/thread_pool/ThreadPool.cc` | one action per critical section or unprotected access |
| `ThreadPoolProofs` | | proofs about `ThreadPool` |
| `TcpConnection` | `src/TcpConnection.cpp`, `TcpServer.cpp`, parts of `Channel.cpp`, `EventLoop.cpp`, `EpollPoller.cpp` | the connections of one server |
| `Connector` | `src/Connector.cpp`, parts of `Channel.cpp`, `EventLoop.cpp` | one connector, its loop, its users and the network |
| `Timer` | `src/timer/Timer.cc`, `TimingWheel.cc`, `TimerTaskList.cc`, `Ticker.cc`, `delay_queue/DelayQueue.h` | adders and tickers over the wheels and the delay queue |
| `TimerProofs` | | proofs about `Timer` |
| `SizeClass` | `src/buffer/SizeClass.cpp`, `MathUtils.h` | operators, with `LookupsExact` against reference definitions |
| `Runs` | `PoolChunk.h`, parts of `PoolChunk.cpp` | runs of pages, gaps and best fit |
| `PoolChunkSpec` | what a chunk promises | best fit over the gaps between the runs in use |
| `PoolChunk` | `src/buffer/PoolChunk.cpp`, `BestFitQueue.h` | one action per turn of the merge loops |
| `PoolChunkProofs` | | proofs about `PoolChunk` |
| `PoolArena` | `PoolArena.cpp`, `PoolChunkList.cpp`, `PoolSubpage.cpp`, `PoolThreadCache.cpp`, `PoolByteBuf.cpp`, the rest of `PoolChunk.cpp` | an arena and the threads that use it |
| `PoolArenaProofs` | | proofs about `PoolArena` |
| `MC...` | | the modules TLC starts from; `MCThreadPool` and `MCPoolArena` also have a symmetry set |

A definition whose comment begins with "Mutant of" is never part of a specification. It
is the change of one definition that a plausible bug would make, kept so that one can see
that a property is able to fail.

### MpscQueue

`head_`, `tail_`, `next_` and `dataPtr_` are the fields of the code. `live` is the set of
allocated addresses. A producer's program counter stands between the allocation (line 44),
the exchange (45) and the store of the link (46), which the second overload repeats at
50-52; the consumer's stands between the load of `next_` (64-70), the move of the item and
`tail_` (71-72) and the two deletes (73-75). The history variables `chain` (the nodes from
`tail_` on in the order of their exchanges), `sent` and `out` appear in no guard. The
allocator may give out any free address, so the ABA situation is included. Atomics are
sequentially consistent: the orderings the code writes (acquire on loads, release on
stores, acq_rel on the exchange) order every access the properties depend on, and a
weaker-memory model is outside TLC's scope.

### EventLoop

The queue of functors is `MpscQueueSpec`, which `MpscQueue` implements, so an enqueue is a
reservation and a link with anything in between. `woken` says that the eventfd was
reported readable in this turn, `wakeupFd` its value; `pended` records that `doPendingFuncs` has once found the queue empty. `callingPendingFuncs_` starts with either
value, for the constructor does not set it. `PollWakeup` and `PollOther` are the returns of `epoll_wait`, by the
wakeup fd or for any other reason (I/O or the timeout of ten seconds). A functor
may itself call `queueInLoop` and `quit`.

### EventLoopThread

The thread function (`loopFuncs`) and an owner thread that constructs, runs, perhaps
waits, and destroys. A promise is set when the step that sets it has happened; the
functor of line 44 is the loop's first functor. Other threads call `queueInLoop` and
`quit`.

### ThreadPool

`wpc` is the point of a worker: the two tests of the loop condition (61) are separate
because they hold no lock; `take` is entered with the lock and leaves it in
`wait` (84), from which a notification or a spurious wakeup brings it back to `lock`.
`addTask` tests `m_isStarted` under the mutex; `stop` does not take it. Tasks
may add tasks. `accepted`, `late` (accepted after the flag was cleared) and `done` are
history.

### TcpConnection

One I/O loop, one base loop, user threads and the peer. A loop is the queue of functors in
the order of their exchanges and the channels of the current turn: what the
details of the queue add is the business of `EventLoop`. A handler is one step up to the
user's callback, since other threads share only `state_` with it; `send` from another
thread is two steps, the test of `state_` and the queueing. A message is two bytes so that
a partial write can tear it, and `write` takes any number of bytes. In a callback of
connection `d` the user may send on, shut down or close `d` or any connection the server
has. A connection is *destroyed* when no set, functor, user or running
handler holds a `TcpConnectionPtr` to it; `send` binds the raw `this`, so its functors do not count.
epoll reports input, writability and errors; after an error `handleEventWithGuard` calls `handleError` first, which
takes it off the socket. `stale` is history: the connections that the callback of another closed while their own event
was still to be handled in that turn of the loop. A base loop may outlive the server, with its functors (`BaseAfterServer`); what
such a functor does to the destroyed server is undefined, and only that it runs is recorded.

Left out: the high-water mark callback, `setTcpNoDelay`, addresses, user code in the
connection callback of `handleClose` (the connection is already `kDisconnected` there, so
what it could do to it is nothing), `POLLHUP` without `POLLIN` (epoll reports input along with it for a channel
that reads), the pool of size 0, and users that call into a loop
that no longer exists.

### Connector

The channel of an attempt, the loop's functors in order and the retries that wait in the
Timer. `connect(2)` may answer with each class of `errno` the code tells apart; the network
may change its answer between the poll and the handler, which reads `SO_ERROR` again.
`handleEventWithGuard` calls close, error and write callback one after the other, and the user's
callback runs inside them, where it may call `start()` at once. A retry ends the
model: the Timer runs `startInLoop` in a thread of its pool, and `assertInLoopThread`
(`EventLoop.cpp:152`) ends the process. A failed assertion ends it too, and both are kept in `ended`. A socket is open,
closed or handed over; `Ended` makes it `"misused"` if that happens to one that is not open.

### Timer

`list` is the one list of entries that all buckets of a wheel share; `where` is the
`list` pointer of an entry; `m_expiration` belongs to each bucket. `addByDelay` is split
where other threads may come between: reading the clock, the lock and the placement, the flag of
`setExpiration`, the exchange, the offer. A ticker polls, takes the lock,
flushes one entry at a time. `Created` and `Advanced` are the creation of overflow wheels
and the advance of the clocks through them, each a function that is recursive over the wheels. `m_rwMutex` is the
set of the threads that hold it. `lost` (tasks whose `setExpiration` found the flag
busy and so returned an undefined value), `freed` (below) and `overtaken` (a bucket has had entries of two
rounds, or got one of another round than the one its expiration was set for) are history.

`TimingWheel::add` of the first wheel has no return where it hands the entry to the overflow wheel (`TimingWheel.cc:69-75`),
and what `addTimerTaskEntry` reads is anything (`Returned`): as true, all is well; as false, the task goes to the thread pool at once
and its entry is deleted while it is linked (`freed`), both in `addByDelay` and when `flush` puts an entry back. A task that runs
while its entry is linked in another bucket is deleted in the same way. When a later step reads or writes a deleted entry, by the loop of
`flush` or as the neighbour of one that is linked or unlinked (`reached`, `lastOf`), the behaviour is undefined: `crashed`, and the model stops there.

### SizeClass, Runs, PoolChunk

`SizeClass` translates the rows, the tables and the lookups with the integer arithmetic of
the code. `PoolChunk` keeps both indexes, `m_runsAvail` and `m_runsAvailMap`, and `free()`
is taken apart into the turns of `collapsePrev` and `collapseNext` and the insertion, so that
the invariants speak of every moment of a merge. Another thread cannot look in between
(`m_runAvailMtx`), and `PoolChunkSpec` sees the whole as one step.

### PoolArena

Chunks are the runs in use of `PoolChunkSpec`, with `m_subpages`, `m_cachedBuffers` and
`m_parent`. A call goes through the thread's cache, perhaps a trim (one entry a step), then
the pool of subpages or the chunk lists, or a chunk of its own, and `reallocate` frees the old block at the
end. Each of these is a step, for other threads may come between: the connection's buffers are
allocated by the base loop (`TcpConnection.cpp:29`) and grown by the I/O loop, from the same arena. A step is a
critical section of the arena's mutex or of a pool's; the maker of a subpage links it and takes its first slot with the former
but not the latter, so that linking it, choosing the slot and taking it are three. If another thread is in
`tcacheAllocateSmall` for the class during one of them (`Meets`), links, bitmap and `m_numAvail` may be torn: the step may end
in `"race"` instead of its result (`Torn`). If the others have taken every slot in between, the search goes on with the next chunk
(`PoolChunk.cpp:106`, `PoolChunkList.cpp:41`). A failed assertion is
recorded in `failed` and ends the process, and a race ends the behaviour, since nothing can be said of what follows. Two threads that
work on one cache at the same time are left out. A buffer has its capacity, its two
indices and its block; `tmp` is where `m_tmpBuf` points. The bytes themselves are left out.

## 3. The checks

| run | module and bounds | states | shows |
|---|---|---|---|
| `queue` | 2 producers, 2 enqueues each, 4 addresses | 35,508 | memory safety, no leak, every item delivered, refinement of `MpscQueueSpec` |
| `thread` | owner, one other thread and the loop's own callbacks, 2 calls each, any number of `quit` | 41,489 | no lost wakeup; functors run unless the loop is quit; `run` returns only into a running loop; the destructor's pointer is good and the destructor returns |
| `pool` | 2 workers, 1 client, 2 tasks per adder (workers add from inside tasks) | 98,200 | no worker sleeps over work; `stop` drains what was accepted before it; accepted tasks run |
| `pool_stop` | the same, 1 task per adder | | **violation**: `stop` may never return |
| `tcp` | 1 connection, 1 user, 2 messages per sender, 1 readable event | 478,223 | whole messages in order, FIN after data, output watched, the destructor's assertion, down stays down, a connection its peer closed is destroyed in the end |
| `tcp_server` | 2 connections with callbacks on either, 1 readable event each, no other thread, the server is destroyed | 597,634 | one erase per connection and closed only while it is up, unless the callback of the other closed it while its event waited |
| `timer` | 2 tickers, 2 adders, 2 tasks, 2 wheels of 3 buckets with a tick of 2, clock to 9 | 270,016 | no entry is lost or run twice, clocks agree, nothing runs a tick early but for the missing returns, tasks run while two buckets of a wheel are never in use at once |
| `timer_run` | 1 ticker, 1 adder, the rest the same | | **violation**: a task whose time has come need not run |
| `chunk` | 16 pages of 8192 bytes, the code's size classes, runs of 2, 5, 7 and 10 pages | 5,590 | runs are partitioned, both indexes agree, best fit refuses only without room, every lookup of `SizeClass` for every size up to the chunk, refinement of `PoolChunkSpec` |
| `arena` | 1 thread, 2 chunks of 8 pages, 3 buffers, a cache of 1 that is trimmed every 2 calls | 184,481 | no byte twice, no leak, pools and lists exact, no assertion fails, indices in the block, a chunk is added only without room |
| `arena_race` | 2 threads, 2 buffers | | **violation**: two threads are given the same slot of a subpage |
| `connector` | 3 calls of `start` | 6,417 | sockets accounted for, functors find the connector, assertions fail only for an early `start`, callers are answered |

Why the bounds are enough. Two producers and four addresses let one producer stop between
the exchange and the link while the other enqueues behind it, the consumer drains
what is before it, and an address is freed and given out again (the proofs
cover any number of each). Two calls of each caller let a functor queued in the loop
thread meet one of another thread that is hidden behind an unlinked node. Two workers are
what it takes for a notification to go to the worker that does not need it. For a
connection, two messages per sender and two senders give every order of direct, partial
and buffered writes; one readable event is enough for the data callback to come before the
end of file. `tcp_server` has two connections whose data callbacks close either of them; the assertion of `RemovesOnlyInactive`
can then fail, and the model goes on as a build without assertions does, with the connection marked `stale`. It has no user thread,
whose calls would only queue the same functors; `StateSafety` and `EraseSafety` are proved with any number of them.
For the timer, the delays 2, 4 and 7 with a wheel that reaches 6 put tasks into the next tick, into a
later bucket, and into the overflow wheel, from which they cascade; two adders and two tickers
are what the flag, the poll without the lock and the slow offer need; the clock passes the end of the first round of
the lower wheel. (Three tasks, made symmetric, gave 928,000 states and the same result; that
instance takes longer than a run should.) The four sizes of `chunk` leave gaps of every
class up to the chunk, exact ones and ones that are split. In `arena` a request of 48 bytes is a subpage
whose run has two slots, 250 a run, and 300 written bytes grow a buffer beyond the chunk of 256, to a huge
block; a cache of one entry, trimmed every other call, gives each path of the trim. Three starts of a connector are
one too early, one while it retries, and one from its callback.
The bounds are `MaxEnqueue`, `MaxCalls`, `MaxTasks`, `MaxSend`, `MaxIn`, `MaxAddTime`, `MaxTime`,
`MaxWritten` and `MaxStarts`; they stand in the guards of the calls they limit.

Symmetry is used only for the buffers of `arena` and the workers of `ThreadPoolLeft.cfg`, never in
a liveness run. Deadlock is checked in `chunk`, where a call is always possible, and in no
other run, because the other models come to rest when the bounded calls are used up, and the
real threads then end or sleep. That nobody is left sleeping who should not be is what the liveness properties say.

### Fairness

* queue: a producer that has begun `enqueue` finishes it (straight-line code); the
  consumer keeps dequeuing (the loop does).
* thread: `queueInLoop` and `quit`, once called, finish; the loop thread and the owner go on, the latter to
  destroy the object unless it is in `wait()`. Nothing makes `epoll_wait` return without a wakeup;
  `EveryFuncRunsUnlessQuit` and `DestructorReturns` add it as a premise where they need it, for the timeout of ten seconds (`kPollTimeMs`).
* pool: workers run, tasks return, and a call once begun ends. `stop` need not be called,
  and spurious wakeups need not come.
* connections: both loops run, callbacks return, users let go of what they hold. Nothing
  is assumed of the peer or of the sending of messages.
* timer: time passes, a call of `add` that has begun goes on, a ticker goes on (it is a loop in a thread
  of its own). Nobody has to call `add`.
* connector: the loop goes on, callbacks return, the network answers at last (a
  timeout of the kernel is an answer), the time of a retry comes. Nobody has to call `start`.

### Findings

Disagreements between what the code does and what its comments or assertions say. Each is a run with
`"expect": "violation"`.

1. `pool_stop`: the `notify_all` of `stop()` can fall between the test and the wait of a worker, and
   the join never returns.
2. `timer_run`: the buckets of a wheel share one list, so `flush()` of one bucket takes the
   entries of the others as well, puts each that is not due back at the end of the list it is emptying, and
   spins under the timer's lock: nothing runs in time any more. `TasksRunIfApart` is what remains true.
   The same module shows a second bug, `TimerEarly.cfg` below: `TimingWheel::add` (`TimingWheel.cc:69-75`) ends without a return.
3. `arena_race`: a new subpage is in the pool of its class before its maker takes the first slot
   (`PoolChunk.cpp:158-172`), and the maker does not hold the mutex of the pool: another thread takes that slot in
   between. With the assertion of `PoolSubpage.cpp:57` the process ends; without it two buffers share their bytes.

Further counterexamples. These configurations are kept beside the runs; TLC reports a violation with each
(`tlc -config <cfg> <module>`).

| cfg, module | property | what happens |
|---|---|---|
| `EventLoopThreadRun.cfg`, `MCEventLoopThread` | `RunReturns` | a `quit` in the gap between clearing and testing `quit_` makes `loop()` return at once, and `run()` waits for a promise nobody sets (`EventLoopThread.h:41` says it does not block) |
| `ThreadPoolLeft.cfg`, `MCThreadPool` | `StopLeavesNoTask` | a task is accepted after the last worker has left, against `ThreadPool.h:41` |
| `TcpConnectionPair.cfg`, `MCTcpConnection` | `RemovesOnlyInactive` | closing another active connection in a callback fails the assertion in `removeChannel` (`EventLoop.cpp:104`); without assertions the other handles its stale event, closes again and is erased twice (`ErasedOnce` fails as well) |
| `TcpConnectionTwice.cfg`, `MCTcpConnection` | `ClosedOnce` | the next step of that: the other connection's `handleClose` is entered again in `kDisconnected`, against the assertion of `TcpConnection.cpp:287` |
| `TcpConnectionUsed.cfg`, `MCTcpConnection` | `ServerUsedAlive` | the functor that erases a connection captures `this` (`TcpServer.cpp:94`) and runs in a base loop that outlives the server |
| `TimerEarly.cfg`, `MCTimer` | `NoTaskRunsEarly` | `add` of a task beyond the first wheel has no return (`TimingWheel.cc:69-75`); read as false, the task runs at once, whatever its delay, against `Timer.h:76`, and its entry is deleted while it is linked |
| `TcpConnectionStop.cfg`, `MCTcpConnection` | `DestroyedDisconnected` | destroying the server destroys connections in `kConnected`, against the assertion of `~TcpConnection` (`TcpConnection.cpp:46`) |
| `PoolArenaTmp.cfg`, `MCPoolArena` | `TmpBufAtOffset` | one thread is enough: the pointer cached by the free of one run becomes `m_tmpBuf` of another (`PoolChunk.cpp:114`), against `PoolByteBuf.h:41`; writes go to `m_memory + m_offset`, and `peek()` reads at `m_tmpBuf` |
| `PoolArenaIo.cfg`, `MCPoolArena` | `ThreadHasCache` | a thread that has never allocated grows a buffer of another thread and fails the assertion of `threadCache()` (`PoolByteBufAllocator.cpp:161`), as an I/O thread does with the first connection that outgrows 16384 bytes |

Milder divergences, seen in the models but without a run of their own: `dequeue` returns
false over a finished enqueue that sits behind an unlinked node, though `MpscQueue.h:59` promises
"false if the queue is empty" (the loop is not harmed, which `NoLostWakeup` shows); a `quit` before `loop`
is forgotten (`EventLoop.cpp:129`); functors queued before `quit` may be dropped
(`EventLoop.cpp:131`), which is why the properties about functors say "unless quit"; and
`connectDestroyed` runs before the server has removed the connection (`TcpServer.cpp:100`), although
`TcpConnection.h:94` says otherwise. A connector without `retry_` leaves the socket of a refused
`connect(2)` open and calls nobody back (`Connector.cpp:69`), stays `Connecting` after a failure that
only `SO_ERROR` tells (line 138), and with `retry_` ends the process at the first retry (line 216);
the properties of `connector` name these cases and hold for the others. A cache keeps as many blocks as it
is given, whatever its `m_size` (`PoolThreadCache.cpp:206`), until a trim.

## 4. The proofs

They hold for every value of the constants under the named assumptions beside them:
`NULL` is not an address, there is an address to start with, the loop is not one of the threads and the owner is, bounds are naturals,
the workers are a finite non-empty set, clients are not workers; of the size tables what
`PagesAssumption`, `FloorAssumption`, `ClassAssumption` and `ClassesAssumption` say, which TLC evaluates for the tables the
code builds from the constants of a run; a chunk consists of whole pages (`ChunksAssumption`), and a list that is not asked for a class has no
chunk with room for its run (`ListsAssumption`: the one percent between `maxCapacity()` and `freeMaxThreshold()` is less than a step
from one class to the next).

**MpscQueueProofs.** `IInv` ties the pointers to `chain`: `tail_` is its first node and
`head_` its last; neighbours in the chain are linked exactly when the producer
that exchanged has stored its link; a producer at `"link"` owns the gap behind its
`prevhead`, and no two own the same; live nodes are the chain, the nodes not yet
exchanged and the one the consumer is about to free; items live and die with their nodes. The key consequence
is that an interrupted producer's `prevhead` cannot have been deleted: its `next_` is null,
so the consumer cannot have got past it. `NoUseAfterFree` alone is not inductive, as it
says nothing of who may delete next. `MemorySafety`, `LinkSafety`, `LeakFreedom` and
`TypeCorrect` follow from `IndInv`. `QueueRefinement` maps `chain` to
the places of `MpscQueueSpec` and shows the exchange to be a reservation, the store a
link, the move a take, and every other step a stutter.

**EventLoopThreadProofs**, first of `EventLoop` alone: `NoLostWakeup` is made inductive with three facts: an
unlinked place belongs to exactly the caller that is about to link it (`PlacesOwned`); the loop
thread is inside a call only where user code runs (`LoopThreadBusy`); and no
turn has been made before `loop` is entered (`FirstPass`). `WakeupSafety` is the theorem.

Then of the thread: `TInv` adds to the loop's invariant what each promise stands for (`Handshake`: the
thread enters `loop` only after `run`, and `promiseForLoop_` has its value only if its functor has run),
when `loop_` is the loop (`PointerHeld`), that `loop` is left only with `quit_` set (`ThreadInLoop`), and that the
owner is in no call on the loop before its own `quit` (`OwnerIdle`). The last is what lets that `quit` overwrite the
owner's place in a call without hiding a wakeup still to come. `RunReturnsLooping` and `QuitPointerSafety` need all of
`Handshake`: the value of the promise shows the owner that the thread is past `quit_ = false`. Neither excludes a
second caller of `quit`; those are the hazards at `EventLoop.cpp:129` and `EventLoop.cpp:120`.

**ThreadPoolProofs.** The mutex has at most one owner (`MutexHeld`), every
accepted task is waiting, taken or done (`TaskKept`), and the flag is clear once `stop`
has begun (`FlagCleared`). `WorkConservation` counts: a push adds one task and turns one
sleeper, if there is one, into a seeker, and a worker that takes a task stops being one, so the waiting tasks never
outnumber the seekers while someone sleeps. `ExitSafety` and `DrainOnStop` say what `stop`
does guarantee, next to the two findings that say what it does not.

**ConnectorProofs.** `CInv` says what holds while the process runs: sockets are made in order, one for each
`start` whose functor has run (`SocketsLeft`); a channel that is not watched any more has exactly one reset queued,
which runs before the next poll (`ResetToCome`); events still to be dispatched belong to the attempt, or it is over
without a connection (`EventsOfAttempt`); and a `start` made when nothing was under way finds nothing under way
(`OneAtATime`). `ResetToCome` is what makes the handlers safe: HUP, ERR and OUT of one poll reach three
handlers, and only the first finds the status at Connecting. `OneAtATime` is the argument for `AssertionSafety`:
it fails for a `start` in a callback, which comes before the reset, and that is why the property says "early".

**TcpConnectionProofs.** `ConnInv` needs little beside the properties themselves. `connectEstablished` is queued once
for a connection (`EstablishedOnce`) and epoll reports only what it has established (`EventsEstablished`), so a
handler never meets a connection that is still `kConnecting`; what is up is in the poller and nothing else (`StateMatches`), and
an event that waits finds its connection up unless a callback of another has closed it (`EventsPending`), which is the argument for
`StateSafety`: `handleClose` is entered in a state its assertion allows, but for those connections. `EraseSafety` follows:
one entry of `handleClose` queues one erase. The exception of both is needed: `TcpConnectionPair.cfg` shows the first
step of a connection that is closed again by its own event, `TcpConnectionTwice.cfg` the second. A connection that is down asks for no
writability (`DownQuiet`), so `handleWrite` cannot write for it; the base loop erases only what is down
(`ErasesDown`) and so `connSet_` keeps the rest (`ServerKeeps`). `OutputSafety` and `FinSafety` go together: a partial
write makes the channel watch, `shutdownInLoop` tests just that, and a later `send` finds the write side shut
only if nothing waits. `DestroySafety` holds for a server that is never destroyed, and `TcpConnectionStop.cfg` shows why it says
so. For `MessagesWhole`, `Messages` adds where the messages are that are not in a stream yet: in the order of their sender
in the queue of functors (`QueueOrdered`), newer than all of that sender in the stream (`QueueLater`), and none newer than what
has been sent. A callback's message overtakes the queue, and may: only user threads queue (`QueueSent`), so it
overtakes no message of its own sender. `CutTogether` is why a partial write moves the border between `wire` and
`outputBuffer_` and nothing else.

**TimerProofs.** The tasks are a finite set; no delay reaches beyond the last wheel (`ReachAssumption`), and no
thread both ticks and adds. The clocks come first. `CreatedAgrees` and `AdvancedClock` show that creating
wheels and advancing them keep `ClocksAgree`, by an induction over the wheels that rests on the least element of a set of
numbers (`Least`, `UpTo`, `Recursion`); `LevelFor` concludes that `add` always comes to exactly one wheel. `Inv` has a part
for the lock, for what calls and polls have in hand (`Locked`, `Calls`), for entries (`RanOnce`, `Lists`, `Counted`) and
for buckets. `NothingForgotten` is not inductive: `setExpiration` leaves a bucket alone whose expiration it finds
unchanged, relying on an offer made by somebody else. `Expirations` says so of every bucket that is set, with
the time it comes up (`Covered`), and `Fitting` says that the wheel an adder has chosen is still the one it would choose
when it sets the expiration, though the flag comes in between. `Conservation`, `NoneForgotten` and `AgreementOfClocks` follow
from `Inv`, whatever the functions without a return give: the properties name the tasks that this hits (`freed`, `lost`) and end where a deleted
entry is reached (`crashed`). `NotEarly` excludes a task whose `add` read as false, and all once `setExpiration` found a flag busy.
For it, `OnTime` says that until a bucket is overtaken each bucket that is set is in one place of its way,
offered, queued or polled (`OnePerRound`), serves one round (`Rounds`, `Served`), and comes up when its expiration has passed, so
that the first clock is never ahead of the time (`Timely`). TLC on longer clocks showed the first form of `overtaken`, two
entries of different rounds at once, to be too weak: a bucket that has been polled and emptied by the flush of another
can be used again before its own flush.

**PoolChunkProofs.** The chunk is proved for any number of pages and any size table that
satisfies the assumptions on it: a class at or above the one asked for holds only runs that are long enough (`PagesAssumption`),
a longer run is in no lower class (`FloorAssumption`), a request is for whole classes of pages (`ClassAssumption`),
and the whole chunk is in the last class. `InvPages` has six parts: every queue holds the runs of its class
(`QueuesOf`), the map holds exactly the first and last pages of the free runs (`MapOf`), runs in use are
disjoint, the run being freed is apart from all others and contains its handle (`FreeingOK`), pages are
partitioned, and two free runs never touch except at the run being merged (`Merged`). The partition alone is not
inductive: a merge finds its neighbour through the map, so a stale entry of the map would make it
swallow pages in use. `Merged` gives `ChunkMerged`: between calls the free runs are exactly the gaps.
`InvBytes` adds the count of free pages, by cardinalities. From both, `ChunkRefines` shows that a run is taken from the best fitting
gap, that the last step of `free()` is the abstract free, and that the steps of a merge are stutters. `RefusedSafety` is the
other half of best fit: the search by classes hides no gap that is long enough.

**PoolArenaProofs.** Part of the arena is proved for any number of threads, under the premise `MadeAlone`: no thread takes a slot from the pool of a class
while another makes a subpage for that class, from finding the pool empty to taking the first slot. Without it the code has a data race
(`arena_race`), and nothing could be promised. Two threads on one cache at a time are outside the model (§5). More is proved for a
single thread, which is what `Alone` says, and which keeps `MadeAlone` by itself. There are four invariants.

`IndexInv`: `IndexSafety` shows that the indices of a buffer stay in the block it holds. A block keeps the size of its class
on its way through caches, pools and chunks (`Sized`, `QueuesOK`; an entry of a cache has the size of that cache, because `free`
finds the class by the size, `ClassesAssumption`). A write has computed the new capacity from the write index before it searches, and adds to the index at the
end; in between, `RoomFor` says that the block to come has room for both, since no other call is on that buffer
(`CallsOK`: `Begins` is the one thing asked of the callers). And `capacity` trims before it adds (`Trimmed`).

`SharedInv`, any number of threads under `MadeAlone`: who holds what, and what the arena knows of it. Of the places where a block can be (a
buffer, the old block of a call, an entry of a cache) no two hold the same one (`HoldersOK`). `MemoryOK` ties the blocks held to the memory:
runs in use are disjoint, a block is a run in use or a slot of one whose bit is set, each of these has a holder, and the pool of a class lists the subpages with a
free slot, each once. `ChunksOK` ties the chunks to their lists: listed once, destroyed only when empty, within the bounds of
the list. The last is not true while a subpage is made: its chunk has a usage its list does not
fit, or is in no list yet. So `ChunksOK` leaves out the subpages in `AtWork`, and `WorkOK` says that there is one at most, since `m_mtx` is held from making it to taking its
first slot. A move of a block (`Move...`, `Own...`) and a change of one subpage or run (`Cell...`)
are treated once each and cited by the steps. Three results follow. `OnlyCacheMissing`: the only
assertion that can fail is the one on a thread without a cache, and `PoolArenaIo.cfg` shows that it does. `NothingLeaks`: every run
in use and every bit that is set has a holder and the
pools are exact, in every step of every thread. `ArenaExact`: no byte has two holders, and whenever the lock is free the chunks are
listed by usage. `IndexSafety` needs no such premise, up to the step where a behaviour ends.

`SoloInv`, one thread: `SharedInv`, no assertion has failed, and what a single thread keeps besides: the pool is still empty when a subpage is made for it, and a thread in a call has its cache
(`SoloOK`). From it follow the
properties of the run `arena` as they stand: `AloneAsserts`, `AloneBytes`, `AloneLeaks` and `AloneLists`. The last
includes that idle subpages do not pile up (`IdleOK`), which several threads do not keep: two that find a pool empty make two subpages.

`RoomInv`, any number of threads under `MadeAlone`: `NoNeedlessChunk` is the action property, that a chunk is added only when none has room. A list that is not asked
has no such chunk (`TriesAll`, from `ListsAssumption`); for a small class the chunk is added two steps after the search, with other threads in between.
`NoRoomOK` says that no chunk has got room meanwhile: whoever frees a run needs the lock (`OutsideRoom`), and slots freed in a pool free no run.

Only model-checked: the lookups of `SizeClass` (`SizesLookedUp`), which the assumptions on sizes and
pages rest on and which are logarithms and shifts, powers of two, which the prover does not compute; and all liveness
(the prover has no rule for fairness that would scale to it).

## 5. Not modelled, and the plan

* **What a data race leaves behind.** With several threads a behaviour of `PoolArena` ends at the first failed
  assertion and where two threads have met at a pool without a common lock (`Torn`). Two threads on one cache
  at a time (`PoolThreadCache.cpp:206` has no lock) are left out. What `arena` shows holds for an arena that one thread uses, and what is
  proved of several says on which premise. The choice of an arena for a thread is left out as well.
* **In `PoolArena`**: the `PoolSubpage` object that `PoolChunk.cpp:279` drops without deleting it ("nothing leaks" is about
  runs and slots of a chunk); the assertions of `addToPool`, `removeFromPool` and `splitLargeRun`, which are on pointers and counts that
  the model has as sequences and sets (`PoolsExact` and `PoolChunk` say what they protect). The capacities of the run `arena` never shrink
  a buffer in place; `IndexSafety` is proved for any capacities.
* **The default chunk of 16 MB**: the lookups of `SizeClass` are checked for a chunk of 128 KB, the arena with one of 256 bytes. The proofs are
  for any table that satisfies their assumptions.
* **`LongAddr`**, whose table of cells grows under its users (`MetaConcurrent.h:201`): only metrics of the arena depend on it.
* **`Timer::shutdown`**, and the singleton that every `EventLoop` deletes: the model has one timer
  that outlives its users. Every ticker holds a thread of the pool for good; with as many tickers as
  workers no task would run, which depends on the two numbers given to `newTimer` only.
* **The pool of size 0**, where the base loop is the I/O loop; `EventLoopThreadPool` (an index modulo the number of
  loops) and `Acceptor` (one callback of the base loop, with its EMFILE fallback).
* **HTTP**: a sequential parser over strings. One request is parsed per read, so that a second
  one in the same read waits for the next bytes (`HttpServer.cpp:51`).
* `Socket` and `InetAddress` (system calls and formatting), `base/any`, `callbacks.h` (types), tests and
  backup copies; `buffer/Buffer`, which forwards to a `PoolByteBuf` and reads from a socket into it.

Next: a thread cache that another thread adds to while its owner pops (`PoolThreadCache.cpp:206`), which needs the queue of a cache
step by step; and `EventLoopThreadPool` with more than one I/O loop, once connections are followed over several loops.
