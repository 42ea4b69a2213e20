# A TLA+ model of CppBasic-ThreadBasic

The repository is a set of four Windows programs that practise thread
synchronisation, and the small library they are built from. This directory
models the programs' control flow, checks it with TLC on small instances and
proves the safety properties with TLAPS for every instance.

## 1. The system

| Part | Source | State | Operations |
| --- | --- | --- | --- |
| `Thread_queue` | `Thread_queue/2 Thread_queue/main.cpp` | ring buffer `g_MsgQ`, its lock, auto-reset event `g_hEvent`, `g_List` under the SRW lock `g_ListCs` | `main()` produces ADD, DEL, PRINT and, on space, QUIT; the `UpdateThread` workers drain and dispatch, and hand QUIT on |
| `CRingBuffer` | `CRingBuffer.cpp` (two copies) | byte array, read and write position, SRW lock | sizes, `Enqueue`, `Dequeue`, `Peek`, raw pointers with `MoveReadPos`/`MoveWritePos`, `Clear` |
| `Thread_DBSave` | `Thread_DBSave/3 Thread_DBSave/_main.cpp` | ring of header pointers, header pool, auto-reset writer event, manual-reset exit event, `g_bShutdown`, counters | `UpdateThread` fills a header and enqueues its pointer under the lock; `DBWriterThread` dequeues without the lock, frees the header, sends the query; `main()` and `ServerControl` run the keys and the shutdown |
| `CDBConnector`, `CDBConnector_TLS` | same directory | MySQL handle, last error; one connector for each thread | `Query` with five attempts and reconnects |
| `CLFStack`, `CLFMemoryPool`, `CLFMemoryPool_TLS` | same directory | tagged top pointers, counters; chunks with counts of free items | lock-free push, pop, alloc, free |
| `Thread_list` | `Thread_list/2 Thread_list/main.cpp` | `g_lstData` under a critical section, auto-reset save event, `g_bShutdown` | push, pop, print and save threads |
| `Thread_Basic` | `Thread_Basic/1 Thread_Basic/main.cpp` | two counters, `g_bShutdown` | accept, disconnect, update threads, stop after 20 s |
| `CSystemLog` | `CSystemLog.h` | level, counter, file lock, directory names | `LOG`, `LOG_SET`, `LOG_SET_DIR` |
| `CallHttp`, `APIHook`, `CrashDump` | same directory | sockets, import tables, dump files | I/O and effects on the loaded image |

The programs are independent of each other. Inside `Thread_queue` the producer
and the workers meet in the ring buffer, the event and the list. Inside
`Thread_DBSave` updaters and writer meet in the ring, the pool and two events;
the writer calls the connector; the connector keeps its objects in a lock-free
stack; the stack and the chunk pool take their nodes from the lock-free pool.

What is hard here, and what makes each part correct:

* **Tests made before an act.** A size test and the copy it permits, an empty
  test and the pop it permits, must see the same state. Where a lock covers
  both, nothing may come in between; where it does not, something does.
* **Auto-reset events** merge several signals into one. A message in a queue
  must never be left with everybody asleep.
* **Shutdown.** In `Thread_queue` a QUIT message travels through the queue it
  ends; in `Thread_DBSave` the updaters, the writer and `main()` have to end in
  that order. Nothing accepted may be left behind and everybody must end.
* **Positions that wrap.** Sizes, unbroken sizes and split copies have to be
  right at every pair of positions, and stay in bounds.
* **Ownership without locks.** A header is with the pool, in the ring or with
  one thread. Pointers that were freed and taken again must not confuse a
  compare-and-swap.
* **Retries** against a database that may have executed what it did not confirm.

`PROJECT.json` lists each of these places with its line under `hazards`.

## 2. The modules

| Module | Models | State and actions |
| --- | --- | --- |
| `MessageDispatch` | what the message queue and the database pipeline promise | a bounded pipe: `Post`, `Take`, `Handle`, `Close`, `Leave` |
| `ThreadQueue` | `Thread_queue/main.cpp` | one action for every access to shared state of `main()` and `UpdateThread()` |
| `ThreadQueueProofs` | | theorems about `ThreadQueue`, its refinement of `MessageDispatch` |
| `RingOps` | the size arithmetic of `CRingBuffer` | operators over two positions |
| `ByteFifo` | what `CRingBuffer` promises | a queue of at most `BufferSize - 1` bytes |
| `RingBuffer` | `CRingBuffer.cpp` | one action for every call, made under the lock |
| `RingBufferProofs` | | theorems about `RingBuffer`, its refinement of `ByteFifo` |
| `DBSave` | `Thread_DBSave/_main.cpp` with the ring's calls step by step | one action for every access to shared state |
| `MCDBSave` | | symmetry of updaters and headers |
| `DBSaveProofs` | | theorems about `DBSave`, its refinement of `MessageDispatch` |
| `DBConnector` | `CDBConnector.cpp` and `CDBConnector_TLS.cpp` against a server | the connectors of all threads; one action for every call to the client library and every way it can end |
| `DBConnectorProofs` | | theorems about `DBConnector` |
| `BlockPool` | what the pools promise | who has which block: `Alloc` only what nobody has |
| `LFPool` | `CLFMemoryPool.h` | one action for every access to shared memory of `Alloc` and `Free` |
| `LFPoolProofs` | | theorems about `LFPool`, its refinement of `BlockPool` |
| `LifoStack` | what `CLFStack` promises | a stack: `Push`, `Pop` |
| `LFStack` | `CLFStack.h` over the promise of the pool | one action for every access to shared memory of `Push` and `Pop` |
| `LFStackProofs` | | theorems about `LFStack`, its refinement of `LifoStack` |
| `ChunkPool` | `CLFMemoryPool_TLS.h` over the promise of the pool | the chunk of each thread, its index and its count of free items |
| `ChunkPoolProofs` | | theorems about `ChunkPool`, its refinement of `BlockPool` |
| `MCLFStack`, `MCChunkPool` | | symmetry of threads with nodes, and with chunks |
| `ThreadList` | `Thread_list/main.cpp` | one action for every access to shared state and every element a walk passes |
| `ThreadListProofs` | | theorems about `ThreadList` and `ThreadBasic` |
| `ThreadBasic` | `Thread_Basic/main.cpp` | one action for every access to the counters, the lock and the flag |

Operators named *Slip...* in a comment are plausible mistakes in the definition
that follows them. No specification uses them; they serve to confirm that each
property fails when the code is wrong.

### ThreadQueue

`pc[t]` says where a thread is. Taking a lock is a step, a test made under it is
a step, the copy out of the ring and the move of its position with the unlock
are two steps, and so on. A lock release is joined to the last access before it:
nobody can see the state in between. The ring buffer is a sequence of whole
messages; that this is sound is `CheckedSizeHolds` (each put and get is a whole
message) with `RingBuffer` (bytes come out as they went in). A message is a
number and a type; the number stands for the string. `list` is the length of
`g_List`, because no step depends on its strings.

`accepted` and `handled` are history. `crashed` becomes true when `pop_back`
runs on an empty `std::list`: this is undefined, and nothing that follows it can
be relied on, so the model stops there.

### RingBuffer

The calls are atomic, as they are for a caller that holds the lock. `ret` and
`dest` are the results of the last call, so that the refinement of `ByteFifo`
compares results and not only contents. `WriteDirect` and `ReadDirect` are a
caller's copy through the raw pointer followed by `MoveWritePos` or
`MoveReadPos`, no longer than the unbroken size it asked for. No program of the
repository uses these, nor `Peek` or `Clear`; they are modelled as part of the class.

### DBSave

The writer does not take the lock, so a call of a size function is two steps:
the read it compares (`Compare`) and the read it computes with (the action that
uses the size). A compiler may keep the first value in a register; then nothing
happens between the two steps, which is one of the schedules. Positions are
counted in pointers: every put and get moves a position by one pointer until a
copy goes wrong, and the ring's size, 20000, is a multiple of 8. Two tests
of the code then never fire and are left out: the one at the head of `Enqueue`
that compares single bytes, and the one at the head of `Dequeue`, which the
writer calls after it has seen the ring not empty. Sizes are in bytes, because
a free size is always one byte less than a multiple of the pointer size.

`corrupted` becomes true when a copy uses a size other than the pointer's: too
much is copied over or from a local pointer, and the model stops there. The
properties speak of all that happens before.

Updaters hold the lock, the writer does not, so an updater's size calls can be
torn as well: between the comparison and the computation of
`GetUnbrokenEnqueueSize()` the writer may move the read position past the end,
and the difference becomes negative. `EnqueueCopy` sets `corrupted` in that case,
too.

The pool is what it promises: `Alloc` returns a header nobody has. A full ring
drops a pointer and with it the header (`leaked`). The writer's query is sent
or lost inside `WriterQuery`: the code ignores the result, and `DBConnector`
says what the result means.

`Pipe` reads the program as a `MessageDispatch` with the writer as its only
worker and row numbers as messages: what waits is the rows behind the pointers
from `iRead` to `iWrite`, in the writer's hand is the row of the header it took
or the query built from it, and the end is announced by the exit event. The
header, which the pool may give to somebody else while its row is still in the
writer's hand, is not seen in the pipe; that it does not show is what has to be
proved. A dropped pointer is never posted.

### DBConnector

A connector is named after its thread. `connected` is the code's view
(`_pMySQL` is not null), `session` the server's; the two part when the server
drops a session or a connection error closes it. `SendAnswered`,
`SendRefused` and `SendLost` are the three ways `mysql_query` ends for this code:
success, an error of the statement, and one of the seven connection errors.
With a connection error the server may have executed the statement, and only
the answer was lost; `executed` and `lost` count both for the call at work. Each
attempt, a reconnect with no connection included, takes one from `iQueryCount`.
The server acts at any time (`ServerDrops`) and is external; so are
`mysql_real_connect` and `mysql_query`. `Query` and `Query_Insert` differ only in
what they do with the result set, which is left out, so they are one operation.
`Delete` is the destructor of `CDBConnector_TLS`, called when no thread uses the
object. `Thread_DBSave` itself never deletes its connector (`_main.cpp:57`): what is
said of the destructor is said of the class.

### ThreadList

A walk over the list is not one step: `PrintThread` and `SaveThread` hold the
critical section from `Begin` to `Leave` and pass one element at a time. `PopThread`
tests `empty()` before it takes the critical section, as the code does. The file
is the sequence of the elements written. `_wfopen_s` may fail; nobody looks at its
result, and the model ends there (`crashed`). Elements are numbered by their push.

### ThreadBasic

The interlocked operations are one step each, `++g_Data` is a read and a write
inside the critical section, and the test of `g_Connect` is a step before its
decrement. The module's invariants are short enough to be proved at once; they
are, in `ThreadListProofs`, for any number of threads, and no run repeats them
on a small instance.

### LFPool, LFStack, ChunkPool

`top` is the pair that the double-word compare-and-exchange replaces as one. It
is read in two halves, tag first, and the code reads the block a third time: for
`Alloc` inside the arguments of the exchange (`AllocPtr`, `AllocNext`), for
`Free` and `Push` to set the link. The thread's copy may therefore mix two tops;
the exchange must then fail. Tags come from a counter of their own and are never
used twice by one list; they do not wrap in the model, as 2^63 calls do not
happen. Memory of a block is never given back to the heap, so a read through an
old pointer is a read of a block, whoever owns it now.

`LFPool` has the blocks malloc can return as a constant. When they are used up,
`AllocNew` cannot step: the code does not look at malloc's result, and
`CallsReturn` names this case (`NoMemory`). The variable `given` says which
blocks are with callers; `FreeCall` is made for any block some caller has, by
any thread. The code's constructor calls for a block's contents, and the branch
for a pool with a fixed number of blocks, which nothing builds, are left out.

`LFStack` and `ChunkPool` use `BlockPool`'s promise for the pool under them: a
node, or a chunk, given back can be handed out at once, to anybody. That is the
worst a pool that keeps its promise can do, and it is what `LFPool` is shown to
keep. In `LFStack` the value pushed is the number of the call, so a value is
recognised wherever it appears. `Pop` returns FALSE when its share of the count
is not there: this may happen with a value in the stack, whose `Push` has linked
it and not yet counted it, or while other failing Pops hold the count down.
`FalseMeansBusy` says how far that goes.

## 3. What the runs check

| Run | Question | Bounds, and why they are enough |
| --- | --- | --- |
| `queue` | Is a message ever lost, handled twice, or left with everybody asleep; is the QUIT relay sound; does everything accepted get handled and the program end; does it implement `MessageDispatch`? | 2 workers, 2 messages fit, 3 messages and a QUIT: the queue is empty, full, and refused; the QUIT passes through both workers, which race for the list. The safety part is proved for any number of workers |
| `queue_popback` | README: taking from the list is synchronised. Violated: two workers pass the unlocked empty test | 2 workers, 3 messages (one ADD, two DEL) |
| `queue_space` | README: space puts a QUIT into the queue. Violated when the queue is full | 2 workers, 2 messages fill the queue |
| `ring` | Does every call from every pair of positions implement a byte queue? | 5 bytes of array, requests of 0 to 5 bytes: both positions pass every place and every copy is split at every point |
| `dbsave_safety` | Do headers have one owner, do rows arrive in order and unchanged, does the shutdown drain, does it implement `MessageDispatch`? | 2 updaters, ring of 2 pointers and 3 headers: the ring fills, wraps, refuses; the pool runs out; `MaxMsgs` is tested before the increment, so two updaters send up to 3 rows |
| `dbsave_live` | Does Q end the program and does each row in the ring get sent? | 1 updater, 4 rows: positions wrap and each size call can be torn. With two updaters, a row cannot be left behind by a lost signal: `NoLostWakeup` |
| `dbsave_dequeue` | Does `Dequeue` copy what it is asked for? Violated: an `Enqueue` between its two reads of the size | as `dbsave_safety` |
| `lfpool` | Does a block have one owner, is the free list long enough for each thread that decided to take from it, does every call return? | 2 threads, 3 blocks, 7 calls: a block leaves the list, comes back and leaves again between two reads of one call, with another block under it |
| `lfstack` | Is the stack whole, does a Pop past the count find a node, is each call one step of a stack? | 2 threads, 3 nodes, 6 calls: a node is popped, given back and pushed again inside another thread's Pop |
| `chunkpool` | Does a chunk go back exactly with its last item, and is no item handed out twice? | 3 threads, chunks of 2 items, 9 calls: a chunk is emptied by several threads, recycled and taken by another one |
| `connector` | Does a call's result tell what the server executed, can a call fail to return in any way but by waiting for its thread's first connection, does the destructor close every session? | 2 threads, 2 calls each, 3 attempts: one attempt loses the connection, one is spent on reconnecting, one sends; the second call starts from what the first one left |
| `threadlist` | Does `pop_front()` meet an element, is the saved file the list of one moment, is each S answered and does Q end everybody? | 2 PushThreads, 2 pushes: the list is empty, grows while a walk waits, and shrinks to nothing; the keys come at any time |

A type invariant is part of `PiecesInBounds`, `CountersExact`, `SizeExact` and
`CountsExact`; those of `ThreadQueue`, `DBSave`, `ThreadList`, `DBConnector` and
`ThreadBasic` are proved, and no run repeats them.

Every bound is a constant: `MaxMsgs` (messages generated), `MaxCalls` (calls of a
pool or a stack, or of one connector), `MaxPush` (pushes), `MaxTurns` (turns of all
threads), `MaxRequest` (bytes a caller asks for). The others are sizes the code
has, made small: `QueryCount` is 5 in the code.

Deadlock is not checked where the program ends, or where it is expected to hang.

**Fairness.** Windows schedules every runnable thread, so each worker, updater
and the writer has weak fairness over its steps, and so has `main()` once it is
past its keyboard loop's choice. Not fair: pressing a key, producing another
message, `ServerControl`. The locks are SRW locks without a fairness promise;
weak fairness of each thread is enough for what is checked, because nobody takes
a lock for ever. In `LFPool` a thread inside a call runs on, and no caller has to
make a call: the loops are lock-free and not wait-free, and `CallsReturn` holds
because an exchange fails only when another one succeeded and the calls are
bounded.

In `ThreadList` every thread has weak fairness and `SaveThread` strong fairness:
the others would have to take the critical section again and again at just the
moments `SaveThread` tries, and each of them sleeps outside it after every turn.

In `DBConnector` a thread runs on inside `Query`, and nothing is asked of the server.
The loop of the first connection, in `GetDBConnector()`, has no fairness: a refusal
changes nothing there, and weak fairness would be a promise of the server to accept
in the end. `CallsReturn` therefore says that a call returns or is for ever in that
loop, so that no other loop is without an end. `DBSave` takes `WriterQuery` as one step
that ends: its liveness presupposes that the server accepts the writer's first
connection.

## 4. What is proved

For any set of threads, any sizes that meet the named assumptions of the module,
and any value of the bounds. The assumptions are those the modules state for
their constants and no others: a message is smaller than the buffer, sizes are
positive, the null pointer is not a block, the blocks malloc can return (and, for
the stack's counts and the numbers of rows, the threads) are finitely many.

| Module | Theorems |
| --- | --- |
| `ThreadQueueProofs` | `TypeCorrect`, `CheckedSizeCorrect`, `WakeupCorrect`, `QuitTokenCorrect`, `ExactlyOnceCorrect`, `ShutdownCleanCorrect`, `ListStable`, `Refinement` (`Spec => DispatchSpec`) |
| `RingBufferProofs` | `PiecesCorrect`, `FifoCorrect` (`Spec => FifoSpec`) |
| `DBSaveProofs` | `TypeCorrect`, `HeaderOwnershipCorrect`, `RowsInOrderCorrect`, `RowNumbersCorrect`, `NoLostWakeupCorrect`, `ShutdownDrainsCorrect`, `PipeCorrect` (`Spec => PipeSpec`) |
| `DBConnectorProofs` | `ResultTellsExecutionCorrect`, `SessionsClosedCorrect` |
| `LFPoolProofs` | `FreeListCorrect`, `EnoughFreeCorrect`, `CountersCorrect`, `PoolCorrect` (`Spec => PoolSpec`) |
| `LFStackProofs` | `StackIntactCorrect`, `EnoughNodesCorrect`, `FalseMeansBusyCorrect`, `SizeCorrect`, `StackCorrect` (`Spec => StackSpec`) |
| `ChunkPoolProofs` | `ChunkOwnedCorrect`, `CountsCorrect`, `PoolCorrect` (`Spec => PoolSpec`) |
| `ThreadListProofs` | `TypeCorrect`, `PopMeetsElementCorrect`, `SavedIsSnapshotCorrect`, `DeletedUnusedCorrect`; of `ThreadBasic`: `ConnectExactCorrect`, `DataExactCorrect` |

**ThreadQueue.** `TypeOK` is not inductive. `Append` keeps the ring within its size
because room was tested before it; `Tail` has a message because the size was
tested; both remain true because the lock is held. `Inv` is `TypeOK`,
`CheckedSizeHolds` (the lock and the tested facts) and `MsgInv` (what a thread has
in its hands where the code is about to use it). `WakeupCorrect` adds
`NoLostWakeup` itself, which is inductive under `Inv`. `QuitToken` needs
`ShutdownInv`: where `main()` is once the QUIT is accepted, where a worker is once
it has seen it, and that such a worker's queue holds nothing but the QUIT;
together they are `TokenInv`. `ExactlyOnce` is carried through the steps as
`DeliverInv`: what `main()` is about to put in has an id nobody has seen
(`NewInv`), each message is in at most one place (`OneInv`) and an accepted one in
at least one (`AllInv`). Only three kinds of step move a message: `MainPut` into
the queue, `DrainMove` into a worker's hands, the end of a case out of them; the
frame lemma takes care of the rest. `ShutdownClean` follows from `TokenInv` and
`DeliverInv` without a step. `ListStable` rests on `ListInv`: who is inside the
list is who holds its lock, and in which mode. `Refinement` maps every step:
`MainPut` is a `Post` or, with the QUIT, the `Close`; `DrainMove` is a `Take` unless
it takes the QUIT; the end of a case is `Handle`, `ForwardSet` is `Leave`, a
`pop_back` of the empty list is `Halt`; nothing else is seen. The capacity of the
pipe is `(BufferSize - 1) \div MsgSize` messages: `RoomForOne` gets it from the
test in bytes.

**RingBuffer.** `TypeOK` is inductive. The rest is arithmetic, kept apart from the
calls: a move of at most the array's size wraps at most once (`AdvanceFact`), used and
free size add up to `BufferSize - 1` (`SizeFact`), the places behind the read position
differ as long as they are in use (`PlaceFact`), and a position moved by what fits
changes the used size by just that (`MovedFact`). `Contents` is the bytes from
the read position on. `CopyInFact` and `CopyOutFact` say which byte a copy in two
pieces puts where; from them `PutFact`, `GetFact` and `DropFact` give what a call does
to `Contents`, and each call is then one step of `ByteFifo`.

**DBSave.** The theorems cover every run up to the first copy that uses a torn
size. The interest is in how little the missing lock breaks before that.
`RingInv` says what a size call may rely on when the other side moved after its
comparison: the writer can only make room and updaters can only add pointers, so a
torn size errs on the side of "no room" or is still right about "not empty".
`HoldInv` says who has the lock and whose header is set, `ExitInv` in which order
the threads leave. `OrderInv` counts positions from `iRead`: the pointer `Off(p)`
places behind it carries the row number `Taken + Off(p) + 1` of `accepted`, so a
`Dequeue` gets the next row and no header is written while it waits. `NumberInv`
keeps the numbers of rows under way between 1 and the counter, and apart.

`PipeCorrect` needs two more facts. `CountInv`, that the counter plus the updaters about
to increment it is at most `MaxMsgs + Cardinality(Updaters)`, makes the rows'
numbers messages of the pipe: the counter is tested before it is incremented.
`PipeInv`, which follows from `OrderInv`, says what the mapping reads out of the
headers in words of `accepted`: what waits is its rows after the taken ones, and the
writer's row is the last one taken. Then `EnqueueMove` is a `Post`, `DequeueMove` a
`Take`, `WriterQuery` the `Handle`, `MainExitEvent` the `Close`, `WriterTest` on its way
out the `Leave`, a copy that goes wrong the `Halt`; every other step leaves the pipe
alone, the one in which a header is given back and filled again included.

**DBConnector.** `CountInv`: while a call is at work its executions are exactly its
lost answers, and executions plus attempts left never exceed `QueryCount`.
`PlaceInv`: a connector inside a call is in the stack, has no session while it
connects, and the destructor runs with everybody outside.

**LFPool, LFStack.** A tag is new with each successful exchange, so a thread whose
tag is the top's has seen this top since, and what it read of the block is still
true: `TagInv`, `EpochInv` (and `ReadInv` in `LFStack`). `ListInv` says that some
sequence without repetition is the chain behind the top; a successful exchange
adds to its front or takes from it, and a link that is written belongs to a block
outside it. The counters follow the list late or ahead of it, by the threads between the two
(`CountInv`): in `LFStack`
`lUseSize + |Counting| + |Popping| + |Undoing| = |Linked|`, in `LFPool`
`lUseSize = |Given| + |Using|` and `lAllocSize = |known|`, with a block known, given
or being freed in one place only. `EnoughNodes` and `EnoughFree` follow. `StackCorrect` and `PoolCorrect` map each step: a successful exchange of Push
pushes, one of Pop pops, all else stutters.

**ChunkPool.** `Owed(c)` is the set of items of a chunk that have yet to come back:
those with callers, on their way, and not handed out. `CountInv` says that
`iFreeCount` is its size; a thread whose decrement reaches zero therefore finds
nothing owed, is the only one (`RecycleInv`), and recycles a chunk no slot and no
caller knows (`RecycledOwesNothing`).

**ThreadList, ThreadBasic.** Who is inside the critical section owns it
(`LockInv`). `PopThread` is the only consumer and `DisconnectThread` the only one who
decrements, so their unlocked tests stay true. `WalkInv` keeps what a walk has
written equal to the list it entered with; `JoinInv` orders the end.

Only model-checked: liveness (`ShutdownCompletes`, `AcceptedHandled`, `RowsReachDB`,
`SaveServed`, `CallsReturn`), which the prover cannot do under fairness. Every other
property of a passing run is a theorem.

## 5. What is not modelled, and what could follow

The repository has some 24,500 lines of C and C++, of which about 20,000 are the
MySQL client's headers and 4,300 its own. All of its own control flow that keeps
state between calls is modelled, except:

* `CLFStack::Clear` and `isEmpty`: the destructor calls `Clear` when no thread is
  left. The program's one stack is emptied by Pop before that, which is why
  `Clear`, which leaves its loop after the first Pop that succeeds, does no harm;
* the branches of `CLFMemoryPool` for a fixed number of blocks, and its constructor
  calls for a block's contents: nothing in the repository builds such a pool;
* `_pSqlResult`, `FetchRow` and `FreeResult` of the connector: the writer sends only
  INSERTs, and nothing in the repository reads or frees a result after `Query`;
* `CDBConnector_TLS::Connect` and `Disconnect`, protected and never called;
* the keys of `ServerControl` that change the log level, and the monitoring output;
* `CSystemLog`: its files are written and not read back. The one shared variable
  it writes outside its lock always gets the same value here, because only the
  type SYSTEM is ever logged;
* `CallHttp` (the programs use only its character conversions), `APIHook` and
  `CrashDump`, whose effects are on sockets, import tables and dump files.

What could follow: `DBSave` with `WriterQuery` replaced by the steps of
`DBConnector`, to follow a row that is refused or sent twice.
