# A TLA+ development of MATLAB-Dataflow

MATLAB-Dataflow runs MATLAB functions, compiled to C++, as the blocks of a flow
graph: every block is a `Worker` with a thread of its own, and Workers hand
pointers to each other over lock-free single-producer, single-consumer queues.
These modules model the way from a MATLAB script to a running graph: the
generator, the program it writes, the threads, the queues, the buffers and the
benchmark, and the start and end of a graph. TLC checks them on small
instances; TLAPS proves all safety properties but two for graphs of any shape
and size, scripts and queues of any length and any ring of blocks.

## 1. Inventory

| Component | State | Operations | Hard part |
|---|---|---|---|
| `Worker` loops (`src/src/flowMP.cpp:63-287`) | stop flag, the locals of the loop (`data`, `processedData`, `flag`, loop variables), where the thread stands | read all inputs, `m_ProcessData`, send all outputs, init/cleanup | every Worker is a thread; the stop flag is set from outside at any moment; reading blocks with a 5 ms time-out; sending blocks on a counter without looking at the stop flag |
| queues between Workers (`flowMP.cpp:8-59, 302-313`) | queue contents and a separate `atomic<int>` for each queue | made by the constructor, shared by `connect()` | queue and counter are updated in two steps by two threads |
| `Graph::run`, `shutdown` (`src/src/graph.cpp`) | loop variables of the main thread, `m_BlockThread` of each Worker | start sinks, blocks, sources; wait; set stop flags; notify; join; sleep | runs while all Workers run |
| recognition of sources and sinks (`graph.cpp:22-51`) | names, indices | three double loops over names | one index for two lists |
| `BlockingReaderWriterQueue` (`src/include/readerwriterqueue.h:671-836`) | inner queue, semaphore | `enqueue`, `try_enqueue`; `try_dequeue`, `pop`, `wait_dequeue`, `wait_dequeue_timed` | asserts that the inner queue has an element whenever the semaphore was obtained |
| `LightweightSemaphore` and POSIX `Semaphore` (`src/include/atomicops.h:478-655`) | atomic count, `sem_t` | `signal`; `tryWait`, `wait`, timed `wait` | lock-free; time-out races the signal; deadline arithmetic |
| `ReaderWriterQueue` (`readerwriterqueue.h:90-660`) | ring of blocks, each with front, tail and cached copies | `enqueue`, `try_enqueue`, `try_dequeue`, `peek`, `pop`, `size_approx`, destructor | block hand-over between the two threads; elements left in any block when it is destroyed |
| `GraphGenerator.m` | blocks, unique names, connections | `AddBlock`, `Connect`, `WriteCode`, `Build` | connections are looked up by name twice, at different times; a stale variable; placeholders of unconnected ports |
| the program it writes (`mainPD_*_gen.cpp`) | Workers, their queues, the graph | constructors, `connect()` calls, `run` | what it connects decides whether the queues have one consumer each |
| block wrappers (`process_header.py`, `blocks*.h`) | buffers | allocate, call, delete, send | ownership of a buffer travels with its pointer; a stop finds buffers on the way |
| benchmarking (`#ifdef BENCHMARKING`) | time stamps, counts, a completion flag | recorded in the loops, read by `run` | read while threads write; two ends that count for themselves; a flag that ends the wait |
| hand-over benchmark (`mainPD_bm.cpp`, `blocks_bm.h`) | global start flag, counter and times | ten runs of a producer and a consumer | globals and Workers of one run outlive it |

Interaction: the main thread and the Workers share the stop flags; two
connected Workers share a queue and its counter; inside a queue the producer and
consumer share the count and the semaphore. Nothing is persisted and no message
can be lost, so that the hazards are interleavings, stale reads, bounds,
blocking for ever, and the order of start and stop. `PROJECT.json` lists every
hazard at its line with the properties that watch over it.

What makes each component correct: a Worker processes only complete inputs, in
order, never mispaired, and ends when told to; a queue stays within its bound
and its counter tells the truth up to the updates under way; a graph passes on
everything and ends; the blocking queue delivers each element once, in order,
and loses no wake-up; a program connects what its script asked for and starts
one thread of the right kind for each Worker; no buffer is used after it is
deleted; a benchmark ends and pairs the right times.

## 2. Modules

| Module | Models | Composition |
|---|---|---|
| `Worker` | the three thread loops; one action per access to a stop flag, queue or counter | - |
| `Graph` | the main thread: `run` and `shutdown` | extends `Worker`; `Next` interleaves main and all Workers |
| `Wiring` | constructor and `connect()`: which queue is behind which port | used by the MC modules to build `InputQueue`, `OutputQueue`, and by `GeneratedProgram` |
| `MCPipeline`, `MCDiamond` | the graph of `test/testFlowMP.cpp`; the first graph of `mfiles/testGraphGenerator.m` | instances of `Graph` |
| `Buffers` | the buffers that wrappers allocate and delete | extends `Graph`: every step of a thread with the wrapper it calls |
| `MCPipelineBuffers`, `MCDiamondBuffers` | the two graphs with their buffers | extend an MC module and `Buffers` |
| `Benchmark`, `MCBenchmark` | a BENCHMARKING build: stamps and counts in the loops, polling and copying in `run` | extends `Graph`; its `Next` replaces `Graph`'s simulation by `Measuring` |
| `GraphGenerator` | `AddBlock`, `Connect`, `WriteCode` for any script | - |
| `GraphLaunch` | the loops over names in `run` | - |
| `GeneratedProgram`, `MCGeneratedProgram` | script, written program, its `connect()` calls and the start of its threads | extends `GraphGenerator` and `GraphLaunch`, instantiates `Wiring` |
| `LightweightSemaphore` | count, `sem_t`, `signal`, `wait` | - |
| `BlockingQueue` | the wrapper around the inner queue, one producer and one consumer | extends `LightweightSemaphore` |
| `BlockingFifo` | what the queue promises in the words of its comments | abstract; `BlockingQueue` refines it |
| `ReaderWriterQueue` | the inner ring of blocks from constructor to destructor, one producer and one consumer; one action per access to what the other thread owns | `BlockingQueue` takes it as an atomic FIFO |
| `SpscFifo` | what the ring promises | abstract; `ReaderWriterQueue` refines it |
| `MCReaderWriterQueue` | elements and sizes | instances of `ReaderWriterQueue` |
| `MCBlockingQueue` | clock readings, bounds | instance of `BlockingQueue` |
| `GraphProofs` | theorems about threads, queues and counters | extends `Graph` |
| `OrderProofs` | theorems about the numbers of the items | extends `GraphProofs` |
| `BuffersProofs`, `BenchmarkProofs` | theorems about buffers and time stamps | extend `OrderProofs` and `Buffers`, `Benchmark` |
| `BlockingQueueProofs`, `RingProofs` | theorems about the two queues | extend `BlockingQueue`, `ReaderWriterQueue` |
| `GeneratedProgramProofs`, `LaunchProofs` | theorems about the written program and the start of its threads | extend `GeneratedProgram`, and one the other |

### Worker and Graph

`pc[w]` is the place of a thread between two accesses to shared state:
`while` is the loop condition, `wait` stands before `wait_dequeue_timed`,
`decrement` between the dequeue and the `--` of line 93, `nodata` after a
time-out, `read` before the test of line 71, `check` before lines 162/256,
`process` before `m_ProcessData`, `srccheck` before line 208, `full` in the loop
of line 123, `enqueue` and `increment` before lines 132 and 133. Everything a
thread does between two such places is local to it.

* An item is the serial number its source gave it; blocks pass the number on.
  This tells apart order, loss, duplication and pairing, and nothing else.
* `ProcessData` may store any value of `FlagValues[w]` in `*flag`; with `{}` it
  stores none and the previous value stays, as in the wrappers of sinks that
  never set it.
* The queue is the FIFO that `BlockingQueue` shows it to be. A time-out is
  possible whenever the queue is empty.
* `m_BlockThread` in `run()` is a local variable: `handle` (the workers whose
  member stands for a thread) stays empty, and `Join` waits for nobody.
* `notifyConnectedBlocks` signals conditions nobody waits for: a stutter of the
  Workers.
* `WiringAssumption` says that a queue has at most one reading and one writing
  port, the contract of the queue. `connect()` does not check it, but
  `OneReader` proves that no program `WriteCode` writes gives a queue two
  readers; a program written by hand that connects an output
  port twice is outside the model.

Atomics are taken as sequentially consistent. `std::atomic` is used with its
default order, which is that; for the explicit fences of `atomicops.h` it is an
abstraction.

### Buffers

A buffer is the item it carries and the queue it was made for, since its
wrapper is the only writer of that queue. A call of `ProcessData` deletes the
buffer of the first input (`Deleted`: `delete a,b;` is `delete a`) and makes one
for every output if it sends. `Held` is what queues and threads still have;
`live \ Held` is what has leaked.

### Benchmark

A time stamp is the number of the item it was taken for, so that `Paired` can
say that the k-th stamp of the sink and of the source belong together. One
element of the vectors is stamped or copied per step: they are plain memory,
copied while the threads write. Only a duration above 0 is modelled, with
which all programs of the repository run.

### GraphGenerator and GeneratedProgram

`phase` is where the script, `WriteCode` or the main program is. A unique name
is a pair (`f_0` is `<<f, 0>>`); a port that was never connected holds `Unset`,
whose name no block bears; a cell MATLAB fills up by itself is a `Gap`, on which
`ct{1}` is an error. `asked` remembers what the script meant at the time of
`Connect`: the last block of the one name, and the last *other* block of the
other. `WriteCode` looks the names up again. A port number written as `pnum`
does not compile. `connect()` with a port that does not exist is undefined
behaviour, and the program stops there (`ConnectOutOfRange`).

`CallRun` hands the labels (function and Source, Sink or Block) to
`GraphLaunch`. Reading `Sources[n]` behind its end compares with anything
(either result, `IsNamed`) or ends the program (`Crash`).

### BlockingQueue

`try_dequeue` and `pop` differ only in what they do with the element.
`try_enqueue` is an `enqueue` that may fail, which changes nothing.
`count` is `m_count`, `sem` the value of the `sem_t`. The clock matters only
modulo a second: `deadline` is the `tv_nsec` that `timed_wait` computes, and
`sem_timedwait` refuses one that is not below a second. Whether it times out
otherwise is open, as is how a time-out and a post that happen together are
told. The 10000 rounds of spinning are one `LoadCount` that may come at any time.

### ReaderWriterQueue

`block[k]` is the k-th block made, with its indices, the two cached copies
(`localTail`, `localFront`), its `next` and its slots. A slot holds `Nothing`
while no element is constructed in it, so that construction and destruction are
visible. `producer` and `consumer` are the places between two accesses to
something the other thread owns or reads; `pblock` and `cblock` are the block
pointers held there. An index a thread has read of its own (the producer's
tail, the consumer's front) cannot change before it uses it and is not copied.
`try_dequeue`, `pop` and `peek` share their steps up to `Read`. The destructor
runs when no other operation is under way, walks the ring once and destroys
what is left; `freed` shows that it frees every block.

An element is in the queue (`Contents`) once the tail is published, or, in a new
tail block, once `tailBlock` is set. `SpscFifo` says that a call finds nothing
only if the queue was empty at a moment of the call; the history variable
`empty` is that moment. Every index and pointer is read and written
atomically and in program order: the fences of the code are taken to give that.

## 3. Runs

| Run | Instance and bounds | Shows |
|---|---|---|
| `pipeline` | 3 Workers with their buffers, `WARNINGQSIZE` 1, 4 items, the middle block drops at will, whole life of the program | `TypeOK`, `SizeAgrees`, `QueueBound`, `CompleteInputs`, `AtMostOneLateCall`, `InOrder`, `NoDangling`, `LossesBounded` |
| `pipeline_stop` | 3 Workers, `WARNINGQSIZE` 0, 4 items, nothing dropped, fair | `StopSettles`: after a stop every worker that was told ends or is `Wedged`, block and source one behind the other too |
| `diamond` | 4 Workers from their initialisation on, in any order, 3 items, fair | `Lockstep`, `Delivery`, and no deadlock |
| `benchmark` | the pipeline, 3 samples and a count of 3, 4 items, fair | `Paired`, `DurationReal`, `AllRecorded`, `BenchmarkEnds` |
| `generator` | all scripts with up to 3 blocks of 6 shapes and 2 connections, names given or made | `SingleReader`, `NoneInvented`, `AsAsked`; `OneThreadEach`, `RightThread`, `IndexInRange`, `SourcesLast` |
| `blocking_queue` | up to 3 elements, 2 values, all calls, clock readings before, at and after the boundary, fair | assertions, count and posts, `EveryItemTaken`, `Refinement`, each until a deadline is refused |
| `ring` | made for 1 element: one block of 2 slots growing to 3, 2 values; made for 3: a block of 4 slots growing to 2, one element marked; made for 4: 5 blocks of 2 slots, elements alike; from constructor to destructor | `TypeOK`, `SlotLife`, `NextHasElement` and `NextIsEmpty` (assertions of the code), `Ring`, `FullWhenRefused`, `Refinement`, and no deadlock |
| `join`, `allstop`, `leak`, `launch_sinks`, `timed_wait` | instances as above; `launch_sinks`: 4 blocks, two sources, two sinks, all connected | violations, see below |

`WARNINGQSIZE` is 300 in the code. What matters is that a queue can be full with
the counter at, above and below the limit: with 0 a queue holds one item and a
producer blocks at once, with 1 two items can be reordered. Four items are
enough for the counter to be -1, for a full queue with a producer that waits
behind it, and for an item in every place of the pipeline. In
`pipeline_stop` four are what it takes for a chain of wedged producers behind a
sink that stopped before it took any: one in each of the two queues and one in
the hands of both the block and the source. `MaxCalls` bounds what sources make:
afterwards their calls return with the flag at 0 (`IdleCall`), so that a source
never stops running because of the bound. `MaxItems` bounds the enqueue only.
In `blocking_queue` each refused deadline leaves the count one lower or a post
too many, without end; `LowestCount` and `HighestSem` cut this off, which
touches only what happens after a second refusal.

`TimingSamples` is 1000000 in the code; 3 samples and a fourth item give a full
vector, an item after it, and a copy that overtakes the threads. `MaxBlocks` 3
and `MaxConnects` 2 give a chain, a join, a fork from one block, two
connections that take the same port, a block connected twice, a repeated name
and a block added after a connection to its namesake; ports 0 and 1 leave gaps
and ports that do not exist.

`BlockLimit` bounds the blocks of the ring, which nothing in the code does. Three
are what it takes for one block to be left, one to be passed over and one to be
written, and for a new block to be linked between two others; two values tell
every order of the elements of such a ring apart that skips or repeats one. `MAX_BLOCK_SIZE` is 2 here (512 in the code). A queue made for one element
or for four has blocks of two slots, of which one is in use; one made for three
has a block of four slots that three elements fill exactly, and then a second
one, so that order inside a block, front and tail that wrap round it, and the
step to the next block when this one is full or empty are met. Nothing looks at
an element: one marked element among equal ones shows whether any is skipped,
repeated or overtaken. A ring whose blocks differ in size is reached by the
proofs about the safety invariants only.

`CHECK_DEADLOCK FALSE` is set where the system really stops: a graph after
`shutdown`, a script or program that ended, the start loops, and the queue after
an aborted assertion.

Fairness: every Worker thread that can take a step takes one (`WF` per
Worker), as does the main thread once it starts or shuts down; the end of the
simulation is left to the user (`std::cin.ignore()`). A `WF` is what any
operating system gives; no strong fairness is needed because the queue of a
reader, once it holds an item, keeps it until that reader takes it. The main thread
of a benchmark keeps polling and copying. In the
queue the producer finishes an enqueue it began, and the consumer keeps calling.

### What the violations show

* `join`: `run`, `run_source` and `run_sink` start their thread in a local
  variable that hides the member, so that "Join all threads" (graph.cpp:181)
  waits for none.
* `allstop`: a producer in the back-pressure loop does not look at its stop
  flag; if the consumer ended first, it waits for ever. `StopSettles` shows that
  this is the only way not to end.
* `leak`: a generated wrapper with several inputs deletes the first only; in
  `pipeline`, where blocks have one input, nothing leaks before the stop.
* `launch_sinks`: the loops over Blocks use `Sinks.size()` for both lists; with
  two sinks Workers are started more than once.
* `timed_wait`: a `tv_nsec` of exactly one second is not carried over
  (`>` for `>=`, atomicops.h:528); `sem_timedwait` answers `EINVAL`, which is
  taken for success.

## 4. Proofs

`GraphProofs` proves, for every graph that satisfies `ShapeAssumption`,
`WiringAssumption` and `BlocksAssumption` (any number of workers, ports and
queues, any `WARNINGQSIZE`, any `FlagValues`), `Spec => []P` for `TypeOK`
(`TypeCorrect`), `SizeAgrees` (`CountersAgree`), `QueueBound` (`QueuesBounded`),
`CompleteInputs` (`InputsComplete`) and `AtMostOneLateCall` (`OneLateCall`).
The inductive invariant has four parts:

* `TypeOK` is not inductive alone: that an item about to be sent is real
  depends on the inputs having been complete.
* `Complete` says what has been read at each place: ports below the loop
  variable have delivered; at `read` and `check` an input may be missing, but
  only if the stop flag is set, and flags are never reset.
* `Counted` joins `SizeAgrees`, `QueueBound` and `Admitted`: a producer between
  the test and the enqueue still finds the counter at or below the limit,
  because nobody else can raise it. `QueueBound` follows from `Admitted` and
  `SizeAgrees`, since a producer at `enqueue` has nothing uncounted and the
  consumer's debt only makes the queue shorter than the counter.
* `LateOnce` says where a worker that already began a late call can be.

Each part has a lemma per kind of step; `Locality` says that a thread leaves the
variables of the others alone.

`OrderProofs` proves two properties of the numbers that items carry:

* `ItemsInOrder`: `InOrder`, for any graph and whatever the blocks drop. Numbers
  that rise at one worker do so because they rise along all queues before it:
  `Ordered` compares, for every queue, what its reader has taken, what waits in
  it and what its writer has sent or is about to send.
* `NeverMispaired`: `Lockstep`, for any graph under `AllSend` (no block drops
  an item; with one that does, two ways of a diamond differ and the code pairs
  whatever comes first). `InStep` counts instead of comparing: calls of the
  reader, items waiting and items sent differ by what is under way. It needs
  `Rounds`, which says what a thread holds at each place of its loop, also of
  one that a stop sent out of the middle of a round.

`BuffersProofs` proves for any graph:

* `NothingDangles`: `NoDangling`. A buffer is named by its item and its queue, so
  that a deleted one might come back or still be queued; that it does not is a
  matter of order: all that waits in a queue has a greater number than what its
  reader deletes. `Ordered` is therefore part of the argument, beside `Safe`.
* `StopLosesLittle` and `OneInputNoLeak`: `LossesBounded`, and that at work
  nothing is lost, under `Single` (one input per block, no outputs at sinks:
  the `leak` run shows why). `AllAccounted` gives every living buffer its place:
  a queue, a thread, or the hands of a worker that has left its loop.

`BenchmarkProofs` proves, for any number of samples and any graph that is
`Measurable` (the first block is the only source of items, the last the only
sink; `run` reads the stamps of these two):

* `DurationMeasured`: `DurationReal`. `DurationInv` says that a block that
  reported to have begun or finished has taken the time before.
* `TimesPaired`: `Paired`, and `EverySampleRecorded`: `AllRecorded`, under
  `AllSend`. `SampleInv` ties both vectors to the items, although each end counts
  by itself, and `CopyInv` follows the main thread through them: what it has
  copied was written before, and nobody writes it again. That the item counted
  at the sink is the one its k-th stamp belongs to is `InStep`.

The steps of a benchmark are steps of `Worker` (`RecordingIsStep`), so that what
was proved of a graph is used and not repeated.

`BlockingQueueProofs` proves for any clock, any time-out and any length of the
queue:

* `QueueTypeCorrect`: `TypeOK`.
* `EveryDequeueSucceeds`, `NeverTwoWaiters`, `CountIsLength` and `NoStrayPost`:
  until `sem_timedwait` refuses a deadline, `DequeueSucceeds`, `OneWaiter`,
  `CountAgrees` and `PostsAgree`. Counting alone is not inductive:
  `Bookkeeping` adds what each place of the two threads knows of the queue (a
  consumer that saw a positive count, or holds the semaphore, has a signalled
  element; a producer about to signal has one in the queue). The only step that
  breaks it is the refused deadline, after which `einval` is set for good.
* `AlwaysDelivers`: under `NoCarryBoundary` (no clock reading puts the deadline
  exactly on the second) no deadline is ever refused, and `TimedCallDelivers`,
  which `timed_wait` violates, holds.
* `QueueImplementsFifo`: `Refinement`, every step until a deadline is refused is
  one of `BlockingFifo` or changes nothing it shows. Signalling is the put,
  fetching the take; that a call gives up on an empty queue only follows from
  `Bookkeeping`, and that only calls that may fail give up from `TimedOnly`;
  `Short` bounds the queue after an enqueue.

`GeneratedProgramProofs` proves, for scripts of any length, any shapes, names and
port numbers:

* `OneReader`: `SingleReader`. `Written` says that every call written is for an
  output port before the one `WriteCode` is at, so that no output port is
  connected twice; `Wired` says that an input port has its own queue or that of
  an output port a call connected to it.
* `NothingInvented`: `NoneInvented`. `Table` says that every entry is a
  placeholder or was asked for, with a block that still bears the name;
  `CallsAsked` carries this to the calls, where a name that is not found comes
  with no port number and the program does not compile. That the lookups find a
  block of the name rests on the least number principle (`LeastNumber`).
* `EverythingConnected`: `AsAsked`, the converse. `MadeInv` follows what was asked
  through the three stages: `AllInTable` (an entry is lost only to a later one
  for the same port), `AllCalled` (`WriteCode` writes a call for every entry it has
  passed) and `AllConnected` (a call is undone only by one for the same input).

`LaunchProofs` proves `OneThread`, `RightFunction`, `StaysInRange` and
`SourceStartsLast` for any number of Workers, under the conditions that
`OneThreadEach`, `RightThread`, `IndexInRange` and `SourcesLast` name (one sink, or
one source and one sink, no fewer sources than sinks; `launch_sinks` shows what
happens otherwise with two sinks, and a graph with more sinks than sources, whose
loop runs past `Sources`, is covered by no property).
`LaunchInv` says where the three loops are and which Workers they have reached;
`ListsOfNames` that the lists of names which the program builds hold the names
with their label, and no others, as often as they occur.

`RingProofs` proves about `ReaderWriterQueue`, for any elements, sizes and number of
blocks: `RingTypeCorrect` (`TypeOK`), `SlotsLiveOnce` (`SlotLife`),
`NextBlockHasElement` (`NextHasElement`), `NextBlockIsEmpty` (`NextIsEmpty`) and
`OneRing` (`Ring`). `NextIsEmpty` speaks of one block behind the tail block, but
needs all of them: the invariant goes round the ring once.

* `RingOrder`: there is an order of the blocks, beginning with the front block
  and following `next`, in which those behind the front block up to the tail block hold
  something (`Filled`) and those behind it are empty; `Ahead` says where in it
  the two threads are. `Link` puts a block into this order, `Advance` turns it.
* `Ordered`: each copy of an index lies, going up with wrap-around, between what
  its owner has done and what the other thread has.
* `Slots`: which slots hold an element, in terms of the indices; `ProducerKnows`
  and `ConsumerKnows`: what a thread has learned on its way through a call and
  the other one cannot undo.

`Powers` is a constant of the ring, assumed to hold a size for each request and
the double of each size up to `MaxBlockSize`: the powers of two are such a set,
and the proofs need no more of them. `OnRing` follows `next` along a recursive
function as far as there are blocks; its steps are unfolded one by one
(`WalkIsOnRing`).

Only model-checked:

* liveness (`StopSettles`, `Delivery`, `EveryItemTaken`, `BenchmarkEnds`), which
  TLAPS does not prove under fairness;
* `FullWhenRefused` and the refinement of `SpscFifo`, not proved so far: both
  speak of the elements of all blocks together (how many slots there are, which
  sequence they spell). `Contents` puts that sequence together by recursion over the
  ring, and the invariant above, which speaks of one block at a time, says
  nothing of it yet.

`Graph` takes its queues as FIFOs that never abort; by `EveryDequeueSucceeds` and
`AlwaysDelivers` that rests on no clock reading hitting the boundary.

## 5. Not modelled

* `peek` of the blocking queue and `size_approx`, which only read.
* The hand-over benchmark `mainPD_bm.cpp`: its graph is a shorter pipeline; its
  globals are not modelled.
* BENCHMARKING with a duration of 0, where `run` waits for the user, and the
  search for the earliest start and the latest end (graph.cpp:72-98), whose
  result lines 100 and 101 overwrite.
* `DrawGraph`, `Build` and `Run` of the generator, which write a picture and
  start a compiler; what the MATLAB functions compute, and how
  `process_header.py` reads a C header.
* `StopSim` and `Shutdown` of `utils.h`, which nothing calls; other platforms'
  semaphores and the fences of `atomicops.h`; plots and build scripts.

## 6. Plan

Done, in this order: `Worker`, `Graph`, `Wiring` with their runs and proofs;
`LightweightSemaphore`, `BlockingQueue`, `BlockingFifo`; `GraphLaunch`;
`ReaderWriterQueue`, `SpscFifo`; `GraphGenerator`, `GeneratedProgram`; `Buffers`;
`Benchmark`; the refinement of `BlockingFifo`; then the proofs: `SingleReader`,
`NoneInvented` and `AsAsked` for any script, `InOrder`, `Lockstep`, `NoDangling`,
`LossesBounded` and the benchmark for any graph, the start of the threads for any
number of Workers, and the ring for any number of blocks.

Next:

1. `FullWhenRefused` and the refinement of `SpscFifo` for a ring of any size: the
   contents stated as a function of the position of an element instead of a
   concatenation over the blocks.
2. A module for the hand-over benchmark, with its globals and Workers that
   outlive a run.
