# A TLA+ model of MemHawk

MemHawk is a heap profiler that is preloaded into a program.  It replaces the
allocation functions, sums up allocations per stack trace in trackers local to
each thread, and has a worker thread that collects the sums and writes them
out.  A service, the symbolizer, reads one of its reports
while it is written, and a tool makes flame graphs.  This directory holds TLA+
modules that model these parts, TLC configurations that check them on small
instances, and TLAPS proofs for instances of any size.

## 1. Inventory

| Component | State | Operations | Interacts with |
|---|---|---|---|
| **Tracking core** (`impl/memhawk.cpp`, `thread_tracker.cpp`) | `m_thTrackers`, `m_finishedTrackers`, `m_exitingThreadsTracker`, `gtl_tracker`/`gtl_trackerFinalizer` per thread, `m_stopped`, worker storage | `TrackAlloc`, `TrackDealloc`, `TrackRealloc`, `RegisterThread`, `ReclaimTracker`, `TrackingWorker`, `Stop` | called by the hooks; calls the stack-trace trackers, `OwnedGuards` and the writers |
| **OwnedGuards** (`impl/owned_guards.h`) | shared list of callbacks, one atomic flag per callback | `Register`, `Drain`, destructors of owner and guard | runs `ReclaimTracker` when a thread exits |
| **Inner tracking** (`impl/memhawk.cpp`) | `m_innerTracker`, queue `m_postponed` of bounded capacity, recursion levels per thread | inner halves of `Track*`, `ProcessPostponed`, `PostponeAlloc`, `PostponeDealloc` | every allocation MemHawk itself makes comes back through the hooks |
| **Fork handling** (`memhawk.cpp`, `hawk_malloc.cpp`) | all locks | `PreFork`, `ParentPostFork`, `ChildPostFork` | every other component's locks |
| **Hooks and life cycle** (`hawk_malloc.cpp`) | `gl_initialised`, `gl_memhawkReady`, the `AllocInfo` header before each block | `malloc` … `free`, `dlopen`, `dlclose`, `init_memhawk`, `deinit_memhawk` | the program; the tracking core |
| **Stack-trace trackers** (`trackers/`, `stacktrace_tree.h`) | tree of frames with ids; a fixed table for inner traces | `InsertStacktrace`, `GetStacktraceFromId` | thread trackers insert, `MemHawk` inserts its own traces into the table, writers look up |
| **LRU cache** (`lru_cache.h`) | bounded ordered map | `Insert`, `Touch`, `Erase` | one per thread tracker |
| **Stack traces** (`stacktrace.cpp`, `algo.cpp`, `compression.cpp`) | none | unwinding, `CollapseRecursion`, bit packing | |
| **Writers** (`writers/`) | running totals per trace, ids already written, file | `AccountSnapshot`, `FlushData`, `UpdateModules` | called by the worker |
| **Configuration, logging** | constants | parsing, validation | |
| **Symbolizer service** (`rust/symbolizer`) | position in the file, graph, state in PostgreSQL, queues per table | `process`, `restore`, `save`, uploads | reads what the proto writer wrote; may crash and restart |
| **memhawk_core** (`rust/memhawk_core`) | graph of symbols, modules | `construct_path`, `postpone_diff_update`, `update_symbols` | used by the symbolizer |
| **Flamegraph** (`flamegraph/`) | compressed trie | `Append`, `GetTop` | stand-alone |
| **Monitoring** | SQL, dashboards | | not code of the core |

What is hard: the program's threads call the hooks at any moment, also from
thread-local destructors and from inside MemHawk's own critical sections; the
worker walks the trackers while they are used; threads come and go and their
trackers are reused; the process ends, or forks, in the middle of all this.

What makes each component correct:

* *core*: every operation is in exactly one report; a tracker has one owner;
  a report is a cut that catches up; hooks return; shutdown ends.
* *OwnedGuards*: each callback runs once, by whoever comes first.
* *inner tracking*: an operation of MemHawk is applied once or dropped because
  the queue is full, and no thread takes a spin lock it holds.
* *fork*: every lock the child needs is free in the child, and the handlers do
  not wait in a circle with anybody.
* *stack-trace trackers*: equal traces have equal ids, an id resolves to its
  trace for ever, the two id spaces are disjoint.
* *LRU*: a hit returns what was inserted; the least recently used one goes.
* *writers*: the file decodes to the running totals.
* *hooks*: the header of a block leads back to its region and its allocator,
  whatever the state of the library was when it was allocated.
* *module cache*: the list of modules agrees with what is loaded.
* *stack traces*: a collapsed stack is the same on every build and invents no
  call; a compressed one comes back.
* *symbolizer*: what the saved state claims is stored; every snapshot is
  uploaded once, over restarts; a message is read whole; a run ends.
* *memhawk_core*: totals are sums of what lies below, and the tables show them.
* *flamegraph*: the nodes shown are the greatest, with the sums of their lines.

## 2. Modules

| Module | Contents |
|---|---|
| `Accounting` | abstract: operations happen, a cut is taken, a report is published |
| `Trackers` | registry, external tracking, thread exit, worker, shutdown |
| `OnceCallbacks` | abstract: a callback is registered, entered once and returns |
| `OwnedGuards` | registry of guarded callbacks |
| `InnerTracking` | MemHawk's own allocations, the postponed queue |
| `ForkLocks` | all locks, their nesting, and fork |
| `AllocHeaders` | the hooks, the header of a block, the flags of the library's life |
| `ModuleCache` | dlopen, dlclose, the list of modules and the symbolizer's table of it |
| `StacktraceTree` | the tree of frames that the tree tracker and the heaptrack writer share |
| `TraceIds` | LRU caches, tree tracker, static tracker: trace to id and back |
| `CollapseRecursion` | trimming of an unwound stack; three ways to collapse recursion |
| `BitPacking` | compression of a stack |
| `Reports` | text and heaptrack writers |
| `ProtoStream` | proto writer, and the processor that reads its snapshots |
| `PartialMaps` | maps with an entry for some keys, as the writers and readers keep them |
| `SnapshotFile` | the bytes of the proto file, written and read in pieces |
| `SymbolizerRuns` | runs of the symbolizer, its tables, saved state, crashes |
| `TraceGraph` | graph and localizer of `memhawk_core`, what is published |
| `FlameTrie` | the flamegraph tool |
| `MCTrackers`, `MCForkLocks` | symmetry for TLC |
| `MCInnerTracking` | TLC instance of `InnerTracking` and `OwnedGuards` |
| `MCTracePath` | TLC instance of `CollapseRecursion`, `BitPacking`, `TraceIds`, `Reports`, `ProtoStream`, `FlameTrie` |
| `MCSymbolizer` | TLC instance of `SymbolizerRuns`, `SnapshotFile`, `TraceGraph` |
| `LoopTheorems` | lemmas about loops, recursive functions, sums over sets and permutations that the proofs share |
| `TracePathProofs` | theorems about `TraceIds`, `StacktraceTree`, `CollapseRecursion` and `Reports` |
| `SymbolizerProofs` | theorems about `SymbolizerRuns`, `SnapshotFile` and `TraceGraph` |
| `LibraryProofs` | theorems about `AllocHeaders`, `ModuleCache` and `OwnedGuards` |
| other `…Proofs` | theorems about the module before the suffix |

Each module models one aspect and leaves the others out: `Trackers` has the
external operations and treats the locks it needs as guards, `InnerTracking`
has the inner operations, `OwnedGuards` the callbacks whose body is
`ReclaimTracker` in `Trackers`, and `ForkLocks` only the locks of all of them.
The interfaces between the others are: `CollapseRecursion` and `BitPacking`
give `TraceIds` its collapsed traces and compressed sizes (`MCTracePath`
instantiates it with them); the ids of `TraceIds`, with the one that never
resolves, are what `Reports` and `ProtoStream` look up; a snapshot of
`ProtoStream` is a message of `SnapshotFile` and an element of the file of
`SymbolizerRuns`; what it does to the graph is in `TraceGraph`.

Definitions named `Mutant…`, or with a suffix as in `Squeeze_TooFar`, stand
before the definition they are a plausible slip of; nothing uses them, and
replacing the one by the other must break the property they go with.

### Trackers

An allocation is a block `b` with the operations `Alloc(b)` and `Free(b)`.
The code keeps sums per trace id; the model keeps the *set* of operations in a
sum, so that "counted twice" and "lost" are visible.  A realloc is `Free` of
one block and `Alloc` of another under one lock.

| Variable | Code |
|---|---|
| `blk` | what the program has allocated (its `AllocInfo` headers) |
| `call` | the hook a thread is in, after `GetMemHawk` |
| `gtl_tracker`, `finalizer` | `gtl_tracker`, `gtl_trackerFinalizer` |
| `life` | running, in the destructors of thread locals, ended |
| `thTrackers`, `finished` | `m_thTrackers.size()`, `m_finishedTrackers` |
| `diff` | `m_allocSummaries` and `m_total` of each tracker |
| `wpc`, walk position, `local`, `accounted`, `flushed` | the worker, `m_workerStorage`, the writer's totals, what was written |
| `ready`, `stopped`, `dpc` | `gl_memhawkReady`, `m_stopped`, progress of `deinit_memhawk` |

A critical section of a spin lock that calls no hook is one action.
`m_thTrackersMt` is held across actions by the worker's walk and by
`ReclaimTracker`, whose `push_back` may call a hook; `m_mt` by the worker.
`prevFlushed`, `passStart` and `exitStart` are history variables.

`deinit_memhawk` leaks MemHawk on purpose, so `OwnedGuards::Drain` is never
reached from `Trackers`.

### OwnedGuards

One callback per guard.  The destructor of a guard is two actions (remove from
the list under the lock, then execute), as is `Drain` (swap, then execute each,
in any order: the code's order is that of the list, the model leaves it
open).  The atomic exchange in `execute` is one step.

### InnerTracking

The inner guard's level is the program counter: `idle` is level zero.  The
array of the map inside `m_innerTracker` is a block (`table`), because growing
the map is what allocates under the lock; the worker swaps it with its own
(`spare`).  A nested realloc does not occur, as a hash map never calls it.

### ForkLocks

A process is a stack of locks; `NestedInThread` and `NestedInWorker` give the
locks the code may take next.  They allow some orders no single path of the
code takes (for instance `RegisterThread` never takes the tracker of exiting
threads), which makes `NoCircularWait` stronger than needed.  `fork` itself is
the step from `PreFork` to either of the two handlers: the parent goes on, or
the child is followed, where only the caller lives.

### AllocHeaders

A block has a region (`region`: allocator, start, length), the pointer the
program got (`ptr`) and the `AllocInfo` in front of it (`info`); `asked` is
what the program asked for, `kept` how many of the bytes it wrote are still
there, `heap` who it is accounted to.  The actions are the hooks, each with its
branch before and after initialisation, and the three assignments of
`init_memhawk` and `deinit_memhawk`.  `free`, `realloc` and `munmap` use `info`
only, as the code does; the regions are there to compare.  Requests for which
the header does not fit in `size_t` (`malloc` of almost 2^64 bytes) are outside
the model.

### ModuleCache

`flag` is `m_modulesCacheInvalidated`, `update` the request the worker has
passed to the writers, `file` the lists written, `symbols` the symbolizer's
table.  `dlopen` is two steps, since the flag is set before the real call;
`dlclose` too, since it is set after.  `raced` is history: libraries whose flag
was taken before they were loaded.  A library in `Unsegmented` is listed
without segments, and `update_symbols` passes over it every time.

### TraceIds, StacktraceTree

For the program's allocations `SaveTraceId` is three actions of a thread tracker
(look up in the cache, collapse and insert into the tree under the tree's lock,
insert into the cache), so that trackers race between them.  MemHawk's own
allocations do not go that way: `TrackAlloc` and `TrackRealloc` hand the raw
trace to the fixed storage (`impl/memhawk.cpp:171` and `:237`), because
inserting into a cache could allocate again.  That is one action, `InsertInner`,
open to every thread at any time: the fixed storage holds its own lock from the
search to the append, there is no cache, and recursion is not collapsed, only
the length cut (`Kept`).
`given` keeps every id that was ever returned: an id must resolve for ever.
`MaxNodes` bounds the nodes of the tree below `Flag`: ids have 32 bits, and a
tree whose numbers reach the flag of the fixed storage does not fit into memory.

### CollapseRecursion, BitPacking

Pure algorithms: an initial state is an input, a step computes the results.
Loops are recursive functions over the position, so that they can be proved
about.  A stack has at most 255 frames (`UnwindAssumption`; the code's limit is
64), which the 8 bits of the code's run lengths hold.
The vector version is modelled with its strides, the remaining single elements and the
run length it carries from one to the next, for a stride of two.  Words of the
compression have eight bits instead of 32; the size classes are the same
fractions of a word.

### Reports, ProtoStream

The writers keep running totals and write differences of what they wrote
before.  The text report lists a section only if it is `Enabled`, with limits of its
own for the two lists (`BySizeCount`, `ByTotalCount`).  `Reports` has a small external model of how heaptrack reads a file
(`heaptrack.blocks`, `RecordPaths`); the loop over the changed traces is the
function `Flushing`, whose order is that of a hash set and so any;
`ProtoStream` has the real reader, `Processor::process`, which may skip a
snapshot by its time stamp.  Its loops are functions of the number of passes,
too: `FlushingAll` over the changed traces, `ProcessStacktraces` and
`ProcessAllocations` over a snapshot.  A path of the graph is the sequence of its
frames, `skipped` is history, and `Lost` the addresses that only skipped
snapshots announced.

### SnapshotFile, SymbolizerRuns

`SnapshotFile` follows bytes: a message becomes visible in pieces, a read
returns a part of what is asked for, and the reader may be cancelled in
between.  `SymbolizerRuns` follows snapshots: `rows[t][k]` counts how often the
rows of snapshot `k` reached table `t`.  A run may stop reading anywhere in the
file (a read error, the timeout) and still save its state.  It may crash at any step, an insert
may fail, the clock of the program may go back.  `dropped` and `cut` are
history: which rows were lost in a failure that is logged or in a crash after
the state was saved, and whether a restored run ended without saving.

### TraceGraph, FlameTrie

`TraceGraph` has one action for a trace (`ProcessStacktrace`: its addresses are
localized, its path found or made), one for a difference of sizes
(`ProcessAllocSummary`: it waits at the leaf of its trace) and one for the end
of a snapshot (`ProcessModifications`: what waits is carried from the deepest
level to the root, and what was modified is published); `tables` is what the
database shows.  `Restart` is a stop and a start from the saved state.  The
nodes are numbered in the order they were added, as in `Graph::nodes`, so the
number of a parent is smaller than that of its child.  `FlameTrie` splits compressed edges
and selects nodes from a queue in which equal items come in any order.

## 3. Runs

| Run | Instance | States | Shows |
|---|---|---|---|
| `trackers` | 2 threads, 2 blocks, 2 trackers | 1,162,388 | `ExactlyOnce`, `RegistryInOrder`, `TornForOneReport`, refinement of `Accounting` |
| `trackers_live` | 2 threads, 1 block, fair | 46,024 | every operation is reported, hooks return, shutdown ends |
| `trackers_exit` | 1 thread, 1 block | violation | what was tracked before exit may be missing from the last report |
| `inner_tracking` | 2 threads, worker, 3 blocks, queue of 2; 3 callbacks, 2 drains; fair | 83,531 | operations are applied once or skipped; order; hooks return, the queue drains; no callback lost, none outlives the owner, refinement of `OnceCallbacks`, each is called |
| `fork_locks` | 2 threads, worker | 78,382 | no circular wait, what the child inherits |
| `fork_child` | 2 threads, worker | violation | `Stop` in the child can wait for ever |
| `alloc_headers` | 2 blocks, 4 sizes, 4 alignments, 5 start addresses | 244,532 | header and region agree, also across realloc and the start of the library |
| `alloc_headers_launder` | 1 block | violation | a block reallocated across the start is accounted to MemHawk |
| `module_cache` | 2 threads, 2 libraries, 2 addresses, 3 calls, 6 lists, fair | 964,246 | the list is current or will be, the symbolizer's table follows the lists |
| `trace_path` | see below | 934,728 | from a stack to a report: collapsing, packing, ids, writers, processor, flame graph |
| `trace_path_sizes` | the same, default sections | violation | the heaptrack file has no block for traces that do not resolve |
| `symbolizer` | see below, fair | 241,164 | runs, crashes and restarts; the file in pieces; the graph and its tables |

`inner_tracking`, `trace_path` and `symbolizer` explore several modules that share no variable:
a variable `part` chooses one, the others stay in their initial states, and the
state graph is the disjoint union of theirs.  Fairness is stated for the steps
of the chosen part.

*Properties that are conjunctions.*  `RegistryInOrder`, `ChildIsIntact`,
`RegionAndHeaderAgree`, `CollapseCorrect`, `PackingCorrect`, `IdsResolve`,
`ReportsCorrect`, `PathsAndSizes`, `ReaderCatchesUp`, `FlameCorrect`,
`GraphCorrect` and `TablesCorrect` put together two to five named parts, each
stated with its comment in the module of its component.  The type invariants,
`ProcessorAccounted` and `DropsAreVisible` are proved for all constants and not
checked by a run.

*Bounds.*  Two threads and the worker give every pair of actors a property
is about: the owner and the next owner of a tracker, the thread that frees and
the thread that allocated, the holder of a lock and the one that waits.  Two
blocks allow a realloc; a tracker is reused because the second thread can start
after the first has ended.  Threads do not start again after they ended, and
blocks are not used again: a reused one behaves like a new one.  A queue of two
with three blocks overflows and drains.  Three callbacks and two drains let a
drain and a guard meet at one callback while others are still listed and in the
hands of the second drain.  In `ForkLocks` there is no bound but
the number of threads.

* `alloc_headers`: a header of 2 and pages of 8 bytes, alignments below, at and
  above the header, sizes that do and do not fill a page; a block may be
  reallocated any number of times, and two blocks let one be allocated between
  the steps of `init_memhawk`.
* `module_cache`: two calls at a time, a library loaded again at another
  address, and lists to spare for the worker after the last call.
* `trace_path`: all stacks of up to 7 frames out of three and null, depths 0 to
  3 (a cycle of three, twice, and cycles nested in cycles); all traces of up to
  3 addresses at the limits of the size classes, with a clean and a dirty
  buffer; two thread trackers and MemHawk itself with 4 allocations, caches
  of 2 and a fixed storage that fills up by words; 4 accounts of two related traces, an internal and an
  unresolved one, with sizes that go negative; 4 snapshots whose clock may
  stand still or go back; 3 lines over paths that part in the middle of an
  edge, for 0 to 4 nodes.
* `symbolizer`: 2 tables with a channel of one, 3 snapshots with 2 time stamps,
  3 runs (one that is cut, one that restores, one after it); 3 messages of up
  to 3 bytes after a tag of 2; 5 announced traces or differences over traces
  that are prefixes of each other and recursive.

*Deadlock.*  Runs say `CHECK_DEADLOCK FALSE` where threads may end, blocks or
inputs run out, or the process exits.  In its place stand the liveness
properties and `NoCircularWait`.  Only `alloc_headers` checks it: there, some
hook can always be called.

*Fairness.*  The worker's wait ends by timeout, so it is weakly fair.  A thread
inside a hook is running code and goes on.  Spin locks and `m_mt` are not fair
in themselves; strong fairness of taking them is justified since they are held
for bounded times, and the worker sleeps for a whole dumping period in between.
Nothing forces a thread to call a hook, to exit or to fork.  In
`InnerTracking`, `CallsReturn` also uses that blocks run out: with other threads
postponing for ever, `ProcessPostponed` has no bound on its loop.  In
`ModuleCache` a call of `dlopen` or `dlclose` that has begun returns.  In
`SymbolizerRuns` the runtime polls `main` and every table worker that can make
progress, each weakly fair; no run has to be started, and crashes need not
happen.  In `SnapshotFile` a read that can return bytes does, sooner or later.

*Findings.*

1. `TrackingWorker` loops on `while (!m_stopped)` (`impl/memhawk.cpp:369`).  If
   `Stop` sets the flag while the worker is not waiting, the worker leaves
   without a last walk, and what was tracked since the previous one is never
   written.  The repository's README promises "no missed events".
2. `PreFork` does not take the locks of the two stack-trace trackers, and
   `ChildPostFork` does not unlock them.  If another thread is inside
   `InsertStacktrace` at the fork, the child spins for ever on its next new
   trace, and in `Stop`.  `ChildInheritsTraceLocksOnly` shows that these two are
   the only such locks.
3. `hawk_realloc` of a block that was mapped before initialisation calls
   `hawk_malloc` while its own `RecursiveStacktrace` (`hawk_malloc.cpp:419`) is
   alive.  The nested call takes itself for one of MemHawk's own, and the
   program's block is accounted to MemHawk's heap.  The comment says "account
   realloc by malloc, launder pointer".
4. `HeaptrackWriter::FlushData` passes over traces that do not resolve
   (`writers/heaptrack_writer.cpp:232`).  Once the fixed storage is full, all
   further traces of MemHawk's own allocations have the one id that never does
   (`trackers/stacktrace_tracker_static.cpp:103`), so the sizes of the heaptrack
   file fall short of the totals of the text report.  The repository's README
   (line 26) says of this mode "(sizes are accurate)".  `BlocksAreSizes`, for the
   traces that resolve, holds and is proved.

*Observations* made while modelling, which the properties state as exceptions
or leave out:

* The flamegraph tool prints the root even when 0 nodes are asked for
  (`count > 0` in `AllSelectedAreShown`).
* The naive and the optimised collapse differ on nested cycles (`abbab`,
  `aabaab` at depth 3): `NaiveAgrees` compares them at depth 1 only.
* A library whose `dlopen` takes longer than the worker needs to take the flag
  is not listed before the next `dlopen` or `dlclose` (`raced`).
* The proto writer's constructor marks trace 0 as written before it can be
  resolved; its sizes go to the unknown frame (`UnknownIsExplained`).
* A symbolizer stopped before its first snapshot saves the predefined frames
  and never publishes their names (`unpublished`).
* A restored run that is cut leaves rows that the next one stores again (`cut`
  in `AtMostOnce`); rows of a failed insert are gone for good (`dropped`).

## 4. Proofs

The proofs hold for any sets of threads, blocks, callbacks, libraries, any
number of trackers, snapshots, tables, runs and messages.  They assume only that
the special values (`NoTracker`, `None`, `NoCallback`, `NoProc`, the exiting
threads' tracker, `NotLoaded`, `Inner`) differ from ordinary ones, that capacities, sizes and numbers are
naturals, positive where the code requires it, and for `AllocHeaders` that the
header's size divides a page and that an alignment divides it or is a multiple
of it.

* **Trackers.**  `TypeOK`; then `CallInv` (a block inside a hook belongs to
  the request of one thread); then `RegistryInv`, which says for each stage of
  a thread's life what its `gtl_tracker` and finalizer are and that trackers in
  use exist, and makes `OneOwner` and `NoTrackerForgotten` inductive; then
  `ExactlyOnce`, with `LocalInv` (the worker's local map is empty except between
  `ConsumeDiff` and the writer); then `WalkInv`: a tracker the walk has passed
  holds nothing that was tracked before the walk began, and what was tracked
  then contains, with a deallocation, its allocation.  From it follow
  `TornForOneReport` and the simulation of `Accounting`.
* **OwnedGuards** (`LibraryProofs`).  `CallbackInv` ties a callback's flag to the life of its
  guard and to who is in its body; `OwnerInv` says that an idle drainer holds
  nothing and what remains when the owner is gone; `NoCallbackLost` is
  inductive with them.  Each step is then one of `OnceCallbacks` or a stutter.
* **InnerTracking.**  `StageInv` (what a process holds at each stage, and that
  the tracker's lock belongs to the one that tracks), `OnceOrDropped`, and
  `OrderInv`: in the queue a block's allocation precedes its deallocation, and
  a deallocation that was popped or applied has not left its allocation there.
* **ForkLocks.**  `ForkerHolds`: a thread in `PreFork` is the holder of every
  lock it has taken; with mutual exclusion (`TypeOK`) and `NoLockTwice` no
  critical section can release one of them.  `OrderInv` gives every lock a rank
  (`Rank`) and says that the locks on a stack are sorted by it (`SortedInv`),
  that holders and stacks agree (`HolderInv`) and that a thread's tracker is
  locked by the thread or by a worker that holds `m_thTrackersMt` (`WalkInv`).  A waiting process wants a higher
  rank than all it holds, so the process of a circle that wants the highest rank
  has nobody to wait for: `NoCircularWait`.
* **AllocHeaders** (`LibraryProofs`).  `LifeInv` (the flags follow each other), `TableInv` (each
  block has its entries) and `BlockInv`: `Placed` ties header, pointer and region,
  `Serves` ties them to what was asked.  The arithmetic of alignment is in
  lemmas about `align_ceil`.
* **ModuleCache** (`LibraryProofs`).  `FlagInv`: the flag a `dlopen` set is still set, unless the worker
  took it before the library was loaded; `ListIsCurrent` and
  `EntriesAreExplained` are inductive with it.
* **TraceIds, StacktraceTree** (`TracePathProofs`).  `TreeInv` ties the tree to
  the list of nodes: the edge to a node has the number of the call that created
  it, parents have smaller numbers than their children, and no two edges leave
  one node with one address.  `IndexEffect`
  says what `index` does to such a tree: it grows, old paths stay, and the node
  returned has the path of the trace without its null frames.  `IdsInv` adds that
  everything in a cache or on the way into one is right for its trace in the
  tree, and everything ever given in the tree or, for MemHawk's own raw traces, in
  the fixed storage, where no two elements are equal; since storages only grow, it
  stays right: `IdsResolve`.  `LatestInv` relates a cache to the history of uses
  while `SaveTraceId` is between its two accesses: `HoldsTheLatest`.
* **CollapseRecursion** (`TracePathProofs`).  `MaxDpFacts` says what a nonzero entry of `maxDp` means:
  the block before the position is repeated behind it.  About the
  last loop, `Squeeze`, it is then shown for every table with that meaning that
  a jump lands on a position that looks like the one it left,
  so the ends, the frames and the calls are kept, and that no frame equal to its
  predecessor is kept if single frames were compared.  The vector loop is shown
  to compute the same table, stride by stride: the run length it carries is the one of
  the scalar loop, and of several shifts the largest is written last.  For
  the naive loop the invariant is that what it has put out ends as the part of
  the stack it has passed does, over the length of any match.
* **Reports** (`TracePathProofs`).  `HeapGood` is the invariant of the heaptrack
  writer alone: its tree and the records agree (`WellFormed`, shared with
  `TraceIds`), the node of a written trace has the trace's path, and the blocks
  heaptrack holds are those of the sizes *before* (`prev`), negative ones counting
  as none.  `WritersInv` adds that both writers hold the same sizes and that a trace
  that is not in `m_changedSummaries` is `Settled`: its size before is its size.
  The loop of `FlushData` settles what it visits and unsettles nothing
  (`FlushingEffect`), and an order visits every changed trace (`OrderCovers`).
  The totals need what a sum over a finite set is (`LoopTheorems`): `SumExists` and `SumAny` show
  that `SumFunction` does not depend on the order of its terms, `SumGrows` what one
  more delta does.  Sizes are unbounded integers here and 64 bits in the code.
* **ProtoStream.**  The invariant `ProtoInv` has a part for the writer and one for
  the reader.  Of the writer: an address has one id and one snapshot announces it
  (`PtrsInv`); a trace is announced by ids that stand for its addresses, no later
  than its first summary, and its addresses no later than itself (`TracesInv`);
  a trace that waits for no flush has its accumulated size in the last snapshot
  that lists it (`WrittenInv`).  Of the reader: it knows the ids, traces and last
  summaries of exactly the snapshots it did not skip (`AddrsInv`, `LeafInv`,
  `SummaryInv`), and the sizes are sums (`SizesAreSums`).  The two meet in
  `AddressOrigin`: one snapshot tells of an address and of its id, so an id the
  reader cannot resolve is an address in `Lost`, and neither changes once the trace
  has been read (`ShownPathKept`).  That a trace keeps the leaf under which its
  sizes were added up needs the order of announcement and first summary
  (`LeafKept`); without it the differences of `process_alloc_summary` would go to
  another path than the sizes before.  Sizes are unbounded integers here.
* **TraceGraph** (`SymbolizerProofs`).  `GraphInv` has four parts.  `TreeInv`: the
  nodes are a tree in which levels, edges and the flags `first` are those of the
  paths, and `Totals` are sums of self values.  `NamesInv`: every frame of the
  graph has a name that is published, waits for a new leaf to be published with
  it, or was lost in a stop before the first snapshot.  `LeafsInv`: what has or
  waits for a self value is a leaf whose path is published or new.  `RowsInv`:
  the published rows are those of the graph; what would make one stale is among
  the modified ones.  The heart is `TotalsUpdate`.  The subtree of a node is the node and
  the disjoint subtrees of its children (`ChildParts`), so by induction over the
  levels, from the deepest, the pass of `process_postponed_updates` brings to a
  node the sum of all that was postponed below it (`AccumulatedIs`, with
  `SumsByParts` of `LoopTheorems`: a sum over disjoint parts is the sum of their
  sums).  The nodes with a frame on their path are the disjoint subtrees of the
  *first* nodes with it (`FirstParts`), which is why `aggregate_on_frame` may
  leave out the others without missing or repeating one (`OnFramesIs`).  New nodes have
  no value yet, so adding a path changes no sum (`SumsGrow`).  Sizes are unbounded
  integers here.  The assumption on the constants is that traces are
  sequences of addresses, that symbolizing gives names, that no name equals a
  predefined one, and that differences are integers.
* **SnapshotFile.**  `StreamInv` (messages follow each other and none is empty) and `ReaderInv` (the buffer holds exactly the bytes of the piece of the
  message the reader is at).
* **SymbolizerRuns.**  `StageInv` (what holds at each step of `main`),
  `CoherentInv` (processor and saved state agree with the file on time stamps),
  `ClearedInv` (the tables `clear` has passed are empty), `OnceInv` (until a
  restored run is cut, a table holds or is about to hold what the processor
  contains, once);
  with them `ProcessorAccounted`, `SavedIsStored` and `SkippedOnlyIfOlder` are
  inductive.

*Induction over data.*  The library's induction theorems take an operator as a
parameter, which the provers cannot instantiate.  `LoopTheorems` has
lemmas about *sets* of numbers instead (`LeastElement`, `StrongInduction`: a set
of numbers that contains a number whenever it contains all smaller ones contains all
of them), and for recursive functions `Recursion` and `Loop`: a function that
satisfies the equations exists, is unique, and so is the one `CHOOSE` picks.

Only model-checked: all liveness properties (`EventuallyReported`,
`CallsReturn`, `StopTerminates`, `EventuallyCalled`, `QueueDrained`,
`EventuallyListed`, `RunsEnd`, `CompleteIsRead`), which are out of the prover's
reach; `BitPacking` (`PackingCorrect`), whose round trip is arithmetic of powers
of two, and `FlameTrie` (`FlameCorrect`), both written with recursive operators
that follow the recursion of the code; and the four violations.

## 5. Not modelled

* Unwinding and the lookup of an address in DWARF: library code; a stack is any
  sequence of frames, a symbol any function of an address.
* Configuration and logging: templates that parse single fields, and output.
* The flamegraph's statistics mode and the parsing of its lines.
* SQL, row formats, dashboards and the protocol schema: declarations.
* The lookup of the real functions with `dlsym` and the self-profiling build.
* Memory orderings are taken to be sequentially consistent; the flags in
  question are atomics and the rest is under locks.
