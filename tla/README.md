# Kataan: a TLA+ verification of its concurrent, event-driven and garbage-collected core

Kataan is a JavaScript engine in Rust: a parser, a register bytecode VM with a
JIT, a realm of heap objects, a garbage collector, ES modules, promises and
timers, and real multi-threaded agents with `Atomics`.  Test262 covers what one
sequential program computes.  This project is about what such tests hardly
reach: the thread scheduler behind `$262.agent` and `Atomics.wait`; the
generational, moving, incremental collector and the tables it has to keep
consistent; the evaluation of module graphs with cycles and top-level await; the
two event loops and their timers; maps that are changed while they are
iterated; and the allocator that every thread of the engine shares.

Paths below are relative to the crate's `src/` directory.

## 1. Inventory

| Part | State it keeps | Operations | What is hard | What makes it correct |
|---|---|---|---|---|
| Agent pool, `nbexec/agent_pool.rs` | baton flag, FIFO of tickets, status per agent, broadcast inboxes, report queue, waiter list, `shutdown`; one Mutex, one Condvar | acquire, release, yield, sleep, start handshake, broadcast/receive, report, wait, park_async, notify, idle, finish, shutdown | one Condvar for five kinds of sleepers; deadlines, breaker and shutdown racing notify; deadlock detection from a status table | mutual exclusion; no lost notify; FIFO waiter lists; every wait answered once; teardown terminates |
| Agents, `nbexec/agent.rs` | worker threads, per-agent pending `waitAsync` promises, the no-pool waiter list | start, the worker's main loop, receive, sleep, wait/notify/waitAsync, settle wakes | compare-then-park is two steps; spawn failure after registration | the compared value is current when the waiter is listed |
| Handle table, `heap.rs` | slots with generation, age and dirty state, free list split at `free_top`, `young_floor`, remembered set, lazy length | alloc, get_mut, get_mut_append, swap, free, sweep, sweep_young, compact_to | a free list that doubles as the record of the nursery; write barrier hidden in mutable borrows; generation retirement | no slot handed out twice; stale handles stay stale; remembered set complete |
| Collector, `gc.rs` | mark sets, the incremental marker | full, minor, compacting, incremental collection | mutation between marking steps; the old generation is presumed alive | nothing reachable is freed |
| Realm, `realm.rs`, `realm/handle_map.rs` | the heap and two dozen handle-keyed side tables with insertion logs | property and element stores, swap_cell_state, freeze, collections | a minor collection walks only logged keys; a compaction must forward every handle | the program sees one unchanging object graph |
| Event loop, `nbexec/promise.rs`, `nbexec/mod.rs` | microtask queue, macrotask heap with a window of liveness flags, virtual clock, the same-agent `waitAsync` list | set and clear timers, drain, one macrotask, wait, notify | order of queues; cleared entries left in the heap; an interval queued again under an old id; a timeout after a notify | one schedule on one clock; nothing lost, nothing twice |
| Host timers, `host/timers.rs`, `Realm::persist` | timer store, nextTick queue, persistent handles | set/clear timers, immediates, nextTick, loop | clearing inside a callback, a throw between queues, recycled handles | due order; jobs before timers; each handle released once |
| ES modules, `nbexec/module.rs` | module records, async order, pending counts, cycle roots, evaluation promises | load, link, evaluate, settle, dynamic import, deferred namespaces | cycles with top-level await, settlement in any order, imports in the middle of an evaluation | each body runs once, after what it relies on; failures reach importers; promises settle |
| Generators, `nbexec/generator.rs` | suspended frames, async request queues | resume, enqueue | re-entrancy | one resumption at a time |
| Caches: `ic.rs`, `shape.rs`, `realm/forin_cache.rs`, `env.rs` | cached slots, chains, key lists | fill, hit, retire by epoch | a mutation that forgets the epoch | a hit equals the slow path |
| Map/Set storage, `realm.rs`, `realm/coll_index.rs` | entry list with tombstones, open-addressing index, dead-prefix mark, recorded renumberings, iterator cursors | set, delete, clear, find, iterate, compact, relocate | renumbering under live iterators; removed slots in probe chains; a stale mark or index | an insertion-ordered map whose iterators miss nothing and repeat nothing |
| Pooling allocator, `pool_alloc.rs` | per-thread caches (free lists, limits, a bump arena, a state), a global stash of lists and arena tails behind a spin lock, flags read outside it | alloc, dealloc, realloc, spill, steal, new arena, exit hook | hand-over between threads; links written through freed memory; re-entry while the hook is registered; use after tear-down | a granule has one owner; no write into a block in use |

The others (parser, VM, JIT, WebAssembly, regular expressions, Intl, Temporal,
JSON, numbers, snapshots, structured clone, C API, CLI, web and Node globals)
are sequential translations of data; `PROJECT.json` lists each with the reason
it is not modelled.

How they interact.  The VM calls the realm for every object operation; the
realm calls the heap, whose mutable borrows are the generational write barrier,
and the incremental marker's barrier (`shade_stored`, `write_barrier`).  A
collection runs at a safepoint of the interpreter, on its thread, from roots
the interpreter lists.  Each agent has its own interpreter, realm and heap;
only the agent pool and `SharedBlock`s are shared by threads.  The event loop
of an agent polls the pool for resolved `waitAsync` promises and idles in it.

## 2. Plan

Done, in this order: (1) the agent pool with its waiter lists and the proof of
mutual exclusion; (2) the handle table and the collectors, with the object graph
they implement; (3) module evaluation, against an evaluation order; (4) the two
event loops with their timers, ticks, jobs and same-agent waits, against a timer
schedule and, once more, the waiter list; (5) the storage of maps and sets,
against an ordered map; (6) the pooling allocator, against what `GlobalAlloc`
promises.

Then the proofs: (7) the pool's remaining invariants (tickets, status flags, every
wait accounted for) and its refinement of the waiter list; (8) the allocator: its
lists, its ownership of every granule, and its refinement of `Allocator`; (9) the
heap: its free list, its stale handles, its remembered set and its side tables;
(10) the event loops: their invariants, the order of jobs and timers, and their
refinements of the waiter list and, twice, of the timer schedule; (11) the heap's
incremental marking; (12) the collections: the exactness of their index, and their
refinement of the ordered map.

Left, as proofs: `ImplementsObjectGraph`, for which (9) has the invariants, and the
modules.

Abstract specifications: `WaiterList` (ECMAScript's WaiterList records, used
twice), `ObjectGraph` (what a heap is to a program), `EvaluationOrder` (what
evaluating a module graph promises), `TimerSchedule` (what `setTimeout` promises,
used twice), `OrderedMap` (what a Map promises a program that iterates it),
`Allocator` (what a `GlobalAlloc` promises).

## 3. Modules

### AgentPool, WaiterList, MCAgentPool

`AgentPool` has one variable per field of `PoolState` and, besides, `pc` (where
each thread is), `asleep` (the Condvar's wait set), `resume` (what an agent
does with the baton once it has it), `armed` (a comparison that succeeded and
is not parked yet), `mem`, `outcome` and the history variable `notified`.

One action is one critical section of the pool's Mutex.  A method that waits on
the Condvar is cut there: the first section is one action (`wait`, `idle`,
`recv_broadcast`, `await_started`), each later pass of its loop another
(`WaitAgain`, `IdleAgain`, `RecvAgain`, `AwaitStartedAgain`).  `Wake` is the
Condvar returning, spuriously too; a notification sent while nobody sleeps is
lost, as it is in the program.  `acquire_locked` is `Grant` and `KeepWaiting`.
The main agent is driven by an embedder (`RunScript`, `Drop`, `Join`); a worker
by `worker_main`.  `RunJob` and `EndJob` are the event loop running a job;
`LoopEnds` its end.  The model begins where the pool does: the main agent's first
`$262.agent.start` has made it, taken the baton and registered worker 1, whose thread
is spawned or, with `SpawnMayFail`, is not.

Abstractions.  A ticket is the agent that drew it, since no agent holds two.
The waiter Vec is a set ordered by id, since ids only grow and the Vec is never
reordered.  A broadcast block is a count, a report the reporter's name, a
(block, byte) pair a location, a cell's content 0 or 1.  A deadline is never,
pending or passed.  An agent's `pool_waiters` are the asynchronous entries it
owns (`AsyncOf`).

`WaiterList` is the promise: waiters of one location are woken in arrival
order, each is answered once, and an answer is final.  The refinement mapping
reads a woken entry as answered at the moment `notify` counted it.

### Heap, Listing, RealmGC, ObjectGraph, MCRealmGC

`Heap` has no variables: each operation of `heap.rs` and `gc.rs` is an operator
from the table before to the table after.  `RealmGC` holds one heap, the
program's roots, three side tables with their logs, the incremental marker, and
history variables; its actions are what a program does (make, drop, load,
store in each of the ways the realm stores, freeze, set a length read-only,
exchange two cells) and each collection.  `Listing` is the ascending listing of a
finite set of positions: what a sweep pushes, and what `Vec::retain` keeps (the
event loops and the collections use it too).

Abstractions.  An object is the list of its references, and whether it can
change behind an `Rc` (`Cell::Env`).  Slot indices start at 1.  The remembered
Vec is a set.  Ages stop at `OLD_AGE`, above which nothing compares them.
`uncounted` is `allocs_since_gc - counted`.  The marking worklists are the least
set they compute, whatever their order.  A collection is atomic: the engine is
single-threaded and collects at safepoints.  When a collection is triggered is
left open, so the properties hold for every threshold.  `aux_props` stands for
the weak-key maps with values, `frozen_arrays` for the flag sets a compaction
forwards, `nonwritable_array_lengths` for the tables it does not.
GC-verification mode, the recycling of property tables and inline allocation
from machine code are left out.

`ObjectGraph` knows no slots and no collections: objects, what they hold, what
the program holds.  The mapping goes through the history variable `seen`: each
object has an identity (`obj`), and `seen` is the graph of identities the
program reaches through its handles.  Every collection must leave it as it is.

### ModuleGraph, EvaluationOrder, MCModuleGraph

`ModuleGraph` has one variable per field of `ModuleRecord` that evaluation
uses, the promises of `import()` calls, the microtasks that concern modules, and
the Rust call stack `ctl`.  The stack is explicit because module code runs in the
middle of the walk: a body may call `import()`, touch a deferred namespace,
await or throw while modules above it are half evaluated.  `EvaluateModule`,
`Descend`, `DepReturns`, `DepFails`, `ExecuteModule`, `CloseComponent` and
`EvaluateReturns` are `evaluate_module` and `inner_module_evaluation` cut at the
calls that run other code; `AsyncModuleExecutionFulfilled`, `ExecuteNext` and
`AsyncModuleExecutionRejected` are the continuations.  `load_module` and
`link_module` run no module code and are operators applied in one step.
`HoistNext`, `HoistReturned` and `HoistDone` are `import.defer()`'s hoisting of
asynchronous dependencies.  `deferredNs` says of each module whether its deferred
namespace has been made (by linking an `import defer` or by a fulfilled
`import.defer()`) and whether it is still armed.  `ForceDeferredNamespace` is code that
holds an armed one and touches it: of a module that can be evaluated now, or that is
evaluated already, in which case `evaluate_module` still answers for the root of its
cycle; `ForceReturned` is `evaluate_module_now` coming back.  `EvaluateFails` is an
`Evaluate()` of a module that a failed link left loaded.  `ImportFrom` says which code
calls `import()` and touches the namespaces it gives (scripts and jobs, bodies inside
a walk, asynchronous bodies, resumed ones, those run from `execList`), `AwaitFrom` which
bodies await inline.

Abstractions.  A module is its list of requests, whether it has a top-level
await, and whether it is missing or does not link.  An error is the module that
threw it.  Bindings, attributes and source text are left out, and a module
awaits once.  What a body awaits settles at any later time (`BodyResumes`).

`EvaluationOrder` says that a body runs at most once, after every body it relies
on has completed, and never after one of them threw.  What a module relies on is
everything it requests eagerly, directly or through others, that is not on a cycle
with it.

### EventLoop, TimerQueue, TimerSchedule, MCEventLoop

`EventLoop` is one agent: the engine's microtasks and macrotasks, the host's
store of timers and ticks, the persistent handles, the same-agent `waitAsync`
list, and the two loops.  A program is whatever the running callback does next;
`Return` ends a callback normally, by a throw or by an engine fault.  `StartTick`,
`StartJob`, `FireTimer`, `RunMacrotask` and `WaitTimesOut` are one turn of a loop up
to the call.  `TimerQueue` is the engine's queue as operators from queue to queue.

Abstractions.  Time is a natural number (the code's is a double, so rounding is
left out).  A request's callback and argument are named after the request, so
that a handle released too early is seen as a call of the wrong thing.  The heap
is a set, since `seq` makes its order total.  An embedding (`Program`) says
whether the host layer is installed, how many scripts run, and what they ask for.

`TimerSchedule` is a line of requests on one clock; both queues implement it.
`WaiterList` is the module the agent pool implements too.

### Collection, CollIndex, OrderedMap, MCCollection

`Collection` has one variable per field of `Cell::Collection`, the iterators' state
arrays, and the key hash, which a relocation of the heap changes.  `CollIndex` is
the hash table as operators, with probes, growth and removed slots as in the code; its
loops are recursive functions over slots or positions.  `CollectionAssumption` asks that
`MaxDoublings` leave a table room to double until it holds `MaxEntries` entries: the
bound stands for memory and must not stop a growth the code would make.
`collection_delete` includes the compaction that may follow.

Abstractions.  A key is its `SameValueZero` class; a hash is the scrambled 32
bits, so the home slot is a residue.  Positions start at 1 and cursors count the
entries passed, which is what the code's 0-based positions amount to.

`OrderedMap` is a list of live entries and, per iterator, how many it has passed.
The mapping takes an iterator's cursor through the recorded renumberings and
counts the live entries before it.  A removal may renumber the entries, and an
iterator follows `Patience` renumberings between two of its own steps (`MaxRemaps`
here, eight in the code); `age` counts them.  One left further behind is lost: it goes
on after the key it yielded last and, when that key is gone, anywhere, which is what
`collection_iter_rebase`'s last resort amounts to.  Its next step finds it a place, and
no other iterator notices.

### PoolAlloc, Allocator, MCPoolAlloc

`PoolAlloc` has the caches, the stash and its lock, the first words of every
granule of memory (where a free block keeps its link and an unused arena tail its
header), and, per thread, the call it is in.  `Alloc`, `Dealloc` and `Realloc` start
a call; what it does to the thread's own cache is one step up to the next use of
the stash.  `Stash::with` is two steps, the stash read at the first and written at
the second, so that a missing lock would show.  `Registered` is the return of
`EXIT.try_with`, until when the same thread may allocate and free again; `Exit` and
`tear_down` are the exit hook, after which the thread still allocates; `Respawn` is
another thread in its place.

Abstractions.  Memory is counted in granules of 16 bytes, and a layout is its
class, or `NoClass` for one that goes to `System`.  `System`, external, takes the
first room there is, or fails.  A block becomes the program's data as soon as it is
answered, and a free block is one of whatever thread frees it.  A relaxed load of
`STASH_HAS` may give either value: the comment says that a stale one only costs
time, and the run shows it.  The tail of an empty list, which nothing reads, is
null.  `alloc_zeroed` is `alloc`; a realloc within one class changes nothing and one
between two layouts of `System` is `System`'s.  While the exit hook is registered the
thread allocates and frees, but a realloc there is left out.

`Allocator` is a set of disjoint blocks and the words in them: a step adds a block
or removes one, and keeps every word of the others.

## 4. Runs

All passing runs explore their whole state space.

| Run | Bounds | Shows |
|---|---|---|
| `pool_safety` | main and 2 workers, 1 location, 1 wait, 1 queued broadcast, 1 report, spawns may fail | `TypeOK`, `Exclusive`, `ComparedValueIsCurrent`, `TicketsExact` |
| `pool_liveness` | main and 1 worker, 2 waits, 1 broadcast, fair | `StatusIsTruth`, `EveryWaitAccounted`, `ImplementsWaiterLists`, `QueuedAgentRuns`, `CountedWaitReturns`, `TeardownCompletes`, `BreakerReleases` |
| `pool_uncollected_wake` | the same without broadcasts | violates `WedgedPoolIsReleased` |
| `heap_free_list` | 3 slots of 3 generations, no references, minor, full and incremental collections | `FreeListExact`, `StaleStaysStale` |
| `heap_barrier` | 2 slots, 2 references each, every store, read-only lengths, swaps, minor and full collections | `RememberedSet`, `ImplementsObjectGraph` |
| `heap_compaction` | 3 slots, named properties, freezing, swaps, minor collections and compactions | `SideTablesExact`, `RememberedSet`, `ImplementsObjectGraph` |
| `heap_incremental` | 3 slots, stores between marking steps, other collections in between | `IncrementalKeepsReachable` |
| `heap_unforwarded_flag` | 3 slots, read-only lengths and compactions | violates `ImplementsObjectGraph` |
| `modules_eval` | twelve graphs of 3 modules with the choices of top-level awaits (all, but for one choice of one graph, section 6), deferred requests on a cycle and of a member of one, seven also with a missing or unlinkable file, one left half linked; 1 `import()`; fair | `PendingExact`, `FulfilledMeansComplete`, `FailureReachesImporters`, `ForceCompletes`, `ImplementsEvaluationOrder`, `ImportSettles`, `CapabilitySettles` |
| `event_loops` | seven embeddings, 3 requests, delays below, at and above the limit, a safety cap of 3; fair | `TypeOK`, `HandlesExact`, `EachOnce`, `CleanDrain`, `JobsBeforeTimers`, `HostTimersInOrder`, `MacrotasksInOrder`, `ImplementsWaiterList`, `TimersFire` |
| `collections` | 2 colliding keys, 3 raw entries, 2 iterators, 3 compactions of which 1 is remembered, 2 hash functions | `IndexExact`, `ImplementsOrderedMap` |
| `allocator` | 2 threads, 2 classes, arenas of 2 granules, 3 granules of memory | `ListsExact`, `OneOwner`, `ImplementsAllocator` |

Why the bounds are enough to be interesting.  Two agents already give every
pair of pool operations in every order, a third makes the baton queue longer
than one; two waits are one to be woken and one to be skipped or expired.  In
the heap an old container and a young target are the two objects every barrier
is about; a third slot gives a container, its auxiliary object and a target.
Two references with `SCAN_MAX = 1` reach a scan position moved back, kept and
past its limit.  `COMPACT_GEN_BASE` of 1 to 3 makes a slot retire after so many
frees instead of 32768 (three are needed for one slot to be listed as free
twice); `GenMod` plays 2^16.  Three modules give a diamond, a chain, a cycle of
three, a cycle entered from outside and two cycles that share a module.  Three
requests are a timer, one that clears or outruns it, and an interval or a job in
between; `HeapSlack = 1` makes the engine's queue compact after two clears
instead of 65.  Three raw entries of two keys give a tombstone before, at and
after a cursor; `MinSlots = 4` makes the index grow on the third insert, and the
compaction thresholds are lowered so that two deletions are enough; with one record
kept of three compactions an iterator is exact, at the limit, and lost.  Relocations
are tried until the first compaction (`MaxRelocated`).  Three granules and a limit
of two per list give a spill, a splice onto a list of the stash that is not empty,
a system that runs out, and with `SPARE_MIN = 1` (the code's is one largest block)
a spare region shorter than the block that is needed.  `MaxRoots`, `MaxElems`,
`MaxInbox`, `MaxReports`, `MaxWaiters`, `NWorkers`, `MaxImports`, `MaxRequests`,
`MaxClock`, `MaxEntries`, `MaxEpoch`, `MaxDoublings` and `MaxAddr` are the other named bounds.
`Ops` selects the operations a heap run combines, and `History` the history
variables it records: a run pays only for what its question needs.  Between them
the runs take every action.  The only symmetries are those of the iterators of
`collections` and of the threads of `allocator`, whose properties are safety
properties that do not name one.  Every module has one type invariant, `TypeOK`;
where a run does not list it, it is the first conjunct of the invariant that does
stand there (`RememberedSet`, `PendingExact`, `IndexExact`, `ListsExact`).

The heap, module and event-loop runs do not check deadlock (a program may simply
stop, and a loop that has drained its queues has ended); the pool runs do, with
`Over` as the only legitimate end, and so do `collections` and `allocator`.

Fairness.  `AgentPool`: the operating system runs every thread that can
run, so `Engine`, `WorkerMain` and the handshakes are weakly fair; time passes,
so deadlines and the 20 ms polls of `wait` and `idle` expire.  User code may
spin for ever, but each loop back-edge and each macrotask calls `agent_tick`,
which therefore is strongly fair: it need not be enabled continuously.  The
embedder does not hold the main agent's baton between two runs for ever.
`ModuleGraph`: the one thread goes on (the walk, the next microtask), module code
ends, and what a module awaits settles at last; without the latter two no
engine could settle a promise.  `EventLoop`: the one thread goes on, by the end of
the running callback or the loop's next turn.  No fairness is assumed of what
user code chooses to do (store, notify, wait, clear, import), nor in `RealmGC`,
`Collection` and `PoolAlloc`, whose properties are safety properties.

## 5. Proofs

`AgentPoolProofs` proves, for any positive number of workers and any number of
locations, waits and broadcasts, and from the named assumptions on the constants alone:

* `TypeCorrect`: `Spec => []TypeOK`;
* `MutualExclusion`: `Spec => []Exclusive`, the statement `SharedBlock`'s
  `unsafe impl Sync` rests on;
* `NoLostNotify`: `Spec => []ComparedValueIsCurrent`.

All three follow from `Inductive`.  The inductive invariant has four parts:
`BatonType` and `OtherType` (the type invariant in two halves, so that the
steps about the baton do not carry the waiter records), `Exclusive`, and
`ArmedOK`.  `Exclusive` is not inductive without types: the hand-over reads the
head of the ticket queue and the status table.  `ComparedValueIsCurrent` is not
inductive by itself either: a store by another agent would break it, so its
preservation uses `Exclusive` (whoever stores holds the baton, and so does the
agent that is between comparing and parking), and `ArmedOK`, which says that an
armed agent's record names a real location and value.  Each action has its own
lemma-sized step; an agent's step is split by whether it concerns the agent in
question.

The second half of the module adds `QueueInv` to that invariant and proves

* `FifoExact`: `Spec => []TicketsExact`;
* `StatusTrue`: `Spec => []StatusIsTruth`.

`TicketsExact` says who is in the ticket queue; to be kept it needs to know that
each agent is there at most once (a hand-over that removes one entry must remove
the agent) and what each status flag means at each point of the agent's code, so
the two are proved together.

The last part of the module adds `WaitInv`, the account of the waiter records: every
record's owner, list and state agree, a record is in at most one list, and an
agent that is parked has exactly the record it waits for.  From it

* `WaitsAccounted`: `Spec => []EveryWaitAccounted`;
* `PoolImplementsLists`: `Spec => ImplementsWaiterLists`, the refinement for any
  number of agents, locations and waits.

In the refinement `wait` is `Add`, or `GiveUp` when it does not park; `park_async`
is `Add`; a notify is `Notify` of the front of the list; waking by timeout, by the
breaker or by an agent's end is `GiveUp`; a deadline that passes and the settling of
a promise are stutters.  A notify takes the front of the list only because a
list's records are in the order of their numbers, which is why `WaitInv` carries it.

`PoolMemoryProofs` and `PoolAllocProofs` prove, for any number of threads and size classes,
any memory, any arena and spill limit with room for the largest block, and any `SPARE_MIN`,

* `PoolInvariant`: `Spec => []PoolInv`;
* `FreeListsExact`: `Spec => []ListsExact`;
* `EveryGranuleOwned`: `Spec => []OneOwner`;
* `PoolImplementsAllocator`: `Spec => ImplementsAllocator`.

`PoolMemoryProofs` is about linked lists in memory (what pushing, popping, splicing
and cutting a list after `n` blocks does to the set of blocks along it) and about
the granules of a chunk (what a block covers and when two blocks are apart).  `PoolInv` has three parts: `TypeInv`; `Control` (at most one
thread holds the central lock, a thread in the middle of a refill or a flush holds
what its locals say, a cache that is not live is empty); and `OwnInv`, which names
for every granule its owner (a cache's list, a central list, a thread's hands, the
program, or the untouched rest of the chunk), the block it belongs to and that
block's rank in its list.  The names are existentially quantified, not part of the
model.  The rank is what makes the lists' invariants inductive: that a list has
no cycle and shares no block with another follows from each block having one owner
and one rank, and every operation of the code moves blocks from one name to another.
The refinement then has three cases: a step answers a block none of whose granules
is the program's, takes a block back, or writes only granules that are not the
program's.

`HeapProofs` and `RealmGCProofs` prove, for any number of slots, generations, roots
and references, any top-up, reserve and scan width,

* `RealmInvariant`: `Spec => []RealmInv`, and `HeapTypeCorrect`: `Spec => []TypeOK`;
* `FreeListIsExact`: `Spec => []FreeListExact`;
* `StaleHandlesStayStale`: `Spec => []StaleStaysStale` if `"compact" \notin Ops`;
* `RememberedSetComplete`: `Spec => []RememberedSet`, and
  `SideTablesAreExact`: `Spec => []SideTablesExact`, if neither `"incremental"` nor
  `"collect_incremental"` is in `Ops`;
* `IncrementalMarkSound`: `Spec => IncrementalKeepsReachable` if none of `"push"`,
  `"interior"`, `"swap"` and `"compact"` is in `Ops`.

The first three hold whatever `Ops` is.  `HeapProofs` says of each operator of `Heap`
what it does to a table: `Kin` (contents change, occupancy, generations and lists do
not), `Filled` (one slot becomes a young object), `Grown` (vacant slots are appended),
`Vacated` (some slots are freed), `MovedOf` (a compaction).  `RealmInv` is the table in
order (`Shape`; `FreeOK`, the free list up to `free_top` names each slot that can be
given out once; `LenOK`) with the side tables, the marker and the histories over
handles.  `FreeListExact` alone is not inductive: a minor collection finds the slots
it frees in the consumed part of the list, which may list a slot twice after an
incremental `free`, and what keeps the relisting exact is that it takes the first
listing only.  That alloc never runs out of identities, and that the lazy count
never goes below zero, are countings of the occupied slots.

`StaleInv` adds that a live object's generation is below `COMPACT_GEN_BASE` and that
a buried handle's generation is below its slot's: since a slot retires on reaching
the base, no step of `next_gen` wraps.  With compactions the statement is false (see
section 6), so they are excluded.

`GraphInv` is what a minor collection rests on: `RemOK` (`dirty` is the membership in
the remembered set and only of old objects; a young object is where `sweep_young`
looks; an old object leads to no young one except from its recorded position on; an
old environment record is never clean; no reference dangles), live roots, and for
each entry of a side table that it is logged, or that everything is to be walked, or
that what it joins is old.  A store keeps it because the position a borrow records is
never past the position stored to; a minor collection keeps it because every young
object that something old, a root or an expanded entry leads to is marked; a
compaction because its second marking covers the first, so that everything the
tables keep is moved.  Incremental collections are excluded because their sweep leaves
references and table entries that dangle.

`IncrementalMarkSound` is about a collection that the program interrupts at every
step.  It rests on `KnownInv` (a handle that a root or an object holds was given
out, and one that dangles never names an object again) and on `TricolourInv`:
while the marker is on, a live object that is marked and not grey leads to marked
objects only.  A store keeps the latter because it shades what it stores; taking an
object off the grey list because all it leads to is marked first; a new object
because it is born marked.  The four operations left out are the ones that put a
reference into a marked object without shading it (`"push"`, `"interior"`, and
`"swap"`, which exchanges two cells) or move objects under the marker (`"compact"`);
with `"push"` the statement is false (section 6).

`ListingProofs` says what the operators of `Listing` compute, and what cutting one
element out of a sequence leaves; the heap's free list, the event loop's waits and the
live entries of a collection are built with them.

`EventLoopProofs` proves, for any number of requests, scripts, handles, locations and
waits, and any delays,

* `LoopInvariant`: `Spec => []LoopInv`, and `LoopTypes`: `Spec => []TypeOK`;
* `HandlesAreExact`: `Spec => []HandlesExact`;
* `EachRunsOnce`: `Spec => []EachOnce`;
* `CleanDrainLeavesNothing`: `Spec => []CleanDrain` if `"host" \notin WaitFrom`;
* `JobsRunBeforeTimers`: `Spec => JobsBeforeTimers`;
* `LoopImplementsLists`: `Spec => ImplementsWaiterList`;
* `MacrotasksKeepOrder`: `Spec => MacrotasksInOrder`, and
  `HostTimersKeepOrder`: `Spec => HostTimersInOrder`.

`LoopInv` has a part per piece of state: `ControlInv` (which loop runs, in which frame),
`RequestInv` (the requests made and what each became), `IdInv` (a timer id is given
out once per series), `EngineInv` (heap, flags and counters of the engine's queue),
`StoreInv` (the host's maps), `HandleInv`, `JobInv`, `TickInv`, `WaitInv` and `CleanInv`.
None of the invariants the runs check is inductive alone.  `HandlesExact` counts owners;
to be kept, each slot must be known to pin the callback or the argument of one
request, and each timer, tick and running one-shot callback to name its own slots.
`TypeOK` includes the representation of `TimerQueue`, whose sweep is right only because
the ids in its heap are distinct, those of cleared entries included.  `EachOnce` needs
that a job's number is fresh when it is queued.  `CleanDrain` needs that a wait with a
timeout always has its macrotask in the engine's queue, and that the engine's loop ends
only when that queue is empty; a wait asked for by the host's loop is left behind (see
section 6), hence the hypothesis.

The schedules need one invariant more, `LineInv`: in both queues the timers are numbered
in the order they were queued, and an interval that goes round gets a new number.  The
abstract line is the set of pending timers in the order of those numbers, and `Listing`'s
lemmas say what adding the last, taking one out and moving one to the end do to it.  A
`setTimeout` (for the engine also a `waitAsync` with a timeout) is `Ask`; `clearTimeout` is
`Clear`, or a stutter when the id names nothing; a firing is `Fire` of the timer with the
least deadline, of the first such; blocking is `Block`.  Pinning and releasing handles are
stutters of the host's line only because a pending timer keeps naming its own request,
which is `HandleInv` again.

`CollectionProofs` proves, for any keys, values, hash functions (all keys may collide),
thresholds, finite set of iterators and number of compactions,

* `CollectionIndexExact`: `Spec => []IndexExact`;
* `CollectionImplementsMap`: `Spec => ImplementsOrderedMap`.

The first half is about the table alone.  `IndexFor(ix, W)` says that the table `ix` stores
exactly the function `W` from positions to hashes: each stored slot is one position with
its hash, each position has one slot, the slots from the hash's home slot up to it hold no
empty one, and the counters of used and removed slots are true.  Insertion, removal,
growth and the rebuilding that drops removed slots are shown to take `IndexFor` from one
`W` to the next; a probe finds what is stored because a table is never full, and a removal
keeps the other chains because it leaves a mark and not an empty slot.  `CollInv` ties the
table to the list.  `ListInv`: the counts are true and a live key is listed once.
`IndexInv`: the index, when there is one, is `IndexFor` the live positions and their
hashes, and the dead-prefix mark covers tombstones only.  `RemapInv` and `IterInv`: the
recorded renumberings and the cursors are in range and `iters` counts the attached
iterators.

The refinement adds `CursorInv`: the records are those of consecutive epochs up to the
present one, and the cursor of an iterator that is followed (attached, and no more than
`MaxRemaps` compactions behind), carried through the records made since it was last used,
lies in the list.  That the records needed for it are all there is the part that could go
wrong: they are dropped from the front as new ones come, and all at once when no iterator is
attached.  `Before` counts the live entries before a position and
is what the abstract iterator has passed.  A deletion of an entry before a cursor lowers
it by one and of one after it leaves it; a compaction maps every cursor to its `Before`, so
nothing is seen to move; an advance goes to the first live position, which is the entry
numbered `Before + 1`.  `set`, `delete` and `clear` are the map's own steps, the compaction
that may follow a `delete` adding no more to its step than the age of the iterators; a
lookup, which may build the index, and a relocation are stutters.  For a lost iterator
(`PlacesIs`) the last-resort search ends at the position of its last-yielded key, or
anywhere in the list.

The prover has no induction principle over data, yet these proofs need what loops compute.
They take it from arithmetic: if a recursive function misses its claim somewhere, there is
a least argument where it does, and one unfolding of the function there is a contradiction.

Only model-checked: liveness (fairness and ENABLED are beyond the prover),
`ImplementsObjectGraph` of the heap, and everything about the modules, whose walks over
arbitrary graphs would need such an argument for each traversal.

## 6. Disagreements between the code and what it says of itself

With a run that shows them:

* `pool_uncollected_wake`: `is_deadlocked` calls a woken or expired waiter
  "progress waiting to happen"; a `waitAsync` entry whose owner is parked in
  `Atomics.wait` is collected by nobody, so the breaker never fires again.
  `BreakerReleases` shows that this is the only way it fails.
* `heap_unforwarded_flag`: `compact` prunes `nonwritable_array_lengths` and does
  not forward it (nor `sparse_array_lengths`, `native_protos`, `fn_source`,
  `length_tracking_views`, `callable_null_protos`, `native_class_tags`), although
  its comment says every key is forwarded.

Met while modelling, and reproducible with these modules:

* `array_push` and `array_push_plain` do not shade what they store (`realm.rs` 5858),
  and neither does a store into an environment, although "the write barrier is now
  active, so mutation ... between steps stays sound" (`realm.rs` 8759): add `"push"`
  to the `Ops` of `heap_incremental` and `IncrementalKeepsReachable` fails;
* the breaker retires a wait without a deadline while another wait's finite
  deadline was about to let its agent run, and while a broadcast block lies
  undelivered in the inbox of a worker whose thread has not run yet
  (`agent_pool.rs` 41, 157: "no agent runnable");
* a failed thread spawn leaves an agent registered as Running (`agent.rs` 182),
  which disarms the breaker;
* `recv_broadcast`'s waiting loop looks at the inbox before `shutdown`, contrary
  to "Shutdown wins over a queued broadcast" (`agent_pool.rs` 314), and
  `AgentState::drop` calls `shutdown` holding the baton, contrary to
  `agent_pool.rs` 562;
* after a compaction a pushed slot starts again at generation 0, so a handle
  from before it can name a new object (`heap.rs` 716 against 10 and 1278): add
  `"compact"` to the operations of `heap_free_list`;
* a slot stamped with the last compaction generation wraps to 0 when freed and
  is listed again (`heap.rs` 1363 against 1353);
* `collect_incremental` expands no side table and frees the auxiliary object of
  a live array, though its doc calls the result equivalent to `collect`;
* a synchronous module that waited for an asynchronous dependency is run by
  `async_module_execution_fulfilled` with `evaluating_depth` 0, so an `import()` in
  its body is not deferred to a job (`module.rs` 2090: "when this call is reached
  *from a module body* the whole continuation is deferred to a job").  A module
  imported there that imports the running one registers with it and waits, but
  the running module's parents were gathered before it ran: the imported module
  never runs and the promise never settles.  Forcing an `import.defer()` namespace
  there does the same.  `modules_eval` with
  `ImportFrom = {"list"}`, `AwaitFrom = {}` and `LateImportSources` violates
  `ImportSettles`;
* `ready_for_sync_execution` stops at an evaluated module, and
  `force_deferred_namespace` does not ask it of one, though on a cycle a module may be
  evaluated before its root (`module.rs` 1923, 1972): the forced evaluation stays
  pending, the namespace is disarmed all the same, and nobody resumes it, although
  `evaluate_module_now` is "for the callers that require the graph to have *finished*"
  (`module.rs` 1223).  `ForceCompletes` therefore leaves out modules that reach both a
  cycle and a top-level await; without that conjunct it fails on the graphs of
  `modules_eval`, and with `DeferredCycleSources`, the one choice of awaits that run
  leaves out, `PendingExact` fails too;
* `await_value` drains microtasks inside its caller; from a body inside a walk it
  completes modules that are still on the walk's stack: with
  `AwaitFrom = {"walk"}` and `SiblingSources`, `ImplementsEvaluationOrder` fails;
* `link_module` marks a module Linked before its imports are wired (`module.rs`
  876), so after a failed link a second `import()` skips linking;
* `gather_async_transitive_deps` stops at a module whose evaluation is under way,
  and `import.defer` ignores a hoisted dependency that failed synchronously when
  another is pending (`module.rs` 1526, 2141-2163);
* a finite-timeout `waitAsync` called from a callback of the host's loop never
  times out, for the host's loop runs no engine macrotasks (`agent.rs` 543: "A
  finite timeout eventually times out: schedule a macrotask"): add `"host"` to
  `WaitFrom` of `event_loops` and `CleanDrain` fails;
* `TimerQueue`'s doc says the heap is "at most twice the live count"
  (`nbexec/mod.rs` 1110); that holds after a clear, not after pops of live timers;
* `waitAsync` timeouts take ids of `setTimeout`'s series, so a `clearTimeout` of a
  guessed id cancels one; `setImmediate` does not check that its callback is
  callable, as `setTimeout` and `queueMicrotask` do;
* an iterator more than eight compactions behind falls back to its last-yielded
  key, and skips or repeats entries when that key was deleted or added again
  (`realm.rs` 4230).  `OrderedMap` promises no more than that of such an iterator; with
  `{passed[i]}` in place of `Places(i)`, what ECMAScript promises, `collections` violates
  `ImplementsOrderedMap`.  The doc of `collection_iter_rebase` still says "exact
  across one compaction".

## 7. Not modelled

`PROJECT.json` gives the reason per component.  Most of the code's lines are the
parser, the VM, the JIT, WebAssembly, regular expressions, Intl, Temporal and the
built-in library: sequential translations of data, with no state machine of
their own beyond the language's semantics, which Test262 tests and no small
instance exhausts.  The inline caches and the for-in cache rest on several
hundred mutation sites each bumping an epoch; a model with one mutation action
would assume what it should show.

Of the modelled parts: the byte layout of shared memory and the element types;
memory ordering inside a critical section (the Mutex provides it);
GC-verification mode; the roots the interpreter enumerates (`nbexec/gc.rs`), so
a local that a builtin forgets to root is out of sight; objects a program
creates or loads after an incremental cycle has begun and stores nowhere, which
`incremental_finish` sweeps because it does not look at the roots again; a
compaction while a marker is active, which no caller performs; module bindings
and namespaces' contents; thenable jobs and the promise combinators; the drain
nested in `await_value` outside `ModuleGraph`; rounding of the virtual clock; the
set-algebra methods of `Set`, which are loops over the modelled operations.
