# A TLA+ model of cache233-go

cache233-go is an in-process cache for Go: a concurrent hash map, bounded by a
W-TinyLFU eviction policy, with expiration, refreshing, loading through the cache,
deletion listeners, statistics and persistence, and two applications on top (a chat
store, a leaderboard). This directory holds the models of the parts in which it is hard
to be right: the ones where goroutines meet.

`tlc -config <run>.cfg <module>` repeats a run; `tlapm <module>.tla` those of a module of proofs.

## 1. The system

| Component | State | Operations | Meets |
|---|---|---|---|
| Maintenance scheduler (`cache_impl.go`) | `drainStatus`, `evictionMutex`, the write buffer, a token per submitted drain | `afterWriteTask`, `scheduleAfterWrite`, `scheduleDrainBuffers`, `drainBuffers`, `performCleanUp`, `maintenance`, `rescheduleCleanUpIfIncomplete` | every writer and reader; the executor |
| Write-behind and eviction (`cache_impl.go`, `policy.go`, `linked.go`) | hash map, node state words, three deques, three sizes, tasks | `set`, `Invalidate`, `InvalidateAll`, `runTask`, `onAccess`, `evictNodes`, `evictNode`, `climb`, `SetMaximum` | the scheduler runs it; map changes happen outside it |
| Loading (`singleflight.go`, `cache_impl.go`) | table of calls per key | `Get`, `BulkGet`, `Refresh`, `BulkRefresh`, `afterDeleteCall`, and the cancellation in every write | loaders, explicit writes, evictions |
| Write buffer (`queue/mpsc.go`) | linked arrays, producer and consumer indices | `TryPush`, `TryPop`, `Size`, `resize` | many writers, one drain |
| Hash map (`hashmap/map.go`) | table of buckets, per-bucket locks, resize state | `Get`, `Compute`, `Range`, `Size`, `resize` | everything |
| Read buffer (`lossy/*.go`) | rings of 16 slots, a growing array of stripes | `Add`, `DrainTo` | readers, the drain |
| Expiration (`expiration/variable.go`, calculators) | timer wheel, deadlines in nodes | `Add`, `Delete`, `DeleteExpired`, `SetExpiresAfter` | the maintenance, the clock, the periodic goroutine |
| Sketch (`sketch.go`) | 4-bit counters, sample size | `increment`, `frequency`, `reset` | the policy |
| Refresh deadlines (`refresh_calculator.go`) | a deadline per node | `IsFresh`, `calcRefreshableAt`, `SetRefreshableAfter` | loading, every write |
| Clock and periodic clean-up (`clock.go`) | tickers, the fake clock's goroutine, `stopOnce` | ticks, `Sleep`, `StopAllGoroutines` | the maintenance, listeners |
| Persistence, statistics, leaderboard, chat | files; striped counters; a locked map; shared slices | save, load; record, snapshot; set, add, remove; append, recent | |
| Options, facade, generated nodes, helpers | none of their own | validation, delegation, accessors | |

How a write travels: the map is changed under the lock of a bucket; a task (add, update or
delete) is pushed into the write buffer; `drainStatus` announces it; somebody gets the
eviction mutex and runs the maintenance, which pops the tasks, tells the policy, evicts,
and calls the deletion listener. Everything that is hard about this cache follows from the
gap between the first step and the last:

* a task must never be left in the buffer with nobody about to drain it, although nearly
  every path returns early on the strength of the status word alone;
* the mutex changes hands from a scheduler to the goroutine it starts, and the executor may
  also run that function inside the scheduler, which holds the mutex;
* the tasks of two writers of a key reach the policy in either order, after the policy may
  have evicted the entry, and the policy's sizes are unsigned;
* loads are slow, and writes that overtake them must win.

What makes each component correct: scheduler: mutual exclusion, no lost wakeup, every
task run once. Policy: the map, the node states, the deques and the sizes agree in the end,
the bound holds, each deletion is reported once. Loading: one load per key, no stale value,
no waiter left behind. Queue: a bounded FIFO. Map: linearizable, one winner per bucket.
Read buffer: never a node twice, never a stuck ring. Wheel: what has expired is found within
a tick of its bucket. Sketch: counters and sample size stay in range. Persistence: a file that can be
loaded. `PROJECT.json` lists the hazards line by line.

## 2. Modules

| Module | Models | Properties |
|---|---|---|
| `Drain` | the scheduler | `TypeOK`, `MutexHandOver`, `PendingAnnounced`, `ProcessingAttended`, `QuiescentDrained`, `TasksConserved`, `EveryTaskRuns` |
| `DrainProofs` | proofs about `Drain` | see section 5 |
| `Policy` | `policy.go` and the deques, as operators on one record | (used by `WriteBehind`) |
| `WriteBehind` | map, tasks, policy, eviction, listeners | `NodesSound` (`TypeOK`, `MapHoldsTheAlive`, `LinkedOnce`), `WeightAccounted`, `DeletionsReported`, `MaintenanceEnds`, `BooksExact` (with `LimitsBalance`), `BoundedWhenSettled` |
| `WriteBehindProofs` | proofs about `WriteBehind` and `Policy` | see section 5 |
| `Folding` | induction for the folds that the proofs meet | see section 5 |
| `EntryLifecycle` | abstract: what is promised about one entry | implemented by `WriteBehind` (`EntryLifecycleHolds`) |
| `Loading` | singleflight, loads, refreshes, cancellation | `NoStaleChange`, `NoStaleJoin`, `CallsSound` (`TypeOK`, `SingleFlight`, `CallsAttended`), `LoadsAreCached` |
| `LoadingProofs` | proofs about `Loading` | see section 5 |
| `Refresh` | when an entry is due, and what its deadline is afterwards | `ReloadsSound` (`RefreshAnswered`, `DeadlinesRight`, `ReplacesWhatItRead`) |
| `MPSC` | the write buffer, atomic by atomic | `QueueSound` (`TypeOK`, `NoPanic`, `NothingOverwritten`), `SpinAttended` |
| `MPSCProofs` | proofs about `MPSC` and its refinement | see section 5 |
| `WriteQueue` | abstract: a bounded FIFO queue | implemented by `MPSC` (`FifoHolds`) |
| `HashMap` | the concurrent map: buckets, metadata, locks, resizes | `TableSound` (`TypeOK`, `WellPlaced`, `SizeAccounted`), `ComputeAtomic`, `NobodyOversleeps`, `RangeComplete` |
| `HashMapProofs` | proofs about `HashMap` and its refinement | see section 5 |
| `AtomicMap` | abstract: a function from keys to nodes | implemented by `HashMap` (`MapHolds`) |
| `Lossy` | the read buffer: rings, stripes, doubling | `RingsSound` (`TypeOK`, `SlotsReserved`, `BusyExclusive`), `DrainIsComplete` |
| `LossyProofs` | proofs about `Lossy` and its refinement | see section 5 |
| `LossyBag` | abstract: a bag that may refuse | implemented by `Lossy` (`ImplementsBag`) |
| `TimerWheel` | the wheel as a value, with operators | (used by `Expiration`) |
| `Expiration` | deadlines, readers, writers, tasks, the scan of the wheel | `TimersSound` (`TypeOK`, `EntriesTracked`), `AllEntriesTracked`, `ToldOnce`, `EveryDeadlineMet` |
| `PeriodicCleanUp` | the periodic goroutine, both clocks, stopping | `CleanUpServes` (`TypeOK`, `StoppedWhenTold`, `StopReturns`, `SleepReturns`, `KeepsUp`) |
| `Persistence` | saving with crashes, loading while time passes | `SavedFaithfully` (`DeadlinesKept`, `HottestKept`, `WithinMaximum`, `NothingLost`) |
| `Leaderboard` | the board, its mutex, `OnChange` | `BoardFaithful` (`HighestRetained`, `AddsCounted`, `ReplicaAgrees`) |
| `NoValue` | the constant `None`, which the modules that are extended together share | |
| `PartsProofs` | proofs about `Expiration`, `Leaderboard` and `Refresh` | see section 5 |
| `Chat` | the chat store and the arrays its slices share | `SlicesSound` (`ShowsTheLog`, `RecentsKept`, `GivenKeepIds`) |
| `Sketch` | the frequency sketch | `CountsSound` (`NeverUnderestimates`, `SizeCoversCounters`) |
| `Counter` | statistics: striped adder, snapshots | `StatsSound` (`HitsCounted`, `SnapshotBounded`, `TimeHasItsLoads`) |
| `MCDrain`, `MCWriteBehind`, `MCLoading`, `MCMPSC`, `MCHashMap`, `MCLossy`, `MCExpiration` | values and symmetry sets for TLC | |
| `MCParts` | composes `PeriodicCleanUp`, `Persistence`, `Leaderboard`, `Chat`, `Sketch`, `Counter`, `Refresh`: a behaviour is about one of them | theirs |

Where a property is followed by others in parentheses, it is their conjunction: a run checks the whole, and each part is
stated, with its meaning, in the module.

How they fit together: `MPSC` justifies the buffer of `Drain`, `Drain` the single maintenance process of
`WriteBehind` and `Expiration`, `HashMap` the one-step changes of the map in `WriteBehind`, `Loading`,
`Refresh` and `Expiration`, `Lossy` the recorded reads that may be missing or late in `WriteBehind` and
`Expiration`, `PeriodicCleanUp` the assumption of `Expiration` that the maintenance comes.

### Drain

One action per access to shared state. `drainStatus`, `locked` (the mutex) and
`writeBuffer` are the shared variables; `pc`, `op`, `tries`, `child` and `pops` are the
program counters and local variables of the agents: clients call the public operations,
drainers are the goroutines (or inlined calls) that run `drainBuffers`. `child[a]` is the
drain whose token agent `a` still has to compare, `token[d]` the token word. `CallerRuns` and
`HasDefaultExecutor` select the executor. A compare-and-swap is one action, as are a load and the
branch taken on it; a `TryLock` is one action with two outcomes.

A task is named by its client. What it does to the policy is left to `WriteBehind`, where in turn the
maintenance is one process: `MutexHandOver` and `TasksConserved` justify that split. The
write buffer is a bounded FIFO here, of capacity `WriteCap`, which `MPSC` shows it to be.

Reads enter only by what they may schedule: a read buffer that is full, a drain that is
required, an expired entry. `SetMaximum` behaves as `CleanUp`, `WeightedSize` as
`GetMaximum`, `Coldest` as `Hottest`. Caches without eviction and expiration have no
maintenance and are not modelled. Go's mutex is modelled as a lock without fairness; the clean-up
timer is one more caller of `performCleanUp`, that is, a `cleanUp` client.

### WriteBehind, Policy, EntryLifecycle

`map` is the hash map, changed by `Set`, `Invalidate` and the eviction in one step (they hold the
bucket). A client keeps its task in `pending` until `Push`, so that tasks of one key may be
pushed in either order. The maintenance is a sequence of phases with a step per task, per
iteration of `evictFromMain` and per eviction; clients run between any two of them. `policy` is
a record (deques, queue types, sizes, dead nodes) that the operators of `Policy` transform.
Sizes are computed modulo `Word`. `gone` and `told` record what the two listeners were given.

The frequency sketch decides which of two entries is evicted, not whether the books are
right: `Decide` takes its answer as a parameter, and `EvictMain` tries both. A task that does not
fit in the buffer is run by its writer under the mutex after the buffer was drained, which is
what pushing it at that moment does. The maximum of the window is
adaptive: `Climb` takes an adjustment of either sign as an input (it depends on hit rates), and moves the
quota, entry by entry, between window and main space in signed arithmetic, as `policy.go` does; what
cannot be moved stays to be tried again. `InvalidateAll` stops under the mutex when the buffer is half full; the
nodes left over are then invalidated one by one. `Sequential` restricts the
behaviours to one goroutine with a caller-runs executor, each call returning after its task.

### Loading

An agent is one operation: a goroutine in `Get`, `BulkGet` or a writer, or the executor
goroutine of a refresh; the call agent `a` registers for key `k` is `<<a, k>>`. `bucket` is the lock of a
key's bucket in the cache's map, `registered` the singleflight table. The steps inside
`afterDeleteCall` are separate actions because the singleflight table has buckets of its own: its
writers are serialized with each other only by the outer bucket, `startCall` not at all. Bulk
loaders may fail, panic, leave keys out, or return extra keys, which are installed by calls
that nobody registered. `seen`, `superseded`, `overtaken`, `author`, `behind`, `calls` and
`installed` are history variables.

### MPSC, WriteQueue

One action per load, store or compare-and-swap of the queue's words and slots; `pc` and
`local` are each producer's place in `TryPush` and what it has read so far, `consumer` the
consumer's place in `TryPop` (there is one consumer: the holder of the eviction mutex).
`arrays` are the arrays in the order of their allocation; a slot holds an element, the jump mark, the link
to the next array or nothing. Two history variables: `order` lists the elements as they got their indices, `spans` has
of each array its size and how many elements had an index before it was made. The
refinement takes effect where the code gets its index (a push), reads `consumerIndex` (a
refusal), stores `consumerIndex` (a pop) or reads `producerIndex` (an empty pop): the queue
is the part of `order` beyond `consumerIndex`. Panics of the code are values of `pc` and
`consumer` that `NoPanic` excludes. `Size` and `IsEmpty` change nothing. The 64-bit indices are
naturals: in `pushSlowPath` the subtraction is only reached when it cannot wrap around.

### HashMap, AtomicMap

A process is one goroutine that calls `Get`, `Range`, or `Compute` to set or delete. `tables` are the
tables allocated so far, `current` the published one; a table is a chain of blocks per bucket, a block has slots
of metadata (the tag of the key's hash) and nodes. `Get` reads the metadata word of a block, then node by
node, while writers store node and metadata in two steps. `Compute` locks the bucket, and looks whether a
resize has begun or a newer table is there before it goes on. A resize makes a table with another hash
function (`Hashes`: what the random seed decides), copies bucket by bucket under the bucket's lock, and
publishes. The nodes of a bucket are copied in the order of its slots, and a `Range` is told by how often it has visited each key. The unlock is part of the step before it; the one-byte tags collide always, which is the hard case. In
the refinement a `Compute` takes effect when it stores the node, and a `Get` answers with a node its
key had at some moment since the `Get` began. `Clear` is not modelled (no caller in the library uses it).
`NobodyOversleeps` is the absence of a lost signal: a waiter tests `resizing` under the mutex of the condition variable.

### Lossy, LossyBag

`Add` reserves a slot by a compare-and-swap of the tail and stores the element in a second step; `DrainTo`
takes elements up to the first empty slot, then stores the head. A reader that collides moves to another
stripe, attaches a ring, or doubles the array, under the try-lock `busy`. Which stripe a reader probes first is random in the
code and a constant set (`FirstIndexes`) here. The bag's `waiting` is what lies in rings of the published array,
plus what is stored in a ring that is about to be attached.

### TimerWheel, Expiration

`TimerWheel` is a value: the wheel's time and for each node its bucket, the number of levels and
their spans being constants. Durations are computed modulo `Word`, as the unsigned arithmetic of the code.
`Expiration` has the clients' operations, each with the clock it has read at its beginning (`SetIfAbsent`,
`SetExpiresAfter`, `ComputeIfAbsent`, `ComputeIfPresent`, `Compute`, `Set`, `Get`, `Invalidate`), the three calculators,
and the maintenance in phases: recorded reads, tasks, the scan level by level, and an eviction per node found, which
looks at the node again under the bucket. Recorded reads are a set, tasks of different clients come in any order.

### Refresh

One key; an agent is an operation with the goroutine it starts. `Get` reads the clock, the map, the node's
state and its deadline, in this order. A write under the bucket's lock has two steps: `Prepare` cancels the call
and copies or computes the deadline, `Publish` retires the old version and puts the new one into the map. In
between `SetRefreshableAfter` may still change the old version. A reload that failed sets the deadline of
whichever version is there. `origin`, `moved` and `replaced` are history variables.

### PeriodicCleanUp

`source` tells which clock is there. The real ticker has room for one tick and drops others; the fake clock
has a goroutine that moves the time in `Sleep` and sends the ticks passed, with two wait groups. The cleaning
goroutine waits for a tick or the stop channel; `StopAllGoroutines` is `stopOnce` around a send on that channel, and a
listener may call it on the cleaning goroutine itself. `Quiet` is: nothing can happen any more without a new call.

### Persistence

The saver truncates the file, writes the maximum, then an entry per step, hottest first; it may be cut off
between two entries or in the middle of one (`torn`). The loader reads what is there while the clock
advances; it sets an entry, sets its deadline, then reads it to make it hot. Its cache has a maximum of its own.

### Leaderboard, Chat

One action per locked section; `OnChange` is called after the unlock, so that the changes of two agents may be told in
either order. `best`, `lowered`, `credit`, `replica` and `raced` are history variables. In `Chat`, `arrays` are the
arrays allocated, and a slice is an array, an offset and a length: `append` writes into the array if it has room, else
it allocates, with or without room to spare. `log` is what a store without shared arrays would show.

### Sketch, Counter

`hash` gives the cell of each key in each of the four rows and is chosen at the beginning, so that keys share none, some
or all of their counters. Sizes are computed modulo `Word`. In `Counter`, `hits` are the stripes of an adder, incremented
by load and compare-and-swap; a snapshot reads one counter per step, in the order of the code.

## 3. Runs

| Run | Instance | Shows |
|---|---|---|
| `MCDrainDefault` | 2 clients, 1 call each, 3 drains, buffer of 1, fair | types, mutual exclusion, no unannounced and no forgotten task with the default executor, and that every task runs |
| `MCDrainCallerRuns` | 2 clients, 2 calls, 3 drains, buffer of 2, all operations | the drain runs inside the scheduler and wins the token: mutual exclusion, a processing status is always attended, each task runs once |
| `MCWriteBehind` | 2 clients, 2 keys, 3 nodes, maximums 1 and 3 | books, listeners, with reads and resizing |
| `MCWriteBehindEntries` | 1 key, 3 nodes, weights 0 and 2, maximum 1, fair | refinement of `EntryLifecycle`; the maintenance ends, also with entries that are never evicted or never fit |
| `MCWriteBehindSequential` | 1 client, 3 nodes, weights 0, 1, 2, 6, maximums 3 and 16 | exact books, bound respected, limits of the regions add up while the window adapts |
| `MCLoading` | 3 agents on 1 key; 2 agents on 2 keys with bulk loads and extras; the same with bulk loaders that panic | staleness, single flight, no orphaned call, no circular waiting |
| `MCMPSC` | 2 producers, 5 pushes, capacity 2 growing to 4 or 8 | a bounded FIFO across one and two resizes |
| `MCHashMap` | 1 reader, 2 writers, 2 keys, 1 slot per block, tables from length 1 | refinement of `AtomicMap` while the table grows and shrinks |
| `MCLossy` | 3 readers, rings of 2, 1 to 2 stripes, 2 drains | refinement of `LossyBag` while stripes are attached and doubled |
| `MCExpiration` | 1 key, 2 clients, 2 calls, 2 nodes, TTLs 1 and 3, 4 ticks, a wheel of 3 levels | no entry without a timer, deadlines met, deletions told once |
| `MCExpirationTracked` | the same | counterexample, section 6 |
| `MCParts` | the constants are in the module, those of the leaderboard and the reloads in the cfg | the seven small parts |

Bounds. `MaxOps` bounds calls per client and `Drainers` the drains alive at once (three: each of two
clients can have one submitted, and a rescheduling drain another). A buffer
of one or two tasks makes a push fail, a drain pass reach its limit, and a writer carry its
task, as 128 per processor would after many more steps; `Retries = 1` takes every branch of the push loop.
`Nodes` bounds the writes of a behaviour: three are enough for an update of a node whose add is
still pending while a third is evicted. Maximums 1 to 3
give a window of one entry and a protected region of none or one, so that promotion and demotion
happen; 16 gives a window that can grow and shrink, and an entry of weight 6 that does not fit its quota. `ReadCap`
bounds recorded reads. Three agents are enough for a load, a write that overtakes it and a
second load; two suffice for the bulk interactions, which are between pairs. Five pushes fill a queue of four (the
fifth is refused) and resize one of eight twice; the slots of the middle array are used again. With one slot per block
and tables of length 1 a second key makes a chain of two blocks and a resize, and removing it another one. Rings of two
are full after two reads, and the third reader doubles the stripes. In `MCExpiration` the wheel's spans are 1, 2 and 4: a
duration of 3 goes to the second level and cascades; `Word = 64` leaves room for the wrap-around to land on the last level.
In `MCParts` the sketch counts to its sample size more than once, the leaderboard has one member more than its
capacity, three distinct IDs overflow conversations of two messages, a sleep of 4 passes two periods, and reloads happen at and before the deadline.

Symmetry is used for clients, drains, agents, keys, readers, writers and producers in runs without liveness only. `CHECK_DEADLOCK FALSE`
is stated where behaviours end because their bounded calls are used up: `MCHashMap` and `MCExpiration`, where nothing waits but on the resize
(`NobodyOversleeps`), and `MCParts`, where the parts that may wait for ever have invariants about states in which nothing moves (`StopReturns`,
`SleepReturns`). In `Loading` and `Drain` deadlock is checked, a step `Terminating` marking the intended end.

Fairness. `Drain`: every agent inside an operation keeps taking steps (goroutines are scheduled
preemptively, a submitted drain starts); no client is obliged to call. The
mutex is acquired under weak fairness because the operations of an instance are finite.
`WriteBehind`: the goroutine that holds the mutex keeps running. No other run assumes fairness: "does not wait for ever"
is stated as an invariant of the states in which nothing can move.

Every property is also broken by a mutant of the module: an operator marked `Mutant`, standing before the
definition it replaces. No run uses them; `PROJECT.json` pairs them with the properties.

## 4. Only model-checked

* The liveness properties `EveryTaskRuns` and `MaintenanceEnds`: liveness under fairness is out of the prover's reach.
* `EveryDeadlineMet` of `Expiration`: it depends on the arithmetic of the wheel's buckets, divisions by powers of two, which the provers do not find.
* Of `MCParts`: `CleanUpServes`, `SavedFaithfully`, `SlicesSound`, `CountsSound`, `StatsSound`.

## 5. Proofs

Every theorem holds for all values of the constants that satisfy the module's assumption, which TLC evaluates in
every run. None of the properties is inductive as it stands; each proof module has a strengthening,
a conjunction of named parts, and lemmas that each follow one action through it.

### DrainProofs

From `DrainAssumption`, for any sets of clients and drains, any `MaxOps`, `Retries`, `WriteCap` and executor:
`TypeCorrect`, `MutualExclusion`, `NeverOrphaned`, `AlwaysAnnounced`, `EveryTaskOnce`, and, with
`HasDefaultExecutor` and without Hottest, Coldest and `InvalidateAll`, `NoLostWakeup`. (The
exceptions do leave tasks behind, see section 6: the theorem shows that they are the only ones.)

`MutexHandOver` needs to know who may hold a token: that a
submitted drain's token is 0 only while its scheduler has not compared it, that a drain belongs to one scheduler, that a
drain that is off has no scheduler that waits for its token to be taken. `PendingAnnounced` needs
`ProcessingAttended`, which needs to know that between `storeProcessing` and the first step of
the drain the status cannot be reset by somebody else: only the owner of the mutex can, and the
scheduler still owns it or has given it to the drain. `NoLostWakeup` then adds the
agent that is certain to look at the status: whenever it is required and nobody holds the
mutex, some agent is on its way to `tryLock`; whoever made that `TryLock` fail looks at the
status after its own unlock. `EveryTaskOnce` adds `TaskCarried`: a writer that has failed to
push still has its task wherever the scheduling takes it, and comes back to push it, or runs it itself.

### WriteBehindProofs

From `WriteBehindAssumption` and `PolicyAssumption`, for any clients and keys, any finite set of nodes (they bound the
length of a behaviour, not the size of the cache), any word, any decision of the frequency sketch and any adjustment by the climber:
`PolicySeesTheTruth` (`NodesSound`), `WeightIsAccounted`, `EveryDeletionReported`, `LimitsAreBalanced`, and `EntryLifecycleKept`, the refinement;
for one goroutine of callers, `BooksAreExact` and `SettledWithinMaximum`.

A client changes the map first and tells the policy later, and tasks of one key may come in the wrong order, while
the eviction takes nodes out of both. The invariant says what a task on its way is still owed, and that no two tasks owe the same:
`TasksSound` (the node it brings is in no deque yet, the node it takes away has left the map and has not been
reported), `TasksApart`, `AllAccounted` (a node out of the map waits for such a task, or it is dead and was reported once, with its
cause), and `Balanced`: the total weight is that of the nodes announced less that of the dead, modulo the word. That is the
argument why `weightedSize` comes out right whatever the order: each task adds and subtracts what nobody else
does, and `makeDead` does nothing the second time. `PolicySound` is what each operation of the policy keeps: the deques hold
each node once, in the deque its queue type names. It is stated of a policy as a value, so that the loops of `policy.go` can be
followed within a step.

These loops (the reads applied in order, the eviction from the window, the demotion, the transfers of the
climb), and the sums of weights, are folds. What a fold computes is an induction over its data, which
the provers cannot do with the library's induction theorems, because those take an operator as a parameter. `Folding` does it once, for
operators that are its constants: it proves from the well-foundedness of the naturals that the recursive function by which a
fold is defined exists (`FoldExists`), that a property each step keeps holds of the result
(`FoldKeeps`), and that two folds with equal steps agree (`FoldAgrees`). Each loop is an instance of that module.

`WeightAccounted` says `% Word` in its last conjunct, since a total that does not fit into the word is not excluded there.

`LimitsAreBalanced` (`LimitsBalance`) needs, besides, that every transfer of the climb, the leftover of an unused quota
included, takes from one limit what it gives to the other and never more than there is. It holds with any number of clients.

`BooksAreExact` (`BooksExact`) and `SettledWithinMaximum` (`BoundedWhenSettled`) have the hypothesis `OneGoroutine`: the executor
is the caller, there is one client, and the weights of all nodes together fit into the word (in the code a weight is a `uint32`
and a sum a `uint64`). `MCWriteBehindSequential` is an instance of it. The hypothesis is needed: with two clients, the task of an
update may be run before the add of the node that it replaces. The new node then takes the place of one that is in no deque: it is
counted and in the map, and no deque holds it, so that no eviction can reach it. The invariant is `Inv` with three more parts:

* `InOrder`: there is at most one task on its way, and while it is, no eviction is in hand (`OneByOne`); the task finds the node it brings
  in the map and the one it takes away linked (`TasksPrompt`); the counted nodes are the linked ones and the one whose eviction
  is in hand (`CountedLinked`); and `Books`: the two sizes are the weights of the counted nodes by their queue types,
  modulo the word. `Booked` is the last of these for a step of the policy, whatever else is counted: it is carried along every loop.
* `LeftBehind`: while `evictFromMain` runs, each linked node that weighs something is still to come for the victim's
  cursor, in the deque that the cursor is in or in one that it has yet to enter. When it has run out, whatever is left weighs nothing.
* `Bounded`: hence the total is within the maximum when the sweeps are over.

### LoadingProofs

From `LoadingAssumption`, for any agents, keys and scenarios: `CallsNeverUndoWrites`, `LoadsJoinedAreFresh`,
`LoadedValuesCached`, and `CallTableSound`, which has the hypothesis `NoSurvivedPanic`: no bulk refresh whose loader panics. Under an executor
that survives the panic the property is false (section 6), under any other the process ends.
`CallsNeverUndoWrites` is about registered calls. The extra keys that a bulk loader returns have none that a write could cancel
(`isFake`), and may overwrite a newer value: `NoStaleChange` only says of them that they come from a bulk operation whose loader may
return extras (`ExtrasSound`), so that no key somebody has asked for is ever treated as one.

The properties speak of the history: which values a write has made obsolete. The invariant ties it to the
program: a registered call is not obsolete (`SupersededSound`), a call whose loader has not returned is registered unless a
writer of its key has cancelled it (`OpenRegistered`), whoever ends a call or writes holds the bucket of the key
(`BucketHeld`), the answer of `deleteCall` tells whether the call was still in the table (`Deregistering`), and there is a
reason for every call that is in it no more (`Dropped`).

### LossyProofs

From `LossyAssumption`, for any readers, ring size and array length (a power of two, as the code doubles from 1):
`ReadBufferSound`, `DrainComplete`, and `ReadBufferIsBag`, the refinement of `LossyBag`.

The invariant places every element: a full slot lies between the head of its ring (for the ring that is being drained, where the drain has got
to) and its tail; a slot reserved there is empty and reserved once, also after the indices have gone round the ring; no element is in two slots, nor in
one before it was placed or after it was taken or refused. All rings are in the published array, except one about to be
attached by the holder of `busy`. `DrainComplete` carries from step to step that what was waiting when the drain began is
taken or still ahead of it, also when the array is doubled meanwhile.

### MPSCProofs

From `MPSCAssumption`, for any producers, any number of pushes, any initial capacity of two or more and any maximum that is this
capacity doubled some number of times (what `NewMPSC` makes of its arguments): `QueueIsSound`, `SpinIsAttended`, and
`QueueIsFifo`, the refinement of `WriteQueue`.

The words that a producer reads one by one (limit, index, mask, buffer) may belong to different resizes. What saves it is that only the
index is compared and swapped: the invariant says what follows *if* the index is still the one read (`TryingSound`: the buffer
is the newest one and the mask is its mask), and that the limit, which only moves on, is never beyond a bound that only moves on
(`Bound`: the last index for which the newest array has room besides its jump mark). `OwningSound` is what a producer that has its index has still to do,
`Layout` that an array holds a run of consecutive elements, from the one its resize was for to the one before the next array's, and that
they go round it less than once, counted from the oldest not consumed. From that, `Slots` places everything: each element in the array and at the offset its number says until it
is consumed, a jump mark where the next array's first element would have gone, a link behind the last
slot until it is followed, and nothing anywhere else; whatever is still to be stored is owed by exactly one producer. The refinement takes
the queue to be the elements from `consumerIndex` on; that a resize has an index of its own, which is odd while it lasts, is why an empty pop and
a refused push tell the truth (`EmptySays`).

### HashMapProofs

From `HashMapAssumption`, for any finite sets of processes and keys, any family of hash functions (tags may collide or not), any
size of a block and any least length of a table: `MapIsAtomic`, the refinement of `AtomicMap`, `ComputeIsAtomic`, `TablesAreSound`
(with its parts `BucketsAreInOrder` and `SizeIsAccounted`), `RangeIsComplete` and `NobodyIsLeftAsleep`.

The inductive invariant has a part for each kind of participant. For the tables, `Placed`: a key has one place in a table, in the bucket its
hash says, and the metadata of a slot tells the truth, unless a process that holds the lock of that bucket
(`Locking`) is between its two writes to that slot (`Disturbed`). For a resize, `Copied`: what has been copied is still what the published table has
in the buckets that were copied, and a node not yet copied is in none of the new buckets. That writers do not spoil it is why the order of the tests in
`Compute` matters: under the lock of a bucket it looks first whether somebody resizes (`Outpaced`: a writer
that has passed this test has a bucket that is not copied, and the resize will wait for its lock), and then whether its table is the published one (`InPublished`: nobody publishes another
until that bucket is copied). For a reader without locks, `Foreseen` says of everything it can still come to, in a table that may be long replaced,
that its key has had it since the `Get` began, and that it can only miss a key that was absent at some moment since then; a slot that is emptied and
taken by another key, or a node that is moved to another slot behind the reader, is covered by what the key had when that
happened. For a `Range`, `Ranged` counts the visits: none for a key whose bucket of the table it holds is still to come, and at
most one for the others. `SizeAccounted` is inductive together with those.

In the refinement `Compute` takes effect when it stores the node, clears the tag, or publishes a block behind the full ones
(`Commits`); every other step, a whole resize included, leaves every key bound as it was (the lemmas `Calm`), also the publication of a table, which by `Copied` has
everything. Copying a bucket folds over its slots, so the lemmas about the operators are inductions over finite sets: `Folding` has what the provers
need for them, `RankInduction` included, which is induction over the subsets of a finite set without an operator as its parameter. The lengths
of the tables are a second invariant (`LengthSound`), stated without an exponent, which the provers do not understand: each is the least length or
twice that, or twice another table's. From the finiteness of `tables` it follows that they are the least length times a power of two.

### PartsProofs

`TimersAreSound` (`TimersSound`) and `DeletionsAreTold` (`ToldOnce`), from `ExpirationAssumption` and `TimerWheelAssumption`, for any wheel, keys,
clients, operations, durations and calculator. The invariant is an account of every node (`Account`). The nodes alive are those of
the map. One in the map is tracked, that is, on the wheel or in the hands of the maintenance that has taken it off, or one task
that brings it is queued or about to be pushed by the client that put it there, never both. One that has left the map has not been told and one task is
going to take it, or it was told once and is tracked no more. A client that has changed the map and not yet pushed its task
owes it (`Owed`): that is what connects the two. The nodes that `SetIfAbsent` has misjudged (section 6) are in the map without an account,
and the theorems say of nothing else that it is so. The wheel's geometry does not matter for this: the
lemmas use only that a node that is scheduled has one place, and that a scan meets what its bucket has.

`BoardIsFaithful`, from `LeaderboardAssumption`, for any finite set of members, any agents, capacity, scores and cap. The sum that an `Add` has read
is still due when it writes, because it holds the mutex. As long as nobody was lowered, the members on
the board have their best scores, and a board with room has dropped nobody, without which dropping one would not be safe. Of a member that was not raced one
change at most is still to be told, and it is the score on the board.

`ReloadsAreSound` (`ReloadsSound`), from `RefreshAssumption`, for any callers and plans, any period, backoff and number of ticks.
A version that is in the map, or was read from it, had been installed for good (`VersionsPassed`): whoever prepares a version prepares a new one,
and what somebody still holds as the old value never comes back. Therefore `RefreshAnswered` follows as soon as anything else is in the map, and until
then the call that a `Get` has made or joined is registered, in the bucket, or cancelled by a writer that is about to publish (`Answered`).
A deadline is right when it is prepared up to the moment at which its version gets into the map (`AllRight`), since the clock does not go back; and
a call that was registered in time and still counts has its old value in the map, because whoever replaces that locks the bucket and cancels the call (`Timely`).

## 6. Where the code and its documentation disagree

One is a run, which ends with a counterexample:

1. **SetIfAbsent decides twice whether the old entry has expired** (`cache_impl.go:434` and `:443`), by a deadline that
   a reader or `SetExpiresAfter` may change in between: the new entry is in the map, but no task tells the wheel or
   the policy of it, it is never removed, and the caller hears that nothing was set. `MCExpirationTracked`.

Others the models show when a constant or an operation is added, or from which a property has an exception. Scheduling and policy:

* **Hottest, Coldest and InvalidateAll leave tasks behind** (`cache_impl.go:1832`, `:1407`): they run the
  maintenance, or part of it, under the mutex and do not reschedule, so that a task whose writer has met the locked mutex
  waits, and its listener is not called, until some later operation drains (`options.go:107-109`). Add `"order"` or `"invalidateAll"`
  to `MCDrainDefault.cfg` and drop the exceptions of `QuiescentDrained`.
* **An update that overtakes its add is linked nowhere** (`policy.go:153`): of two goroutines that set a new key, the second
  may queue its task first, since tasks are pushed after the bucket is unlocked. `updateNode` gives the new node the
  place of one that is in no deque yet, and the late add ignores that one, which is no longer alive. The new node is in the map and
  counted, but no eviction meets it, and `SetMaximum` leaves the settled cache over its maximum (against `cache.go:396-398`). It takes a second client: with
  one goroutine it cannot happen (`BooksAreExact`). Check `BoundedWhenSettled` in `MCWriteBehind` with one key, two nodes and `Weights = {2}`.
* **Region sizes drift** (`policy.go:185`): a weight is subtracted from the region the node is in
  *now*. When an update overtakes its add, `windowWeightedSize` or
  `mainProtectedWeightedSize` stay wrong after everything has drained. `weightedSize` itself is always right in the end (`WeightAccounted`).
* **evictNode reports CauseOverflow in a cache without a maximum** (`cache_impl.go:1284`) for an expired node whose deadline has moved (`deletion.go:25`).

Loading and refreshing:

* **Keys a bulk loader leaves out are reported as found** (`cache_impl.go:1069`), with the zero value and no error (`loader.go:61-62`).
* **A panic in `BulkLoad` orphans the calls to reload** (`cache_impl.go:914`), which only
  shows under an executor that survives the panic: add `"panic"` to the outcomes of the second scenario of `MCLoading` and look at `CallsAttended`.
* **Evicting an obsolete node cancels the load of its key** (`cache_impl.go:1205`): the exception of `LoadsAreCached`.
* **A Get may reload a fresh entry** (`berw.go:141`, `options.go:125`): a node that a write has retired, or that the Get has read before
  it was replaced, is not fresh whatever its deadline. The reload is registered after the write, so no write cancels it, it is
  given the *old* value (`cache_impl.go:715`), and what it makes of that replaces the newer entry: a loader that answers "unchanged" with the old
  value undoes the write. These are the loads registered too late in `ReplacesWhatItRead`.
* **Two Gets that have seen the same deadline may reload twice**: the second after the first has ended, since nothing is looked at again.
* **A failed reload that a write has overtaken sets the newer entry's deadline** (`cache_impl.go:838`), if the calculator moves it on failures.
* **SetRefreshableAfter and SetExpiresAfter are lost** when the entry is being replaced: the deadline has been copied already (`cache_impl.go:205-215`).
* With `RefreshCreating` an entry that is due stays due after each reload, since the deadline is not modified (as its comment says): from then on each `Get` that
  meets no reload in flight starts one.

Expiration and clock:

* **A deadline before the wheel's time** makes the unsigned duration wrap around (`variable.go:70`): an entry that expires before its task
  is run lands on the last level, and stays until the wheel comes round or it is read. The exception of `EveryDeadlineMet`.
* **SetExpiresAfter revives an expired entry** (`cache_impl.go:375`, against `options.go:56`).
* **A reader whose calculator returns `entry.ExpiresAfter()`** may put back the deadline from before a concurrent `SetExpiresAfter`.
* **A shortened deadline is not rescheduled** if the read buffer refuses the read: the entry is removed when its old bucket comes.
* **Excessively long periods overflow**: `nowNano + int64(expiresAfter)` (`cache_impl.go:426`, `:406`) is negative for the largest durations, which the comments suggest
  for "no expiration" (`expiry_calculator.go:25-26`), and the entry has expired when it is created.
* **StopAllGoroutines called by a listener on the periodic goroutine waits for itself**; `Sleep` on the fake clock after it hangs; two caches that share a
  fake clock split its ticks.

Persistence and applications:

* **A save is not atomic** (`persistence.go:95`): the file is truncated first, and a crash or a failed write loses the previous save. A file that is
  cut between two entries is loaded without an error.
* Loading reads the hottest entries, which under `ExpiryAccessing` restarts their deadlines; an entry saved without a deadline gets one from the new cache's
  calculator; one that expires in the nanosecond of the save lives for another.
* The leaderboard retains the highest scores only until somebody on it is lowered or removed, decides ties by the order of Go's map, may tell `OnChange` two
  changes in the wrong order, and never tells who was dropped or removed.
* `Append` with a known ID changes the slice that was given to `OnDeletion`; an `Append` that has read a conversation restores it after an eviction.

## 7. Not modelled, and what is left

* `Clear` of the hash map (unused), `Size` and `IsEmpty` of the queue, the derived ratios of the statistics: they change nothing, or nobody calls them.
* Two readers that double the same array of stripes one after the other: more readers than the state space allows.
* Panics of listeners inside the maintenance, `runtime.Goexit` in a loader, times beyond 2^63, a file that is written by two savers.
* Options, the facade, generated accessors, logging, hashing and sequence helpers: no state and no interleaving.

What is left to prove: `EveryDeadlineMet` of `Expiration`, for which the provers would need the arithmetic of shifts; the
invariants of the other small parts in `MCParts`. Liveness and ENABLED stay with TLC.
