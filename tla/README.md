# A verification project for QYInterview

The repository is a collection of study projects for iOS interviews: demo applications, an
annotated copy of Apple's libdispatch (`GCD/libdispatch-1271.40.12`) and of objc4, and
solved algorithm exercises. What can go wrong in it is concurrency: the libdispatch
primitives and `@synchronized`, whose code is subtle, and the demo controllers built on
them; after it come the boundaries of the algorithms. This directory holds TLA+ models of
all three, checked by TLC, and TLAPS proofs about the primitives (semaphore, group, once
gate, lane, `@synchronized`), the demonstrations built on them, and the algorithms.

`PROJECT.json` lists the components, the runs with their properties, one mutation of the
code for every property, the source lines each definition stands for, the hazards and the
theorems. Paths below are relative to `src/`; `semaphore.c`, `queue.c`, `shims/lock.[ch]`
and so on are those of `GCD/libdispatch-1271.40.12/src/`, `objc-sync.mm` is that of
`objc4-838/objc4/runtime/`.

## Inventory

| Component | State | Operations | Interacts with | What makes it hard | Correct when |
|---|---|---|---|---|---|
| `dispatch_semaphore_t` (`semaphore.c:29-147`) | a word, its creation value, a lazily created kernel semaphore | create, wait (now, timed, forever), signal, dispose | threads, the kernel semaphore of `shims/lock.c` | fast paths without a lock; a timeout undoes a decrement a signal may have answered; racing creation of the port | no permit made up or lost, no wakeup left over, one port, crashes only misuse |
| `dispatch_group_t` (`semaphore.c:150-350`) | generation, count and two flags in 64 bits; a multi-producer list; references | create, enter, leave, async, wait, notify, release | threads, kernel wait on the generation's address, queues that run the blocks | the group is entered again while it is being fired; references taken late; list links written late | waits return 0 only for an empty group, blocks fire once, no use after free |
| `dispatch_once` (`once.c`, `dispatch/once.h`, `shims/lock.[ch]`) | one word, sleepers on it, the kernel's quiescent counter | call, run the block, wait | threads, kernel wait, context switches | a lock-free gate, an inline fast path without a barrier | the block runs once, whoever returns sees its writes |
| dispatch queues (`queue.c`, `inline_internal.h`) | a 64 bit state word, an item list, a target queue | async, sync, barrier, drain, suspend | all of the above, the thread pool | width, pending barriers and wake-ups in one word; pushers, a drainer and direct calls act on it at once | FIFO starts, barriers alone, no lost wake-up, a call that waits for itself is caught |
| `@synchronized` (`objc-sync.mm`) | nodes with a recursive mutex, a list of them under a spinlock, a cache for each thread | enter, try to enter, exit | the lock demo | nodes are given to other objects; a thread gives up its node before it unlocks the mutex | mutual exclusion for each object, the share counts balance |
| thread-safe dictionary (`GCDBarrierController.m:10-44`) | a mutable dictionary and a concurrent queue | set (asynchronous barrier), get (synchronous) | a dispatch queue | asynchronous writes, concurrent readers | behaves as an atomic dictionary |
| dependent requests (`NSOperationController.m:74-202`, `GCDController.m:156-233`) | `identifier`, a group or semaphore for each chain | start, request, callback, wait, notify | main queue, global queue, group, semaphore | waiting threads are the ones that should serve the request | requests in order, end reported last, no hang |
| large image table (`加载大图/加载大图/ViewController.m`) | a bounded array of blocks, the views of reused cells | configure a row, add a task, execute a task | UITableView reuse, run loop observer and timer | blocks captured a cell that now shows another row; tasks dropped | recent rows get their images, views do not pile up without limit |
| bounded-concurrency demos (`GCDController.m:304-373`) | a semaphore, queues, a captured counter | submit, run, signal | semaphore, group, queues | a queue blocked by its own block; unsynchronised increments | never more than two tasks at once, all end |
| synchronous network call (`GCDSynNetController.m:49-75`) | two semaphores | request, complete, call back | main queue, URL session | two threads wait for each other in turn | neither waits for ever |
| custom KVO (`KVOController.m:23-195`) | associated array of observers, a subclass | add, remove, set | the global queue | asynchronous unordered callbacks | an observer hears of each change once, none after removal |
| child thread run loop (`Runloop/ChildThreadLoopController.m`) | a thread, its loop, a port | start, perform, stop, dealloc | two threads | `run` starts the loop again after a stop; `dealloc` performs on a dead thread | the thread ends with its controller |
| locks (`LockController.m`) | a property that is both the lock and the data | replace | `@synchronized` of objc4 | the lock object changes | mutual exclusion |
| sorts and searches (`Algorithm/Algorithm/Sort`) | none | bubble, selection, insertion, shell, merge and quick sort, binary search | none | boundaries, equal numbers, where two cursors meet | the sorted array; a number is found where it is |
| sum problems (`Algorithm/Algorithm/Sum`) | none | two, three and four numbers with a given sum, the greatest subarray, each in several ways | the sort of the library | equal numbers passed over, positions used twice | every way gives an answer of the problem, and the same one |
| other algorithms (`Algorithm/`, `QYInterview/QYInterview/algorithm`) | none | functions on arrays, lists, trees and strings | none | boundaries | not modelled, see the end |
| everything else | none of its own | | | interface demos, logging, vendored code | not modelled, see the end |

The applications share the primitives in this way. The dictionary hands blocks to a
concurrent queue. A chain of requests hands blocks to the global queue, whose callbacks go
to the main queue and release a group or a semaphore on which the chain waits. The bounded
tasks take permits of a semaphore on a serial queue, or on the caller's thread, and run on a
concurrent one. The synchronous call waits on the main thread for a handler of the URL
session, which waits for a block of the main queue. The image table hands blocks to the run
loop of the main thread. The demos share no state: one is open at a time.

## Plan

Written, in this order, the most used and most delicate code first:

1. `DispatchSemaphore`, with `CountingSemaphore` as the abstract specification
2. `DispatchGroup`
3. `DispatchOnce`
4. `DispatchQueue`: what a queue promises, as operators to build applications on
5. `BarrierDictionary` over `DispatchQueue`, with `AtomicDictionary` as its abstract
   specification
6. `DependentRequests` over `DispatchQueue`
7. `ImageTaskQueue`
8. `DispatchLane`: the state word and the list of `queue.c`, with `QueueContract` as the
   abstract specification
9. `SyncNetwork`, `BoundedConcurrency`; `Demos`, which puts the applications together
10. `ObjcSync`
11. `SortAlgorithms`, `SumProblems`, `Algorithms`
12. `DispatchSemaphoreProofs`, `DispatchOnceProofs`, `DispatchGroupProofs`
13. `ObjcSyncProofs`; `DemosProofs`, which proves what `Demos` says, the refinement of
    `AtomicDictionary` included
14. `DispatchLaneProofs`: the balance of the word; `DispatchLaneOrderProofs`: the contract,
    and that the lane strands nothing
15. `AlgorithmsProofs`: the sorts, the searches and the sum problems

To come:

16. chains of target queues and suspension in `DispatchLane`
17. the array, list and string problems, as far as they have several solutions to compare

## The modules and the code

In the primitives (semaphore, group, once, lane, `@synchronized`) an action is one atomic
access to shared memory or one system call, so that TLC sees every interleaving the hardware
may produce between them. `pc[t]` says which access thread `t` takes next. Locals that
survive an access are functions of the thread, and are reset when the call returns.
`DISPATCH_CLIENT_CRASH` sets `crash`, after which nothing moves.

**`DispatchSemaphore`** models the Mach build of `dispatch_semaphore_t`. `dsema_value` is a
word of parametric width, which wraps. `Wait` and `Signal` are the atomic decrement and
increment with the fast path they decide. `Sema4Create` and `Sema4CmpXchg` are the unlocked
test and the compare-and-swap that install the kernel semaphore, `Sema4Wait`, `TimedOut` and
`Sema4Signal` its calls, `WaitLoad` and `WaitUndo` the loop that gives a decrement back.
`Dispose` compares the word with the creation value. `credit` is a history variable: the
creation value plus the signals minus the waits that returned 0, as the clients count them.

**`CountingSemaphore`** is what the semaphore promises: permits, a wait that takes one or
times out, a signal that adds one. The mapping counts as permits the positive part of the
word, the wakeups in the kernel and those the signallers are still bringing.

**`DispatchGroup`** keeps the 64 bit word as a record; the count, negative in the code, is
kept positive. A notification list is a sequence with the set of the blocks whose link is
written, since a push exchanges the tail first and writes the link later. `Leave`,
`LeaveCas` and the `Wake...` actions are `dispatch_group_leave` and `_dispatch_group_wake`.
`WaitSleep` is the kernel's comparison of the generation. `saw` is a history variable: the
group has been empty since the call began.

**`DispatchOnce`** has a variable `quiescent`, which is chosen at the start and stays: TRUE
is the build with `DISPATCH_ONCE_USE_QUIESCENT_COUNTER`; FALSE is the `#else` branch of
`shims/lock.h`. (In this copy the two conditional lines in `once.c`, 56 and 61, are
commented out, so `once.c` compiles only with the counter; FALSE shows the branch the header
still holds.) What a memory barrier guarantees is modelled by `seen`, the threads that
cannot but see the block's writes. The counter follows the algorithm in the comment of
`shims/lock.h`.

**`DispatchLane`** is a queue over a root queue, with the word as a record: width in use,
barrier, pending barrier, dirty, enqueued, owner, and whether a quality of service is set
(`max_qos`, one class of which is looked at). `PushTail`, `PushLink` or `PushHead`, and
`Wakeup` are the steps of a push, the `Drain...` actions the drain loop, `BarrierComplete`
and `NonBarrierComplete` and what follows them the end of a block, with the hand-over of the
lock to a waiting thread (`TransferLock`). A block is numbered in the order of the calls. A
call made from inside a block is a `dispatch_sync` to the same queue; where it would wait
for itself it must be found out (`crash`).

**`QueueContract`** is what such a queue promises: a barrier runs alone, and of two blocks
one of which is a barrier the one that was submitted first starts first. The lane implements
it but for `dispatch_sync` on a serial queue and `dispatch_barrier_sync`, which take a queue
that looks idle; `OvertakesBeforeWakeup` says how little that can be seen (finding 4).

**`ObjcSync`** has the nodes of one list with their mutex, the caches of the threads, and
`id2data` as a walk that stops at every node, since share counts change under it. The
history `inside` counts what the clients know of their enters and exits. Two things the code
does, and the model keeps: an enter that fails to try leaves the node in the cache, so that
the share is given up only by a later exit; and an exit of an object that the thread has not
entered, whose node it finds in the list, raises the share count for good (`stray`), so that
the node is never given to another object.

**`DispatchQueue`** has no variables: a queue is a record, and `Async`, `BarrierAsync`,
`CanStart`, `Start` and `Done` are what the drain loop of `queue.c` decides on it. It holds
the order of starts and the exclusion of barriers and nothing of how the state word brings
them about.

**`BarrierDictionary`** is `GCDBarrierPersion`. A write to the dictionary is two steps,
between which the entry is `Torn`. `safeObjectForKey` passes through `sync` and `return`, as
the caller of `dispatch_sync` does.

**`AtomicDictionary`** has one step for a write and one for a read. In the mapping a write
takes place when `setSafeObject` is called: the contents are what the dictionary will hold
once the queued blocks have run.

**`DependentRequests`** has chains of three kinds: on a semaphore, on a group, and on the
main thread. A chain is a block that occupies the main thread or a worker of the global
queue; `Request`, `Wait` and `Finish` are its statements, `Load`, `Callback` and `Notify`
the blocks it causes. The chain on the main thread is `testGroup1`, which no touch calls at
this commit; a comment in the code warns of calling it there, and the model shows why.

**`ImageTaskQueue`** has the array of blocks as pairs of a cell and the tag of an image, the
number of views of each tag in each cell, and the reuse queue of the table, which is UIKit's
and modelled from its use. `cellForRow` is the whole method with its three calls of
`addTask`.

**`SyncNetwork`** has the main thread, its queue, the answers on their way, and the serial
queue of the shared session with the line of its running handler. `Tap` is the button up to
the wait of the main thread.

**`BoundedConcurrency`** has the three methods over a serial and a concurrent queue, the
threads both of them hold, and the permits. A task signals before it ends, so signalling and
ending are two actions.

**`SortAlgorithms`** and **`SumProblems`** have one operator for each function, which maps
the array to the result. A `for` loop is the operator `For`, a `while` loop a recursive
function. Its argument is the tuple of the variables the loop changes, and its domain holds
the values they can take: an array of the same length, a position, a pair of cursors. Where
the body of a loop has a loop of its own, it is an operator of its own (`select`, `insert`,
`shellColumn`, `mergeRound`). `sorted` stands for the library's sort and says what that
promises: each number comes to the place which the numbers before it leave.
**`Algorithms`** gives the functions an array: `Touch`.

**`Demos`** composes the applications. Their states stand side by side and the user opens
one of them; what each of its properties says stands in the module of the application.

A primitive has an `MC` module beside it with the symmetry sets, and one cfg for each run;
`Demos` and `Algorithms` are run as they are. Operators named `X_Y` next to an `X` are
mutations of `X`: plausible mistakes, each of which TLC finds out through the property it is
listed with.

## The runs

| Run | States | Shows |
|---|---|---|
| `semaphore` | 149 k | safety of the semaphore; it implements `CountingSemaphore`; no lost wakeup: while there is credit, a waiter without a time limit is served |
| `semaphore_bounded` | violation | finding 1 |
| `group` | 1.35 M | safety of the group, with two notifications and a counter that overflows |
| `group_live` | 213 k | a wait returns once the group has been empty; a notification fires, if no other notify is in progress |
| `group_late` | violation | finding 3 |
| `group_early` | violation | finding 2 |
| `once` | 205 k | on both builds: the block runs once and is seen by all, all calls return, recursion is detected |
| `lane` | 584 k | serial and concurrent: the word balances, no item is stranded on an idle queue, a nested call that would wait for itself is caught, and the lane implements `QueueContract` |
| `lane_order` | violation | finding 4 |
| `sync` | 893 k | mutual exclusion although nodes change their objects; the share counts balance |
| `demos` | 93 k | every application: requests in order, and exactly two ways to hang; images arrive, recent rows keep theirs, views are bounded; calls end, but for one way to block; permits bound the tasks, and all end; the dictionary is atomic and its reads are not starved; the algorithms agree |
| `four_sum` | violation | finding 5 |

What each property says stands in the comment above it.

### Findings

1. `BoundedWaitDrains`. A timed wait that finds its decrement answered by a signal "falls
   through and drains the wakeup" with a wait that has no time limit
   (`semaphore.c:130-133`). A newcomer can take that wakeup from the kernel first, and the
   timed wait then blocks until some later signal.
2. `NotifyAfterEmpty`. The leaver that emptied the group clears the flag first and captures
   the list later. A block notified in between, after the group was entered again, is
   submitted although the group was not empty since.
3. `NotifyOnceEmpty`. Only the notify that found the list empty sets the flag. A second one
   may return before that; if the group then empties and is entered again, the second block
   is not submitted, although everything it was notified for has completed.
4. `FirstInFirstOut`. `dispatch_sync` on a serial queue takes a queue whose word is idle
   without a look at the list. A thread that was second to push a block returns before the
   first pusher has come to its wakeup; if it then calls `dispatch_sync`, that block can run
   before its own earlier one.
5. `FourSumExact`. `fourSum` computes the sum of its first two numbers with a minus sign
   (`FourSumController.swift:58`), so that it misses quadruples and returns wrong ones. With
   a plus the property holds in the same instance.

The first four disagree with a sentence of the documentation or a comment, quoted in
`PROJECT.json`, and break none of the safety properties above. The fifth is a mistake in the
code. One more disagreement can be seen in the model of `dispatch_once` and has no run of
its own: on the quiescent build `dispatch_once` returns with a generation in the predicate
(until a later call changes it), while `dispatch/once.h:88` lets the compiler assume `~0l`.

### Bounds

* Three threads for the primitives: the races of interest need a waiter, a signaller
  (leaver, owner) and a newcomer. `group_live` takes two: a leaver in its loop meets a
  thread that enters again and then waits.
* `LongMax = 3`: the smallest width that holds three waiters below zero; the word wraps
  after four unmatched signals, so the wrap occurs.
* `MaxCount = 2`, `MaxEnters = 3`: the group empties, is entered again, and overflows.
  `MaxEnters` also bounds the generations.
* `MaxGen = 4`: a generation read at 0 becomes safe at 4. The counter is compared by
  difference only, so it starts at 0 when the block ends, with any set of CPUs already
  counted.
* The lane: three calls (one that runs, one that waits, one that comes in between), widths 1
  and 2 (a reader can be admitted beside another, and the width can be used up), two workers
  (a drainer and the next one, or a redirected reader). Nested calls are `dispatch_sync` to
  the same queue. `lane_order` needs four calls, of which the first is being drained while
  the second and the third are pushed.
* `@synchronized`: three threads, two objects, two enters of a thread that it has not exited
  (one object twice, or both). A third thread takes the node over whose mutex the first
  still holds. `MaxStray = 1` for each node.
* `MaxQueued = 2` blocks waiting: a write with a read behind it. Two threads: two reads
  overlap, and a read overlaps the write the other queued before.
* Two synchronous calls and one that is not: a second tap comes before the callback of the
  first. `Tasks = 4` for 100 and 10 and `Limit = 2` as in the code: two tasks have to wait.
  `Workers = 2` for 64: with one thread for the serial queue and one for tasks the pool is
  exhausted.
* Arrays of up to six numbers from -1 to 2: equal numbers, arrays in order and in reverse,
  gaps 3 and 1 of the shell sort, triples whose sum is 0 and more than one of them.
  `four_sum` takes five numbers, for two quadruples. Integers do not overflow in the model;
  the numbers of an overflow are not among those looked at.
* `Workers = 2` with four chains, of which three use workers: the pool can be exhausted and
  need not be. `Stages = 4` as in the code.
* `maxQueueLength = 7` for 28: like 28 it is a multiple of three and one more. Two cells
  with three tasks each fill it, and overflow it inside one `cellForRow`. `later` is a
  history counter that stops at the number of rows that fill the queue.

Deadlock is checked except where the system stops by itself: after a crash, when all calls
are used up (`MaxEnters`, `MaxGen`), when an object is freed, and when every chain has ended
or hangs.

### Fairness

* A thread inside a call of a primitive takes its next step: weak fairness of `InCall`.
  Nothing is assumed of the calls clients make, of timeouts, or of interruptions.
* `semaphore_wait` serves its waiters first in, first out (the port is created with
  `SYNC_POLICY_FIFO`, `shims/lock.c`), so a thread that can be woken again and again is
  woken at some time: strong fairness of `Sema4Wait`.
* A queue with a startable head starts it, and blocks end: the drain loop goes on until the
  list is empty (`queue.c:3655-3742`, `6742-6749`). The sleeps in the blocks are finite.
* The network answers or fails in the end, handlers of the session and blocks of the main
  queue run when their turn comes and the main thread does not wait.
* The root queue starts a block it holds if it has a thread left.
* The image queue: the timer wakes the run loop every 10 ms in the default mode. While the
  user drags, it does not fire, and the events of the drag do the same. So weak fairness of
  `TaskCallBack` assumes that no finger rests on the table for ever.

## The proofs

All theorems are `Spec => []P` (or `Spec => P` for an action property and a refinement), for
every value of the constants that fulfils the assumptions named.

### The semaphore

`DispatchSemaphoreProofs` proves `TypeCorrect`, `WakeupBalanceHolds`, `NoOvergrantHolds`,
`WakeupsDrainedHolds`, `DisposeJustifiedHolds`, `OnePortHolds` and `Refinement`. They hold
for every finite set of threads (`ThreadsAssumption`), every width with at least as many
values above zero as there are threads (`WidthAssumption`; on the real machine `LONG_MAX`
exceeds any number of threads), and all creation values that fit (`CreateAssumption`).

`TypeCorrect` goes first, from the invariant `TypeInv`, which adds to the types that the
local of the undo loop is negative (otherwise the undo might overflow). `WordsStep` and
`ControlStep` prove it one action at a time.

The next four come from one inductive invariant,

    IInv == TypeInv /\ Balances /\ NoOvergrant /\ DisposeJustified
            /\ (object \in {"none", "null"} => Pristine)
            /\ (crash # "none" => object = "live")

`WakeupBalance` is the heart: the threads in the slow wait are as many as the word is below
zero, plus the wakeups in the kernel, plus those on their way. It is not inductive by
itself. `Balances` adds the client's count, `credit = dsema_value + waiters`, which
`NoOvergrant` needs when a wakeup is taken; that the decrement does not wrap needs the
number of threads; and creation needs a semaphore nobody has touched. `BalanceStep` and
`LifeStep` prove the induction step, again one action at a time, over lemmas on how moving
one thread from one label to another changes the cardinalities (`AtFinite`, `AtMoves`,
`CountMoves`).

`OnePortHolds` adds `PortInv`: a thread holds a port of its own only between creation and
compare-and-swap, and who is past the latter finds one installed.

`Refinement` shows that `DispatchSemaphore` implements `CountingSemaphore`. The mapped
permits are the positive part of the word, the kernel's wakeups and the threads about to
signal (`AbstractCounts`); a step changes the mode of one thread at most (`ModeMoves`), and
`RefinementStep` goes through the actions: each is a step of the abstract semaphore or
changes nothing of it.

### The once gate

`DispatchOnceProofs` proves `TypeCorrect`, `BlockRunsOnceHolds`, `ReturnSeesBlockHolds`,
`SleepersFlaggedHolds` and `OnlyRecursionCrashesHolds`, for every set of threads, both
builds and every bound `MaxGen` (`OnceAssumption`). The invariant is the type,
`SleepersFlagged`, `OnlyRecursionCrashes` and

* `Gate`: the word tells who is where. Nobody has passed an unlocked gate; a locked one
  belongs to the thread that runs the block; an open one means the block has run once.
* `Visibility`: who is sure to see the block's writes. It rests on `Since(g)`: what the
  switches of context that the counter has seen since it was `g` guarantee. When it has
  moved once, a barrier has come or a thread that saw the writes has not switched since;
  when it has moved three times, everybody has switched after the block. A generation
  becomes `DLOCK_ONCE_DONE` only when it is that old, so the unfenced read of the fast path
  is sound.

### The group

`DispatchGroupProofs` proves `TypeCorrect`, `WaitSawEmptyHolds`, `NotifiedOnceHolds` and
`NoUseAfterFreeHolds`, for every finite set of threads (`ThreadsAssumption`), any blocks
(`NotifsAssumption`) and every bound on the count and on the enters (`BoundsAssumption`).
The invariant has six parts beside the property:

* `Generations`: a waiter whose generation is no longer that of the word has seen the group
  empty.
* `Responsible`: one party is responsible for a list that is not empty, the flag or a
  thread.
* `NoStrandedFlag`: no flag is set on a group that is empty, unless a leaver in its loop is
  about to clear it.
* `Places`: a block is in one place of one list, and then it has not been submitted.
* `References`: every reference has an owner (the client, the blocks inside, the flag, or a
  thread that will give it up), and the reference of blocks that are inside, not taken yet,
  will be taken.

They need each other: a reference is counted once because one thread sets the flag, and the
group is disposed of when nobody owns a reference, when no flag can be stranded. Each part
has a lemma `...Step` of its own, which goes through the actions.

### `@synchronized`

`ObjcSyncProofs` proves `TypeCorrect`, `SyncDataBalanceHolds` and `MutualExclusionHolds`,
for every finite set of threads and every finite set of objects (`SyncAssumption`), and for
every bound on open enters and stray exits. The invariant is

    IInv == Types /\ List /\ Places /\ SyncDataBalance /\ Mutexes

* `List`: the nodes in the list have different objects, and the others are unused.
* `Places`: what a thread in a call knows. The node it has come to is that of its object as
  long as it has a share of it, and a thread that walks the list holds the spinlock and has
  no node of its object in its cache.
* `Mutexes`: the depth of a mutex is what its owner has entered and not exited, allowing for
  the enter or exit it is in the middle of.

They need each other. A node is given to another object only when its share count is 0. By
`SyncDataBalance` no thread then has it in its cache, so the owner of its mutex can only be
a thread that is between giving up the share and unlocking; this is the thread with which
the node's next object might be confused, and `Mutexes` says that it no longer counts as
inside.

`TypeCorrect` also says how large the counts get, which needs a second invariant, `Bounds`,
over the first: a thread in an enter has `Room` for one more in its cache, which the exits
and enters of others cannot take away; and `Strays` sees to it that a stray exit is counted
only once for a node, by the thread that alone holds the spinlock.

### The lane

`DispatchLaneProofs` and `DispatchLaneOrderProofs`, which extends it, prove all six
properties of the run `lane`, for queues of every width, any number of calls, every finite
set of workers and both depths (`LaneAssumption`). That the workers are finitely many is
needed to count those that drain. The first module has the theorems of the first row.

| Theorem | Property | From |
|---|---|---|
| `LaneTypes`, `LaneBalance`, `LaneSelfSync` | `TypeOK`, `WordBalance`, `SelfSyncCaught` | `Inv` |
| `LaneContract` | `KeepsContract` | `Inv`, `Ordering` |
| `LaneWakes` | `NothingStranded` | `Inv`, `Wakeful` |
| `LaneOvertakes` | `OvertakesBeforeWakeup` | `Inv`, `Ordering`, `Wakeful` |

**The word.** `LaneInvariant` is the theorem that `Inv` holds. It is inductive by itself:

    Inv == /\ Types
           /\ Threading
           /\ Listing
           /\ Locking
           /\ Counting
           /\ EnqueuedOnce
           /\ Crashing

* `Threading`: what stands on the stack of a thread agrees with where the thread is; a block
  runs in one frame, and a waiter is with its caller.
* `Listing`: a block is in the list once, from the exchange of the tail until it is taken
  out, and is not handed to two threads; it is ready when its waiter has been signalled or
  the root queue has it.
* `Locking`: the owner in the word is the one thread that is where an owner may be; the `in
  barrier` bit says that it has a barrier, and then nobody else has width; a pending barrier
  is the first item of the list.
* `Counting`: the width in use is that of the blocks that run, the readers that are on their
  way, the drainer and the pending barrier.
* `EnqueuedOnce`: the `enqueued` bit stands for one entry of the lane in the root queue, or
  for one worker that has taken it and not yet cleared the bit.
* `Crashing`: after a crash the thread that crashed is where it found itself the owner.

They need each other. That a subtraction of width does not go below zero is `Counting`, but
that what is subtracted is owned is `Locking`. A thread that gets the lock handed to it is
asleep with its block in the list, which is `Listing` with `Threading`. And a barrier that
completes may give back the full width because in a barrier, by `Counting`, nobody else has
any.

The induction step has one lemma for each part of the invariant and each group of actions.
Most actions are first described by what they do to the word (`Word...`), to the list
(`ListMoved`) and to the places of the blocks, and the parts are then shown from that.

**The order.** `Ordering` (lemma `LaneOrder`) is inductive relative to `Inv`. The blocks
`Ahead` of a block are those of earlier calls that have not been taken yet.

* A call that has returned has left its block in the list, or the block has been taken. So a
  block that is ahead is in the list, and a thread that finds the list empty knows that none
  is ahead of its own block (`TriedAt`).
* `InLine`: in the list a block stands behind those ahead of it. A push appends, and the
  drainer and the hand-over to a waiting thread take the first; so what is taken has none
  ahead of it, and neither has a block that the root queue holds (`ReadyAt`).

`LaneContract` is the refinement of `QueueContract`: `Contract...` take the steps one by
one. That a barrier starts alone is `StartsAlone`, from the width that `Inv` counts; that
everything it is ordered with has started, and for a barrier ended, is `StartsInTurn`, from
`Ordering`. The two calls that take a queue by its word alone, without a look at the list,
are the exception that the mapping states (finding 4).

**The wakeup.** `Wakeful` (lemma `LaneWakeful`) is inductive relative to `Inv` as well:

* `Awake`: a lane that nobody holds, that is not on the root queue, and that has a block in
  its list or the dirty bit set, has a block in flight, which will complete, or a thread
  that pushed the first item and has not come to its wakeup.
* `KnowsAt`: this is what makes `Awake` stable. Whoever is about to give the lock back has
  seen the list empty, or an item has come since; then the dirty bit is set, and the
  compare-and-swap fails, or the pusher is still on its way. A drainer that stops for want
  of width has left the dirty bit or a block in flight.
* `HeadAt`: the first item without a link is that of a thread about to write the link, so
  that a drainer that finds it unlinked may leave it to that thread.
* `WaitsAt`: a block that has been called and not taken is in the list, or with a thread
  that is pushing it or handing it over.

When nothing moves there is no pusher and nothing in flight, so by `Awake` the list is
empty, and by `WaitsAt` nobody waits: `LaneWakes`. A call that takes an idle queue over an
item in its list finds the word idle; by `Awake` the pusher is then before its wakeup, and
this is all that can be seen of finding 4: `LaneOvertakes`.

### The dictionary

`DemosProofs` proves `OneWriterHolds` and `Refinement`, that is, that `GCDBarrierPersion`
implements `AtomicDictionary`, for all threads, keys and objects and any length of the queue
(`DictionaryAssumption`). The invariant is the types and

* `Alone`: a write that runs runs alone, and an entry is torn only while a write of it runs.
* `ReadPlace`: a thread in `dispatch_sync` has one block, in one place of the queue or
  running; any other thread has none that waits.

The mapping is a statement about the whole queue: an entry holds what the last write of it
among the first `n` blocks leaves there. `Value` has the queue as a parameter, and the
lemmas about it say what becomes of it when a block is appended (`ValueAppended`), taken
(`ValueTaken`) or ends (`ValueWritten`). `SetStep` and `GetStep` then show that the two
calls are the steps of the abstract dictionary, and `StartStep`, `WriteStepKeeps` and
`ReadStepKeeps` that all else changes neither the contents nor an answer that has been
promised. That a read finds in the dictionary what it was promised needs that it runs when
all before it have ended, which is what `Alone` and the order of the queue give.

### The demonstrations together

`DemosProofs` proves `TypesHold` (the `TypeOK` of all five), `TasksAccounted`,
`RequestsInOrder`, `ImageOrTask`, `ViewsBounded`, `AlgorithmsAgree` and the refinement of
`AtomicDictionary` as properties of `Demos`, from `DemosAssumption`, which TLC evaluates.
The specification of `Demos` implies that of each demonstration by itself (`BoundedAlone`,
`RequestsAlone`, `NetworkAlone`, `ImagesAlone`, `DictionaryAlone`, `AlgorithmsAlone`): a
step of the application is a step of the demonstration that is open, and leaves the
variables of the others as they are. What holds of a demonstration alone then holds of its
instance in `Demos`.

The algorithms have a proof module of their own, below; `AlgorithmsAgreeHolds` takes its
theorems over, after showing that the operators of the instance in `Demos` are those of the
module. The others are proved about in `DemosProofs`, for any number of tasks, permits,
threads, chains, requests in a chain and taps, every finite set of cells and every length of
the image queue.

**The bounded tasks.** The invariant is `TaskTypes /\ TaskLine /\ TaskPermits`.
`TaskPermits` counts the permits: those left, the tasks that wait on the concurrent queue
and those that work add up to `Limit`. A set of tasks grows by one only if the task that
comes in is not there already, and `TaskLine` says so: a task is behind all that were
submitted before it, through the serial queue, the wait for a permit and the concurrent
queue.

**The image table.** `ImagesInvariant` is the types, `ImageOrTask`, `ViewsBounded` and two
parts that look at the queue from its end: the age of a task is the number of tasks that
have come after it, which only grows, and only by three, as rows come in.

* `InRows`: the age of a task tells its tag, since the tasks of a row come in one order and
  a queue loses only its oldest. So no more tasks of one cell and tag are queued than rows
  fit in, which is why images cannot pile up in a cell that has none.
* `Youngest`: of the tasks of one cell and tag in the queue, that of the row the cell shows
  is there and is the youngest. So when the last one is dropped, it is because the rows that
  came since have filled the queue.

`RowOrder`, `RowYoungest`, `RowImages` and `RowViews` show that `cellForRow` keeps the parts
of the invariant, `TaskKeeps` that the observer does.

**The dependent requests.** `RequestInvariant` is `RequestTypes`, `RequestLine`,
`Identified` and `Numbered`. `RequestLine` says where a chain is: it has one request on its
way, as a block to be started, a load or a callback, exactly while it waits for it.
`Identified` follows the identifier that the callback stores from there to the next
request, which is why the requests of a chain come in order. `Numbered` is needed for the
types: the identifier counts the answers all the chains have had, which is bounded because
the chains are finitely many (`ChainsAssumption`).

**The network.** `NetInvariant`: a synchronous call is in one place, between the session,
its handler and the main queue, and so each of the two semaphores is signalled once for a
wait.

### The algorithms

`AlgorithmsProofs` proves `SortsAgreeHolds` and `SumsAgreeHolds`, for arrays of every length
and numbers of any range: `AlgorithmsAssumption` asks only that the two bounds are natural
numbers. The state is simple (`Invariant`: an array of numbers); what there is to prove is
that the loops and recursions of the functions do what they are for.

The equation of a recursive function does not come for free: the function is some function
that fulfils the equation, if there is one. `Recursion` gives it, from a rank that decreases
from each call to those it makes; from it follows `LoopExists`, for the rounds of `For`. It
rests on the well-foundedness of the natural numbers, and takes functions and sets as
parameters, no operators, so that the provers can instantiate it; so do `AlongInterval` and
`ByRank`, the two forms of induction. Each function of the model then has a lemma for its
equation and one for what its values are, by induction on the rank.

* **The sorts.** A result is right if it rearranges the array and is ascending, and there is
  only one such array (`AscendingUnique`). For the loops: the last `i` numbers are in place
  after `i` passes of the bubble sort, the first `i` after `i` rounds of the selection sort;
  the numbers up to `i` are ascending after round `i` of the insertion sort. The optimised
  bubble sort may stop because a pass that leaves an array as it is found it ascending. A
  round of the shell sort rearranges the array, and the last one, whose gap is 1, sorts it;
  the result depends on nothing that the rounds before have done. The merge sort changes the
  lengths, so there a rearrangement counts, for every set of numbers, how many are in it.
  The partition keeps what is left of the cursors at most the pivot and what is right of
  them at least the pivot; the pivot comes to the place where they meet, with the right
  cursor first, and the two calls of the quick sort leave each other's part alone.
* **The searches.** The target is between the two ends or nowhere.
* **Two numbers.** That the first pair in the order of the loops is a pair is plain; that
  the two pointers miss none is the argument that a number that is dropped completes with
  nothing that is left.
* **The greatest subarray.** All three follow the greatest sum of a subarray that ends at
  each position. The greedy pass drops a sum below zero after it has looked at it, so that
  an array of negative numbers keeps its greatest number.
* **Three numbers.** The three functions find the same set of triples. For `threeSum2`,
  which has no set to drop what it finds twice, the pairs of each start are listed once
  (`Lists`), since the pointers pass the numbers equal to a pair, and the lists of two
  starts have nothing in common, since equal starts are skipped.

### Only model-checked

Every safety invariant, action property and refinement that a passing run checks is also
proved. The liveness properties (`WaitersServed`, `WaitReturns`, `NotifyFires`,
`OnceReturns`, `ChainsComplete`, `ImagesArrive`, `CallsEnd`, `TasksEnd`, `ReadsReturn`) rest
on fairness, which is beyond the prover.

## Not modelled

* libdispatch's timers, sources, mach channels, events, I/O, data, workgroups and vouchers:
  state machines over a kernel the repository does not contain, or pure input and output.
* Of `queue.c`: suspension, activation, workloops, the manager queue, chains of target
  queues, `dispatch_async_and_wait`, and changes of width or target. None of the
  applications uses them.
* Non-Mach builds of the semaphore and of the kernel waits.
* Memory order, except in `DispatchOnce`, where the code depends on it: the words of the
  primitives are accessed atomically, and their accesses are taken to be sequentially
  consistent.
* Priorities, quality of service and priority inheritance.
* Interface demos, layout, logging, image decoding, the runtime demos (fixed sequences of
  runtime calls), HTTPS and Socket (calls into vendored libraries).
* objc4 but for `objc-sync.mm`, AFNetworking, Pods, RxSwift, Flutter and node modules:
  third-party code, and the greater part of the repository by far. The same holds of the
  kernel sources beside objc4.
* Two threads that end: an ending thread frees its `@synchronized` cache. All objects of
  `ObjcSync` hash to one stripe; stripes share nothing.
* Custom KVO (`KVOController.m`): a change is reported by a block of its own on a concurrent
  queue, and nothing promises an order; the list of observers is touched by the main thread.
* The child thread's run loop: whether the thread ends is decided inside NSRunLoop, a closed
  library. NSOperationQueue and its dependencies likewise.
* Data races whose only effect is what is logged: the counter of `testLog` in
  `GCDController.m`, the property that `LockController.m` replaces without the lock.
* `doubleQuickSort` has an empty body. `mergeSort` of an empty array never ends, and nothing
  calls it with one; the model gives it none.
* The array, list, tree and string problems: sequential functions, each a few lines over
  library calls.
