# Verification of the SGDThread task scheduler

SGDThread is a fiber-based task scheduler for Windows: worker threads execute
task bodies on fibers, a body may fork child tasks and wait for them, and a
waiting fiber is parked instead of blocking its thread. Its queues are
moodycamel's lock-free concurrent queues, which the repository contains. This
directory holds TLA+ models of both, TLC configurations that check them on
small instances, and theorems about both that TLAPS checks for every number of
workers, fibers and tasks, threads, blocks and elements.

## 1. The system

| Part | Source | State | Operations |
|---|---|---|---|
| Worker threads and pool | `SGDWorkerThread.*` | quit flag, bound fiber (`m_FiberContextSlotId`), thread fiber, thread id | entry-point loop, `SwitchFiberContext`, `SwitchThreadFiberContext`; pool: `Initialize`, `StartAll`, `WaitAll`, `SignalQuitAll`, `GetWorkerThreadById`, `Destroy` |
| Tasks and counters | `SGDTask.*` | body, parent, counter, bound fiber; an atomic count | `RunTask`; `FetchAndAdd`, `Decrement`, `Get` |
| Task queue | `SGDTaskQueue.*` | one concurrent queue per priority | `EnqueueTaskRange`, `DequeueTask` |
| Fibers and their pool | `SGDFiberContext.*` | task slot, counter, owner of each fiber; free lists | entry point, `SwitchSlot`, `DequeueFreeFiberContext`, `ConstructFiberContext`, `Initialize`, `Destroy` |
| Wait queue | `SGDWaitFiberContextQueue.*` | `bIsInWaitQueue` of each fiber; queue of fibers ready to resume | `Enqueue`, `MoveToReadyToResumeQueue`, `Dequeue` |
| Scheduler API | `SGDTaskScheduler.*` | the parts above, the main thread's counter | `RunTasks`, `WaitForCounter`, `InitializeTaskScheduler`, `DestroyTaskScheduler` |
| Clients | `SGDThreadUnitTests/UnitTest0.cpp` | | initialise, fork, join, terminate, join the workers, destroy |
| Thread and event wrappers | `SGDThreadWindow.cpp`, `SGDThreadUtil.h` | event and its waiter count | create and join threads; wait for and signal events |
| Queue: front | `concurrentqueue.h` 557-1334, 3080-3593 | list of producers, hash tables of implicit producers, tokens | `enqueue*`, `try_dequeue*` and their forms with tokens |
| Queue: producers | `concurrentqueue.h` 1614-2900 | indices, promises, blocks and block index of one producer | `enqueue`, `enqueue_bulk`, `dequeue`, `dequeue_bulk` of explicit and implicit producers |
| Queue: blocks | `concurrentqueue.h` 1340-1610, 2950-3040 | initial pool, free list | `requisition_block`, `add_block_to_free_list` |
| Blocking queue | `blockingconcurrentqueue.h` | semaphore and inner queue | `enqueue*`, `try_dequeue*`, `wait_dequeue*`, with timeouts |

How they interact. `RunTasks` raises the caller's counter, points the tasks at
it and at the caller's task, and enqueues them one by one. A worker looks into
the ready queue first, into the task queue second; it binds a task to a fiber
from the free list or takes a ready fiber, records itself as the owner and
switches. At the end of a task its fiber decrements the counter, reads it, and
if it is zero clears the parent's waiting flag and pushes the parent's fiber
into the ready queue. It then switches to its owner's thread fiber.
`WaitForCounter` on a fiber reads the counter, raises the flag, switches to the
thread fiber, and when resumed spins until the counter is zero. The main thread
only spins. Workers leave on their quit flag, the main thread waits for all of
them, and then the scheduler deletes fibers and workers.

All queues of the scheduler are `ConcurrentQueue`s: a thread that enqueues finds
its implicit producer in a hash table or adds one to the list; a thread that
dequeues goes through the list and takes from a producer. A producer stores its
elements in blocks, which it gets from the pool and which consumers (implicit
producers) or the producer itself (explicit producers) find to be empty later.

What is hard. Every arrow above is a step of its own and any number of threads
take them at the same time: the parent's check, flag and park against the
child's decrement, load, clear and push; several children that end together; a
push that arrives when the parent has long gone on; an owner that is read and
written by two threads; queues that may miss an element; declarations that live
in the frame of a body that may have returned; a free list that only shrinks;
a shutdown by flag; promises of consumers that are corrected later; indices that
wrap around; an index of blocks that is searched while it is extended, rewound
or replaced; a batch that fails when it has some of its blocks; a hash table
that is replaced while others insert into it; a timeout that races a signal.
`PROJECT.json` lists these hazards line by line. The properties that make the
parts correct are: counters are exact, tasks are neither lost nor duplicated, a
join returns when and only when the children are done, a wakeup is neither lost
nor given to a fiber that is not parked, every task finishes, nothing is deleted
in use and no thread outlives its program; a producer is a first-in, first-out queue, no
block is lost or used twice, a thread has its producer to itself, permits match
elements and nobody sleeps beside a full queue.

## 2. Modules

| Module | Models | Used by |
|---|---|---|
| `FiberScheduler` | the scheduler between initialisation and destruction, with its clients | `MCFiberScheduler`, `FiberSchedulerProofs` |
| `WorkerPool` | the life of the scheduler and of its threads | `MCWorkerPool`, `WorkerPoolProofs` |
| `ConcurrentQueue` | list of producers, hash tables, tokens, the ways to dequeue | `MCConcurrentQueue`, `ConcurrentQueueProofs` |
| `ProducerBase` | how consumers share out one producer's elements | both producers, `ProducerBaseProofs` |
| `ImplicitProducer`, `ExplicitProducer` | the two kinds of sub-queues | `MCImplicitProducer`, `MCExplicitProducer`, `ImplicitProducerProofs`, `ExplicitProducerProofs` |
| `FifoQueue` | abstract: what a sub-queue promises | refined by both producers |
| `BlockPool` | initial pool, free list, heap | `MCBlockPool`, `BlockPoolProofs` |
| `BlockingQueue` | the blocking queue and its semaphore | `MCBlockingQueue`, `BlockingQueueProofs` |
| `CountingSemaphore` | abstract: what the semaphore promises | refined by `BlockingQueue` |
| `Sums` | the sum of a function's values | `BlockingQueue`, `ProducerBase` and their proofs |

The `...Proofs` modules hold the inductive invariants and the theorems about the
module they are named after (section 5); those of `ProducerBaseProofs` are lemmas
about what both producers have in common.

Each layer relies on what the one below is shown to promise, and on no more.
`FiberScheduler` takes a queue as a set whose dequeue may miss;
`ConcurrentQueue` takes a producer as a number of elements that gives all of
them to a dequeue that overlaps no other and perhaps fewer else, which is the
contract of `FifoQueue`; the producers take the pool as a set of blocks that
may refuse; `BlockingQueue` takes the queue as a number of elements. In all
modules about the queue one action is one access to an atomic variable and the
thread-local work around it (the exceptions are named in the modules: steps on
data that only their owner writes, or that only moves one way). Memory is
sequentially consistent throughout: the acquire and release orders of the code
are not examined.

In every module the definitions marked "Mutant of" are plausible bugs that show
each property can fail; no specification uses them. The `MC` modules hold symmetry
sets and values of constants.

### FiberScheduler

The scheduler after initialisation, with its clients. One action is one access
to shared state and the thread-local work around it.

| Variable | Code |
|---|---|
| `highQueue` | `m_TaskQueues[ETQP_High]`, as a set |
| `ready` | `m_ReadyToResumeQueue[EFT_Small]`, as a bag of fiber ids |
| `freeFibers` | `m_FreeFiberContexts[EFT_Small]` |
| `inWait` | `bIsInWaitQueue` |
| `counter` | `m_RemainCounter` of each fiber's counter and of the main thread's |
| `quit` | `m_IsQuit` |
| `wpc`, `newTask`, `slot` | a worker's place in its loop, `pNewTask`, and `newFiberContextId` / `m_FiberContextSlotId` |
| `fpc`, `taskSlot`, `owner` | a fiber's place between `RunTask` and the end of its entry point, `m_TaskSlot`, `m_Owner` |
| `parent` | the counter (and so the parent's fiber) a task was given to |
| `toEnqueue` | what `EnqueueTaskRange` has yet to enqueue |
| `forked` | the caller has forked since its last wait: the client's side of the contract |
| `mainPc` | the main thread |
| `fault` | undefined behaviour that was reached |

| Actions | Code |
|---|---|
| `CheckQuit`, `DequeueReady`, `ReadyMiss`, `DequeueTask`, `TaskMiss`, `ConstructFiber`, `NoFreeFiber` | `WorkerThreadEntryPoint` and the calls it makes |
| `SetOwner`, `SwitchFiber`, `SwitchBadFiber` | `H1WorkerThread::SwitchFiberContext` |
| `RunTasks`, `EnqueueTask`, `MainRunTasks`, `MainEnqueueTask` | `RunTasks`, `EnqueueTaskRange` |
| `WaitForCounter`, `MarkWaiting`, `Suspend`, `SpinDone`, `MainWaitForCounter`, `MainSpinDone` | `WaitForCounter` |
| `BodyReturn`, `Decrement`, `LoadCounter`, `ClearWaiting`, `PushReady` | `RunTask` after the body, `MoveToReadyToResumeQueue` |
| `LeaveFiber`, `LeaveBadOwner` | `H1FiberContextEntryPoint` after `RunSlot` |
| `SignalQuit`, `WaitAll` | `SignalQuitAll`, `WaitAll` |
| `DanglingTask` | a read or write of a declaration whose frame has been left |

Abstractions. A queue is a set or a bag: `ConcurrentQueue` orders only the
elements of one producer, and no property depends on the order. `try_dequeue`
may miss although the queue is not empty, so `ReadyMiss` and `TaskMiss` have no
guard on the queue. The free list is filled by one thread before the workers
start and never refilled, so it is missed only when it is empty. Nothing
enqueues into the mid and low priority queues and no big fiber is constructed;
both are left out. Counter overflow is out of reach: it takes 2^31 tasks.

Undefined behaviour is explicit: switching to a fiber that a thread is
executing or that was freed (`badFiber`), the fiber id -1 (`noFiber`), and a
declaration used after its frame is gone (`dangling`). The first two end the
behaviour. A dangling access either still finds the old bytes, which is what
the normal actions do, or ends the behaviour. Resuming a fiber that had
finished is defined: the entry point returns and the thread exits.

The clients follow the unit tests: a task is submitted once; a body joins the
tasks it forked before it returns, because their declarations are on its frame;
the terminating task is submitted by the main thread when nothing else is
outstanding, and then the main thread joins the workers. Within that, bodies
and the main thread fork any batches, any number of times, and may fork again
before they wait.

The `...Early`, `...Lost`, `...Any` and similar definitions marked "Mutant of"
are plausible bugs that show each property can fail; no specification uses them.

### WorkerPool

The main thread executes one program of the unit tests after another (up to
`MaxPrograms`), call by call and, in the loops over the workers, iteration by
iteration; each worker thread goes from creation (suspended) over its loop to
its exit. `todo` is what the main thread still has to call, `at` and `step`
where its loop is; `object`, `handle`, `threadId`, `threadFiber` and `quit` are
the members of each `H1WorkerThread`, `fibers` and `freeFibers` the fiber pool,
`queues` whether `m_TaskQueues` are not null.
Actions: `InitializePool`, `Initialize`, `InitializeFails` (after any number of
fibers); `CreateThread`, `SetThreadId`, `ResumeThread` of `StartAll`; `RunTasks`,
`MainWaitForCounter`, `MainSignalQuit`, `WaitAll`; `DestroyFibers`, `DestroyWorker`,
`DeleteWorker`, `DestroyQueues`; per worker `ConvertThreadToFiber`, `CheckQuit`,
`TakeTask`, the loop of `GetWorkerThreadById` (`SameId`, `OtherId`), `SignalQuit`,
`Decrement`, `LeaveFiber`. `m_ThreadId` of a worker that is not started has no
value (`Uninitialized`): a comparison with it may go either way. `CreateMayFail`
is the condition that thread creation may fail.

A client goes on after a failed `Initialize`, as the unit tests ignore its result
(`UnitTest0.cpp:61`, `:75`, `:131`). There is a scheduler then, but it has no workers
(`LoopOverNothing`: `StartAll` and `SignalQuitAll` do nothing, and `WaitAll` returns
at once) and no queues: `RunTasks` dereferences a null pointer (`SubmitToNull`).
Where there is no scheduler at all, `RunTasks` only returns false (`SubmitNowhere`).
A worker that dequeues a task when the free list is empty uses the fiber id -1
(`NoFreeFiber`). `fault` names the two kinds of undefined behaviour, `nullQueue` and
`noFiber`; each ends the behaviour. The heap is not modelled, see section 6.

### BlockPool

`freeListHead`, and for each block `freeListNext` and the word `freeListRefs`
with its count and the SHOULD_BE_ON_FREELIST bit; `poolIndex` and `poolSize` of
the initial pool; `created` of the heap. `users` is a ghost: how often a block
is handed out. The actions follow `try_get`, `add` and
`add_knowing_refcount_is_zero` (with the second chance of a failed push, `Undo`), and
`requisition_block` with its three sources and two allocation modes.

### ProducerBase, ImplicitProducer, ExplicitProducer

`ProducerBase` has the four counters of a producer, as numbers of `IndexBits`
bits, and the first half of every dequeue: look, promise
(`dequeueOptimisticCount`), look again, give back (`dequeueOvercommit`), claim
(`headIndex`). A single dequeue is a bulk dequeue of one; where the code of the
two differs only in that, the model has one action.

`ImplicitProducer` adds the blocks (`cell`, `dequeued` for
`elementsCompletelyDequeued`), the block index (`headers`, `key`, `value`; an
entry belongs to several headers once the index has grown) and the calls of the
producer's thread: search for a slot, growth, requisition, construction, commit,
and the way back after a failure or an exception, step by step. `ExplicitProducer`
adds the ring (`next`), the flags of each block (`emptied`), the index with
`pr_blockIndexFront` and `pr_blockIndexSlotsUsed` (`pr`), and the same for it:
re-use of the block ahead, growth, requisition, undo, construction, publication
of the front. Both end with the destructor, when nobody is in a call. Elements
are numbers in the order of their construction, so that order and identity are
visible. Whether a type is nothrow-constructible is a choice of each call.

`FifoQueue` says what they promise: first in, first out, each element once, and
a dequeue that overlaps no other gives all that it asks for or all there was when
it began (`owed`). The refinement reads the abstract queue through the block index
(`ElementAt`), as a consumer would: an element that the index does not find, or
that somebody has overwritten or freed, is not the one the abstract queue has.

### ConcurrentQueue

`prod` are the producers by the order of their creation, `list` the linked list,
`tables` the hash tables with their `prev` links, `resizing` the resize lock,
`token` and `ctoken` the producer and consumer tokens. `get_or_add_implicit_producer`
is modelled step by step: `Lookup`, `Reserve`, `TestAndSet`, `Unlock`, `Reload`, `Create`, `Push`, `Probe`; the growth of the table under the lock as
`Resize`, `Double` and `Allocate`. The lookup of a thread's own key is one step,
since keys are never removed and only the thread itself inserts its own. A
producer token searches the list for one to recycle (`Recycle`), or creates one;
its destructor gives it back in two steps. Consumers: the scored `try_dequeue`,
the walk of the non-interleaved and the bulk form, dequeues from one producer, and
the ones with a token, with `RotationTail`, `RotationCount` and `Rotate`.

### BlockingQueue

`count` is `m_count`, `tokens` the kernel semaphore's count, `size` the inner
queue. `LightweightSemaphore` is modelled access by access: `TryLoad`, `TryCas`,
`SpinLoad`, `SpinCas`, `FetchSub`, `SemaWait`, `WakeUp`, `Timeout`, `AdjustLoad`,
`TryWaitToken`, `AdjustCas`, `Signal`, `ReleaseTokens`; the forms for one and for
many are the same actions. A thread may spin any number of times (the code: at
most 10000). The kernel semaphore is that of Windows: a release wakes sleepers at
once, and a timeout may come at any time while the thread has not been woken.

`CountingSemaphore` says what it promises: permits are neither made up nor lost,
an acquisition gets no more than it asks for, and a call gives up only while no
permit is free of a taker.

## 3. Runs

| Run | Instance | States | Result |
|---|---|---|---|
| `single_worker` | 1 worker, 4 fibers, 3 tasks of which 2 may fork, the terminating task; debug build; fairness | 44,952 | all hold |
| `fork_join` | 2 workers, 4 fibers for 5 tasks, 2 may fork; release build | 146,914 | all hold, up to the first fault |
| `worker_pool` | 3 workers, 2 small fibers and a big one, two programs in a row, `Initialize` may fail; fairness | 34,170 | all hold |
| `block_pool` | 3 threads, one pool block and one of the heap | 3,558,765 | all hold |
| `implicit_producer` | 2 consumers, blocks of 2, 3 blocks, batches up to 3, 5 elements, 4-bit indices, index of 2 that grows once | 1,165,566 | all hold |
| `explicit_producer` | 2 consumers, blocks of 2, 3 blocks, batches up to 3, 7 elements, 4-bit indices, index of 2 that grows once | 1,357,055 | all hold |
| `concurrent_queue` | 2 threads without a token, 2 tokens, 2 consumers, table of 2, quota 2, 4 calls | 2,609,316 | all hold |
| `blocking_queue` | 2 producers, 2 consumers, batches up to 2, 4 elements; fairness | 814,091 | all hold |
| `stale_flag` | 2 workers, 3 fibers, debug build | | `JoinComplete` violated |
| `busy_fiber` | 2 workers, release build | | `OnlyParkedResumed` violated |
| `fiber_pool` | 2 workers, 2 fibers, 4 flat tasks | | `FinishedFibersReused` violated |
| `injected_blocks` | as `explicit_producer`, with 1 consumer, and batches that fail halfway | | `LookupSound` violated |

What they show about the scheduler. With one worker (`ENABLE_SINGLE_THREAD_DEBUG`,
or one hardware thread) the protocol is right: the steps of parent and child cannot
interleave within `RunTask` and `WaitForCounter`, so every fiber is woken exactly
once, when it is parked and its children are done (`WakeupsExact`,
`WaitFlagFresh`, `NoFault`), every task finishes and the main thread comes back.
With several workers and nesting, counting, queueing, joining (release build) and
waking are right, but the ready queue may hold ids it should not: a child pushes
the parent's id before the parent has left its worker, or although the parent saw
the zero itself and never parked, and another worker switches to a fiber that is
running (`busy_fiber`). The same entry may instead be taken up in a later wait,
where the fiber spins and holds its worker, or after the fiber has finished, which
ends the worker thread; and two children that end together may both read zero and
push twice. These are consequences of the same two lines (`SGDTask.cpp:79` and
`:102`) and have no run of their own. Two more defects are independent: the
waiting flag is raised and cleared without an order, and a debug build trusts it
(`stale_flag`); the free list is never refilled (`fiber_pool`).

The life cycle is right as long as threads can be created: every order of thread
start, task, quit flag and exit ends with all threads joined before their objects,
fibers and tasks go, and the read of `m_ThreadId` of workers not yet started is never
reached, because a worker runs only when those before it in the loop have their ids
(`FindsItself`). When a program has ended, no thread of it can still run, and the next
one finds no scheduler, queue or fiber of it (`ProgramsApart`). That holds too if
`Initialize` failed and the client came to its `Destroy` all the same; one that submits
a task before dereferences a null pointer, as the tests would, so `ProgramsEnd` ends in
`fault` there, and where a program has more tasks than there are small fibers. With
`CreateMayFail` TRUE `TerminatedMeansEnded` and `NothingDestroyedInUse` fail,
since `appCreateThread` tests the address of the handle.

About the queue. Both producers implement `FifoQueue` through growth of the index,
wrap-around of all counters, failing allocations and throwing constructors; the
free list is free of ABA, and loses no block; a thread finds its own producer through
all growths of the hash table; a short answer is honest when no other dequeue is
under way. Three conditions bound this, each named by a constant:

* `PartialFailure`: an explicit batch that fails when it holds blocks already
  corrupts the index (`injected_blocks`, a finding). FALSE in `explicit_producer`.
* `ThrowsLate`: a constructor that throws after the call has prepared a block leaves
  it in the ring with its flags down. FALSE in `explicit_producer`: exceptions in calls
  that have prepared no block are covered, those others are what the `catch` blocks at
  `concurrentqueue.h:1839` and `:2106` are mostly for, and nothing here shows that an
  explicit producer survives them. It does not: with TRUE, `EveryBlockListed` and
  `DestroysAll` fail, because the producer does not take the block that is left for
  empty (`:1837` says it is available for next time) and the destructor destroys
  elements that never were. The implicit producer's run has exceptions in every kind of call.
* `MallocFailsFirst`: the first index of an implicit producer cannot be allocated,
  and its first enqueue dereferences a null pointer; the model's producer stops there.
  FALSE in `implicit_producer`, TRUE for the explicit one, which tries again.

About the blocking queue. Through all races of signals, spinning, sleeping and
timeouts the permits match the elements, a waiter that times out leaves no token
behind and takes none that is not for it, the semaphore implements a counting
semaphore, and nobody sleeps for ever beside an element.

Bounds, and why they are enough.

* Scheduler: two workers are enough for each race between a parent and a child, two
  children for each race between children, two spawners for nesting, for one body
  that waits twice, and for two bodies that wait at the same time. Four fibers for
  five tasks reach the exhausted pool.
* Worker pool: three workers let one be early, one in time and one late; two programs
  show what the second finds of the first. The programs (`MCPrograms`) are those of the
  tests, one that quits its workers from the main thread, one that calls the
  scheduler where there is none, and one with three tasks for two small fibers. `WaitForMultipleObjects` takes up to 64 handles,
  and `GetSystemInfo` counts up to 64 processors.
* Block pool: the protocol of a node is between one that holds it, one that gives it
  back and one that comes too late: three threads. Two blocks are needed for ABA.
* Producers: blocks of two, batches of three, so that a batch ends in the middle of a
  block, at its end, or spans three. The index doubles once, with the ring
  rotated. All decisions use differences of the counters or their low bits, so that a
  producer that has been used for long is one that starts at `StartIndex` 14 of 16
  with `StartOvercommit` 1: after two elements the indices wrap. `MaxPromised` bounds
  how far the promises run ahead, `MaxEnqueued` the elements, `MaxIndexSize` (implicit)
  and `MaxHeaders` (explicit) the growths of the index.
* Queue front: a table of two grows with the first thread and again with the second; 4
  calls let two threads insert while a third dequeues, or a token be destroyed,
  recycled and used. `Quota` 2 lets rotations happen within them.
* Blocking queue: two of each, so that two wait for one signal, one times out while
  another is woken, and a signal of two meets one waiter.

Deadlock is checked in `single_worker`, where the program runs until the main thread
has joined the workers. The other runs end where the code ends too: in a fault, when
the bounded clients have no more calls to make, or when the queue is destroyed.

## 4. Fairness

`FiberScheduler`: weak fairness for each worker's steps and for the main thread once
it is in a call: each worker is pinned to a core of its own and the operating system
runs it. Strong fairness for `DequeueReady` and `DequeueTask`: `try_dequeue` misses
an element only while another call is under way, so a worker that asks again and
again gets one. That is assumed of the queue: what is checked there is that a call
without an overlapping dequeue misses nothing (`ShortAnswersHonest`, `FifoSpec`).
Liveness is checked for one worker only; with several, a fiber that is resumed too early
may hold its worker for ever. Task bodies return (weak fairness of `WaitForCounter`, `SignalQuit`
and `BodyReturn`), but nobody is obliged to fork, and the main thread is not obliged
to submit anything.

`WorkerPool`: weak fairness of the main thread within a program and of each worker
thread, strong fairness of `DequeueTask` for the same reason as above. Nothing is fair
once a fault has ended the process.

`BlockingQueue`: weak fairness of what a thread does within a call. Strong fairness
of leaving the spin: the code's loop ends after 10000 turns, the model's counts none.
Nobody has to call, no timeout has to come, and a consumer that has been promised an
element gets it.

The other modules claim safety only and state no fairness. `NobodySpins` is the
safety property behind the loops of the hash table.

## 5. Proofs

Every theorem is proved for all values of the constants that meet the assumption of its
module (`ConstantsAssumption`, `BlockPoolAssumption`, ...; TLC evaluates them in the
runs) and the hypotheses named below. Each module has one inductive invariant, `IInv`:
the type invariant, the property and what ties a thread's locals to its place in the
code. TLC checked each of them on the module's run before it was proved, but for that of
`ExplicitProducerProofs`, which speaks of a history that is no variable.

### FiberSchedulerProofs

| Theorem | Statement |
|---|---|
| `TypeCorrect` | `Spec => []TypeOK` |
| `NoTaskLost` | `Spec => []TaskInOnePlace` |
| `CountersExact` | `Spec => []CounterExact` |
| `JoinsComplete` | `~Debug`: `Spec => []JoinComplete` |
| `NoWakeupLost` | `Spec => []NoLostWakeup` |
| `AllTasksOver` | `~Debug`: `Spec => []NothingAbandoned` |
| `EnoughFibers` | a fiber for every task: `Spec => [](fault # "noFiber")` |
| `WokenOnce`, `FlagNeverStale` | one worker: `Spec => []WakeupsExact`, `Spec => []WaitFlagFresh` |
| `SingleJoins`, `SingleTasksOver` | one worker: `JoinComplete` and `NothingAbandoned`, in debug builds too |
| `SingleNoFault` | one worker, a fiber for every task: `Spec => []NoFault` |

`TypeOK` and `TaskInOnePlace` are not inductive alone: a worker's task is overwritten by
the next dequeue unless it holds one only between `DequeueTask` and `ConstructFiber`
(`HeldTask`); a fiber taken from the free list must have been bound to nothing
(`FreeFiberUnbound`); a range being enqueued must not be overwritten by the next fork
(`RangeInCall`); and every id that a worker, the ready queue or a parent link can name
must be of a fiber that has a task (`WorkersFiberBound`, `ReadyFiberBound`,
`ParentFiberBound`). `CounterExact` needs `TaskInOnePlace`: a fork adds tasks that are on
no fiber yet, and a decrement takes away one task because no other fiber has it.
`JoinComplete` follows from `CounterExact` and from counters being zero where a wait has
returned; the negative values that a decrement could reach are excluded by `CounterExact`
in the next state. `NoLostWakeup` is inductive relative to `IInv`, for debug builds as
well.

`NothingAbandoned` speaks of descendants at any depth, and the main thread waits for its
own tasks only. `Rooted` says that no set of tasks has all its parents inside: a set of
tasks that are not over, when the main thread's counter is zero and no counter was left
above zero, would be one. `JoinComplete` gives the latter in a release build; in a debug
build a fiber may give up its wait (section 3, `StaleFlag`), with more than one worker.

With one worker, at most one fiber is past the point of being scheduled and not yet
parked (`OneRuns`), every fiber that is ready or taken is parked with its counter at zero
(`ReadyResumable`, `TakenResumable`), and a parent is parked and not yet ready while its
last child is between the decrement and the push (`ParentParked`). These make `SInv(w)`, from which the properties follow that several
workers can violate. `BoundOrFree` counts the fibers of the pool: none is lost, so as many
fibers as tasks are enough.

### BlockPoolProofs

| Theorem | Statement |
|---|---|
| `Typing` | `Spec => []TypeOK` |
| `NextPointerStable` | `Spec => []NoABA` |
| `OneThreadAdds` | `Spec => []OneAdder` |
| `CountsExact` | `Spec => []RefsExact` |
| `CountBelowBit` | no reference count exceeds the number of threads plus one |
| `NoneLost` | `Spec => []NoBlockLost` |

The invariant counts the holders of each block: `RefsWord` says that the whole word
`freeListRefs` is the number of threads that hold the block, one more while the list does,
and the bit. `Phase` says which of its lives the block is in (on the list, in use, being
added by one thread, waiting for its last holder, never handed out) and what the word is
there; it makes the thread that brings the count to zero with the bit set unique. That a
`freeListNext` read before a compare-and-swap is still the next pointer (`Locals`) follows,
because a block with a holder is not added. `Acyclic` keeps a removal from leaving the
removed block reachable.

### BlockingQueueProofs

| Theorem | Statement |
|---|---|
| `Typing` | `Spec => []TypeOK` |
| `WaitersAreExact` | `Spec => []WaitersExact` |
| `EveryElementAccounted` | `Spec => []ElementsAccounted` |
| `IsASemaphore` | `Spec => SemaphoreSpec`: the refinement of `CountingSemaphore` |

`WaitersExact` and `ElementsAccounted` are inductive together with `LocalsOK`, which says
what a consumer has read and got at each place. Both compare a counter to a sum over
threads; lemmas here and in `ProducerBaseProofs` say how such a sum changes with one of
its terms.
`IsASemaphore` is proved step by step: each action of `Next` is an action of
`CountingSemaphore` or changes nothing of it, under the invariant in this state and the
next one.

### WorkerPoolProofs

| Theorem | Statement |
|---|---|
| `Typing` | `Spec => []TypeOK` |
| `UseBeforeDestroy` | `Spec => []NothingDestroyedInUse` |
| `WaitAllJoins` | `Spec => []TerminatedMeansEnded` |
| `CurrentWorkerFound` | `Spec => []FindsItself` |
| `CleanBetweenPrograms` | `Spec => []ProgramsApart` |
| `TestsDisciplined` | the unit tests' programs meet the hypothesis |

Two hypotheses: threads can be created (`CreateMayFail = FALSE`; the code has no way back
when one cannot, see the hazards), and each program is `Disciplined`: it creates the
workers first and only once, destroys last what it created, and starts them at most once,
with a wait for them later if it does. Nothing in the scheduler enforces that order; the
theorems say that it is enough, for programs of any length and any number of cores. `MainOK` ties
the main thread's place to what its program has yet to do, `PoolOK` and `ObjectOK` tie
the objects to that place, `Rooted` says that a thread that exists has all its objects,
and `Running` what it has at each place. A pool that `Initialize` has left without
workers stays without (`ObjectOK`: all of them are absent or none), so that a program
that goes on with it has no thread. A behaviour that ends in a fault satisfies the
theorems up to there.

### ConcurrentQueueProofs

| Theorem | Statement |
|---|---|
| `Typing` | `Spec => []TypeOK` |
| `ProducerIsOwn` | `Spec => []OwnProducer` |
| `TokensKeepTheirs` | `Spec => []TokensLinked` |
| `RotationCovers` | `Spec => []CountCoversList` |
| `ShortMeansEmpty` | `Spec => []ShortAnswersHonest` |
| `ProbingStops` | `Spec => []NobodySpins` |

`HashOK` says that a thread's key goes with one producer in every table that has it,
that `hashCount` counts the threads that have or are about to have an entry, and that a
table is never full for a thread on its way into it. For the last, the threads admitted to
a table or an older one are counted together with those that have yet to find a table and
drew a number of at most `k` from `hashCount` (`Admitted`, `WaitingWith`): they are `k` at
most once `k` nears the size at which a table takes no more. `ListOK`
says that the list has each producer once, but those about to be pushed. For short
answers, a producer that was full when the call began and has not been emptied since is
still on the way of the consumer's walk (`OnTheWay`), also when producers are pushed in
front of it meanwhile.

### ProducerBaseProofs, ImplicitProducerProofs

| Theorem | Statement |
|---|---|
| `PromisesAlwaysSettled` | `WindowsFit`: `Spec => []PromisesSettled` |
| `ClaimsAlwaysCovered` | `WindowsFit`: `Spec => []ClaimsCovered` |
| `LookupsAlwaysSound` | `WindowsFit`: `Spec => []LookupSound` |
| `EverythingIsDestroyed` | `WindowsFit`: `Spec => []DestroysAll` |
| `IsAQueue` | `WindowsFit`: `Spec => FifoSpec`: the refinement of `FifoQueue` |

`WindowsFit` says that elements and promises fit into half the range of the indices, as
circular comparison needs; the runs assume it too (`WindowsAssumption`). The invariant
`ShareInv` of `ProducerBaseProofs` speaks of numbers that do not wrap around, counted from
the start: elements put in (`Filled`), elements taken (`Emptied`), promises, promises given
back. `Balance` is `PromisesSettled` in these numbers; `Turns` says that consumers promise
one after the other, so that each has a rank; `Covers` says that behind all that promised
before it, less what those give back, each consumer finds the elements it will claim. The
lemmas show that each step of a consumer keeps `ShareInv`, whatever the producer does as
long as it only adds elements; `ImplicitProducerProofs` and `ExplicitProducerProofs` show that
their producers do no more. The table has the theorems of `ImplicitProducerProofs`.

`IInv` of `ImplicitProducerProofs` adds the blocks and their index, in the same numbers:
block `m` has the elements from `m * BlockSize` on, and is `Live(m)` from its preparation
until its last element is consumed.

* `ClaimsOK`: the consumers have claimed disjoint ranges below `Emptied`.
* `EnqOK`: the call of the producer has prepared the blocks from `Committed` on, one after
  the other, and the way back takes away the same.
* `RingOK`: the newest header, read backwards from its tail, has the blocks in order: the
  entry of a live block (`Entry(m)`) lies less than a capacity behind the tail, and has its
  key and its value. That the slot after the tail is not of a live block is what
  `FindSlot` tests with a key and a value that it reads one after the other.
* `OwnersOK`: a block has one place (the pool, the entry of a live block, the chain of the
  producer, the consumer that frees it), and `dequeued` counts exactly the consumed
  elements of a live one.
* `LookupsOK`: what a consumer has read leads it to the entries of the newest header.
  `Seen(c, t, T)` says so of a tail slot `t` that was once the entry of block `T`: that
  entry keeps the key of `T` while the consumer has something to look up
  (`Keyed`), and in the consumer's own header, which may be an old one, the distance from
  it is the distance of the blocks (`Leads`). The tail may have moved on or gone back
  since, and the header may have been replaced.

`LookupSound` is not inductive without the other four: a tail that was read stays good
because the producer re-uses no entry of a live block, a block stays live because its
count misses the elements that have not been moved out yet, and these are still there
because claims are disjoint. `CInv` adds the contents. `CellsOK` says that each stored
element is in its slot of its block and that all other slots are vacant; `NoneMissing`
that each block has a place; `TailOK` that `tailBlock` is the last block of the index;
`GotOK` that a consumer has got what it claimed, in order. At the end, with
nobody in a call, only the blocks between head and tail are live, and the destructor
passes all of them.

`IsAQueue` is proved under `FInv`: `CInv`, and what a call owes. `OwedOK` says that a
consumer that owes elements is `Alone` among those that have not settled, so that no promise
is open but its own: what it reads of `dequeueOptimisticCount` and `dequeueOvercommit` is
exact, and the tail that it read when it began covers what it owes. Under `CellsOK` and
`GotOK` the mapping becomes one of numbers: the abstract queue (`Contents`) has the numbers
from `Emptied` to `Filled`, and a consumer holds (`InHand`) those from `First(c)` on,
moved out or not (`MappedAll`). Then `Commit` is `EnqueueBatch`, `Claim` is `Take`, a call
that returns with nothing is a `Take` of nothing, the last step of a dequeue is `Return`,
`Destroy` is `Discard`, and no other step changes what is mapped (`NextRefines`).

### ExplicitProducerProofs

| Theorem | Statement |
|---|---|
| `PromisesAlwaysSettled` | `WindowsFit`: `Spec => []PromisesSettled` |
| `ClaimsAlwaysCovered` | `WindowsFit`: `Spec => []ClaimsCovered` |
| `LookupsAlwaysSound` | `Spec => []LookupSound` |
| `ElementsAlwaysRead` | `Spec => []ReadsItsElements` |
| `VacantCellsAlwaysFilled` | `Spec => []ConstructsInVacant` |
| `AllAlwaysDestroyed` | `Spec => []DestroysAll` |
| `BlocksAlwaysListed` | `Spec => []EveryBlockListed` |
| `IsAQueue` | `Spec => FifoSpec`: the refinement of `FifoQueue` |

All but the first two have three hypotheses: `WindowsFit`, and `PartialFailure` and
`ThrowsLate` FALSE. The latter two are the code's own limits (section 3): with the one
`LookupSound` is violated (`injected_blocks`), with the other `EveryBlockListed` and
`DestroysAll` are. Allocation may still fail wherever a call has prepared nothing, for the
first index too, and constructors may throw there. The pool is finite, as
`ExplicitAssumption` says: in the argument about the ring its blocks are counted.

A block of the ring is used again and again, so the argument is about *choices* of blocks.
A history `g` says which block the producer chose as its `m`-th (`g.home[m]`, the block of
the elements from `m * BlockSize` on), how many it has chosen (`g.n`), and where block 0
would be in each index (`g.org[j]`). It is no variable: the invariant says that there is
one, and each step of the proof gives the next one. For such a `g`, `StoreOK(g)` has six
parts.

* `RingOK`: the blocks of the ring are the last `pr.used` choices, from `Oldest(g)` on, all
  different, and linked in that order; `tailBlock` is the last one.
* `IndexOK`: the newest index lists them in order up to `pr.front`, and its published
  front leads to some choice not before the last that has elements. A single enqueue
  has chosen a block before it lists it, a batch lists its blocks before they
  have elements: `Written(g)` and `Fronted(g)` say how far each is.
* `EnqOK`: how the call of the producer is related to its choices, at each of its steps, and
  what it needs to take them back.
* `FlagsOK`: the flags of a block are up exactly for its consumed elements (`Used`), up to
  the last that has elements; all of an older choice's elements are consumed. Therefore
  `IsEmpty` of the block ahead means that the oldest choice may go.
* `LookupsOK`: the header that a consumer has read, which may be an old one, lists the blocks
  from that of its element to that of its last one, and the front it has read leads, at the
  distance of the blocks, to a choice at or behind the latter (`Leads`).
* `FrontOK`: the front leads to the last choice before the tail is moved on to it.

`LookupSound` is not inductive without them: an entry that a consumer is on its way to
is not overwritten because the slot belongs to an oldest choice only when that one is
consumed, and it is not consumed while a claim in it is open (`ClaimsOK`, `FlagsOK`). `CInv`
adds the contents: `CellsOK` says that each stored element (`Stored`: constructed, and
not moved out by whoever has claimed it) is in its place and all other cells are vacant;
`GotOK` what a consumer has got. For the destructor, with nobody in a call, the choices that
are consumed in full are those before the head's block; the search through the index finds
that block when the head is in its middle; and the walk along `next` from `tailBlock` passes
the whole ring, which is no longer than there are blocks because its choices differ.

`IsAQueue` is proved under `FInv`, which adds `OwedOK` to `CInv`, as for the implicit
producers: the mapping becomes one of numbers, and each step is one of `FifoQueue` or
changes nothing that is mapped. Here the abstract queue is read through the front of the
newest index, and `IndexOK` and `FlagsOK` say that every stored element is found from it.

### Only model-checked

The liveness properties `TasksFinish`, `MainReturns`, `ProgramsEnd` and `SleepersWake` are
out of this prover's reach. Every safety invariant and every refinement that a passing run
checks is stated by a theorem. The violations that the other four runs find are, of course,
of the instances checked.

## 6. Not modelled, and the plan

Not modelled:

* `appWaitForEvent` and its companions: no code calls them, so there is no client.
* Moving, swapping and destroying whole queues, which no concurrent call may overlap;
  the pool of a moved-from queue.
* Recycling of implicit producers at thread exit: `concurrentqueue.h:200` disables it.
* The debug bookkeeping of `concurrentqueue.h` (`MCDBGQ_*`) and the lock-based free list
  and index it selects.
* The heap of the scheduler. `Destroy` deletes fibers, workers and queues; the
  `H1FiberContextWindow` objects (`SGDFiberContext.cpp:202`; also the one whose fiber could
  not be created, `:149`), the wait states and `m_MainThreadTaskCounter` are never deleted,
  and no thread handle is closed. `ProgramsApart` does not speak of them.
* Weak memory: every access is sequentially consistent.
* How long a timed wait takes, and that `timed_wait` rounds its timeout.
* Nested forks of the scheduler on top of the detailed queue: the composition is through
  the contracts named in section 2, as the product of both is beyond TLC.

What remains to be done: the conditions under which an explicit producer survives a
constructor that throws late, which the hypothesis `~ThrowsLate` excludes as a whole; the
composition of the layers as theorems, that is the contracts of section 2 as refinements of a
module by the one below; and liveness beyond the instances that TLC checks.
