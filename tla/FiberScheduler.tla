--------------------------- MODULE FiberScheduler ---------------------------
(***************************************************************************)
(* The fiber-based task scheduler of SGDThread.                            *)
(*                                                                         *)
(* Worker threads run WorkerThreadEntryPoint: they resume a fiber whose    *)
(* children have finished or bind a new task to a fresh fiber, and switch  *)
(* to it.  A task body runs on its fiber; it may fork children with        *)
(* RunTasks and join them with WaitForCounter, which parks the fiber.  The *)
(* child that brings the parent's counter to zero puts the parent's fiber  *)
(* into the ready queue.  The main thread submits tasks and spins.         *)
(*                                                                         *)
(* Every action is one access to state shared between threads, together    *)
(* with the thread-local work around it.  Concurrent queues are sets and   *)
(* bags: moodycamel::ConcurrentQueue orders only the elements of a single  *)
(* producer and no property below depends on that order; a try_dequeue may *)
(* miss an element although the queue is not empty.                        *)
(***************************************************************************)
EXTENDS Integers, FiniteSets

CONSTANTS
  Workers,      \* the H1WorkerThread instances
  Fibers,       \* the small fiber contexts of H1FiberContextPool
  Tasks,        \* the H1TaskDeclaration instances the program declares
  Spawners,     \* the tasks whose bodies call RunTasks
  Terminators,  \* the tasks whose body is SignalQuitAll
  Main,         \* the main thread, as the owner of a task counter
  NoFiber, NoTask, NoWorker, NoParent,
  Debug         \* TRUE in a _DEBUG build

Parents == Fibers \cup {Main}

ASSUME ConstantsAssumption ==
  /\ IsFiniteSet(Tasks)
  /\ Spawners \subseteq Tasks
  /\ Terminators \subseteq Tasks \ Spawners
  /\ Main \notin Fibers
  /\ NoFiber \notin Fibers
  /\ NoTask \notin Tasks
  /\ NoWorker \notin Workers
  /\ NoParent \notin Parents
  /\ Debug \in BOOLEAN

VARIABLES
  highQueue,    \* m_TaskQueues[ETQP_High]
  ready,        \* m_ReadyToResumeQueue[EFT_Small]: copies of each fiber id
  freeFibers,   \* m_FreeFiberContexts[EFT_Small]
  inWait,       \* bIsInWaitQueue of each fiber
  counter,      \* m_RemainCounter of each fiber and of the main thread
  quit,         \* m_IsQuit of each worker
  wpc,          \* where a worker is in WorkerThreadEntryPoint
  newTask,      \* pNewTask of a worker
  slot,         \* newFiberContextId, then m_FiberContextSlotId, of a worker
  fpc,          \* where a fiber is in H1FiberContextEntryPoint
  taskSlot,     \* m_TaskSlot of a fiber
  owner,        \* m_Owner of a fiber
  parent,       \* who owns m_TaskCounter of a task (Main: m_Parent is null)
  toEnqueue,    \* what is left of the range EnqueueTaskRange is enqueuing
  forked,       \* RunTasks was called after the last WaitForCounter
  mainPc,       \* where the main thread is
  fault         \* the undefined behaviour that was reached, if any

poolVars == <<highQueue, ready, freeFibers>>
flagVars == <<inWait, counter, quit>>
workerVars == <<wpc, newTask, slot>>
fiberVars == <<fpc, taskSlot, owner>>
callVars == <<parent, toEnqueue, forked, mainPc>>
vars == <<poolVars, flagVars, workerVars, fiberVars, callVars, fault>>

WorkerPcs == {"top", "ready", "task", "alloc", "bind", "switch", "fiber",
              "exited", "killed"}
\* The program counters at which the body of a fiber's task has not returned.
BodyPcs == {"body", "enqueue", "mark", "switch", "suspended", "spin"}
\* Those after the decrement of the parent's counter.
DecrementedPcs == {"load", "move", "push", "leave", "done", "gone"}
FiberPcs == {"free", "dec"} \cup BodyPcs \cup DecrementedPcs
MainPcs == {"body", "enqueue", "wait", "join", "joined"}
Faults == {"none", "noFiber", "badFiber", "dangling"}

TypeOK ==
  /\ highQueue \in SUBSET Tasks
  /\ ready \in [Fibers -> Nat]
  /\ freeFibers \in SUBSET Fibers
  /\ inWait \in [Fibers -> BOOLEAN]
  /\ counter \in [Parents -> Int]
  /\ quit \in [Workers -> BOOLEAN]
  /\ wpc \in [Workers -> WorkerPcs]
  /\ newTask \in [Workers -> Tasks \cup {NoTask}]
  /\ slot \in [Workers -> Fibers \cup {NoFiber}]
  /\ fpc \in [Fibers -> FiberPcs]
  /\ taskSlot \in [Fibers -> Tasks \cup {NoTask}]
  /\ owner \in [Fibers -> Workers \cup {NoWorker}]
  /\ parent \in [Tasks -> Parents \cup {NoParent}]
  /\ toEnqueue \in [Parents -> SUBSET Tasks]
  /\ forked \in [Parents -> BOOLEAN]
  /\ mainPc \in MainPcs
  /\ fault \in Faults

\* The scheduler is initialised and every worker thread has been started.
Init ==
  /\ highQueue = {}
  /\ ready = [f \in Fibers |-> 0]
  /\ freeFibers = Fibers
  /\ inWait = [f \in Fibers |-> FALSE]
  /\ counter = [p \in Parents |-> 0]
  /\ quit = [w \in Workers |-> FALSE]
  /\ wpc = [w \in Workers |-> "top"]
  /\ newTask = [w \in Workers |-> NoTask]
  /\ slot = [w \in Workers |-> NoFiber]
  /\ fpc = [f \in Fibers |-> "free"]
  /\ taskSlot = [f \in Fibers |-> NoTask]
  /\ owner = [f \in Fibers |-> NoWorker]
  /\ parent = [t \in Tasks |-> NoParent]
  /\ toEnqueue = [p \in Parents |-> {}]
  /\ forked = [p \in Parents |-> FALSE]
  /\ mainPc = "body"
  /\ fault = "none"

-----------------------------------------------------------------------------
(* The loop of a worker thread.                                            *)

WorkerGoto(w, pc) == wpc' = [wpc EXCEPT ![w] = pc]

CheckQuit(w) ==
  /\ wpc[w] = "top"
  /\ WorkerGoto(w, IF quit[w] THEN "exited" ELSE "ready")
  /\ UNCHANGED <<poolVars, flagVars, newTask, slot, fiberVars, callVars, fault>>

\* Mutant of DequeueReady: takes an id that is not in the queue.
DequeueReadyEmpty(w) ==
  /\ wpc[w] = "ready"
  /\ \E f \in Fibers :
       /\ ready' = [ready EXCEPT ![f] = @ - 1]
       /\ slot' = [slot EXCEPT ![w] = f]
  /\ WorkerGoto(w, "bind")
  /\ UNCHANGED <<highQueue, freeFibers, flagVars, newTask, fiberVars, callVars,
                 fault>>

DequeueReady(w) ==
  /\ wpc[w] = "ready"
  /\ \E f \in Fibers :
       /\ ready[f] > 0
       /\ ready' = [ready EXCEPT ![f] = @ - 1]
       /\ slot' = [slot EXCEPT ![w] = f]
  /\ WorkerGoto(w, "bind")
  /\ UNCHANGED <<highQueue, freeFibers, flagVars, newTask, fiberVars, callVars,
                 fault>>

ReadyMiss(w) ==
  /\ wpc[w] = "ready"
  /\ WorkerGoto(w, "task")
  /\ UNCHANGED <<poolVars, flagVars, newTask, slot, fiberVars, callVars, fault>>

\* Mutant of DequeueTask: the task stays in the queue.
DequeueTaskShared(w) ==
  /\ wpc[w] = "task"
  /\ \E t \in highQueue :
       /\ highQueue' = highQueue
       /\ newTask' = [newTask EXCEPT ![w] = t]
  /\ WorkerGoto(w, "alloc")
  /\ UNCHANGED <<ready, freeFibers, flagVars, slot, fiberVars, callVars, fault>>

DequeueTask(w) ==
  /\ wpc[w] = "task"
  /\ \E t \in highQueue :
       /\ highQueue' = highQueue \ {t}
       /\ newTask' = [newTask EXCEPT ![w] = t]
  /\ WorkerGoto(w, "alloc")
  /\ UNCHANGED <<ready, freeFibers, flagVars, slot, fiberVars, callVars, fault>>

TaskMiss(w) ==
  /\ wpc[w] = "task"
  /\ WorkerGoto(w, "top")
  /\ UNCHANGED <<poolVars, flagVars, newTask, slot, fiberVars, callVars, fault>>

\* DequeueFreeFiberContext and ConstructFiberContext.  Nothing is ever put
\* back into the free list; when it is empty the id -1 indexes the vector.
ConstructFiber(w) ==
  /\ wpc[w] = "alloc"
  /\ \E f \in freeFibers :
       /\ freeFibers' = freeFibers \ {f}
       /\ taskSlot' = [taskSlot EXCEPT ![f] = newTask[w]]
       /\ slot' = [slot EXCEPT ![w] = f]
  /\ newTask' = [newTask EXCEPT ![w] = NoTask]
  /\ WorkerGoto(w, "bind")
  /\ UNCHANGED <<highQueue, ready, flagVars, fpc, owner, callVars, fault>>

NoFreeFiber(w) ==
  /\ wpc[w] = "alloc"
  /\ freeFibers = {}
  /\ fault' = "noFiber"
  /\ UNCHANGED <<poolVars, flagVars, workerVars, fiberVars, callVars>>

\* H1WorkerThread::SwitchFiberContext first records the worker in the fiber,
\* whatever the fiber is doing ...
SetOwner(w) ==
  /\ wpc[w] = "bind"
  /\ owner' = [owner EXCEPT ![slot[w]] = w]
  /\ WorkerGoto(w, "switch")
  /\ UNCHANGED <<poolVars, flagVars, newTask, slot, fpc, taskSlot, callVars,
                 fault>>

\* ... and then switches: a fresh fiber starts its task's body, a parked one
\* goes on inside WaitForCounter, and a fiber that had finished returns from
\* its entry point, which ends the thread and frees the fiber.
SwitchFiber(w) ==
  LET f == slot[w] IN
  /\ wpc[w] = "switch"
  /\ \/ /\ fpc[f] = "free"
        /\ fpc' = [fpc EXCEPT ![f] = "body"]
        /\ WorkerGoto(w, "fiber")
     \/ /\ fpc[f] = "suspended"
        /\ fpc' = [fpc EXCEPT ![f] = "spin"]
        /\ WorkerGoto(w, "fiber")
     \/ /\ fpc[f] = "done"
        /\ fpc' = [fpc EXCEPT ![f] = "gone"]
        /\ WorkerGoto(w, "killed")
  /\ UNCHANGED <<poolVars, flagVars, newTask, slot, taskSlot, owner, callVars,
                 fault>>

\* SwitchToFiber to a fiber that another thread is executing or has freed.
SwitchBadFiber(w) ==
  /\ wpc[w] = "switch"
  /\ fpc[slot[w]] \notin {"free", "suspended", "done"}
  /\ fault' = "badFiber"
  /\ UNCHANGED <<poolVars, flagVars, workerVars, fiberVars, callVars>>

-----------------------------------------------------------------------------
(* What a worker executes on the fiber it is switched to.                  *)

At(w, pc) == wpc[w] = "fiber" /\ fpc[slot[w]] = pc
FiberGoto(f, pc) == fpc' = [fpc EXCEPT ![f] = pc]

\* Tasks no RunTasks call was made for yet.
Declared == {t \in Tasks : parent[t] = NoParent}

\* Mutant of Fork: the counter is raised by one for the whole range.
ForkOne(p, batch) ==
  /\ batch \in (SUBSET Declared) \ {{}}
  /\ counter' = [counter EXCEPT ![p] = @ + 1]
  /\ parent' = [t \in Tasks |-> IF t \in batch THEN p ELSE parent[t]]
  /\ toEnqueue' = [toEnqueue EXCEPT ![p] = batch]
  /\ forked' = [forked EXCEPT ![p] = TRUE]

\* The counter is raised and the tasks are bound to it, then EnqueueTaskRange
\* enqueues them one by one.
Fork(p, batch) ==
  /\ batch \in (SUBSET Declared) \ {{}}
  /\ counter' = [counter EXCEPT ![p] = @ + Cardinality(batch)]
  /\ parent' = [t \in Tasks |-> IF t \in batch THEN p ELSE parent[t]]
  /\ toEnqueue' = [toEnqueue EXCEPT ![p] = batch]
  /\ forked' = [forked EXCEPT ![p] = TRUE]

EnqueueOne(p) ==
  \E t \in toEnqueue[p] :
    /\ highQueue' = highQueue \cup {t}
    /\ toEnqueue' = [toEnqueue EXCEPT ![p] = @ \ {t}]

RunTasks(w, batch) ==
  LET f == slot[w] IN
  /\ At(w, "body")
  /\ taskSlot[f] \in Spawners
  /\ batch \cap Terminators = {}
  /\ Fork(f, batch)
  /\ FiberGoto(f, "enqueue")
  /\ UNCHANGED <<poolVars, inWait, quit, workerVars, taskSlot, owner, mainPc,
                 fault>>

EnqueueTask(w) ==
  LET f == slot[w] IN
  /\ At(w, "enqueue")
  /\ EnqueueOne(f)
  /\ FiberGoto(f, IF toEnqueue'[f] = {} THEN "body" ELSE "enqueue")
  /\ UNCHANGED <<ready, freeFibers, flagVars, workerVars, taskSlot, owner,
                 parent, forked, mainPc, fault>>

\* Mutant of WaitForCounter: off by one.
WaitForCounterEarly(w) ==
  LET f == slot[w] IN
  /\ At(w, "body")
  /\ IF counter[f] <= 1
     THEN forked' = [forked EXCEPT ![f] = FALSE] /\ UNCHANGED fpc
     ELSE FiberGoto(f, "mark") /\ UNCHANGED forked
  /\ UNCHANGED <<poolVars, flagVars, workerVars, taskSlot, owner, parent,
                 toEnqueue, mainPc, fault>>

\* WaitForCounter returns at once when the counter is already zero.
WaitForCounter(w) ==
  LET f == slot[w] IN
  /\ At(w, "body")
  /\ IF counter[f] = 0
     THEN forked' = [forked EXCEPT ![f] = FALSE] /\ UNCHANGED fpc
     ELSE FiberGoto(f, "mark") /\ UNCHANGED forked
  /\ UNCHANGED <<poolVars, flagVars, workerVars, taskSlot, owner, parent,
                 toEnqueue, mainPc, fault>>

\* H1WaitFiberContextQueue::Enqueue.  A debug build gives up, and with it
\* WaitForCounter, when the fiber is flagged as waiting already.
MarkWaiting(w) ==
  LET f == slot[w] IN
  /\ At(w, "mark")
  /\ IF Debug /\ inWait[f]
     THEN /\ FiberGoto(f, "body")
          /\ forked' = [forked EXCEPT ![f] = FALSE]
          /\ UNCHANGED inWait
     ELSE /\ FiberGoto(f, "switch")
          /\ inWait' = [inWait EXCEPT ![f] = TRUE]
          /\ UNCHANGED forked
  /\ UNCHANGED <<poolVars, counter, quit, workerVars, taskSlot, owner, parent,
                 toEnqueue, mainPc, fault>>

\* SwitchThreadFiberContext: the fiber is parked, its worker is in its loop.
Suspend(w) ==
  /\ At(w, "switch")
  /\ FiberGoto(slot[w], "suspended")
  /\ slot' = [slot EXCEPT ![w] = NoFiber]
  /\ WorkerGoto(w, "top")
  /\ UNCHANGED <<poolVars, flagVars, newTask, taskSlot, owner, callVars, fault>>

\* Mutant of SpinDone: a resumed fiber does not look at the counter.
SpinDoneAtOnce(w) ==
  LET f == slot[w] IN
  /\ At(w, "spin")
  /\ FiberGoto(f, "body")
  /\ forked' = [forked EXCEPT ![f] = FALSE]
  /\ UNCHANGED <<poolVars, flagVars, workerVars, taskSlot, owner, parent,
                 toEnqueue, mainPc, fault>>

\* A resumed fiber spins until the counter is zero; WaitForCounter returns.
SpinDone(w) ==
  LET f == slot[w] IN
  /\ At(w, "spin")
  /\ counter[f] = 0
  /\ FiberGoto(f, "body")
  /\ forked' = [forked EXCEPT ![f] = FALSE]
  /\ UNCHANGED <<poolVars, flagVars, workerVars, taskSlot, owner, parent,
                 toEnqueue, mainPc, fault>>

\* One store of SignalQuitAll.
SignalQuit(w) ==
  /\ At(w, "body")
  /\ taskSlot[slot[w]] \in Terminators
  /\ \E v \in Workers : ~quit[v] /\ quit' = [quit EXCEPT ![v] = TRUE]
  /\ UNCHANGED <<poolVars, inWait, counter, workerVars, fiberVars, callVars,
                 fault>>

\* A body keeps the declarations of its children in its frame, so it returns
\* only after a WaitForCounter for the tasks it has forked.
BodyReturn(w) ==
  LET f == slot[w] IN
  /\ At(w, "body")
  /\ ~forked[f]
  /\ taskSlot[f] \in Terminators => \A v \in Workers : quit[v]
  /\ FiberGoto(f, "dec")
  /\ UNCHANGED <<poolVars, flagVars, workerVars, taskSlot, owner, callVars,
                 fault>>

\* Mutant of Decrement: a counter of the main thread is not lowered.
DecrementFibersOnly(w) ==
  LET f == slot[w] IN
  /\ At(w, "dec")
  /\ counter' = [counter EXCEPT ![parent[taskSlot[f]]] =
                                IF parent[taskSlot[f]] = Main THEN @ ELSE @ - 1]
  /\ FiberGoto(f, "load")
  /\ UNCHANGED <<poolVars, inWait, quit, workerVars, taskSlot, owner, callVars,
                 fault>>

\* H1TaskCounter::Decrement is an atomic decrement ...
Decrement(w) ==
  LET f == slot[w] IN
  /\ At(w, "dec")
  /\ counter' = [counter EXCEPT ![parent[taskSlot[f]]] = @ - 1]
  /\ FiberGoto(f, "load")
  /\ UNCHANGED <<poolVars, inWait, quit, workerVars, taskSlot, owner, callVars,
                 fault>>

\* Mutant of LoadCounter: every child wakes the parent.
LoadCounterAny(w) ==
  LET f == slot[w]
      p == parent[taskSlot[f]]
  IN
  /\ At(w, "load")
  /\ FiberGoto(f, IF p # Main THEN "move" ELSE "leave")
  /\ UNCHANGED <<poolVars, flagVars, workerVars, taskSlot, owner, callVars,
                 fault>>

\* Mutant of LoadCounter: only a parent that is flagged as waiting is woken.
LoadCounterIfWaiting(w) ==
  LET f == slot[w]
      p == parent[taskSlot[f]]
  IN
  /\ At(w, "load")
  /\ FiberGoto(f, IF counter[p] = 0 /\ p # Main /\ inWait[p]
                  THEN "move" ELSE "leave")
  /\ UNCHANGED <<poolVars, flagVars, workerVars, taskSlot, owner, callVars,
                 fault>>

\* ... and a separate load, whose result RunTask compares with zero.
LoadCounter(w) ==
  LET f == slot[w]
      p == parent[taskSlot[f]]
  IN
  /\ At(w, "load")
  /\ FiberGoto(f, IF counter[p] = 0 /\ p # Main THEN "move" ELSE "leave")
  /\ UNCHANGED <<poolVars, flagVars, workerVars, taskSlot, owner, callVars,
                 fault>>

\* Mutant of ClearWaiting: the flag stays up.
ClearWaitingForgotten(w) ==
  LET f == slot[w] IN
  /\ At(w, "move")
  /\ UNCHANGED inWait
  /\ FiberGoto(f, "push")
  /\ UNCHANGED <<poolVars, counter, quit, workerVars, taskSlot, owner, callVars,
                 fault>>

\* MoveToReadyToResumeQueue clears the flag of the parent's fiber ...
ClearWaiting(w) ==
  LET f == slot[w] IN
  /\ At(w, "move")
  /\ inWait' = [inWait EXCEPT ![parent[taskSlot[f]]] = FALSE]
  /\ FiberGoto(f, "push")
  /\ UNCHANGED <<poolVars, counter, quit, workerVars, taskSlot, owner, callVars,
                 fault>>

\* Mutant of PushReady: the wakeup is dropped.
PushReadyLost(w) ==
  LET f == slot[w] IN
  /\ At(w, "push")
  /\ ready' = [ready EXCEPT ![parent[taskSlot[f]]] = @]
  /\ FiberGoto(f, "leave")
  /\ UNCHANGED <<highQueue, freeFibers, flagVars, workerVars, taskSlot, owner,
                 callVars, fault>>

\* ... and enqueues it, whatever the fiber is doing.
PushReady(w) ==
  LET f == slot[w] IN
  /\ At(w, "push")
  /\ ready' = [ready EXCEPT ![parent[taskSlot[f]]] = @ + 1]
  /\ FiberGoto(f, "leave")
  /\ UNCHANGED <<highQueue, freeFibers, flagVars, workerVars, taskSlot, owner,
                 callVars, fault>>

\* The entry point clears the owner it had recorded and goes back to the
\* owner's thread fiber ...
LeaveFiber(w) ==
  LET f == slot[w] IN
  /\ At(w, "leave")
  /\ owner[f] = w
  /\ FiberGoto(f, "done")
  /\ owner' = [owner EXCEPT ![f] = NoWorker]
  /\ slot' = [slot EXCEPT ![w] = NoFiber]
  /\ WorkerGoto(w, "top")
  /\ UNCHANGED <<poolVars, flagVars, newTask, taskSlot, callVars, fault>>

\* ... which is the thread fiber of another worker when that one has recorded
\* itself in the meantime.
LeaveBadOwner(w) ==
  /\ At(w, "leave")
  /\ owner[slot[w]] # w
  /\ fault' = "badFiber"
  /\ UNCHANGED <<poolVars, flagVars, workerVars, fiberVars, callVars>>

\* The worker uses the declaration of task t: SwitchSlot writes m_Owner,
\* RunTask reads m_TaskBody, m_TaskCounter and m_Parent.
Uses(w, t) ==
  \/ wpc[w] = "alloc" /\ newTask[w] = t
  \/ /\ wpc[w] \in {"bind", "switch"}
     /\ fpc[slot[w]] = "free"
     /\ taskSlot[slot[w]] = t
  \/ /\ At(w, "dec") \/ At(w, "move")
     /\ taskSlot[slot[w]] = t

\* The declaration lived in the frame of a body that has returned: the access
\* either finds the old bytes (the actions above) or anything else.
DanglingTask(w) ==
  /\ \E t \in Tasks :
       /\ Uses(w, t)
       /\ parent[t] \in Fibers
       /\ fpc[parent[t]] \notin BodyPcs
  /\ fault' = "dangling"
  /\ UNCHANGED <<poolVars, flagVars, workerVars, fiberVars, callVars>>

-----------------------------------------------------------------------------
(* The main thread, as the unit tests drive it: it submits tasks and waits *)
(* for them any number of times, submits the terminating task when nothing *)
(* else is outstanding, waits for it and joins the workers.                *)

MainRunTasks(batch) ==
  /\ mainPc = "body"
  /\ Terminators \subseteq Declared
  /\ batch \cap Terminators # {} =>
       Cardinality(batch) = 1 /\ ~forked[Main]
  /\ Fork(Main, batch)
  /\ mainPc' = "enqueue"
  /\ UNCHANGED <<poolVars, inWait, quit, workerVars, fiberVars, fault>>

MainEnqueueTask ==
  /\ mainPc = "enqueue"
  /\ EnqueueOne(Main)
  /\ mainPc' = IF toEnqueue'[Main] = {} THEN "body" ELSE "enqueue"
  /\ UNCHANGED <<ready, freeFibers, flagVars, workerVars, fiberVars, parent,
                 forked, fault>>

MainWaitForCounter ==
  /\ mainPc = "body"
  /\ forked[Main]
  /\ mainPc' = "wait"
  /\ UNCHANGED <<poolVars, flagVars, workerVars, fiberVars, parent, toEnqueue,
                 forked, fault>>

MainSpinDone ==
  /\ mainPc = "wait"
  /\ counter[Main] = 0
  /\ mainPc' = IF Terminators \subseteq Declared THEN "body" ELSE "join"
  /\ forked' = [forked EXCEPT ![Main] = FALSE]
  /\ UNCHANGED <<poolVars, flagVars, workerVars, fiberVars, parent, toEnqueue,
                 fault>>

WaitAll ==
  /\ mainPc = "join"
  /\ \A w \in Workers : wpc[w] \in {"exited", "killed"}
  /\ mainPc' = "joined"
  /\ UNCHANGED <<poolVars, flagVars, workerVars, fiberVars, parent, toEnqueue,
                 forked, fault>>

-----------------------------------------------------------------------------

\* The loop of a worker thread, as far as it does not depend on luck.
Loop(w) ==
  \/ CheckQuit(w)
  \/ ReadyMiss(w)
  \/ TaskMiss(w)
  \/ ConstructFiber(w)
  \/ NoFreeFiber(w)
  \/ SetOwner(w)
  \/ SwitchFiber(w)
  \/ SwitchBadFiber(w)

\* What the library does on a fiber, and what task bodies do.
Fiber(w) ==
  \/ EnqueueTask(w)
  \/ MarkWaiting(w)
  \/ Suspend(w)
  \/ SpinDone(w)
  \/ Decrement(w)
  \/ LoadCounter(w)
  \/ ClearWaiting(w)
  \/ PushReady(w)
  \/ LeaveFiber(w)
  \/ LeaveBadOwner(w)

Body(w) ==
  \/ \E batch \in SUBSET Tasks : RunTasks(w, batch)
  \/ WaitForCounter(w)
  \/ SignalQuit(w)
  \/ BodyReturn(w)

MainThread ==
  \/ \E batch \in SUBSET Tasks : MainRunTasks(batch)
  \/ MainEnqueueTask
  \/ MainWaitForCounter
  \/ MainSpinDone
  \/ WaitAll

\* The main thread has joined the workers and the program goes on without them.
Joined == mainPc = "joined" /\ UNCHANGED vars

Next ==
  \/ /\ fault = "none"
     /\ \/ \E w \in Workers :
             \/ Loop(w)
             \/ DequeueReady(w)
             \/ DequeueTask(w)
             \/ Fiber(w)
             \/ Body(w)
             \/ DanglingTask(w)
        \/ MainThread
  \/ Joined

Spec == Init /\ [][Next]_vars

(***************************************************************************)
(* The operating system runs every worker thread (each is pinned to a core *)
(* of its own); a try_dequeue that misses does so because another call is  *)
(* under way, so it does not miss forever; task bodies return; the main    *)
(* thread finishes the call it is in and joins the workers it has stopped. *)
(***************************************************************************)
Fairness ==
  /\ \A w \in Workers :
       /\ WF_vars(fault = "none" /\ Loop(w))
       /\ SF_vars(fault = "none" /\ DequeueReady(w))
       /\ SF_vars(fault = "none" /\ DequeueTask(w))
       /\ WF_vars(fault = "none" /\ Fiber(w))
       /\ WF_vars(fault = "none" /\ (WaitForCounter(w) \/ SignalQuit(w)
                                       \/ BodyReturn(w)))
  /\ WF_vars(fault = "none" /\ (MainEnqueueTask \/ MainSpinDone \/ WaitAll))

FairSpec == Spec /\ Fairness

-----------------------------------------------------------------------------
(* What the scheduler is supposed to guarantee.                            *)

Submitted(t) == parent[t] # NoParent

\* The counter the task was submitted with has been decremented for it.
Decremented(t) ==
  \E f \in Fibers : taskSlot[f] = t /\ fpc[f] \in DecrementedPcs

Outstanding(p) == {t \in Tasks : parent[t] = p /\ ~Decremented(t)}

\* A task counter always equals the number of tasks it still has to hear from,
\* although RunTasks raises it before the tasks are visible and every child
\* lowers it from a thread of its own: H1TaskCounter, RunTasks, RunTask.
CounterExact == \A p \in Parents : counter[p] = Cardinality(Outstanding(p))

\* The places that hold a task: the range a caller is enqueuing, the queue, a
\* worker between DequeueTask and ConstructFiberContext, a fiber.
Places(t) ==
  {<<"call", p>> : p \in {q \in Parents : t \in toEnqueue[q]}}
  \cup (IF t \in highQueue THEN {<<"queue", Main>>} ELSE {})
  \cup {<<"worker", w>> : w \in {v \in Workers : newTask[v] = t}}
  \cup {<<"fiber", f>> : f \in {g \in Fibers : taskSlot[g] = t}}

\* No task is lost on its way through the queue, a worker and a fiber, and none
\* is bound to two fibers: EnqueueTaskRange, the worker loop, SwitchSlot.
TaskInOnePlace ==
  \A t \in Tasks :
    IF Submitted(t) THEN \E pl \in Places(t) : Places(t) = {pl}
                    ELSE Places(t) = {}

\* WaitForCounter returns to a body only when all the tasks the body has forked
\* are finished, and no body returns before its children: fork and join.
JoinComplete ==
  \A f \in Fibers :
    (fpc[f] = "body" /\ ~forked[f]) \/ fpc[f] \in {"dec"} \cup DecrementedPcs
      => Outstanding(f) = {}

\* A fiber that parks or is parked when its last child has finished is on its
\* way back: in the ready queue, held by a worker, or about to be pushed by a
\* child that has seen the zero.  WaitForCounter's check and park against the
\* child's decrement, load and push.
NoLostWakeup ==
  \A f \in Fibers :
    fpc[f] \in {"mark", "switch", "suspended"} /\ counter[f] = 0 =>
      \/ ready[f] > 0
      \/ \E w \in Workers : wpc[w] \in {"bind", "switch"} /\ slot[w] = f
      \/ \E g \in Fibers : /\ fpc[g] \in {"load", "move", "push"}
                          /\ parent[taskSlot[g]] = f

\* When the main thread has joined the workers, every task it or a body has
\* submitted has run to its end: no task is left in the queue and no fiber
\* parked, although the workers leave on a flag and not on empty queues.
NothingAbandoned ==
  mainPc = "joined" => \A t \in Tasks : Submitted(t) => Decremented(t)

\* No execution reaches undefined behaviour.
NoFault == fault = "none"

\* Every fiber id in the ready queue, or in the hands of a worker that took it
\* from there, names one parked fiber whose children have finished: it is
\* resumed once, and never while it runs: MoveToReadyToResumeQueue.
WakeupsExact ==
  \A f \in Fibers :
    LET wakers == {g \in Fibers : /\ fpc[g] \in {"move", "push"}
                                  /\ parent[taskSlot[g]] = f}
        resumers == {w \in Workers : /\ wpc[w] \in {"bind", "switch"}
                                     /\ slot[w] = f
                                     /\ fpc[f] # "free"}
        wakeups == ready[f] + Cardinality(wakers) + Cardinality(resumers)
    IN  wakeups > 0 => wakeups = 1 /\ fpc[f] = "suspended" /\ counter[f] = 0

\* The waiting flag of a fiber is up only while the fiber is parking or parked,
\* so a later WaitForCounter never finds it raised.
WaitFlagFresh ==
  \A f \in Fibers : inWait[f] => fpc[f] \in {"switch", "suspended"}

\* No worker switches to a fiber that another thread is executing: "concurrent
\* wait queue which contains fiber contexts ready-to-start".
OnlyParkedResumed == fault # "badFiber"

\* A worker that has dequeued a task finds a fiber for it unless all of them
\* are in use, because finished ones are kept "for later usage".
FinishedFibersReused ==
  \A w \in Workers :
    wpc[w] = "alloc" /\ freeFibers = {} =>
      \A f \in Fibers : fpc[f] \notin {"done", "gone"}

\* Every submitted task finishes, and the main thread gets out of its waits.
TasksFinish == \A t \in Tasks : Submitted(t) ~> Decremented(t)
MainReturns == mainPc \in {"wait", "join"} ~> mainPc \in {"body", "joined"}

=============================================================================
