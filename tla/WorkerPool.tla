------------------------------ MODULE WorkerPool ------------------------------
(***************************************************************************)
(* The life of the scheduler: H1TaskScheduler and H1WorkerThreadPool from  *)
(* Initialize to Destroy, the worker threads from StartAll to their exit,  *)
(* and the programs of the unit tests that drive them, one after another   *)
(* in one process.                                                         *)
(*                                                                         *)
(* FiberScheduler models what happens in between.  Here a task is only     *)
(* what it does to the workers: "nested" asks for the current worker, as   *)
(* RunTasks does on a fiber, "terminate" tells all workers to quit.        *)
(***************************************************************************)
EXTENDS Integers, Sequences

CONSTANTS
  NumCores,        \* appGetNumHardwareThreads
  NumSmall,        \* smallFiberContextCount
  NumBig,          \* bigFiberContextCount
  CreateMayFail,   \* whether _beginthreadex may fail
  Programs,        \* what a client does, see TestPrograms
  MaxPrograms      \* bounds the programs that run one after another

Workers == 1 .. NumCores
Fibers == 1 .. NumSmall + NumBig
SmallFibers == 1 .. NumSmall

\* WaitForMultipleObjects takes at most 64 handles, and GetSystemInfo counts at
\* most 64 processors.
MaximumWaitObjects == 64

ASSUME WorkerPoolAssumption ==
  /\ NumCores \in 1 .. MaximumWaitObjects
  /\ NumSmall \in Nat /\ NumSmall >= 2 /\ NumBig \in Nat
  /\ CreateMayFail \in BOOLEAN
  /\ MaxPrograms \in Nat

VARIABLES
  todo,         \* what the main thread still has to call
  at,           \* the worker its loop is at
  step,         \* where it is in the body of the loop
  programs,     \* how many programs have begun
  terminated,   \* AllWorkerThreadTerminated: WaitAll has returned
  fault,        \* the undefined behaviour that was reached, if any
  scheduler,    \* gTaskScheduler, or a scheduler on the stack, exists
  queues,       \* m_TaskQueues are not null
  fibers,       \* the fibers of the pool that the system has
  freeFibers,   \* m_FreeFiberContexts[EFT_Small]
  tasks,        \* the high priority queue
  counter,      \* m_MainThreadTaskCounter
  object,       \* each worker object: "absent", "live" or "deleted"
  handle,       \* m_ThreadHandle is not null
  threadId,     \* m_ThreadId
  threadFiber,  \* m_ThreadFiberContext is not null
  quit,         \* m_IsQuit
  wpc,          \* where each worker thread is
  task,         \* the task it executes
  bound,        \* the fiber it is on
  looked        \* GetWorkerThreadById: what its loop is at, and what it found

mainVars == <<todo, at, step, programs, terminated, fault>>
poolVars == <<scheduler, queues, fibers, freeFibers, tasks, counter>>
objectVars == <<object, handle, threadId, threadFiber, quit>>
threadVars == <<wpc, task, bound, looked>>
vars == <<mainVars, poolVars, objectVars, threadVars>>

None == 0
\* A member that no constructor has set.
Uninitialized == -1

\* The programs of the unit tests, and the last one with the task submitted
\* before the workers start.
TestPrograms ==
  LET terminate == <<"RunTerminate", "WaitForCounter", "WaitAll", "Destroy">>
  IN { <<"InitializePool", "StartAll", "SignalQuitAll", "WaitAll", "DestroyPool">>,
       <<"Initialize", "Destroy">>,
       <<"Initialize", "StartAll">> \o terminate,
       <<"Initialize", "StartAll", "RunNested", "WaitForCounter">> \o terminate,
       <<"Initialize", "RunNested", "StartAll", "WaitForCounter">> \o terminate }

OnFiber == {"body", "find", "quitAll", "decrement", "leave"}
ThreadStates == {"none", "suspended", "ready", "loop", "poll", "exited"} \cup OnFiber
Exists(w) == wpc[w] \notin {"none", "exited"}

Init ==
  /\ todo = <<>> /\ at = None /\ step = "begin" /\ programs = 0 /\ terminated = FALSE
  /\ fault = "none"
  /\ scheduler = FALSE /\ queues = FALSE /\ fibers = {} /\ freeFibers = <<>> /\ tasks = <<>> /\ counter = 0
  /\ object = [w \in Workers |-> "absent"]
  /\ handle = [w \in Workers |-> FALSE]
  /\ threadId = [w \in Workers |-> Uninitialized]
  /\ threadFiber = [w \in Workers |-> FALSE]
  /\ quit = [w \in Workers |-> FALSE]
  /\ wpc = [w \in Workers |-> "none"]
  /\ task = [w \in Workers |-> "none"]
  /\ bound = [w \in Workers |-> None]
  /\ looked = [w \in Workers |-> [at |-> None, found |-> None]]

(***************************************************************************)
(* The main thread.                                                        *)
(***************************************************************************)
Calls(op) == todo # <<>> /\ Head(todo) = op
Return == todo' = Tail(todo) /\ at' = 1 /\ step' = "begin"

\* The next iteration of a loop over m_WorkerThreads, or the end of the call.
NextWorker ==
  IF at < NumCores THEN at' = at + 1 /\ step' = "begin" /\ UNCHANGED todo ELSE Return

Begin ==
  /\ todo = <<>> /\ programs < MaxPrograms
  /\ todo' \in Programs
  /\ at' = 1 /\ step' = "begin" /\ programs' = programs + 1 /\ terminated' = FALSE
  /\ UNCHANGED <<fault, poolVars, objectVars, threadVars>>

\* The constructors and H1WorkerThread::Initialize; the threads are yet to come.
NewWorkers ==
  /\ object' = [w \in Workers |-> "live"]
  /\ handle' = [w \in Workers |-> FALSE]
  /\ threadId' = [w \in Workers |-> Uninitialized]
  /\ threadFiber' = [w \in Workers |-> FALSE]
  /\ quit' = [w \in Workers |-> FALSE]
  /\ wpc' = [w \in Workers |-> "none"]
  /\ UNCHANGED <<task, bound, looked>>

InitializePool ==
  /\ Calls("InitializePool")
  /\ NewWorkers /\ Return
  /\ UNCHANGED <<programs, terminated, fault, poolVars>>

Initialize ==
  /\ Calls("Initialize")
  /\ scheduler' = TRUE /\ queues' = TRUE /\ fibers' = Fibers
  /\ freeFibers' = [i \in 1 .. NumSmall |-> i]
  /\ tasks' = <<>> /\ counter' = 0
  /\ NewWorkers /\ Return
  /\ UNCHANGED <<programs, terminated, fault>>

\* CreateFiber fails after n fibers: there are no free fibers, no workers and no
\* queues, and the client goes on, as the tests ignore what it is told.  (The heap
\* is not modelled: what the fiber contexts, the one of the failed fiber among
\* them, keep there stays when the scheduler is destroyed.)
InitializeFails ==
  /\ Calls("Initialize")
  /\ \E n \in 0 .. NumSmall + NumBig - 1 : fibers' = 1 .. n
  /\ scheduler' = TRUE /\ queues' = FALSE /\ tasks' = <<>> /\ counter' = 0
  /\ freeFibers' = <<>>
  /\ object' = [w \in Workers |-> "absent"]
  /\ Return
  /\ UNCHANGED <<programs, terminated, fault, handle, threadId, threadFiber, quit, threadVars>>

\* StartAll and SignalQuitAll where m_WorkerThreads is empty.
LoopOverNothing ==
  /\ Calls("StartAll") \/ Calls("SignalQuitAll")
  /\ object[at] = "absent"
  /\ Return
  /\ UNCHANGED <<programs, terminated, fault, poolVars, objectVars, threadVars>>

\* Mutant of CreateThread: without CREATE_SUSPENDED.
CreateThreadRunning ==
  /\ Calls("StartAll") /\ step = "begin" /\ object[at] = "live"
  /\ wpc' = [wpc EXCEPT ![at] = "ready"]
  /\ handle' = [handle EXCEPT ![at] = TRUE]
  /\ step' = "created"
  /\ UNCHANGED <<todo, at, programs, terminated, fault, poolVars, object, threadId, threadFiber, quit,
                 task, bound, looked>>

\* appCreateThread.  Its test of the outcome looks at the address of the handle,
\* which is never null: a thread that was not created passes for started.
CreateThread ==
  /\ Calls("StartAll") /\ step = "begin" /\ object[at] = "live"
  /\ \E created \in {TRUE} \cup {~CreateMayFail} :
       /\ handle' = [handle EXCEPT ![at] = created]
       /\ wpc' = [wpc EXCEPT ![at] = IF created THEN "suspended" ELSE "none"]
  /\ step' = "created"
  /\ UNCHANGED <<todo, at, programs, terminated, fault, poolVars, object, threadId, threadFiber, quit,
                 task, bound, looked>>

\* The system gives the thread of worker w the id w; GetThreadId(null) is 0.
SetThreadId ==
  /\ Calls("StartAll") /\ step = "created"
  /\ threadId' = [threadId EXCEPT ![at] = IF handle[at] THEN at ELSE None]
  /\ step' = "identified"
  /\ UNCHANGED <<todo, at, programs, terminated, fault, poolVars, object, handle, threadFiber, quit,
                 threadVars>>

ResumeThread ==
  /\ Calls("StartAll") /\ step = "identified"
  /\ wpc' = [wpc EXCEPT ![at] = IF @ = "suspended" THEN "ready" ELSE @]
  /\ NextWorker
  /\ UNCHANGED <<programs, terminated, fault, poolVars, objectVars, task, bound, looked>>

\* RunTasks on the main thread, for one task.
Submit(op, t) ==
  /\ Calls(op) /\ scheduler /\ queues
  /\ counter' = counter + 1
  /\ tasks' = Append(tasks, t)
  /\ Return
  /\ UNCHANGED <<programs, terminated, fault, scheduler, queues, fibers, freeFibers, objectVars,
                 threadVars>>

\* RunTasks returns false: there is no scheduler.
SubmitNowhere(op) ==
  /\ Calls(op) /\ ~scheduler
  /\ Return
  /\ UNCHANGED <<programs, terminated, fault, poolVars, objectVars, threadVars>>

\* RunTasks after a failed Initialize: GetTaskQueue returns null, which is
\* dereferenced.
SubmitToNull(op) ==
  /\ Calls(op) /\ scheduler /\ ~queues
  /\ counter' = counter + 1
  /\ fault' = "nullQueue"
  /\ UNCHANGED <<todo, at, step, programs, terminated, scheduler, queues, fibers, freeFibers, tasks,
                 objectVars, threadVars>>

RunTasks ==
  \/ Submit("RunNested", "nested") \/ Submit("RunTerminate", "terminate")
  \/ \E op \in {"RunNested", "RunTerminate"} : SubmitNowhere(op) \/ SubmitToNull(op)

\* The counter is the one that RunTasks has returned.
MainWaitForCounter ==
  /\ Calls("WaitForCounter") /\ (scheduler => counter = 0)
  /\ Return
  /\ UNCHANGED <<programs, terminated, fault, poolVars, objectVars, threadVars>>

MainSignalQuit ==
  /\ Calls("SignalQuitAll") /\ object[at] = "live"
  /\ quit' = [quit EXCEPT ![at] = TRUE]
  /\ NextWorker
  /\ UNCHANGED <<programs, terminated, fault, poolVars, object, handle, threadId, threadFiber,
                 threadVars>>

\* Mutant of Joined: bWaitAll is false.
JoinedAny == \/ \E w \in Workers : object[w] = "absent" \/ ~handle[w]
             \/ \E w \in Workers : wpc[w] = "exited"

\* Mutant of Joined: m_WorkerThreads.size() - 1 handles.
JoinedButLast == \/ \E w \in Workers : object[w] = "absent" \/ ~handle[w]
                 \/ \A w \in Workers \ {NumCores} : wpc[w] = "exited"

\* appJoinThread: WaitForMultipleObjects waits for all threads, and fails at
\* once when one of the handles is null or there is none; nobody looks at its
\* result.
Joined == \/ \E w \in Workers : object[w] = "absent" \/ ~handle[w]
          \/ \A w \in Workers : wpc[w] = "exited"

WaitAll ==
  /\ Calls("WaitAll") /\ Joined
  /\ terminated' = TRUE
  /\ Return
  /\ UNCHANGED <<programs, fault, poolVars, objectVars, threadVars>>

\* Mutant of DestroyFibers: the big fibers are forgotten.
DestroySmallFibers ==
  /\ Calls("Destroy") /\ step = "begin" /\ at = 1 /\ fibers \cap SmallFibers # {}
  /\ fibers' = fibers \ SmallFibers
  /\ UNCHANGED <<mainVars, scheduler, queues, freeFibers, tasks, counter, objectVars, threadVars>>

DestroyFibers ==
  /\ Calls("Destroy") /\ step = "begin" /\ at = 1 /\ fibers # {}
  /\ fibers' = {}
  /\ UNCHANGED <<mainVars, scheduler, queues, freeFibers, tasks, counter, objectVars, threadVars>>

\* H1WorkerThread::Destroy.
DestroyWorker ==
  /\ Calls("Destroy") \/ Calls("DestroyPool")
  /\ step = "begin" /\ object[at] = "live" /\ (at = 1 => fibers \cap SmallFibers = {})
  /\ threadFiber' = [threadFiber EXCEPT ![at] = FALSE]
  /\ quit' = [quit EXCEPT ![at] = TRUE]
  /\ step' = "delete"
  /\ UNCHANGED <<todo, at, programs, terminated, fault, poolVars, object, handle, threadId, threadVars>>

DeleteWorker ==
  /\ step = "delete"
  /\ object' = [object EXCEPT ![at] = "deleted"]
  /\ IF at < NumCores THEN at' = at + 1 /\ step' = "begin" /\ UNCHANGED todo
     ELSE IF Calls("DestroyPool") THEN Return
     ELSE step' = "queues" /\ UNCHANGED <<todo, at>>
  /\ UNCHANGED <<programs, terminated, fault, poolVars, handle, threadId, threadFiber, quit, threadVars>>

\* The rest of Destroy, and the end of the scheduler.  Without workers the loop
\* over them is empty.
DestroyQueues ==
  /\ Calls("Destroy")
  /\ \/ step = "queues"
     \/ step = "begin" /\ object[1] = "absent" /\ fibers \cap SmallFibers = {}
  /\ scheduler' = FALSE /\ queues' = FALSE /\ freeFibers' = <<>> /\ tasks' = <<>>
  /\ Return
  /\ UNCHANGED <<programs, terminated, fault, fibers, counter, objectVars, threadVars>>

Main ==
  \/ Begin \/ InitializePool \/ Initialize \/ InitializeFails
  \/ LoopOverNothing \/ CreateThread \/ SetThreadId \/ ResumeThread
  \/ RunTasks \/ MainWaitForCounter \/ MainSignalQuit \/ WaitAll
  \/ DestroyFibers \/ DestroyWorker \/ DeleteWorker \/ DestroyQueues

(***************************************************************************)
(* A worker thread.                                                        *)
(***************************************************************************)
Goto(w, pc) == wpc' = [wpc EXCEPT ![w] = pc]

\* Mutant of ConvertThreadToFiber: the thread resets its quit flag as it starts.
ConvertAndResetQuit(w) ==
  /\ wpc[w] = "ready"
  /\ threadFiber' = [threadFiber EXCEPT ![w] = TRUE]
  /\ quit' = [quit EXCEPT ![w] = FALSE]
  /\ Goto(w, "loop")
  /\ UNCHANGED <<mainVars, poolVars, object, handle, threadId, task, bound, looked>>

ConvertThreadToFiber(w) ==
  /\ wpc[w] = "ready"
  /\ threadFiber' = [threadFiber EXCEPT ![w] = TRUE]
  /\ Goto(w, "loop")
  /\ UNCHANGED <<mainVars, poolVars, object, handle, threadId, quit, task, bound, looked>>

CheckQuit(w) ==
  /\ wpc[w] = "loop"
  /\ Goto(w, IF quit[w] THEN "exited" ELSE "poll")
  /\ UNCHANGED <<mainVars, poolVars, objectVars, task, bound, looked>>

\* There is no scheduler, or nothing is found in its queues.
PollMiss(w) ==
  /\ wpc[w] = "poll"
  /\ Goto(w, "loop")
  /\ UNCHANGED <<mainVars, poolVars, objectVars, task, bound, looked>>

\* DequeueTask, DequeueFreeFiberContext, ConstructFiberContext, SwitchFiberContext.
TakeTask(w) ==
  /\ wpc[w] = "poll" /\ scheduler /\ tasks # <<>> /\ freeFibers # <<>>
  /\ task' = [task EXCEPT ![w] = Head(tasks)]
  /\ tasks' = Tail(tasks)
  /\ bound' = [bound EXCEPT ![w] = Head(freeFibers)]
  /\ freeFibers' = Tail(freeFibers)
  /\ looked' = [looked EXCEPT ![w] = [at |-> 1, found |-> None]]
  /\ Goto(w, IF Head(tasks) = "nested" THEN "find" ELSE "quitAll")
  /\ UNCHANGED <<mainVars, scheduler, queues, fibers, counter, objectVars>>

\* The free list is empty, and ConstructFiberContext indexes the vector with -1.
NoFreeFiber(w) ==
  /\ wpc[w] = "poll" /\ scheduler /\ tasks # <<>> /\ freeFibers = <<>>
  /\ task' = [task EXCEPT ![w] = Head(tasks)]
  /\ tasks' = Tail(tasks)
  /\ fault' = "noFiber"
  /\ UNCHANGED <<todo, at, step, programs, terminated, scheduler, queues, fibers, freeFibers, counter,
                 objectVars, wpc, bound, looked>>

DequeueTask(w) == TakeTask(w) \/ NoFreeFiber(w)

\* GetWorkerThreadById(appGetCurrentThreadId()), one iteration.  A member that
\* has not been set may hold any id.
SameId(w) ==
  /\ wpc[w] = "find"
  /\ threadId[looked[w].at] \in {w, Uninitialized}
  /\ looked' = [looked EXCEPT ![w].found = looked[w].at]
  /\ Goto(w, "decrement")
  /\ UNCHANGED <<mainVars, poolVars, objectVars, task, bound>>

OtherId(w) ==
  /\ wpc[w] = "find"
  /\ threadId[looked[w].at] # w
  /\ IF looked[w].at = NumCores
     THEN Goto(w, "decrement") /\ UNCHANGED looked
     ELSE looked' = [looked EXCEPT ![w].at = @ + 1] /\ UNCHANGED wpc
  /\ UNCHANGED <<mainVars, poolVars, objectVars, task, bound>>

\* SignalQuitAll in the body of the terminating task, one iteration.
SignalQuit(w) ==
  /\ wpc[w] = "quitAll"
  /\ quit' = [quit EXCEPT ![looked[w].at] = TRUE]
  /\ IF looked[w].at = NumCores
     THEN Goto(w, "decrement") /\ UNCHANGED looked
     ELSE looked' = [looked EXCEPT ![w].at = @ + 1] /\ UNCHANGED wpc
  /\ UNCHANGED <<mainVars, poolVars, object, handle, threadId, threadFiber, task, bound>>

\* The end of RunTask: the main thread may go on.
Decrement(w) ==
  /\ wpc[w] = "decrement"
  /\ counter' = counter - 1
  /\ Goto(w, "leave")
  /\ UNCHANGED <<mainVars, scheduler, queues, fibers, freeFibers, tasks, objectVars, task, bound, looked>>

\* The end of the fiber's entry point: back to the thread's fiber.
LeaveFiber(w) ==
  /\ wpc[w] = "leave"
  /\ bound' = [bound EXCEPT ![w] = None]
  /\ task' = [task EXCEPT ![w] = "none"]
  /\ Goto(w, "loop")
  /\ UNCHANGED <<mainVars, poolVars, objectVars, looked>>

Worker(w) ==
  \/ ConvertThreadToFiber(w) \/ CheckQuit(w) \/ PollMiss(w) \/ DequeueTask(w)
  \/ SameId(w) \/ OtherId(w) \/ SignalQuit(w) \/ Decrement(w) \/ LeaveFiber(w)

Next == fault = "none" /\ (Main \/ \E w \in Workers : Worker(w))

\* Threads are scheduled fairly; the queues may miss a task now and then.  The
\* program that follows is up to the client.
Spec ==
  /\ Init /\ [][Next]_vars
  /\ WF_vars(fault = "none" /\ Main /\ todo # <<>>)
  /\ \A w \in Workers :
       WF_vars(fault = "none" /\ Worker(w)) /\ SF_vars(fault = "none" /\ DequeueTask(w))

(***************************************************************************)
(* Properties.                                                             *)
(***************************************************************************)
Creates == {"Initialize", "InitializePool"}
Destroys == {"Destroy", "DestroyPool"}
Operations ==
  Creates \cup Destroys \cup
  {"StartAll", "RunNested", "RunTerminate", "WaitForCounter", "SignalQuitAll", "WaitAll"}

TypeOK ==
  /\ todo \in Seq(Operations) /\ at \in Workers \cup {None}
  /\ step \in {"begin", "created", "identified", "delete", "queues"}
  /\ programs \in 0 .. MaxPrograms /\ terminated \in BOOLEAN
  /\ fault \in {"none", "nullQueue", "noFiber"}
  /\ scheduler \in BOOLEAN /\ queues \in BOOLEAN /\ fibers \subseteq Fibers
  /\ freeFibers \in Seq(SmallFibers) /\ tasks \in Seq({"nested", "terminate"})
  /\ counter \in Int
  /\ object \in [Workers -> {"absent", "live", "deleted"}]
  /\ handle \in [Workers -> BOOLEAN]
  /\ threadId \in [Workers -> Workers \cup {None, Uninitialized}]
  /\ threadFiber \in [Workers -> BOOLEAN] /\ quit \in [Workers -> BOOLEAN]
  /\ wpc \in [Workers -> ThreadStates]
  /\ task \in [Workers -> {"none", "nested", "terminate"}]
  /\ bound \in [Workers -> Fibers \cup {None}]
  /\ looked \in [Workers -> [at : Workers \cup {None}, found : Workers \cup {None}]]

\* A thread that will still run has its worker object, its own fiber, the fiber
\* of its task, and, while it looks through the workers, all of their objects:
\* H1TaskScheduler::Destroy, which deletes the fibers first and the workers
\* next, comes after every thread has ended.
NothingDestroyedInUse ==
  \A w \in Workers :
    /\ Exists(w) => object[w] = "live"
    /\ wpc[w] \in OnFiber \cup {"loop", "poll"} => threadFiber[w]
    /\ wpc[w] \in OnFiber => bound[w] \in fibers /\ scheduler
    /\ wpc[w] \in {"find", "quitAll"} => \A v \in Workers : object[v] = "live"

\* When WaitAll has returned ("finally all thread successfully finished"), no
\* worker thread is left.
TerminatedMeansEnded == terminated => \A w \in Workers : ~Exists(w)

\* A task that asks for the current worker gets the worker it runs on, although
\* the loop reads m_ThreadId of workers that StartAll has yet to set.
FindsItself ==
  \A w \in Workers : wpc[w] = "decrement" /\ task[w] = "nested" => looked[w].found = w

\* Two programs of a process do not meet: when one has ended, no thread of it can
\* still run, RunTasks and WaitForCounter find no scheduler and no queue of it, and
\* the system has none of its fibers, even if Initialize failed half-way.
ProgramsApart ==
  todo = <<>> =>
    /\ \A w \in Workers : ~Exists(w) /\ object[w] # "live" /\ ~threadFiber[w]
    /\ fibers = {} /\ ~scheduler /\ ~queues

\* Every program comes to its end: the tasks are executed, the quit flags reach
\* all workers however late they start, and WaitAll returns.  A client that Initialize
\* has failed for ends too, unless RunTasks dereferences the null queue before.
ProgramsEnd == todo # <<>> ~> (todo = <<>> \/ fault # "none")

===============================================================================
