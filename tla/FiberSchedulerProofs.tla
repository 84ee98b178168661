------------------------ MODULE FiberSchedulerProofs ------------------------
(***************************************************************************)
(* Theorems about FiberScheduler that hold for every number of workers,    *)
(* fibers and tasks, in debug and release builds alike.                    *)
(***************************************************************************)
EXTENDS FiberScheduler, FiniteSetTheorems, TLAPS

-----------------------------------------------------------------------------
(* The inductive invariant.                                                *)

\* A worker holds a task exactly between DequeueTask and ConstructFiber.
HeldTask ==
  \A w \in Workers : newTask[w] \in Tasks <=> wpc[w] = "alloc"

\* A fiber in the free list has never been bound to a task.
FreeFiberUnbound ==
  \A f \in freeFibers : taskSlot[f] = NoTask /\ fpc[f] = "free"

\* Whatever can be switched to, or woken, has been bound to a task.
WorkersFiberBound ==
  \A w \in Workers :
    wpc[w] \in {"bind", "switch", "fiber"} =>
      slot[w] \in Fibers /\ taskSlot[slot[w]] \in Tasks

StartedFiberBound == \A f \in Fibers : fpc[f] # "free" => taskSlot[f] \in Tasks

ReadyFiberBound == \A f \in Fibers : ready[f] > 0 => taskSlot[f] \in Tasks

ParentFiberBound ==
  \A t \in Tasks : parent[t] \in Fibers => /\ taskSlot[parent[t]] \in Tasks
                                           /\ fpc[parent[t]] # "free"

\* A range is being enqueued only inside EnqueueTaskRange.
RangeInCall ==
  /\ \A f \in Fibers : fpc[f] # "enqueue" => toEnqueue[f] = {}
  /\ mainPc # "enqueue" => toEnqueue[Main] = {}

Bound ==
  /\ HeldTask
  /\ FreeFiberUnbound
  /\ WorkersFiberBound
  /\ StartedFiberBound
  /\ ReadyFiberBound
  /\ ParentFiberBound
  /\ RangeInCall

IInv == TypeOK /\ Bound /\ TaskInOnePlace /\ CounterExact

-----------------------------------------------------------------------------
(* Types.                                                                  *)

LEMMA BatchCardinality ==
  ASSUME NEW batch \in SUBSET Tasks
  PROVE  IsFiniteSet(batch) /\ Cardinality(batch) \in Nat
BY FS_Subset, FS_CardinalityType, ConstantsAssumption DEF ConstantsAssumption

LEMMA InitType == Init => TypeOK
BY ConstantsAssumption
DEF ConstantsAssumption, Init, TypeOK, Parents, WorkerPcs, FiberPcs, BodyPcs,
    MainPcs, Faults

LEMMA LoopType ==
  ASSUME TypeOK, NEW w \in Workers, Loop(w) \/ DequeueReady(w) \/ DequeueTask(w)
  PROVE  TypeOK'
<1> USE ConstantsAssumption DEF ConstantsAssumption, TypeOK, WorkerGoto,
      WorkerPcs, poolVars, flagVars, workerVars, fiberVars, callVars
<1>1. CASE CheckQuit(w)
  BY <1>1 DEF CheckQuit
<1>2. CASE DequeueReady(w)
  BY <1>2 DEF DequeueReady
<1>3. CASE ReadyMiss(w)
  BY <1>3 DEF ReadyMiss
<1>4. CASE DequeueTask(w)
  BY <1>4 DEF DequeueTask
<1>5. CASE TaskMiss(w)
  BY <1>5 DEF TaskMiss
<1>6. CASE ConstructFiber(w)
  BY <1>6 DEF ConstructFiber
<1>7. CASE NoFreeFiber(w)
  BY <1>7 DEF NoFreeFiber, Faults
<1>8. CASE SetOwner(w)
  BY <1>8 DEF SetOwner
<1>9. CASE SwitchFiber(w)
  BY <1>9 DEF SwitchFiber, FiberPcs, BodyPcs, DecrementedPcs
<1>10. CASE SwitchBadFiber(w)
  BY <1>10 DEF SwitchBadFiber, Faults
<1> QED
  BY <1>1, <1>2, <1>3, <1>4, <1>5, <1>6, <1>7, <1>8, <1>9, <1>10 DEF Loop

LEMMA EnqueueOneType ==
  ASSUME TypeOK, NEW p \in Parents, EnqueueOne(p)
  PROVE  highQueue' \in SUBSET Tasks /\ toEnqueue' \in [Parents -> SUBSET Tasks]
BY DEF TypeOK, EnqueueOne

LEMMA FiberType ==
  ASSUME TypeOK, WorkersFiberBound, NEW w \in Workers,
         Fiber(w) \/ DanglingTask(w)
  PROVE  TypeOK'
<1> USE ConstantsAssumption DEF ConstantsAssumption, TypeOK, WorkerGoto,
      FiberGoto, poolVars, flagVars, workerVars, fiberVars, callVars
<1>1. CASE EnqueueTask(w)
  <2>1. slot[w] \in Parents
    BY <1>1 DEF EnqueueTask, At, WorkersFiberBound, Parents
  <2>2. highQueue' \in SUBSET Tasks /\ toEnqueue' \in [Parents -> SUBSET Tasks]
    BY <1>1, <2>1, EnqueueOneType DEF EnqueueTask
  <2> QED
    BY <1>1, <2>2 DEF EnqueueTask, FiberPcs, BodyPcs
<1>2. CASE MarkWaiting(w)
  BY <1>2 DEF MarkWaiting, FiberPcs, BodyPcs
<1>3. CASE Suspend(w)
  BY <1>3 DEF Suspend, FiberPcs, BodyPcs, WorkerPcs
<1>4. CASE SpinDone(w)
  BY <1>4 DEF SpinDone, FiberPcs, BodyPcs
<1>5. CASE Decrement(w)
  <2>1. counter' \in [Parents -> Int]
    <3> DEFINE p == parent[taskSlot[slot[w]]]
    <3>1. counter' = [counter EXCEPT ![p] = @ - 1]
      BY <1>5 DEF Decrement
    <3> HIDE DEF p
    <3>2. ASSUME NEW q \in Parents
          PROVE  counter'[q] \in Int
      BY <3>1
    <3> QED
      BY <3>1, <3>2
  <2> QED
    BY <1>5, <2>1 DEF Decrement, FiberPcs, DecrementedPcs
<1>6. CASE LoadCounter(w)
  BY <1>6 DEF LoadCounter, FiberPcs, DecrementedPcs
<1>7. CASE ClearWaiting(w)
  BY <1>7 DEF ClearWaiting, FiberPcs, DecrementedPcs
<1>8. CASE PushReady(w)
  <2>1. ready' \in [Fibers -> Nat]
    <3> DEFINE p == parent[taskSlot[slot[w]]]
    <3>1. ready' = [ready EXCEPT ![p] = @ + 1]
      BY <1>8 DEF PushReady
    <3> HIDE DEF p
    <3>2. ASSUME NEW q \in Fibers
          PROVE  ready'[q] \in Nat
      BY <3>1
    <3> QED
      BY <3>1, <3>2
  <2> QED
    BY <1>8, <2>1 DEF PushReady, FiberPcs, DecrementedPcs
<1>9. CASE LeaveFiber(w)
  BY <1>9 DEF LeaveFiber, FiberPcs, DecrementedPcs, WorkerPcs
<1>10. CASE LeaveBadOwner(w)
  BY <1>10 DEF LeaveBadOwner, Faults
<1>11. CASE DanglingTask(w)
  BY <1>11 DEF DanglingTask, Faults
<1> QED
  BY <1>1, <1>2, <1>3, <1>4, <1>5, <1>6, <1>7, <1>8, <1>9, <1>10, <1>11
  DEF Fiber

LEMMA ForkType ==
  ASSUME TypeOK, NEW p \in Parents, NEW batch \in SUBSET Tasks, Fork(p, batch)
  PROVE  /\ counter' \in [Parents -> Int]
         /\ parent' \in [Tasks -> Parents \cup {NoParent}]
         /\ toEnqueue' \in [Parents -> SUBSET Tasks]
         /\ forked' \in [Parents -> BOOLEAN]
BY BatchCardinality DEF TypeOK, Fork, Declared

LEMMA BodyType ==
  ASSUME TypeOK, WorkersFiberBound, NEW w \in Workers, Body(w)
  PROVE  TypeOK'
<1> USE DEF poolVars, flagVars, workerVars, fiberVars, callVars
<1>1. ASSUME NEW batch \in SUBSET Tasks, RunTasks(w, batch)
      PROVE  TypeOK'
  <2>1. slot[w] \in Parents
    BY <1>1 DEF RunTasks, At, WorkersFiberBound, Parents
  <2>2. Fork(slot[w], batch)
    BY <1>1 DEF RunTasks
  <2> QED
    BY <1>1, <2>1, <2>2, ForkType
    DEF RunTasks, FiberGoto, TypeOK, FiberPcs, BodyPcs
<1>2. CASE WaitForCounter(w)
  BY <1>2 DEF WaitForCounter, FiberGoto, TypeOK, FiberPcs, BodyPcs
<1>3. CASE SignalQuit(w)
  BY <1>3 DEF SignalQuit, TypeOK
<1>4. CASE BodyReturn(w)
  BY <1>4 DEF BodyReturn, FiberGoto, TypeOK, FiberPcs
<1> QED
  BY <1>1, <1>2, <1>3, <1>4 DEF Body

LEMMA MainType ==
  ASSUME TypeOK, MainThread
  PROVE  TypeOK'
<1> USE DEF poolVars, flagVars, workerVars, fiberVars, callVars, MainPcs
<1>1. ASSUME NEW batch \in SUBSET Tasks, MainRunTasks(batch)
      PROVE  TypeOK'
  <2>1. Main \in Parents /\ Fork(Main, batch)
    BY <1>1 DEF MainRunTasks, Parents
  <2> QED
    BY <1>1, <2>1, ForkType DEF MainRunTasks, TypeOK
<1>2. CASE MainEnqueueTask
  <2>1. highQueue' \in SUBSET Tasks /\ toEnqueue' \in [Parents -> SUBSET Tasks]
    BY <1>2, EnqueueOneType DEF MainEnqueueTask, Parents
  <2> QED
    BY <1>2, <2>1 DEF MainEnqueueTask, TypeOK
<1>3. CASE MainWaitForCounter
  BY <1>3 DEF MainWaitForCounter, TypeOK
<1>4. CASE MainSpinDone
  BY <1>4 DEF MainSpinDone, TypeOK
<1>5. CASE WaitAll
  BY <1>5 DEF WaitAll, TypeOK
<1> QED
  BY <1>1, <1>2, <1>3, <1>4, <1>5 DEF MainThread

LEMMA StutterType == ASSUME TypeOK, UNCHANGED vars PROVE TypeOK'
BY DEF TypeOK, vars, poolVars, flagVars, workerVars, fiberVars, callVars

LEMMA NextType == ASSUME TypeOK, WorkersFiberBound, [Next]_vars PROVE TypeOK'
BY LoopType, FiberType, BodyType, MainType, StutterType DEF Next, Joined

-----------------------------------------------------------------------------
(* Every fiber that is switched to or woken has been bound to a task.      *)

LEMMA InitBound == Init => Bound
BY ConstantsAssumption
DEF ConstantsAssumption, Init, Bound, HeldTask, FreeFiberUnbound,
    WorkersFiberBound, StartedFiberBound, ReadyFiberBound, ParentFiberBound,
    RangeInCall, Parents

LEMMA LoopBound ==
  ASSUME TypeOK, Bound, NEW w \in Workers, Loop(w) \/ DequeueReady(w) \/ DequeueTask(w)
  PROVE  Bound'
<1> USE ConstantsAssumption DEF ConstantsAssumption, TypeOK, Bound, HeldTask,
      FreeFiberUnbound, WorkersFiberBound, StartedFiberBound, ReadyFiberBound,
      ParentFiberBound, RangeInCall, Parents, poolVars, flagVars, workerVars,
      fiberVars, callVars
<1>1. CASE CheckQuit(w)
  BY <1>1 DEF CheckQuit, WorkerGoto
<1>2. CASE DequeueReady(w)
  BY <1>2 DEF DequeueReady, WorkerGoto
<1>3. CASE ReadyMiss(w)
  BY <1>3 DEF ReadyMiss, WorkerGoto
<1>4. CASE DequeueTask(w)
  BY <1>4 DEF DequeueTask, WorkerGoto
<1>5. CASE TaskMiss(w)
  BY <1>5 DEF TaskMiss, WorkerGoto
<1>6. CASE ConstructFiber(w)
  BY <1>6 DEF ConstructFiber, WorkerGoto
<1>7. CASE NoFreeFiber(w)
  BY <1>7 DEF NoFreeFiber
<1>8. CASE SetOwner(w)
  BY <1>8 DEF SetOwner, WorkerGoto
<1>9. CASE SwitchFiber(w)
  BY <1>9 DEF SwitchFiber, WorkerGoto
<1>10. CASE SwitchBadFiber(w)
  BY <1>10 DEF SwitchBadFiber
<1> QED
  BY <1>1, <1>2, <1>3, <1>4, <1>5, <1>6, <1>7, <1>8, <1>9, <1>10 DEF Loop

LEMMA FiberBound ==
  ASSUME TypeOK, Bound, NEW w \in Workers, Fiber(w) \/ DanglingTask(w)
  PROVE  Bound'
<1> USE ConstantsAssumption DEF ConstantsAssumption, TypeOK, Bound, HeldTask,
      FreeFiberUnbound, WorkersFiberBound, StartedFiberBound, ReadyFiberBound,
      ParentFiberBound, RangeInCall, Parents, poolVars, flagVars, workerVars,
      fiberVars, callVars
<1>1. CASE EnqueueTask(w)
  BY <1>1 DEF EnqueueTask, At, FiberGoto, EnqueueOne
<1>2. CASE MarkWaiting(w)
  BY <1>2 DEF MarkWaiting, At, FiberGoto
<1>3. CASE Suspend(w)
  BY <1>3 DEF Suspend, At, FiberGoto, WorkerGoto
<1>4. CASE SpinDone(w)
  BY <1>4 DEF SpinDone, At, FiberGoto
<1>5. CASE Decrement(w)
  BY <1>5 DEF Decrement, At, FiberGoto
<1>6. CASE LoadCounter(w)
  BY <1>6 DEF LoadCounter, At, FiberGoto
<1>7. CASE ClearWaiting(w)
  BY <1>7 DEF ClearWaiting, At, FiberGoto
<1>8. CASE PushReady(w)
  BY <1>8 DEF PushReady, At, FiberGoto
<1>9. CASE LeaveFiber(w)
  BY <1>9 DEF LeaveFiber, At, FiberGoto, WorkerGoto
<1>10. CASE LeaveBadOwner(w)
  BY <1>10 DEF LeaveBadOwner
<1>11. CASE DanglingTask(w)
  BY <1>11 DEF DanglingTask
<1> QED
  BY <1>1, <1>2, <1>3, <1>4, <1>5, <1>6, <1>7, <1>8, <1>9, <1>10, <1>11 DEF Fiber

LEMMA BodyBound ==
  ASSUME TypeOK, Bound, NEW w \in Workers, Body(w)
  PROVE  Bound'
<1> USE ConstantsAssumption DEF ConstantsAssumption, TypeOK, Bound, HeldTask,
      FreeFiberUnbound, WorkersFiberBound, StartedFiberBound, ReadyFiberBound,
      ParentFiberBound, RangeInCall, Parents, At, FiberGoto, poolVars, flagVars,
      workerVars, fiberVars, callVars
<1>1. ASSUME NEW batch \in SUBSET Tasks, RunTasks(w, batch)
      PROVE  Bound'
  BY <1>1 DEF RunTasks, Fork
<1>2. CASE WaitForCounter(w)
  BY <1>2 DEF WaitForCounter
<1>3. CASE SignalQuit(w)
  BY <1>3 DEF SignalQuit
<1>4. CASE BodyReturn(w)
  BY <1>4 DEF BodyReturn
<1> QED
  BY <1>1, <1>2, <1>3, <1>4 DEF Body

LEMMA MainBound ==
  ASSUME TypeOK, Bound, MainThread
  PROVE  Bound'
<1> USE ConstantsAssumption DEF ConstantsAssumption, TypeOK, Bound, HeldTask,
      FreeFiberUnbound, WorkersFiberBound, StartedFiberBound, ReadyFiberBound,
      ParentFiberBound, RangeInCall, Parents, poolVars, flagVars, workerVars,
      fiberVars, callVars
<1>1. ASSUME NEW batch \in SUBSET Tasks, MainRunTasks(batch)
      PROVE  Bound'
  BY <1>1 DEF MainRunTasks, Fork
<1>2. CASE MainEnqueueTask
  BY <1>2 DEF MainEnqueueTask, EnqueueOne
<1>3. CASE MainWaitForCounter
  BY <1>3 DEF MainWaitForCounter
<1>4. CASE MainSpinDone
  BY <1>4 DEF MainSpinDone
<1>5. CASE WaitAll
  BY <1>5 DEF WaitAll
<1> QED
  BY <1>1, <1>2, <1>3, <1>4, <1>5 DEF MainThread

LEMMA StutterBound == ASSUME Bound, UNCHANGED vars PROVE Bound'
BY DEF Bound, HeldTask, FreeFiberUnbound, WorkersFiberBound, StartedFiberBound,
       ReadyFiberBound, ParentFiberBound, RangeInCall, vars, poolVars, flagVars,
       workerVars, fiberVars, callVars

LEMMA NextBound == ASSUME TypeOK, Bound, [Next]_vars PROVE TypeOK' /\ Bound'
<1>1. TypeOK'
  BY NextType DEF Bound
<1>2. Bound'
  BY LoopBound, FiberBound, BodyBound, MainBound, StutterBound DEF Next, Joined
<1> QED
  BY <1>1, <1>2

-----------------------------------------------------------------------------
(* A submitted task is in exactly one place.                               *)

\* The variables that say where the tasks are.
placeVars == <<highQueue, newTask, taskSlot, toEnqueue, parent>>

LEMMA PlacesUnchanged ==
  ASSUME TaskInOnePlace, UNCHANGED placeVars
  PROVE  TaskInOnePlace'
BY DEF placeVars, TaskInOnePlace, Places, Submitted

\* A task that moves from one place to another is still in one place.
LEMMA PlacesMove ==
  ASSUME NEW t, NEW from, NEW to, TaskInOnePlace, t \in Tasks, 
         Submitted(t), from \in Places(t),
         Places(t)' = (Places(t) \ {from}) \cup {to}
  PROVE  \E pl \in Places(t)' : Places(t)' = {pl}
<1>1. Places(t) = {from}
  BY DEF TaskInOnePlace
<1> QED
  BY <1>1

LEMMA DequeueTaskPlaces ==
  ASSUME TypeOK, Bound, TaskInOnePlace, NEW w \in Workers, DequeueTask(w)
  PROVE  TaskInOnePlace'
<1> USE DEF TypeOK, Bound, HeldTask
<1>1. PICK t \in highQueue : /\ highQueue' = highQueue \ {t}
                             /\ newTask' = [newTask EXCEPT ![w] = t]
  BY DEF DequeueTask
<1>2. /\ t \in Tasks
      /\ newTask[w] \notin Tasks
      /\ UNCHANGED <<taskSlot, toEnqueue, parent>>
  BY DEF DequeueTask, fiberVars, callVars
<1>3. ASSUME NEW s \in Tasks, s # t
      PROVE  Places(s)' = Places(s)
  BY <1>1, <1>2, <1>3 DEF Places
<1>4. Places(t)' = (Places(t) \ {<<"queue", Main>>}) \cup {<<"worker", w>>}
  BY <1>1, <1>2 DEF Places
<1>5. Submitted(t) /\ <<"queue", Main>> \in Places(t)
  BY <1>2, <1>1 DEF TaskInOnePlace, Places
<1>6. \E pl \in Places(t)' : Places(t)' = {pl}
  BY <1>2, <1>4, <1>5, PlacesMove
<1>7. \A s \in Tasks : Submitted(s)' <=> Submitted(s)
  BY <1>2 DEF Submitted
<1> QED
  BY <1>3, <1>5, <1>6, <1>7 DEF TaskInOnePlace

LEMMA ConstructFiberPlaces ==
  ASSUME TypeOK, Bound, TaskInOnePlace, NEW w \in Workers, ConstructFiber(w)
  PROVE  TaskInOnePlace'
<1> USE DEF TypeOK, Bound, HeldTask, FreeFiberUnbound
<1>0. PICK t : t = newTask[w]
  OBVIOUS
<1>1. PICK f \in freeFibers : taskSlot' = [taskSlot EXCEPT ![f] = t]
  BY <1>0 DEF ConstructFiber
<1>2. /\ t \in Tasks
      /\ f \in Fibers /\ taskSlot[f] \notin Tasks
      /\ newTask' = [newTask EXCEPT ![w] = NoTask]
      /\ UNCHANGED <<highQueue, toEnqueue, parent>>
  BY <1>0, ConstantsAssumption DEF ConstructFiber, callVars, ConstantsAssumption
<1>3. NoTask \notin Tasks
  BY ConstantsAssumption DEF ConstantsAssumption
<1>5. ASSUME NEW s \in Tasks, s # t
      PROVE  Places(s)' = Places(s)
  BY <1>0, <1>1, <1>2, <1>3, <1>5 DEF Places
<1>6. <<"worker", w>> \in Places(t) /\ Submitted(t)
  BY <1>0, <1>2 DEF TaskInOnePlace, Places
<1>7. Places(t)' = (Places(t) \ {<<"worker", w>>}) \cup {<<"fiber", f>>}
  BY <1>0, <1>1, <1>2, <1>3 DEF Places
<1>8. \E pl \in Places(t)' : Places(t)' = {pl}
  BY <1>2, <1>6, <1>7, PlacesMove
<1>9. \A s \in Tasks : Submitted(s)' <=> Submitted(s)
  BY <1>2 DEF Submitted
<1> QED
  BY <1>2, <1>5, <1>6, <1>8, <1>9 DEF TaskInOnePlace

LEMMA EnqueueOnePlaces ==
  ASSUME TypeOK, TaskInOnePlace, NEW p \in Parents, EnqueueOne(p),
         UNCHANGED <<newTask, taskSlot, parent>>
  PROVE  TaskInOnePlace'
<1> USE DEF TypeOK
<1>1. PICK t \in toEnqueue[p] :
        /\ highQueue' = highQueue \cup {t}
        /\ toEnqueue' = [toEnqueue EXCEPT ![p] = @ \ {t}]
  BY DEF EnqueueOne
<1>2. t \in Tasks
  BY <1>1
<1>3. ASSUME NEW s \in Tasks, s # t
      PROVE  Places(s)' = Places(s)
  BY <1>1, <1>3 DEF Places
<1>4. <<"call", p>> \in Places(t) /\ Submitted(t)
  BY <1>2 DEF TaskInOnePlace, Places
<1>5. Places(t)' = (Places(t) \ {<<"call", p>>}) \cup {<<"queue", Main>>}
  BY <1>1, <1>2 DEF Places
<1> QED
  BY <1>2, <1>3, <1>4, <1>5, PlacesMove DEF TaskInOnePlace, Submitted

LEMMA ForkPlaces ==
  ASSUME TypeOK, TaskInOnePlace, NEW p \in Parents, NEW batch \in SUBSET Tasks,
         Fork(p, batch), toEnqueue[p] = {},
         UNCHANGED <<highQueue, newTask, taskSlot>>
  PROVE  TaskInOnePlace'
<1> USE DEF TypeOK, Fork, Declared
<1>1. NoParent \notin Parents
  BY ConstantsAssumption DEF ConstantsAssumption
<1>2. ASSUME NEW t \in batch
      PROVE  Places(t)' = {<<"call", p>>} /\ Submitted(t)'
  <2>1. Places(t) = {}
    BY DEF TaskInOnePlace, Submitted
  <2>2. Places(t)' = Places(t) \cup {<<"call", p>>}
    BY DEF Places
  <2> QED
    BY <1>1, <2>1, <2>2 DEF Submitted
<1>3. ASSUME NEW t \in Tasks \ batch
      PROVE  Places(t)' = Places(t) /\ (Submitted(t)' <=> Submitted(t))
  BY DEF Places, Submitted
<1> QED
  BY <1>2, <1>3 DEF TaskInOnePlace

LEMMA NextPlaces ==
  ASSUME TypeOK, Bound, TaskInOnePlace, [Next]_vars
  PROVE  TaskInOnePlace'
<1> USE DEF placeVars, vars, poolVars, flagVars, workerVars, fiberVars, callVars
<1>1. ASSUME NEW w \in Workers, Loop(w) \/ DequeueReady(w)
      PROVE  TaskInOnePlace'
  <2>1. CASE ConstructFiber(w)
    BY <2>1, ConstructFiberPlaces
  <2>2. CASE ~ConstructFiber(w)
    <3>1. UNCHANGED placeVars
      BY <1>1, <2>2
      DEF Loop, CheckQuit, ReadyMiss, TaskMiss, NoFreeFiber, SetOwner,
          SwitchFiber, SwitchBadFiber, DequeueReady
    <3> QED
      BY <3>1, PlacesUnchanged
  <2> QED
    BY <2>1, <2>2
<1>2. ASSUME NEW w \in Workers, DequeueTask(w)
      PROVE  TaskInOnePlace'
  BY <1>2, DequeueTaskPlaces
<1>3. ASSUME NEW w \in Workers, Fiber(w) \/ DanglingTask(w)
      PROVE  TaskInOnePlace'
  <2>1. CASE EnqueueTask(w)
    <3>1. slot[w] \in Parents
      BY <2>1 DEF EnqueueTask, At, Bound, WorkersFiberBound, Parents
    <3> QED
      BY <2>1, <3>1, EnqueueOnePlaces DEF EnqueueTask
  <2>2. CASE ~EnqueueTask(w)
    <3>1. UNCHANGED placeVars
      BY <1>3, <2>2
      DEF Fiber, MarkWaiting, Suspend, SpinDone, Decrement, LoadCounter,
          ClearWaiting, PushReady, LeaveFiber, LeaveBadOwner, DanglingTask
    <3> QED
      BY <3>1, PlacesUnchanged
  <2> QED
    BY <2>1, <2>2
<1>4. ASSUME NEW w \in Workers, Body(w)
      PROVE  TaskInOnePlace'
  <2>1. ASSUME NEW batch \in SUBSET Tasks, RunTasks(w, batch)
        PROVE  TaskInOnePlace'
    <3>1. slot[w] \in Parents /\ toEnqueue[slot[w]] = {}
      BY <2>1 DEF RunTasks, At, Bound, WorkersFiberBound, RangeInCall, Parents
    <3> QED
      BY <2>1, <3>1, ForkPlaces DEF RunTasks
  <2>2. CASE WaitForCounter(w) \/ SignalQuit(w) \/ BodyReturn(w)
    BY <2>2, PlacesUnchanged DEF WaitForCounter, SignalQuit, BodyReturn
  <2> QED
    BY <1>4, <2>1, <2>2 DEF Body
<1>5. CASE MainThread
  <2>1. ASSUME NEW batch \in SUBSET Tasks, MainRunTasks(batch)
        PROVE  TaskInOnePlace'
    BY <2>1, ForkPlaces DEF MainRunTasks, Bound, RangeInCall, Parents
  <2>2. CASE MainEnqueueTask
    BY <2>2, EnqueueOnePlaces DEF MainEnqueueTask, Parents
  <2>3. CASE MainWaitForCounter \/ MainSpinDone \/ WaitAll
    BY <2>3, PlacesUnchanged DEF MainWaitForCounter, MainSpinDone, WaitAll
  <2> QED
    BY <1>5, <2>1, <2>2, <2>3 DEF MainThread
<1>6. CASE UNCHANGED vars
  BY <1>6, PlacesUnchanged
<1> QED
  BY <1>1, <1>2, <1>3, <1>4, <1>5, <1>6 DEF Next, Joined

LEMMA InitPlaces == Init => TaskInOnePlace
BY ConstantsAssumption
DEF ConstantsAssumption, Init, TaskInOnePlace, Places, Submitted

-----------------------------------------------------------------------------
(* A counter is the number of tasks it still has to hear from.             *)

LEMMA OutstandingFinite ==
  ASSUME NEW p PROVE IsFiniteSet(Outstanding(p))
BY FS_Subset, ConstantsAssumption DEF ConstantsAssumption, Outstanding

LEMMA CountersUnchanged ==
  ASSUME CounterExact, UNCHANGED <<counter, parent>>,
         \A t \in Tasks : Decremented(t)' <=> Decremented(t)
  PROVE  CounterExact'
<1>1. ASSUME NEW p \in Parents PROVE Outstanding(p)' = Outstanding(p)
  BY DEF Outstanding
<1> QED
  BY <1>1 DEF CounterExact

\* The tasks of a new range have no fiber yet, so none has been decremented.
LEMMA ForkCounter ==
  ASSUME TypeOK, TaskInOnePlace, CounterExact, NEW p \in Parents,
         NEW batch \in SUBSET Tasks, Fork(p, batch),
         \A t \in Tasks : Decremented(t)' <=> Decremented(t)
  PROVE  CounterExact'
<1> USE DEF TypeOK
<1>1. batch \subseteq Declared
  BY DEF Fork
<1>2. ASSUME NEW t \in batch
      PROVE  t \notin Outstanding(p) /\ ~Decremented(t)
  <2>1. parent[t] = NoParent /\ NoParent \notin Parents
    BY <1>1, ConstantsAssumption DEF Declared, ConstantsAssumption
  <2>2. Places(t) = {}
    BY <2>1 DEF TaskInOnePlace, Submitted
  <2>3. ASSUME NEW f \in Fibers, taskSlot[f] = t
        PROVE  FALSE
    <3>1. <<"fiber", f>> \in Places(t)
      BY <2>3 DEF Places
    <3> QED
      BY <2>2, <3>1
  <2> QED
    BY <2>1, <2>3 DEF Outstanding, Decremented
<1>3. Outstanding(p)' = Outstanding(p) \cup batch
  BY <1>2 DEF Fork, Outstanding
<1>4. Cardinality(Outstanding(p)') = Cardinality(Outstanding(p)) + Cardinality(batch)
  <2>1. Outstanding(p) \cap batch = {}
    BY <1>2
  <2>2. IsFiniteSet(batch) /\ Cardinality(batch) \in Nat
    BY BatchCardinality
  <2>3. IsFiniteSet(Outstanding(p)) /\ Cardinality(Outstanding(p)) \in Nat
    BY OutstandingFinite, FS_CardinalityType
  <2>4. Cardinality(Outstanding(p) \cup batch)
          = Cardinality(Outstanding(p)) + Cardinality(batch)
              - Cardinality(Outstanding(p) \cap batch)
    BY <2>2, <2>3, FS_Union
  <2>5. Cardinality(Outstanding(p) \cap batch) = 0
    BY <2>1, FS_EmptySet
  <2> QED
    BY <1>3, <2>2, <2>3, <2>4, <2>5
<1>5. counter'[p] = counter[p] + Cardinality(batch)
  BY DEF Fork
<1>6. ASSUME NEW q \in Parents, q # p
      PROVE  counter'[q] = counter[q] /\ Outstanding(q)' = Outstanding(q)
  BY <1>1, <1>6, ConstantsAssumption
  DEF Fork, Outstanding, Declared, ConstantsAssumption
<1> QED
  BY <1>4, <1>5, <1>6 DEF CounterExact

\* A fiber that decrements takes exactly its own task out of the tasks that are
\* outstanding: no other fiber is or was bound to it.
LEMMA DecrementCounter ==
  ASSUME TypeOK, Bound, TaskInOnePlace, CounterExact,
         NEW w \in Workers, Decrement(w)
  PROVE  CounterExact'
<1> USE DEF TypeOK
<1>1. PICK f \in Fibers : f = slot[w] /\ fpc[f] = "dec"
  BY DEF Decrement, At, Bound, WorkersFiberBound
<1>2. PICK t \in Tasks : t = taskSlot[f]
  BY <1>1 DEF Bound, StartedFiberBound
<1>3. <<"fiber", f>> \in Places(t)
  BY <1>2 DEF Places
<1>4. PICK p \in Parents : p = parent[t]
  BY <1>3 DEF TaskInOnePlace, Submitted
<1>5. \A g \in Fibers : taskSlot[g] = t => g = f
  <2>1. \E pl \in Places(t) : Places(t) = {pl}
    BY <1>3 DEF TaskInOnePlace
  <2>2. ASSUME NEW g \in Fibers, taskSlot[g] = t
        PROVE  g = f
    <3>1. <<"fiber", g>> \in Places(t)
      BY <2>2 DEF Places
    <3> QED
      BY <1>3, <2>1, <3>1
  <2> QED
    BY <2>2
<1>6. /\ counter' = [counter EXCEPT ![p] = @ - 1]
      /\ fpc' = [fpc EXCEPT ![f] = "load"]
      /\ UNCHANGED <<taskSlot, parent>>
  BY <1>1, <1>2, <1>4 DEF Decrement, FiberGoto, callVars
<1>7. ~Decremented(t) /\ Decremented(t)'
  BY <1>1, <1>2, <1>5, <1>6 DEF Decremented, DecrementedPcs
<1>8. ASSUME NEW s \in Tasks, s # t
      PROVE  Decremented(s)' <=> Decremented(s)
  BY <1>2, <1>6, <1>8 DEF Decremented
<1>9. t \in Outstanding(p) /\ Outstanding(p)' = Outstanding(p) \ {t}
  BY <1>4, <1>6, <1>7, <1>8 DEF Outstanding
<1>10. Cardinality(Outstanding(p)') = Cardinality(Outstanding(p)) - 1
  BY <1>9, OutstandingFinite, FS_RemoveElement
<1>11. ASSUME NEW q \in Parents, q # p
       PROVE  Outstanding(q)' = Outstanding(q)
  BY <1>4, <1>6, <1>8, <1>11 DEF Outstanding
<1> QED
  BY <1>6, <1>10, <1>11 DEF CounterExact

\* No other step takes a fiber over the decrement, or binds one beyond it.
LEMMA OtherStepsDecremented ==
  ASSUME TypeOK, Bound, [Next]_vars, \A w \in Workers : ~Decrement(w)
  PROVE  \A t \in Tasks : Decremented(t)' <=> Decremented(t)
<1> USE DEF TypeOK, Bound, WorkersFiberBound, FreeFiberUnbound, Decremented,
      DecrementedPcs, vars, poolVars, flagVars, workerVars, fiberVars, callVars
<1>1. ASSUME NEW w \in Workers, Loop(w) \/ DequeueReady(w) \/ DequeueTask(w)
      PROVE  \A t \in Tasks : Decremented(t)' <=> Decremented(t)
  <2>1. CASE ConstructFiber(w)
    BY <2>1 DEF ConstructFiber
  <2>2. CASE SwitchFiber(w)
    BY <2>2 DEF SwitchFiber
  <2>3. CASE ~ConstructFiber(w) /\ ~SwitchFiber(w)
    BY <1>1, <2>3
    DEF Loop, CheckQuit, ReadyMiss, TaskMiss, NoFreeFiber, SetOwner,
        SwitchBadFiber, DequeueReady, DequeueTask
  <2> QED
    BY <2>1, <2>2, <2>3
<1>2. ASSUME NEW w \in Workers, Fiber(w) \/ DanglingTask(w)
      PROVE  \A t \in Tasks : Decremented(t)' <=> Decremented(t)
  <2> USE DEF At, FiberGoto
  <2>1. CASE EnqueueTask(w) \/ MarkWaiting(w) \/ Suspend(w) \/ SpinDone(w)
    BY <2>1 DEF EnqueueTask, MarkWaiting, Suspend, SpinDone
  <2>2. CASE LoadCounter(w) \/ ClearWaiting(w) \/ PushReady(w) \/ LeaveFiber(w)
    BY <2>2 DEF LoadCounter, ClearWaiting, PushReady, LeaveFiber
  <2>3. CASE LeaveBadOwner(w) \/ DanglingTask(w)
    BY <2>3 DEF LeaveBadOwner, DanglingTask
  <2> QED
    BY <1>2, <2>1, <2>2, <2>3 DEF Fiber
<1>3. ASSUME NEW w \in Workers, Body(w)
      PROVE  \A t \in Tasks : Decremented(t)' <=> Decremented(t)
  <2> USE DEF At, FiberGoto
  <2>1. ASSUME NEW batch \in SUBSET Tasks, RunTasks(w, batch)
        PROVE  \A t \in Tasks : Decremented(t)' <=> Decremented(t)
    BY <2>1 DEF RunTasks
  <2>2. CASE WaitForCounter(w) \/ SignalQuit(w)
    BY <2>2 DEF WaitForCounter, SignalQuit
  <2>3. CASE BodyReturn(w)
    BY <2>3 DEF BodyReturn
  <2> QED
    BY <1>3, <2>1, <2>2, <2>3 DEF Body
<1>4. CASE MainThread \/ UNCHANGED vars
  BY <1>4
  DEF MainThread, MainRunTasks, MainEnqueueTask, MainWaitForCounter,
      MainSpinDone, WaitAll
<1> QED
  BY <1>1, <1>2, <1>3, <1>4 DEF Next, Joined

LEMMA NextCounter ==
  ASSUME TypeOK, Bound, TaskInOnePlace, CounterExact, [Next]_vars
  PROVE  CounterExact'
<1> USE DEF vars, poolVars, flagVars, workerVars, fiberVars, callVars
<1>1. ASSUME NEW w \in Workers, Decrement(w)
      PROVE  CounterExact'
  BY <1>1, DecrementCounter
<1>2. CASE \A w \in Workers : ~Decrement(w)
  <2>1. \A t \in Tasks : Decremented(t)' <=> Decremented(t)
    BY <1>2, OtherStepsDecremented
  <2>2. ASSUME NEW w \in Workers, NEW batch \in SUBSET Tasks, RunTasks(w, batch)
        PROVE  CounterExact'
    <3>1. slot[w] \in Parents
      BY <2>2 DEF RunTasks, At, Bound, WorkersFiberBound, Parents
    <3> QED
      BY <2>1, <2>2, <3>1, ForkCounter DEF RunTasks
  <2>3. ASSUME NEW batch \in SUBSET Tasks, MainRunTasks(batch)
        PROVE  CounterExact'
    BY <2>1, <2>3, ForkCounter DEF MainRunTasks, Parents
  <2>4. ASSUME NEW w \in Workers,
               Loop(w) \/ DequeueReady(w) \/ DequeueTask(w) \/ DanglingTask(w)
        PROVE  UNCHANGED <<counter, parent>>
    BY <2>4
    DEF Loop, CheckQuit, ReadyMiss, TaskMiss, ConstructFiber, NoFreeFiber,
        SetOwner, SwitchFiber, SwitchBadFiber, DequeueReady, DequeueTask,
        DanglingTask
  <2>5. ASSUME NEW w \in Workers, Fiber(w)
        PROVE  UNCHANGED <<counter, parent>>
    BY <1>2, <2>5
    DEF Fiber, EnqueueTask, MarkWaiting, Suspend, SpinDone, LoadCounter,
        ClearWaiting, PushReady, LeaveFiber, LeaveBadOwner
  <2>6. ASSUME NEW w \in Workers, WaitForCounter(w) \/ SignalQuit(w) \/ BodyReturn(w)
        PROVE  UNCHANGED <<counter, parent>>
    BY <2>6 DEF WaitForCounter, SignalQuit, BodyReturn
  <2>7. CASE MainEnqueueTask \/ MainWaitForCounter \/ MainSpinDone \/ WaitAll
    <3>1. UNCHANGED <<counter, parent>>
      BY <2>7 DEF MainEnqueueTask, MainWaitForCounter, MainSpinDone, WaitAll
    <3> QED
      BY <2>1, <3>1, CountersUnchanged
  <2> QED
    BY <2>1, <2>2, <2>3, <2>4, <2>5, <2>6, <2>7, CountersUnchanged
    DEF Next, Body, MainThread, Joined
<1> QED
  BY <1>1, <1>2

LEMMA InitCounter == Init => CounterExact
<1> SUFFICES ASSUME Init, NEW p \in Parents
             PROVE  counter[p] = Cardinality(Outstanding(p))
  BY DEF CounterExact
<1>1. Outstanding(p) = {}
  BY ConstantsAssumption DEF ConstantsAssumption, Init, Outstanding
<1> QED
  BY <1>1, FS_EmptySet DEF Init

LEMMA NextInvariant == IInv /\ [Next]_vars => IInv'
BY NextBound, NextPlaces, NextCounter DEF IInv

LEMMA Invariant == Spec => []IInv
<1>1. Init => IInv
  BY InitType, InitBound, InitPlaces, InitCounter DEF IInv
<1> QED
  BY <1>1, NextInvariant, PTL DEF Spec

-----------------------------------------------------------------------------
(* A WaitForCounter that does not give up, as in a release build.          *)

\* A caller that is still enqueuing has not waited yet.
EnqueuingForked == \A f \in Fibers : fpc[f] = "enqueue" => forked[f]

\* JoinComplete, in terms of the counters.
JoinedZero ==
  \A f \in Fibers :
    (fpc[f] = "body" /\ ~forked[f]) \/ fpc[f] \in {"dec"} \cup DecrementedPcs
      => counter[f] = 0

JInv == IInv /\ EnqueuingForked /\ JoinedZero

\* The check of a debug build finds no flag raised.
NeverGivesUp == \A f \in Fibers : fpc[f] = "mark" => ~(Debug /\ inWait[f])

LEMMA CounterNat == ASSUME CounterExact, NEW p \in Parents PROVE counter[p] \in Nat
BY OutstandingFinite, FS_CardinalityType DEF CounterExact

LEMMA NextCounterNat ==
  ASSUME CounterExact', NEW p \in Parents PROVE counter'[p] \in Nat
<1>1. Outstanding(p)' \in SUBSET Tasks
  BY DEF Outstanding
<1> QED
  BY <1>1, FS_Subset, FS_CardinalityType, ConstantsAssumption
  DEF ConstantsAssumption, CounterExact

\* Nothing was forked from a fiber that has not started.
LEMMA FreeFiberZero ==
  ASSUME IInv, NEW f \in Fibers, fpc[f] = "free"
  PROVE  counter[f] = 0
<1>1. Outstanding(f) = {}
  BY DEF Outstanding, IInv, Bound, ParentFiberBound
<1> QED
  BY <1>1, FS_EmptySet DEF IInv, CounterExact, Parents

LEMMA JoinedZeroComplete ==
  ASSUME CounterExact, JoinedZero
  PROVE  JoinComplete
<1>1. ASSUME NEW f \in Fibers, counter[f] = 0
      PROVE  Outstanding(f) = {}
  BY <1>1, OutstandingFinite, FS_EmptySet DEF CounterExact, Parents
<1> QED
  BY <1>1 DEF JoinedZero, JoinComplete

LEMMA NextJoined ==
  ASSUME NeverGivesUp, JInv, IInv', [Next]_vars
  PROVE  EnqueuingForked' /\ JoinedZero'
<1>1. \A f \in Fibers : /\ counter[f] \in Nat
                        /\ counter'[f] \in Nat
                        /\ fpc[f] = "free" => counter[f] = 0
  BY CounterNat, FreeFiberZero, NextCounterNat DEF JInv, IInv, Parents
<1> USE ConstantsAssumption DEF ConstantsAssumption, JInv, IInv, TypeOK, Bound,
      WorkersFiberBound, EnqueuingForked, JoinedZero, DecrementedPcs, Parents,
      vars, poolVars, flagVars, workerVars, fiberVars, callVars
<1>2. ASSUME NEW w \in Workers, Loop(w) \/ DequeueReady(w) \/ DequeueTask(w)
      PROVE  EnqueuingForked' /\ JoinedZero'
  <2>1. CASE SwitchFiber(w)
    BY <1>1, <2>1 DEF SwitchFiber
  <2>2. CASE ~SwitchFiber(w)
    BY <1>2, <2>2
    DEF Loop, CheckQuit, ReadyMiss, TaskMiss, ConstructFiber, NoFreeFiber,
        SetOwner, SwitchBadFiber, DequeueReady, DequeueTask
  <2> QED
    BY <2>1, <2>2
<1>3. ASSUME NEW w \in Workers, Fiber(w) \/ DanglingTask(w)
      PROVE  EnqueuingForked' /\ JoinedZero'
  <2> USE DEF At, FiberGoto
  <2>1. CASE EnqueueTask(w)
    BY <2>1 DEF EnqueueTask
  <2>2. CASE MarkWaiting(w)
    BY <2>2 DEF MarkWaiting, NeverGivesUp
  <2>3. CASE Suspend(w) \/ SpinDone(w)
    BY <2>3 DEF Suspend, SpinDone
  <2>4. CASE Decrement(w)
    <3>1. PICK f \in Fibers : f = slot[w] /\ fpc[f] = "dec"
      BY <2>4 DEF Decrement
    <3>2. /\ fpc' = [fpc EXCEPT ![f] = "load"]
          /\ forked' = forked
          /\ \A g \in Fibers : counter'[g] \in {counter[g], counter[g] - 1}
      BY <2>4, <3>1 DEF Decrement
    <3> QED
      BY <1>1, <3>1, <3>2
  <2>5. CASE LoadCounter(w)
    BY <2>5 DEF LoadCounter
  <2>6. CASE ClearWaiting(w) \/ PushReady(w) \/ LeaveFiber(w)
    BY <2>6 DEF ClearWaiting, PushReady, LeaveFiber
  <2>7. CASE LeaveBadOwner(w) \/ DanglingTask(w)
    BY <2>7 DEF LeaveBadOwner, DanglingTask
  <2> QED
    BY <1>3, <2>1, <2>2, <2>3, <2>4, <2>5, <2>6, <2>7 DEF Fiber
<1>4. ASSUME NEW w \in Workers, Body(w)
      PROVE  EnqueuingForked' /\ JoinedZero'
  <2> USE DEF At, FiberGoto
  <2>1. ASSUME NEW batch \in SUBSET Tasks, RunTasks(w, batch)
        PROVE  EnqueuingForked' /\ JoinedZero'
    BY <2>1 DEF RunTasks, Fork
  <2>2. CASE WaitForCounter(w)
    BY <2>2 DEF WaitForCounter
  <2>3. CASE SignalQuit(w)
    BY <2>3 DEF SignalQuit
  <2>4. CASE BodyReturn(w)
    BY <2>4 DEF BodyReturn
  <2> QED
    BY <1>4, <2>1, <2>2, <2>3, <2>4 DEF Body
<1>5. CASE MainThread
  <2>1. ASSUME NEW batch \in SUBSET Tasks, MainRunTasks(batch)
        PROVE  EnqueuingForked' /\ JoinedZero'
    BY <2>1 DEF MainRunTasks, Fork
  <2>2. CASE MainEnqueueTask \/ MainWaitForCounter \/ MainSpinDone \/ WaitAll
    BY <2>2 DEF MainEnqueueTask, MainWaitForCounter, MainSpinDone, WaitAll
  <2> QED
    BY <1>5, <2>1, <2>2 DEF MainThread
<1>6. CASE UNCHANGED vars
  BY <1>6
<1> QED
  BY <1>2, <1>3, <1>4, <1>5, <1>6 DEF Next, Joined

LEMMA InitJoined == Init => EnqueuingForked /\ JoinedZero
BY DEF Init, EnqueuingForked, JoinedZero, DecrementedPcs

-----------------------------------------------------------------------------
(* No wakeup is lost between the check, the park, and the last child.      *)

\* Somebody will bring fiber f back.
Waking(f) ==
  \/ ready[f] > 0
  \/ \E w \in Workers : wpc[w] \in {"bind", "switch"} /\ slot[w] = f
  \/ \E g \in Fibers : /\ fpc[g] \in {"load", "move", "push"}
                      /\ parent[taskSlot[g]] = f

Parking(f) == fpc[f] \in {"mark", "switch", "suspended"} /\ counter[f] = 0

LEMMA NextWakeup ==
  ASSUME IInv, NoLostWakeup, [Next]_vars
  PROVE  NoLostWakeup'
<1> SUFFICES ASSUME NEW f \in Fibers, Parking(f)'
             PROVE  Waking(f)'
  BY DEF NoLostWakeup, Parking, Waking
<1>1. Parking(f) => Waking(f)
  BY DEF NoLostWakeup, Parking, Waking
<1> USE ConstantsAssumption DEF ConstantsAssumption, IInv, TypeOK, Bound,
      WorkersFiberBound, StartedFiberBound, Parents, Parking, Waking, vars,
      poolVars, flagVars, workerVars, fiberVars, callVars
<1>2. ASSUME NEW w \in Workers, Loop(w) \/ DequeueReady(w) \/ DequeueTask(w)
      PROVE  Waking(f)'
  <2> USE DEF WorkerGoto
  <2>1. CASE DequeueReady(w)
    BY <1>1, <2>1 DEF DequeueReady
  <2>2. CASE ConstructFiber(w)
    BY <1>1, <2>2 DEF ConstructFiber, FreeFiberUnbound
  <2>3. CASE SetOwner(w)
    BY <1>1, <2>3 DEF SetOwner
  <2>4. CASE SwitchFiber(w)
    BY <1>1, <2>4 DEF SwitchFiber
  <2>5. CASE CheckQuit(w) \/ ReadyMiss(w) \/ TaskMiss(w) \/ DequeueTask(w)
    BY <1>1, <2>5 DEF CheckQuit, ReadyMiss, TaskMiss, DequeueTask
  <2>6. CASE NoFreeFiber(w) \/ SwitchBadFiber(w)
    BY <1>1, <2>6 DEF NoFreeFiber, SwitchBadFiber
  <2> QED
    BY <1>2, <2>1, <2>2, <2>3, <2>4, <2>5, <2>6 DEF Loop
<1>3. ASSUME NEW w \in Workers, Fiber(w) \/ DanglingTask(w)
      PROVE  Waking(f)'
  <2> USE DEF At, FiberGoto, WorkerGoto
  <2>1. CASE EnqueueTask(w)
    BY <1>1, <2>1 DEF EnqueueTask
  <2>2. CASE MarkWaiting(w)
    BY <1>1, <2>2 DEF MarkWaiting
  <2>3. CASE Suspend(w)
    BY <1>1, <2>3 DEF Suspend
  <2>4. CASE SpinDone(w)
    BY <1>1, <2>4 DEF SpinDone
  <2>5. CASE Decrement(w)
    BY <1>1, <2>5 DEF Decrement
  <2>6. CASE LoadCounter(w)
    BY <1>1, <2>6 DEF LoadCounter
  <2>7. CASE ClearWaiting(w)
    BY <1>1, <2>7 DEF ClearWaiting
  <2>8. CASE PushReady(w)
    BY <1>1, <2>8 DEF PushReady
  <2>9. CASE LeaveFiber(w)
    BY <1>1, <2>9 DEF LeaveFiber
  <2>10. CASE LeaveBadOwner(w) \/ DanglingTask(w)
    BY <1>1, <2>10 DEF LeaveBadOwner, DanglingTask
  <2> QED
    BY <1>3, <2>1, <2>2, <2>3, <2>4, <2>5, <2>6, <2>7, <2>8, <2>9, <2>10
    DEF Fiber
<1>4. ASSUME NEW w \in Workers, Body(w)
      PROVE  Waking(f)'
  <2> USE DEF At, FiberGoto
  <2>1. ASSUME NEW batch \in SUBSET Tasks, RunTasks(w, batch)
        PROVE  Waking(f)'
    BY <1>1, <2>1 DEF RunTasks, Fork, Declared
  <2>2. CASE WaitForCounter(w)
    BY <1>1, <2>2 DEF WaitForCounter
  <2>3. CASE SignalQuit(w) \/ BodyReturn(w)
    BY <1>1, <2>3 DEF SignalQuit, BodyReturn
  <2> QED
    BY <1>4, <2>1, <2>2, <2>3 DEF Body
<1>5. CASE MainThread
  <2>1. ASSUME NEW batch \in SUBSET Tasks, MainRunTasks(batch)
        PROVE  Waking(f)'
    BY <1>1, <2>1 DEF MainRunTasks, Fork, Declared
  <2>2. CASE MainEnqueueTask \/ MainWaitForCounter \/ MainSpinDone \/ WaitAll
    BY <1>1, <2>2 DEF MainEnqueueTask, MainWaitForCounter, MainSpinDone, WaitAll
  <2> QED
    BY <1>5, <2>1, <2>2 DEF MainThread
<1>6. CASE UNCHANGED vars
  BY <1>1, <1>6
<1> QED
  BY <1>2, <1>3, <1>4, <1>5, <1>6 DEF Next, Joined

-----------------------------------------------------------------------------
(* Nothing is left when the main thread is through.                        *)

\* Every task goes back to one of the main thread: no set of tasks consists of tasks that
\* were forked by members of the set.
Rooted ==
  \A S \in SUBSET Tasks :
    (\A t \in S : parent[t] \in Fibers /\ taskSlot[parent[t]] \in S) => S = {}

AllOver == mainPc \in {"join", "joined"} => \A t \in Tasks : Submitted(t) => Decremented(t)

LEMMA OneFiber ==
  ASSUME TaskInOnePlace, NEW f \in Fibers, taskSlot[f] \in Tasks
  PROVE  /\ Submitted(taskSlot[f])
         /\ \A g \in Fibers : taskSlot[g] = taskSlot[f] => g = f
<1>1. PICK t \in Tasks : t = taskSlot[f]
  OBVIOUS
<1>2. <<"fiber", f>> \in Places(t)
  BY <1>1 DEF Places
<1>3. Submitted(t) /\ \E pl \in Places(t) : Places(t) = {pl}
  BY <1>2 DEF TaskInOnePlace
<1>4. ASSUME NEW g \in Fibers, taskSlot[g] = t PROVE g = f
  <2>1. <<"fiber", g>> \in Places(t)
    BY <1>4 DEF Places
  <2>2. QED
    BY <1>2, <1>3, <2>1
<1>5. QED
  BY <1>1, <1>3, <1>4

LEMMA ForkRooted ==
  ASSUME TypeOK, Bound, TaskInOnePlace, Rooted, NEW p \in Parents, NEW batch \in SUBSET Tasks,
         Fork(p, batch), taskSlot' = taskSlot, p \in Fibers => taskSlot[p] \in Tasks
  PROVE  Rooted'
<1> SUFFICES ASSUME NEW S \in SUBSET Tasks,
                    \A t \in S : parent'[t] \in Fibers /\ taskSlot[parent'[t]] \in S
             PROVE  S = {}
  BY DEF Rooted
<1>1. \A t \in Tasks : parent'[t] = IF t \in batch THEN p ELSE parent[t]
  BY DEF Fork
<1>2. \A t \in batch : ~Submitted(t)
  BY DEF Fork, Declared, Submitted
<1>3. \A f \in Fibers : taskSlot[f] \in Tasks => taskSlot[f] \notin batch
  BY <1>2, OneFiber
<1>4. S \ batch = {}
  <2>1. ASSUME NEW t \in S \ batch
        PROVE  parent[t] \in Fibers /\ taskSlot[parent[t]] \in S \ batch
    BY <1>1, <1>3, <2>1
  <2>2. QED
    BY <2>1 DEF Rooted
<1>5. ASSUME NEW t \in S PROVE FALSE
  BY <1>1, <1>3, <1>4, <1>5
<1>6. QED
  BY <1>5

LEMMA NextRooted ==
  ASSUME TypeOK, Bound, TaskInOnePlace, Rooted, [Next]_vars
  PROVE  Rooted'
<1> USE DEF vars, poolVars, flagVars, workerVars, fiberVars, callVars
<1>1. ASSUME UNCHANGED <<parent, taskSlot>> PROVE Rooted'
  BY <1>1 DEF Rooted
<1>2. ASSUME NEW w \in Workers, ConstructFiber(w) PROVE Rooted'
  <2>1. PICK f \in freeFibers : taskSlot' = [taskSlot EXCEPT ![f] = newTask[w]]
    BY <1>2 DEF ConstructFiber
  <2>2. /\ parent' = parent
        /\ \A t \in Tasks : parent[t] \in Fibers => taskSlot'[parent[t]] = taskSlot[parent[t]]
    BY <1>2, <2>1, ConstantsAssumption
    DEF ConstantsAssumption, ConstructFiber, Bound, FreeFiberUnbound, ParentFiberBound, TypeOK
  <2>3. QED
    BY <2>2 DEF Rooted
<1>3. ASSUME NEW w \in Workers, NEW batch \in SUBSET Tasks, RunTasks(w, batch) PROVE Rooted'
  BY <1>3, ForkRooted DEF RunTasks, At, Bound, WorkersFiberBound, Parents
<1>4. ASSUME NEW batch \in SUBSET Tasks, MainRunTasks(batch) PROVE Rooted'
  BY <1>4, ForkRooted, ConstantsAssumption DEF ConstantsAssumption, MainRunTasks, Parents
<1>5. ASSUME NEW w \in Workers,
             Loop(w) \/ DequeueReady(w) \/ DequeueTask(w) \/ DanglingTask(w)
      PROVE  Rooted'
  BY <1>1, <1>2, <1>5
  DEF Loop, CheckQuit, ReadyMiss, TaskMiss, NoFreeFiber, SetOwner, SwitchFiber,
      SwitchBadFiber, DequeueReady, DequeueTask, DanglingTask
<1>6. ASSUME NEW w \in Workers, Fiber(w) PROVE Rooted'
  BY <1>1, <1>6
  DEF Fiber, EnqueueTask, MarkWaiting, Suspend, SpinDone, Decrement, LoadCounter,
      ClearWaiting, PushReady, LeaveFiber, LeaveBadOwner
<1>7. ASSUME NEW w \in Workers, Body(w) PROVE Rooted'
  BY <1>1, <1>3, <1>7 DEF Body, WaitForCounter, SignalQuit, BodyReturn
<1>8. CASE MainThread
  BY <1>1, <1>4, <1>8
  DEF MainThread, MainEnqueueTask, MainWaitForCounter, MainSpinDone, WaitAll
<1>9. QED
  BY <1>1, <1>5, <1>6, <1>7, <1>8 DEF Next, Joined

\* When the main thread has heard of all its tasks, the tasks that are not over would be
\* children of one another.
LEMMA SpinDoneOver ==
  ASSUME JInv, Rooted, MainSpinDone
  PROVE  \A t \in Tasks : Submitted(t) => Decremented(t)
<1> DEFINE S == {t \in Tasks : Submitted(t) /\ ~Decremented(t)}
<1>1. JoinComplete
  BY JoinedZeroComplete DEF JInv, IInv
<1>2. Outstanding(Main) = {}
  <2>1. Cardinality(Outstanding(Main)) = 0
    BY DEF JInv, IInv, CounterExact, MainSpinDone, Parents
  <2>2. QED
    BY <2>1, OutstandingFinite, FS_EmptySet
<1>3. ASSUME NEW t \in S
      PROVE  parent[t] \in Fibers /\ taskSlot[parent[t]] \in S
  <2>1. parent[t] \in Fibers
    BY <1>2 DEF JInv, IInv, TypeOK, Submitted, Outstanding, Parents
  <2>2. PICK p \in Fibers : p = parent[t]
    BY <2>1
  <2>3. t \in Outstanding(p)
    BY <2>2 DEF Outstanding
  <2>4. fpc[p] \notin DecrementedPcs
    BY <1>1, <2>3 DEF JoinComplete
  <2>5. taskSlot[p] \in Tasks
    BY <2>2 DEF JInv, IInv, Bound, ParentFiberBound
  <2>6. Submitted(taskSlot[p]) /\ ~Decremented(taskSlot[p])
    BY <2>4, <2>5, OneFiber DEF JInv, IInv, Decremented
  <2>7. QED
    BY <2>2, <2>5, <2>6
<1>4. S = {}
  BY <1>3 DEF Rooted
<1>5. QED
  BY <1>4

LEMMA NextOver ==
  ASSUME JInv, Rooted, AllOver, [Next]_vars
  PROVE  AllOver'
<1> USE DEF vars, poolVars, flagVars, workerVars, fiberVars, callVars
<1>1. \A t \in Tasks : Decremented(t) => Decremented(t)'
  <2>1. ASSUME NEW w \in Workers, Decrement(w), NEW t \in Tasks, Decremented(t)
        PROVE  Decremented(t)'
    BY <2>1 DEF Decrement, FiberGoto, Decremented, DecrementedPcs, JInv, IInv, TypeOK
  <2>2. QED
    BY <2>1, OtherStepsDecremented DEF JInv, IInv
<1>2. ASSUME UNCHANGED <<mainPc, parent>> PROVE AllOver'
  BY <1>1, <1>2 DEF AllOver, Submitted
<1>3. ASSUME NEW w \in Workers, NEW batch \in SUBSET Tasks, RunTasks(w, batch) PROVE AllOver'
  <2>1. PICK f \in Fibers : f = slot[w] /\ fpc[f] = "body" /\ taskSlot[f] \in Tasks
    BY <1>3 DEF RunTasks, At, JInv, IInv, Bound, WorkersFiberBound
  <2>2. Submitted(taskSlot[f]) /\ ~Decremented(taskSlot[f])
    BY <2>1, OneFiber DEF JInv, IInv, Decremented, DecrementedPcs
  <2>3. mainPc \notin {"join", "joined"} /\ mainPc' = mainPc
    BY <1>3, <2>1, <2>2 DEF AllOver, RunTasks
  <2>4. QED
    BY <2>3 DEF AllOver
<1>4. ASSUME NEW w \in Workers,
             Loop(w) \/ DequeueReady(w) \/ DequeueTask(w) \/ DanglingTask(w)
      PROVE  AllOver'
  BY <1>2, <1>4
  DEF Loop, CheckQuit, ReadyMiss, TaskMiss, ConstructFiber, NoFreeFiber, SetOwner, SwitchFiber,
      SwitchBadFiber, DequeueReady, DequeueTask, DanglingTask
<1>5. ASSUME NEW w \in Workers, Fiber(w) PROVE AllOver'
  BY <1>2, <1>5
  DEF Fiber, EnqueueTask, MarkWaiting, Suspend, SpinDone, Decrement, LoadCounter,
      ClearWaiting, PushReady, LeaveFiber, LeaveBadOwner
<1>6. ASSUME NEW w \in Workers, Body(w) PROVE AllOver'
  BY <1>2, <1>3, <1>6 DEF Body, WaitForCounter, SignalQuit, BodyReturn
<1>7. CASE MainThread
  <2>1. CASE MainSpinDone
    <3>1. \A t \in Tasks : Submitted(t)' => Submitted(t)
      BY <2>1 DEF MainSpinDone, Submitted
    <3>2. QED
      BY <1>1, <2>1, <3>1, SpinDoneOver DEF AllOver
  <2>2. CASE WaitAll
    BY <1>1, <2>2 DEF WaitAll, AllOver, Submitted
  <2>3. CASE mainPc' \in {"body", "enqueue", "wait"}
    BY <2>3 DEF AllOver
  <2>4. QED
    BY <1>7, <2>1, <2>2, <2>3 DEF MainThread, MainRunTasks, MainEnqueueTask, MainWaitForCounter
<1>8. QED
  BY <1>2, <1>4, <1>5, <1>6, <1>7 DEF Next, Joined

LEMMA InitOver == Init => Rooted /\ AllOver
BY ConstantsAssumption DEF ConstantsAssumption, Init, Rooted, AllOver, Parents

-----------------------------------------------------------------------------
(* A fiber for every task.                                                 *)

\* The free list has the fibers that no task has been bound to.
BoundOrFree == \A f \in Fibers : f \in freeFibers \/ taskSlot[f] \in Tasks

FibersSuffice == IsFiniteSet(Fibers) /\ Cardinality(Tasks) <= Cardinality(Fibers)

LEMMA NextBoundOrFree ==
  ASSUME IInv, BoundOrFree, [Next]_vars
  PROVE  BoundOrFree'
<1> USE DEF vars, poolVars, flagVars, workerVars, fiberVars, callVars
<1>1. ASSUME UNCHANGED <<freeFibers, taskSlot>> PROVE BoundOrFree'
  BY <1>1 DEF BoundOrFree
<1>2. ASSUME NEW w \in Workers, ConstructFiber(w) PROVE BoundOrFree'
  BY <1>2 DEF ConstructFiber, BoundOrFree, IInv, TypeOK, Bound, HeldTask
<1>3. ASSUME NEW w \in Workers,
             Loop(w) \/ DequeueReady(w) \/ DequeueTask(w) \/ DanglingTask(w)
      PROVE  BoundOrFree'
  BY <1>1, <1>2, <1>3
  DEF Loop, CheckQuit, ReadyMiss, TaskMiss, NoFreeFiber, SetOwner, SwitchFiber,
      SwitchBadFiber, DequeueReady, DequeueTask, DanglingTask
<1>4. ASSUME NEW w \in Workers, Fiber(w) PROVE BoundOrFree'
  BY <1>1, <1>4
  DEF Fiber, EnqueueTask, MarkWaiting, Suspend, SpinDone, Decrement, LoadCounter,
      ClearWaiting, PushReady, LeaveFiber, LeaveBadOwner
<1>5. ASSUME NEW w \in Workers, Body(w) PROVE BoundOrFree'
  BY <1>1, <1>5 DEF Body, RunTasks, WaitForCounter, SignalQuit, BodyReturn
<1>6. CASE MainThread
  BY <1>1, <1>6
  DEF MainThread, MainRunTasks, MainEnqueueTask, MainWaitForCounter, MainSpinDone, WaitAll
<1>7. QED
  BY <1>1, <1>3, <1>4, <1>5, <1>6 DEF Next, Joined

\* Distinct fibers have distinct tasks, and none of them is the one still to be bound.
LEMMA FiberLeft ==
  ASSUME IInv, BoundOrFree, FibersSuffice, NEW w \in Workers, wpc[w] = "alloc"
  PROVE  freeFibers # {}
<1> SUFFICES ASSUME freeFibers = {} PROVE FALSE
  OBVIOUS
<1>1. PICK t \in Tasks : t = newTask[w]
  BY DEF IInv, Bound, HeldTask
<1>2. <<"worker", w>> \in Places(t)
  BY <1>1 DEF Places
<1>3. Places(t) = {<<"worker", w>>}
  BY <1>2 DEF IInv, TaskInOnePlace
<1>4. \A f \in Fibers : taskSlot[f] \in Tasks \ {t}
  <2>1. ASSUME NEW f \in Fibers, taskSlot[f] = t PROVE FALSE
    <3>1. <<"fiber", f>> \in Places(t)
      BY <2>1 DEF Places
    <3>2. QED
      BY <1>3, <3>1
  <2>2. QED
    BY <2>1 DEF BoundOrFree
<1>5. \A f, g \in Fibers : taskSlot[f] = taskSlot[g] => f = g
  BY <1>4, OneFiber DEF IInv
<1>6. taskSlot \in Injection(Fibers, Tasks \ {t})
  BY <1>4, <1>5 DEF Injection, IsInjective, IInv, TypeOK
<1>7. IsFiniteSet(Tasks \ {t}) /\ Cardinality(Tasks \ {t}) = Cardinality(Tasks) - 1
  BY FS_RemoveElement, ConstantsAssumption DEF ConstantsAssumption
<1>8. Cardinality(Fibers) <= Cardinality(Tasks \ {t})
  BY <1>6, <1>7, FS_Injection, Zenon
<1>9. Cardinality(Fibers) \in Nat /\ Cardinality(Tasks) \in Nat
  BY FS_CardinalityType, ConstantsAssumption DEF ConstantsAssumption, FibersSuffice
<1>10. QED
  BY <1>7, <1>8, <1>9 DEF FibersSuffice

-----------------------------------------------------------------------------
(* The theorems.                                                           *)

\* The state variables only ever hold values of their types.
THEOREM TypeCorrect == Spec => []TypeOK
<1>1. IInv => TypeOK
  BY DEF IInv
<1> QED
  BY <1>1, Invariant, PTL

\* No submitted task is ever lost or duplicated between EnqueueTaskRange, the
\* queue, the worker that dequeued it and the fiber it is bound to.
THEOREM NoTaskLost == Spec => []TaskInOnePlace
<1>1. IInv => TaskInOnePlace
  BY DEF IInv
<1> QED
  BY <1>1, Invariant, PTL

\* A counter is never off, not even for a moment: RunTasks raises it by the
\* whole range before any of the range can be seen, and each of the tasks takes
\* one off when it ends, so a counter that is zero means that every task it was
\* given to is over.
THEOREM CountersExact == Spec => []CounterExact
<1>1. IInv => CounterExact
  BY DEF IInv
<1> QED
  BY <1>1, Invariant, PTL

\* In a release build, WaitForCounter returns only when the tasks the body has
\* forked are finished, and a body never returns before them, with any number
\* of workers and whichever of them resumes the fiber, and when.
THEOREM JoinsComplete == ASSUME ~Debug PROVE Spec => []JoinComplete
<1>1. Init => JInv
  BY InitType, InitBound, InitPlaces, InitCounter, InitJoined DEF IInv, JInv
<1>2. JInv /\ [Next]_vars => JInv'
  BY NextInvariant, NextJoined DEF JInv, NeverGivesUp
<1>3. JInv => JoinComplete
  BY JoinedZeroComplete DEF JInv, IInv
<1> QED
  BY <1>1, <1>2, <1>3, PTL DEF Spec

\* A fiber that waits for a counter that is zero is on its way back: the child
\* that wakes it may come before, between or after the steps that park it.
THEOREM NoWakeupLost == Spec => []NoLostWakeup
<1>1. Init => NoLostWakeup
  BY DEF Init, NoLostWakeup
<1>2. IInv /\ NoLostWakeup /\ [Next]_vars => NoLostWakeup'
  BY NextWakeup
<1> QED
  BY <1>1, <1>2, Invariant, PTL DEF Spec

\* In a release build, when the main thread has joined the workers every task is over,
\* although the workers leave on a flag, with any number of workers and any nesting.
THEOREM AllTasksOver == ASSUME ~Debug PROVE Spec => []NothingAbandoned
<1>1. Init => JInv /\ Rooted /\ AllOver
  BY InitType, InitBound, InitPlaces, InitCounter, InitJoined, InitOver DEF IInv, JInv
<1>2. JInv /\ Rooted /\ AllOver /\ [Next]_vars => (JInv /\ Rooted /\ AllOver)'
  BY NextInvariant, NextJoined, NextRooted, NextOver DEF JInv, IInv, NeverGivesUp
<1>3. AllOver => NothingAbandoned
  BY DEF AllOver, NothingAbandoned
<1> QED
  BY <1>1, <1>2, <1>3, PTL DEF Spec

\* As many fibers as tasks are enough, although none is ever used again: no worker indexes
\* the fibers with -1, whatever the tasks fork and in whichever order they are bound.
THEOREM EnoughFibers == ASSUME FibersSuffice PROVE Spec => [](fault # "noFiber")
<1> DEFINE Inv == IInv /\ BoundOrFree /\ fault # "noFiber"
<1>1. Init => Inv
  BY InitType, InitBound, InitPlaces, InitCounter DEF IInv, Init, BoundOrFree
<1>2. Inv /\ [Next]_vars => Inv'
  <2> SUFFICES ASSUME Inv, [Next]_vars PROVE Inv'
    OBVIOUS
  <2>1. IInv' /\ BoundOrFree'
    BY NextInvariant, NextBoundOrFree
  <2>2. fault' # "noFiber"
    <3> USE DEF vars, poolVars, flagVars, workerVars, fiberVars, callVars
    <3>1. ASSUME NEW w \in Workers PROVE ~NoFreeFiber(w)
      BY FiberLeft DEF NoFreeFiber
    <3>2. ASSUME NEW w \in Workers,
                 Loop(w) \/ DequeueReady(w) \/ DequeueTask(w) \/ DanglingTask(w)
          PROVE  fault' # "noFiber"
      BY <3>1, <3>2
      DEF Loop, CheckQuit, ReadyMiss, TaskMiss, ConstructFiber, SetOwner, SwitchFiber,
          SwitchBadFiber, DequeueReady, DequeueTask, DanglingTask
    <3>3. ASSUME NEW w \in Workers, Fiber(w) PROVE fault' # "noFiber"
      BY <3>3
      DEF Fiber, EnqueueTask, MarkWaiting, Suspend, SpinDone, Decrement, LoadCounter,
          ClearWaiting, PushReady, LeaveFiber, LeaveBadOwner
    <3>4. ASSUME NEW w \in Workers, Body(w) PROVE fault' # "noFiber"
      BY <3>4 DEF Body, RunTasks, WaitForCounter, SignalQuit, BodyReturn
    <3>5. CASE MainThread
      BY <3>5
      DEF MainThread, MainRunTasks, MainEnqueueTask, MainWaitForCounter, MainSpinDone, WaitAll
    <3>6. QED
      BY <3>2, <3>3, <3>4, <3>5 DEF Next, Joined
  <2>3. QED
    BY <2>1, <2>2
<1>3. Inv => fault # "noFiber"
  OBVIOUS
<1> QED
  BY <1>1, <1>2, <1>3, PTL DEF Spec

-----------------------------------------------------------------------------
(* A single worker thread: a build with ENABLE_SINGLE_THREAD_DEBUG, or a   *)
(* machine with one hardware thread.  Parents and children cannot          *)
(* interleave within RunTask and WaitForCounter, and the protocol that is  *)
(* racy with more workers is right, in debug builds as in release builds.  *)

\* A fiber that has started and is not parked is the one the worker is on.
OneRuns(w) ==
  \A f \in Fibers :
    fpc[f] \notin {"free", "suspended", "done"} <=> wpc[w] = "fiber" /\ slot[w] = f

\* A fiber that may be resumed: its children are done and its flag is down.
Resumable(f) == fpc[f] = "suspended" /\ counter[f] = 0 /\ ~inWait[f]

Taken(w) == wpc[w] \in {"bind", "switch"}

\* The ways a fiber is woken exclude each other: its id is in the ready queue once, ...
ReadyResumable(w) ==
  \A f \in Fibers :
    ready[f] > 0 => ready[f] = 1 /\ Resumable(f) /\ (Taken(w) => slot[w] # f)

\* ... or the worker has taken it from there, ...
TakenResumable(w) == Taken(w) /\ fpc[slot[w]] # "free" => Resumable(slot[w])

\* ... or its last child is in RunTask, between the decrement and the push.
ChildOf(g, f) == fpc[g] \in {"load", "move", "push"} /\ parent[taskSlot[g]] = f

ParentParked ==
  \A f, g \in Fibers :
    ChildOf(g, f) => /\ fpc[f] = "suspended" /\ ready[f] = 0
                     /\ fpc[g] \in {"move", "push"} => counter[f] = 0
                     /\ fpc[g] = "push" => ~inWait[f]

OwnerIsWorker(w) == wpc[w] \in {"switch", "fiber"} => owner[slot[w]] = w

OnlyFibersLack == fault \in {"none", "noFiber"}

SInv(w) ==
  /\ OneRuns(w) /\ ReadyResumable(w) /\ TakenResumable(w) /\ ParentParked
  /\ WaitFlagFresh /\ OwnerIsWorker(w) /\ OnlyFibersLack

-----------------------------------------------------------------------------
(* The steps.                                                              *)

LEMMA InitSingle == ASSUME NEW w \in Workers, Init PROVE SInv(w)
BY DEF Init, SInv, OneRuns, ReadyResumable, TakenResumable, ParentParked, WaitFlagFresh,
       OwnerIsWorker, OnlyFibersLack, Taken, ChildOf

LEMMA FreshNeverGivesUp == ASSUME WaitFlagFresh PROVE NeverGivesUp
BY DEF WaitFlagFresh, NeverGivesUp

LEMMA LoopSingle ==
  ASSUME NEW w \in Workers, JInv, SInv(w), Loop(w) \/ DequeueReady(w) \/ DequeueTask(w)
  PROVE  SInv(w)'
<1> USE DEF JInv, IInv, TypeOK, Bound, SInv, OneRuns, Taken, WorkerGoto, Resumable, ReadyResumable,
      TakenResumable, ParentParked, ChildOf, WaitFlagFresh, OwnerIsWorker, OnlyFibersLack,
      WorkersFiberBound, poolVars, flagVars, workerVars, fiberVars, callVars
<1>1. CASE CheckQuit(w) \/ ReadyMiss(w) \/ TaskMiss(w) \/ DequeueTask(w)
  BY <1>1 DEF CheckQuit, ReadyMiss, TaskMiss, DequeueTask
<1>2. CASE DequeueReady(w)
  BY <1>2 DEF DequeueReady
<1>3. CASE ConstructFiber(w)
  BY <1>3 DEF ConstructFiber, FreeFiberUnbound
<1>4. CASE NoFreeFiber(w)
  BY <1>4 DEF NoFreeFiber
<1>5. CASE SetOwner(w)
  BY <1>5 DEF SetOwner
<1>6. CASE SwitchFiber(w)
  BY <1>6 DEF SwitchFiber
<1>7. CASE SwitchBadFiber(w)
  BY <1>7 DEF SwitchBadFiber
<1>8. QED
  BY <1>1, <1>2, <1>3, <1>4, <1>5, <1>6, <1>7 DEF Loop

\* A child that still runs has a parent that has not got past its wait, and that is parked
\* as the worker runs the child.
LEMMA RunningChild ==
  ASSUME NEW w \in Workers, JInv, SInv(w), NEW f \in Fibers, f = slot[w], wpc[w] = "fiber",
         fpc[f] = "dec"
  PROVE  /\ taskSlot[f] \in Tasks /\ parent[taskSlot[f]] \in Parents
         /\ parent[taskSlot[f]] \in Fibers =>
              LET p == parent[taskSlot[f]]
              IN  p # f /\ fpc[p] = "suspended" /\ ready[p] = 0 /\ counter[p] > 0
<1>1. PICK t \in Tasks : t = taskSlot[f]
  BY DEF JInv, IInv, Bound, StartedFiberBound
<1>2. Submitted(t) /\ ~Decremented(t)
  BY <1>1, OneFiber DEF JInv, IInv, Decremented, DecrementedPcs
<1>3. parent[t] \in Parents
  BY <1>2 DEF Submitted, JInv, IInv, TypeOK
<1>4. ASSUME NEW p \in Fibers, p = parent[t]
      PROVE  p # f /\ fpc[p] = "suspended" /\ ready[p] = 0 /\ counter[p] > 0
  <2>1. t \in Outstanding(p)
    BY <1>2, <1>4 DEF Outstanding
  <2>2. counter[p] \in Nat /\ counter[p] # 0
    BY <2>1, CounterNat, OutstandingFinite, FS_EmptySet DEF JInv, IInv, CounterExact, Parents
  <2>3. fpc[p] \notin {"dec", "done", "free"}
    BY <1>4, <2>2 DEF JInv, IInv, JoinedZero, DecrementedPcs, Bound, ParentFiberBound
  <2>4. fpc[p] = "suspended"
    BY <2>3 DEF SInv, OneRuns
  <2>5. ready[p] \in Nat /\ ~(ready[p] > 0)
    BY <2>2 DEF SInv, ReadyResumable, Resumable, JInv, IInv, TypeOK
  <2>6. QED
    BY <2>2, <2>3, <2>4, <2>5
<1>5. QED
  BY <1>1, <1>3, <1>4

LEMMA FiberSingle ==
  ASSUME NEW w \in Workers, JInv, SInv(w), Fiber(w)
  PROVE  SInv(w)'
<1>1. PICK f \in Fibers : f = slot[w] /\ wpc[w] = "fiber"
  BY DEF Fiber, EnqueueTask, MarkWaiting, Suspend, SpinDone, Decrement, LoadCounter,
      ClearWaiting, PushReady, LeaveFiber, LeaveBadOwner, At, JInv, IInv, Bound, WorkersFiberBound
<1> USE ConstantsAssumption DEF ConstantsAssumption, JInv, IInv, TypeOK, SInv, OneRuns, Taken,
      Resumable, ReadyResumable, TakenResumable, ParentParked, ChildOf, WaitFlagFresh,
      OwnerIsWorker, OnlyFibersLack, WorkerGoto, FiberGoto, At, Parents,
      poolVars, flagVars, workerVars, fiberVars, callVars
<1>2. CASE EnqueueTask(w)
  BY <1>1, <1>2 DEF EnqueueTask
<1>3. CASE MarkWaiting(w)
  BY <1>1, <1>3 DEF MarkWaiting
<1>4. CASE Suspend(w)
  BY <1>1, <1>4 DEF Suspend
<1>5. CASE SpinDone(w)
  BY <1>1, <1>5 DEF SpinDone
<1>6. CASE Decrement(w)
  BY <1>1, <1>6, RunningChild DEF Decrement
<1>7. CASE LoadCounter(w)
  BY <1>1, <1>7 DEF LoadCounter
<1>8. CASE ClearWaiting(w)
  BY <1>1, <1>8 DEF ClearWaiting
<1>9. CASE PushReady(w)
  BY <1>1, <1>9 DEF PushReady
<1>10. CASE LeaveFiber(w)
  BY <1>1, <1>10 DEF LeaveFiber
<1>11. CASE LeaveBadOwner(w)
  BY <1>1, <1>11 DEF LeaveBadOwner
<1>12. QED
  BY <1>2, <1>3, <1>4, <1>5, <1>6, <1>7, <1>8, <1>9, <1>10, <1>11 DEF Fiber

\* A body that forks is not waited upon, and the tasks on fibers keep their parents.
LEMMA ForkSingle ==
  ASSUME NEW w \in Workers, JInv, SInv(w), NEW p \in Parents, NEW batch \in SUBSET Tasks,
         Fork(p, batch), p \in Fibers => wpc[w] = "fiber" /\ slot[w] = p,
         UNCHANGED <<poolVars, inWait, workerVars, taskSlot, owner, fault>>,
         \A f \in Fibers : fpc'[f] # fpc[f] => f = p /\ fpc[f] = "body" /\ fpc'[f] = "enqueue"
  PROVE  SInv(w)'
<1>1. \A f \in Fibers : taskSlot[f] \in Tasks => parent'[taskSlot[f]] = parent[taskSlot[f]]
  <2>1. ASSUME NEW f \in Fibers, taskSlot[f] \in Tasks
        PROVE  taskSlot[f] \notin batch
    BY <2>1, OneFiber DEF JInv, IInv, Fork, Declared, Submitted
  <2>2. QED
    BY <2>1 DEF Fork
<1>2. \A f \in Fibers : fpc[f] # "free" => taskSlot[f] \in Tasks
  BY DEF JInv, IInv, Bound, StartedFiberBound
<1>3. \A f \in Fibers : f # p => counter'[f] = counter[f]
  BY DEF Fork, JInv, IInv, TypeOK, Parents
<1>4. \A f \in Fibers : wpc[w] # "fiber" => f # p
  OBVIOUS
<1> USE DEF SInv, OneRuns, Taken,
      Resumable, ReadyResumable, TakenResumable, ParentParked, ChildOf, WaitFlagFresh,
      OwnerIsWorker, OnlyFibersLack, poolVars, workerVars
<1>5. OneRuns(w)' /\ WaitFlagFresh' /\ OwnerIsWorker(w)' /\ OnlyFibersLack'
  OBVIOUS
<1>6. ReadyResumable(w)' /\ TakenResumable(w)'
  BY <1>3, <1>4 DEF JInv, IInv, Bound, WorkersFiberBound
<1>7. ParentParked'
  BY <1>1, <1>2, <1>3
<1>8. QED
  BY <1>5, <1>6, <1>7

LEMMA BodySingle ==
  ASSUME NEW w \in Workers, JInv, SInv(w), Body(w)
  PROVE  SInv(w)'
<1>1. PICK f \in Fibers : f = slot[w] /\ wpc[w] = "fiber" /\ fpc[f] = "body"
  BY DEF Body, RunTasks, WaitForCounter, SignalQuit, BodyReturn, At, JInv, IInv, Bound,
      WorkersFiberBound
<1>2. ASSUME NEW batch \in SUBSET Tasks, RunTasks(w, batch)
      PROVE  SInv(w)'
  BY <1>1, <1>2, ForkSingle DEF RunTasks, FiberGoto, JInv, IInv, TypeOK, Parents
<1> USE DEF JInv, IInv, TypeOK, SInv, OneRuns, Taken, Resumable, ReadyResumable, TakenResumable,
      ParentParked, ChildOf, WaitFlagFresh, OwnerIsWorker, OnlyFibersLack, FiberGoto,
      poolVars, flagVars, workerVars, fiberVars, callVars
<1>3. CASE WaitForCounter(w)
  BY <1>1, <1>3 DEF WaitForCounter
<1>4. CASE SignalQuit(w)
  BY <1>1, <1>4 DEF SignalQuit
<1>5. CASE BodyReturn(w)
  BY <1>1, <1>5 DEF BodyReturn
<1>6. QED
  BY <1>2, <1>3, <1>4, <1>5 DEF Body

LEMMA MainSingle ==
  ASSUME NEW w \in Workers, JInv, SInv(w), MainThread \/ UNCHANGED vars
  PROVE  SInv(w)'
<1>1. ASSUME NEW batch \in SUBSET Tasks, MainRunTasks(batch)
      PROVE  SInv(w)'
  BY <1>1, ForkSingle, ConstantsAssumption
  DEF ConstantsAssumption, MainRunTasks, Parents, fiberVars
<1> USE DEF SInv, OneRuns, Taken, Resumable, ReadyResumable, TakenResumable,
      ParentParked, ChildOf, WaitFlagFresh, OwnerIsWorker, OnlyFibersLack,
      vars, poolVars, flagVars, workerVars, fiberVars, callVars
<1>2. CASE MainEnqueueTask
  BY <1>2 DEF MainEnqueueTask
<1>3. CASE MainWaitForCounter \/ MainSpinDone \/ WaitAll
  BY <1>3 DEF MainWaitForCounter, MainSpinDone, WaitAll
<1>4. CASE UNCHANGED vars
  BY <1>4
<1>5. QED
  BY <1>1, <1>2, <1>3, <1>4 DEF MainThread

\* The parent of a task in use is waiting for it, or has yet to wait.
LEMMA NoDangling ==
  ASSUME NEW w \in Workers, JInv, SInv(w)
  PROVE  ~DanglingTask(w)
<1> SUFFICES ASSUME NEW t \in Tasks, Uses(w, t), parent[t] \in Fibers,
                    fpc[parent[t]] \notin BodyPcs
             PROVE  FALSE
  BY DEF DanglingTask
<1>1. PICK p \in Fibers : p = parent[t]
  OBVIOUS
<1>2. CASE Decremented(t)
  <2>1. PICK f \in Fibers : taskSlot[f] = t /\ fpc[f] \in DecrementedPcs
    BY <1>2 DEF Decremented
  <2>2. <<"fiber", f>> \in Places(t)
    BY <2>1 DEF Places
  <2>3. newTask[w] # t
    <3>1. ASSUME newTask[w] = t PROVE <<"worker", w>> \in Places(t)
      BY <3>1 DEF Places
    <3>2. QED
      BY <2>2, <3>1 DEF JInv, IInv, TaskInOnePlace
  <2>4. \A g \in Fibers : taskSlot[g] = t => g = f
    BY <2>1, OneFiber DEF JInv, IInv
  <2>5. slot[w] = f /\ fpc[f] = "move"
    BY <2>1, <2>3, <2>4 DEF Uses, At, JInv, IInv, Bound, WorkersFiberBound, DecrementedPcs
  <2>6. fpc[p] = "suspended"
    BY <1>1, <2>1, <2>5 DEF SInv, ParentParked, ChildOf
  <2>7. QED
    BY <1>1, <2>6 DEF BodyPcs
<1>3. CASE ~Decremented(t)
  <2>1. t \in Outstanding(p)
    BY <1>1, <1>3 DEF Outstanding
  <2>2. counter[p] # 0
    BY <2>1, OutstandingFinite, FS_EmptySet DEF JInv, IInv, CounterExact, Parents
  <2>3. QED
    BY <1>1, <2>2 DEF JInv, IInv, TypeOK, JoinedZero, FiberPcs, Bound, ParentFiberBound
<1>4. QED
  BY <1>2, <1>3

LEMMA NextSingle ==
  ASSUME NEW w \in Workers, Workers = {w}, JInv, SInv(w), [Next]_vars
  PROVE  SInv(w)'
<1>1. ASSUME NEW v \in Workers, Loop(v) \/ DequeueReady(v) \/ DequeueTask(v) PROVE SInv(w)'
  BY <1>1, LoopSingle
<1>2. ASSUME NEW v \in Workers, Fiber(v) PROVE SInv(w)'
  BY <1>2, FiberSingle
<1>3. ASSUME NEW v \in Workers, Body(v) PROVE SInv(w)'
  BY <1>3, BodySingle
<1>4. ASSUME NEW v \in Workers, DanglingTask(v) PROVE SInv(w)'
  BY <1>4, NoDangling
<1>5. CASE MainThread \/ UNCHANGED vars
  BY <1>5, MainSingle
<1>6. QED
  BY <1>1, <1>2, <1>3, <1>4, <1>5 DEF Next, Joined

-----------------------------------------------------------------------------
(* The theorems.                                                           *)

\* One set of wakeups: the ids in the ready queue, the children about to push, and the
\* worker that has taken one.
LEMMA WakeupsOne ==
  ASSUME NEW w \in Workers, Workers = {w}, JInv, SInv(w)
  PROVE  WakeupsExact
<1> SUFFICES ASSUME NEW f \in Fibers PROVE WakeupsExact!(f)
  BY DEF WakeupsExact
<1> DEFINE wakers == {g \in Fibers : fpc[g] \in {"move", "push"} /\ parent[taskSlot[g]] = f}
           resumers == {v \in Workers : /\ wpc[v] \in {"bind", "switch"} /\ slot[v] = f
                                        /\ fpc[f] # "free"}
<1>1. resumers = {} \/ (resumers = {w} /\ Taken(w) /\ slot[w] = f /\ fpc[f] # "free")
  BY DEF Taken
<1>2. wakers = {} \/ \E g \in Fibers : wakers = {g} /\ ChildOf(g, f) /\ wpc[w] = "fiber"
                                       /\ fpc[g] \in {"move", "push"}
  BY DEF SInv, OneRuns, ChildOf
<1>3. Cardinality({}) = 0 /\ \A x : Cardinality({x}) = 1
  BY FS_EmptySet, FS_Singleton
<1>4. ready[f] \in Nat
  BY DEF JInv, IInv, TypeOK
<1> HIDE DEF wakers, resumers
<1>5. CASE wakers # {}
  <2>1. /\ resumers = {} /\ ready[f] = 0 /\ Cardinality(wakers) = 1
        /\ fpc[f] = "suspended" /\ counter[f] = 0
    BY <1>1, <1>2, <1>3, <1>5 DEF Taken, SInv, ParentParked
  <2>2. QED
    BY <1>3, <2>1 DEF wakers, resumers
<1>6. CASE wakers = {} /\ resumers # {}
  <2>1. /\ ready[f] = 0 /\ Cardinality(resumers) = 1 /\ fpc[f] = "suspended" /\ counter[f] = 0
    <3>1. resumers = {w} /\ Taken(w) /\ slot[w] = f /\ fpc[f] # "free"
      BY <1>1, <1>6
    <3>2. Cardinality(resumers) = 1
      BY <1>3, <3>1
    <3>3. fpc[f] = "suspended" /\ counter[f] = 0
      BY <3>1 DEF SInv, TakenResumable, Resumable
    <3>4. ~(ready[f] > 0)
      BY <3>1 DEF SInv, ReadyResumable
    <3>5. QED
      BY <1>4, <3>2, <3>3, <3>4
  <2>2. QED
    BY <1>3, <1>6, <2>1 DEF wakers, resumers
<1>7. CASE wakers = {} /\ resumers = {}
  <2>1. ready[f] > 0 => ready[f] = 1 /\ fpc[f] = "suspended" /\ counter[f] = 0
    BY DEF SInv, ReadyResumable, Resumable
  <2>2. Cardinality(wakers) = 0 /\ Cardinality(resumers) = 0
    BY <1>3, <1>7
  <2>3. QED
    BY <1>4, <2>1, <2>2 DEF wakers, resumers
<1>8. QED
  BY <1>5, <1>6, <1>7

\* The inductive invariant of the single worker, and that of the scheduler.
THEOREM SingleInvariance ==
  ASSUME NEW w \in Workers, Workers = {w}
  PROVE  Spec => [](JInv /\ SInv(w) /\ Rooted /\ AllOver)
<1> DEFINE Inv == JInv /\ SInv(w) /\ Rooted /\ AllOver
<1>1. Init => Inv
  BY InitType, InitBound, InitPlaces, InitCounter, InitJoined, InitSingle, InitOver
  DEF IInv, JInv
<1>2. Inv /\ [Next]_vars => Inv'
  <2> SUFFICES ASSUME Inv, [Next]_vars PROVE Inv'
    OBVIOUS
  <2>1. IInv'
    BY NextInvariant DEF JInv
  <2>2. EnqueuingForked' /\ JoinedZero'
    BY <2>1, NextJoined, FreshNeverGivesUp DEF SInv
  <2>3. SInv(w)'
    BY NextSingle
  <2>4. Rooted' /\ AllOver'
    BY NextRooted, NextOver DEF JInv, IInv
  <2>5. QED
    BY <2>1, <2>2, <2>3, <2>4 DEF JInv
<1>3. QED
  BY <1>1, <1>2, PTL DEF Spec

\* Every fiber is woken once, when it is parked and its children are done, and is resumed
\* once for that: MoveToReadyToResumeQueue and the worker loop.
THEOREM WokenOnce == ASSUME NEW w \in Workers, Workers = {w} PROVE Spec => []WakeupsExact
<1>1. JInv /\ SInv(w) => WakeupsExact
  BY WakeupsOne
<1>2. QED
  BY <1>1, SingleInvariance, PTL

\* No WaitForCounter finds the flag of an earlier one: the check of a debug build never
\* gives up.
THEOREM FlagNeverStale == ASSUME NEW w \in Workers, Workers = {w} PROVE Spec => []WaitFlagFresh
<1>1. SInv(w) => WaitFlagFresh
  BY DEF SInv
<1>2. QED
  BY <1>1, SingleInvariance, PTL

\* So a join is complete in debug builds too, ...
THEOREM SingleJoins == ASSUME NEW w \in Workers, Workers = {w} PROVE Spec => []JoinComplete
<1>1. JInv => JoinComplete
  BY JoinedZeroComplete DEF JInv, IInv
<1>2. QED
  BY <1>1, SingleInvariance, PTL

\* ... and nothing is left when the main thread has joined the worker.
THEOREM SingleTasksOver == ASSUME NEW w \in Workers, Workers = {w} PROVE Spec => []NothingAbandoned
<1>1. AllOver => NothingAbandoned
  BY DEF AllOver, NothingAbandoned
<1>2. QED
  BY <1>1, SingleInvariance, PTL

\* No undefined behaviour is reached: the worker never switches to a fiber that is not
\* parked, leaves each to its own thread fiber, uses no declaration whose frame is gone,
\* and finds a fiber for every task if there are as many.
THEOREM SingleNoFault ==
  ASSUME NEW w \in Workers, Workers = {w}, FibersSuffice
  PROVE  Spec => []NoFault
<1>1. SInv(w) /\ fault # "noFiber" => NoFault
  BY DEF SInv, OnlyFibersLack, NoFault
<1>2. QED
  BY <1>1, SingleInvariance, EnoughFibers, PTL

=============================================================================
