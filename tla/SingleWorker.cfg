SPECIFICATION FairSpec
CONSTANTS
  Workers = {w1}
  Fibers = {f1, f2, f3, f4}
  Tasks = {t1, t2, t3, quit}
  Spawners = {t1, t2}
  Terminators = {quit}
  Main = Main
  NoFiber = NoFiber
  NoTask = NoTask
  NoWorker = NoWorker
  NoParent = NoParent
  Debug = TRUE
INVARIANTS
  NoFault
  WakeupsExact
  WaitFlagFresh
  NothingAbandoned
PROPERTIES
  TasksFinish
  MainReturns
