SPECIFICATION Spec
CONSTANTS
  Workers = {w1, w2}
  Fibers = {f1, f2, f3, f4}
  Tasks = {t1, t2, t3, t4, quit}
  Spawners = {t1, t2}
  Terminators = {quit}
  Main = Main
  NoFiber = NoFiber
  NoTask = NoTask
  NoWorker = NoWorker
  NoParent = NoParent
  Debug = FALSE
SYMMETRY Symmetry
CHECK_DEADLOCK FALSE
INVARIANTS
  TypeOK
  CounterExact
  TaskInOnePlace
  JoinComplete
  NoLostWakeup
