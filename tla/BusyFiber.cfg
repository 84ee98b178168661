SPECIFICATION Spec
CONSTANTS
  Workers = {w1, w2}
  Fibers = {f1, f2, f3}
  Tasks = {t1, t2, t3, quit}
  Spawners = {t1}
  Terminators = {quit}
  Main = Main
  NoFiber = NoFiber
  NoTask = NoTask
  NoWorker = NoWorker
  NoParent = NoParent
  Debug = FALSE
SYMMETRY Symmetry
CHECK_DEADLOCK FALSE
INVARIANTS
  OnlyParkedResumed
