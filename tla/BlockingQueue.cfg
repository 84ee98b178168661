SPECIFICATION Spec
CONSTANTS
  Producers = {p1, p2}
  Consumers = {c1, c2}
  MaxBulk = 2
  MaxEnqueued = 4
INVARIANTS
  WaitersExact
  ElementsAccounted
PROPERTIES
  SemaphoreSpec
  SleepersWake
CHECK_DEADLOCK FALSE
