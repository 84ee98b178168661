SPECIFICATION Spec
CONSTANTS
  Consumers = {c1}
  IndexBits = 4
  BlockSize = 2
  MaxBulk = 3
  StartIndex = 14
  StartOvercommit = 0
  MaxPromised = 2
  MaxEnqueued = 6
  Blocks = {b1, b2, b3}
  NoBlock = NoBlock
  InitialIndexSize = 2
  MaxHeaders = 2
  MaxSubqueueSize = 16
  MallocFailsFirst = FALSE
  PartialFailure = TRUE
  ThrowsLate = FALSE
SYMMETRY Symmetry
INVARIANTS
  LookupSound
CHECK_DEADLOCK FALSE
