SPECIFICATION Spec
CONSTANTS
  Consumers = {c1, c2}
  IndexBits = 4
  BlockSize = 2
  MaxBulk = 3
  StartIndex = 14
  StartOvercommit = 1
  MaxPromised = 2
  MaxEnqueued = 7
  Blocks = {b1, b2, b3}
  NoBlock = NoBlock
  InitialIndexSize = 2
  MaxHeaders = 2
  MaxSubqueueSize = 16
  MallocFailsFirst = TRUE
  PartialFailure = FALSE
  ThrowsLate = FALSE
SYMMETRY Symmetry
INVARIANTS
  LookupSound
  ReadsItsElements
  ConstructsInVacant
  DestroysAll
  EveryBlockListed
PROPERTIES
  FifoSpec
CHECK_DEADLOCK FALSE
