SPECIFICATION Spec
CONSTANTS
  Consumers = {c1, c2}
  IndexBits = 4
  BlockSize = 2
  MaxBulk = 3
  StartIndex = 14
  StartOvercommit = 1
  MaxPromised = 2
  MaxEnqueued = 5
  Blocks = {b1, b2, b3}
  NoBlock = NoBlock
  InitialIndexSize = 2
  MaxIndexSize = 4
  MaxSubqueueSize = 16
  MallocFailsFirst = FALSE
  Throws = TRUE
SYMMETRY Symmetry
INVARIANTS
  PromisesSettled
  ClaimsCovered
  LookupSound
  DestroysAll
PROPERTIES
  FifoSpec
CHECK_DEADLOCK FALSE
