SPECIFICATION Spec
CONSTANTS
  Threads = {t1, t2, t3}
  PoolBlocks = 1
  MaxBlock = 1
  Null = Null
SYMMETRY Symmetry
INVARIANTS
  NoABA
  OneAdder
  NoBlockLost
  RefsExact
CHECK_DEADLOCK FALSE
