SPECIFICATION Spec
CONSTANTS
  Enqueuers = {e1, e2}
  Tokens = {k1, k2}
  Consumers = {c1, c2}
  HashOf <- MCHashOf
  InitialSize = 2
  Quota = 2
  Batches = {1, 2}
  MaxBulk = 2
  MaxCalls = 4
SYMMETRY Symmetry
INVARIANTS
  OwnProducer
  TokensLinked
  CountCoversList
  ShortAnswersHonest
  NobodySpins
CHECK_DEADLOCK FALSE
