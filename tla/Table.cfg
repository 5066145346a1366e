SPECIFICATION Spec
CONSTANTS
  Workers = {w1, w2}
  Sweeper = sweeper
  Keys = {k1, k2}
  Values = {v1, v2}
  TTLs = {0, 1}
  NumBuckets = 2
  Bucket <- LastBucketForAll
  Nodes = {n1, n2}
  NULL = null
  MaxOps = 3
  MaxTime = 3
SYMMETRY Symmetry
INVARIANTS
  TypeOK
  NoUseAfterFree
  ChainsOK
  NoLeak
  StatsAddUp
PROPERTIES
  StoreSpec
CHECK_DEADLOCK FALSE
