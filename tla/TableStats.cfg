SPECIFICATION SnapshotSpec
CONSTANTS
  Workers = {w1, w2}
  Sweeper = sweeper
  Keys = {k1, k2}
  Values = {v1}
  TTLs = {0}
  NumBuckets = 2
  Bucket <- LastBucketForAll
  Nodes = {n1, n2}
  NULL = null
  MaxOps = 4
  MaxTime = 1
INVARIANTS
  StatsConsistent
CHECK_DEADLOCK FALSE
