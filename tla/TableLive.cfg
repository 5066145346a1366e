SPECIFICATION FairSpec
CONSTANTS
  Workers = {w1}
  Sweeper = sweeper
  Keys = {k1, k2}
  Values = {v1}
  TTLs = {0, 1}
  NumBuckets = 2
  Bucket <- LastBucketForAll
  Nodes = {n1, n2}
  NULL = null
  MaxOps = 2
  MaxTime = 3
PROPERTIES
  Reclaimed
  Destroyed
CHECK_DEADLOCK FALSE
