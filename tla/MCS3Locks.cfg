CONSTANTS
  r1 = r1
  r2 = r2
  n1 = n1
  n2 = n2
  Nobody = Nobody
  Runs <- TwoRuns
  Nodes <- TwoNodes
  Chunks <- ChunkPerNode
  Scopes <- BothNodes
  Skew <- Behind
  TTL = 1
  SkewMargin = 1
  Grace = 0
  DDBAttempts = 2
  MaxCrashes = 1
  MaxTime = 2
  MaxUnlocks = 1
SPECIFICATION Spec
INVARIANTS Exclusive WithinLeaseCanWrite
PROPERTIES RenewalMeansUntouched NewestHolderWrites
CHECK_DEADLOCK FALSE
SYMMETRY NodesAlike
