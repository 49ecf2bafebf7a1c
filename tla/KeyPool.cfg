SPECIFICATION Spec
CONSTANTS
  Holder = {h1, h2}
  nTargetSize = 1
  KpSize = {0, 2}
  MaxKeys = 7
INVARIANTS KeyUsedOnce PoolIsRecords
