SPECIFICATION AddrManSpec
CONSTANTS
  p1 = p1  p2 = p2  p3 = p3  p4 = p4  s1 = s1  s2 = s2
  Address <- MCAddress
  Source <- MCSource
  NewBucket <- MCNewBucket
  TriedBucket <- MCTriedBucket
  ADDRMAN_NEW_BUCKET_SIZE = 2
  ADDRMAN_TRIED_BUCKET_SIZE = 1
  ADDRMAN_NEW_BUCKETS_PER_ADDRESS = 2
  ADDRMAN_TRIED_ENTRIES_INSPECT_ON_EVICT = 2
  ADDRMAN_GETADDR_MAX_PCT = 50
  ADDRMAN_GETADDR_MAX = 1
  MaxId = 4
  MaxGood = 2
SYMMETRY Symmetry
INVARIANT Consistent
PROPERTIES TriedNeverForgotten RestartKeepsTables
CHECK_DEADLOCK FALSE
