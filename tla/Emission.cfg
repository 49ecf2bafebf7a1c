SPECIFICATION EmissionSpec
CONSTANTS
  scrypt = scrypt  x17 = x17
  Algo <- MCAlgo
  Continued <- MCContinued
  Scrypt = scrypt
  Weight <- MCWeight
  ProofOfWorkLimit = 4000
  FirstTarget = 2000
  FirstDivisor = 4
  MaxTarget = 16383
  CompactBase = 4
  CompactMantissa = 127
  PastBlocks = 4
  InRow = 3
  DGWtimespan = 2
  Idle = 20
  nMedianTimeSpan = 3
  nSSF = 2
  Periods = 2
  COIN = 10
  UInt32 = 430
  UInt64 = 100000
  Fork2 = FALSE
  EmissionPoints <- MCEmissionPoints
  SupplyBefore = 7801
  Delays <- MCDelays
  MaxBlocks = 7
  MaxOdd = 1
  MaxRestarts = 1
INVARIANTS SubsidyFromChain MinerFlagAccepted SupplyExact SurgeExact
