SPECIFICATION FairSpec
CONSTANTS
  Workers = {w1, w2}
  Master = m
  nBatchSize = 2
  MaxChecks = 4
  MaxBad = 1
INVARIANT WaitResultIsConjunction
PROPERTY WaitReturns
