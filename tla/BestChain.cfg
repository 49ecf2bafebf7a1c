SPECIFICATION FairSpec
CONSTANTS
  Block = {0, 1, 2, 3}
  Genesis = 0
  Works = {1}
  Verdicts = {"ok", "invalid", "corrupt", "silent"}
  ReadErrors = TRUE
  MaxFaults = 1
INVARIANTS ActiveChainValid FailedOnlyIfInvalid CandidatesExact BestValidChainActive
PROPERTIES DisconnectOnlyForBetter ActivationReturns
CHECK_DEADLOCK FALSE
