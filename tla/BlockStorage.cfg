SPECIFICATION Spec
CONSTANTS
  g0 = g0  a1 = a1  b1 = b1  b2 = b2
  NoBlock = NoBlock
  Block <- MCBlock
  Genesis = g0
  Parent <- MCParent
  MAX_BLOCKFILE_SIZE = 4
  MaxFile = 1
  MaxPos = 3
  MaxStops = 2
INVARIANTS PlacesReserved SavedTipsRecoverable StartSucceeds
PROPERTIES ImplementsDurable
CHECK_DEADLOCK FALSE
