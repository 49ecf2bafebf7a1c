SPECIFICATION FairSpec
CONSTANTS
  MaxNodes = 2
  Addr = {"x"}
  Opener = {"opencon", "addcon"}
  ByName = {"addcon"}
  nMaxOutbound = 2
  nMaxInbound = 1
INVARIANTS NodesInUseExist OutboundSlotsKept
PROPERTIES DisconnectedNodesDeleted
