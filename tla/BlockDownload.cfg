SPECIFICATION FairSpec
CONSTANTS
  Peer = {p1, p2}
  Block = {b1, b2}
  NoPeer = NoPeer
  MAX_BLOCKS_IN_TRANSIT_PER_PEER = 2
  BLOCK_DOWNLOAD_TIMEOUT = 1
  InactivityTimeout = 0
  MaxToDownload = 1
  BanScore = 10
  MaxAge = 4
  Outcomes = {"stored"}
INVARIANT QueuesMatchMaps
PROPERTIES WantedUntilSent StallJustified WantedIsSettled
