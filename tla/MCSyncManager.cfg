SPECIFICATION Spec
CONSTANTS
  p1 = p1
  p2 = p2
  Peers = {p1, p2}
  NoPeer = NoPeer
  PeerRoot <- Roots
  PeerHead <- Heads
  sync_fetch_span = 2
  min_blocks_distance = 0
  Lag = 1
  MaxWire = 1
  MaxPosted = 2
  MaxFaults = 1
INVARIANTS
    SourceWatched
    BlocksAccounted
PROPERTIES
    SyncCatchesUp
