\* Sessions with full channels, deaf and gone peers, rotation and shutdown.
CONSTANTS
  WriteCap = 1
  WireCap  = 2
  MaxPings = 3
SPECIFICATION FairSpec
INVARIANT PongsInOrder
INVARIANT PingAccounted
PROPERTY DeadSessionEnds
PROPERTY LifeKept
