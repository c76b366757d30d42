SPECIFICATION FairSpec
CONSTANTS
  n1 = n1
  n2 = n2
  Names <- TwoNames
  Counts <- SomeCounts
  StreamLimit = 1
  ChunkLimit = 2
  MaxStreams = 2
  MaxChunks = 3
INVARIANTS
  EachRowOnce
  CursorsAccepted
PROPERTY WalksEnd
CHECK_DEADLOCK FALSE
