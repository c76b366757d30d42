SPECIFICATION FairSpec
CONSTANTS
  s1 = s1
  s2 = s2
  Streams <- TwoStreams
  MaxChunks <- ThreeAndNone
  PipeCap = 1
  Faults <- AllFaults
INVARIANTS
  RowsHaveBlobs
  ReadWhenComplete
  NothingDeletedUnsaved
  NoSendOnClosed
  CleanExitComplete
PROPERTIES
  LogSpec
  Stops
CHECK_DEADLOCK FALSE
