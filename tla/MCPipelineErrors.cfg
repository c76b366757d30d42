SPECIFICATION Spec
CONSTANTS
  s1 = s1
  s2 = s2
  Streams <- OneStream
  MaxChunks <- TwoChunks
  PipeCap = 2
  Faults <- NoFaults
INVARIANT ErrorsHaveCauses
CHECK_DEADLOCK FALSE
