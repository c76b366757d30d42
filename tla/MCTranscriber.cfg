SPECIFICATION FairSpec
CONSTANTS
  t1 = t1
  t2 = t2
  t3 = t3
  w1 = w1
  w2 = w2
  Transmissions <- ThreeTransmissions
  Workers <- TwoWorkers
  Poison <- OnePoison
  MaxBatch = 2
  MaxFaults = 2
INVARIANTS
  NoMoreThanWorkers
PROPERTIES
  EventuallyTranscribed
  InterruptEnds
CHECK_DEADLOCK FALSE
