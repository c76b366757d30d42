SPECIFICATION FairStoreSpec
CONSTANTS
  w1 = w1
  w2 = w2
  k1 = k1
  k2 = k2
  Writers <- TwoWriters
  Keys <- TwoKeys
  NumBlocks = 3
  Faults <- AllFaults
INVARIANTS
  MissingIsInHand
PROPERTY EventuallyWhole
