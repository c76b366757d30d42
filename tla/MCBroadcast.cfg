SPECIFICATION FairSpec
CONSTANTS
  l1 = l1
  l2 = l2
  l3 = l3
  Listeners <- ThreeListeners
  Capacity = 1
  SourceCapacity = 1
  MaxMsgs = 2
INVARIANTS
  RegisteredAreOpen
  NobodyForgotten
  InOrder
PROPERTIES
  ListenersClosed
CHECK_DEADLOCK FALSE
