SPECIFICATION FairSpec
CONSTANTS
  p1 = p1
  p2 = p2
  Pieces <- TwoPieces
  Spans <- BoundarySpans
  Buffer = 8
  Ms = 4
INVARIANTS
  KeptUntilSplit
  NoTemporaryLeft
  ErrorIsTheCause
  CutCoversSpan
PROPERTY Ends
CHECK_DEADLOCK FALSE
