SPECIFICATION Spec
CONSTANTS
  ChunkLength = 4
  SilenceMin = 3
  Tiny = 1
  Lag = 2
  MaxTime = 12
INVARIANTS
  PiecesWithinChunk
  PiecesOrdered
  ChunkTimestamps
  SpeechIsKept
  PiecesAreSpeech
CHECK_DEADLOCK FALSE
