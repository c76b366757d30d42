SPECIFICATION FairSpec
CONSTANTS
  Docs <- AllDocs
  MaxStreams = 2
  MaxRows = 5
  MaxFaults = 1
INVARIANTS
  SchemaKept
  NullsExplained
  NoErrorWithoutCause
  BelongsToStream
PROPERTIES
  ExecutionEnds
CHECK_DEADLOCK FALSE
