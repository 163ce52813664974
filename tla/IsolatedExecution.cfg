CONSTANTS
  Limit = 2
  Chunk = 2
  PipeSize = 3
  StdinSize = 1
  MaxWrites = 4
SPECIFICATION FairSpec
CHECK_DEADLOCK FALSE
INVARIANTS
  CompletedIsExact
  ReturnedIsReaped
PROPERTIES
  AlwaysReturns
