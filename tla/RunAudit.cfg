CONSTANTS
  MaxAttempts = 2
  MaxJournal = 5
  MaxViews = 1
  MaxFaults = 1
SPECIFICATION Spec
CHECK_DEADLOCK FALSE
INVARIANTS
  SentIsRecorded
  JournalIsBacked
  ContextIsPast
  PassTellsTheTruth
  SealedRunPasses
PROPERTIES
  VerdictIsStable
