SPECIFICATION FairStoreSpec
CONSTANTS
  Launchers = {l1, l2, l3}
  Writers = {l1, l2, l3}
  NoLauncher = NoLauncher
  manifest = manifest
  Contents = {manifest}
  ContentOf <- MCContentOf
  None = None
INVARIANTS OverlapNeedsOrphan LostOnlyByFailure
PROPERTIES LaunchEnds Immutable
CHECK_DEADLOCK FALSE
