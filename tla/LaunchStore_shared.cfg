SPECIFICATION StoreSpec
CONSTANTS
  Launchers = {l1, l2}
  Writers = {l1, l2}
  NoLauncher = NoLauncher
  manifest = manifest
  Contents = {manifest}
  ContentOf <- MCContentOf
  None = None
INVARIANT OkMeansStored
CHECK_DEADLOCK FALSE
