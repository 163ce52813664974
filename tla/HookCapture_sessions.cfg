SPECIFICATION FairSpec
CONSTANTS
  Hooks = {h1, h2}
  o1 = o1
  o2 = o2
  v1 = v1
  v2 = v2
  m1 = m1
  m2 = m2
  None = None
  Ops = {o1, o2}
  Exts = {e1, e2}
  Versions = {v1, v2}
  Manifests = {m1, m2}
  ManifestOf <- MCManifestOf2
  OpScope <- MCOpScope2
  HooksOutliveTimeout = FALSE
  MaxTroubles = 1
CONSTRAINT FewTroubles
ACTION_CONSTRAINT FirstDelivery
INVARIANTS OneClaudeSession
PROPERTY UsesSessionState EligibleResultGetsReceipt
CHECK_DEADLOCK FALSE
