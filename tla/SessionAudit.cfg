SPECIFICATION AuditSpec
CONSTANTS
  Hooks = {h1, h2, h3}
  o1 = o1
  o2 = o2
  v1 = v1
  v2 = v2
  m1 = m1
  m2 = m2
  None = None
  Ops = {o1}
  Exts = {e1}
  Versions = {v1, v2}
  Manifests = {m1, m2}
  ManifestOf <- MCManifestOf2
  OpScope <- MCOpScope
  HooksOutliveTimeout = FALSE
  MaxTroubles = 1
CONSTRAINT FewTroubles
SYMMETRY HookSymmetry
INVARIANTS ReceiptHasPreState VerdictIsObserved ReceiptIsPreVerifierState SequencesUnique ReceiptFollowsItsEvidence PassIsTrustworthy PassHidesNothing CleanSessionPasses
PROPERTY EvidenceIsImmutable
CHECK_DEADLOCK FALSE
