CONSTANTS
  PairProcs = {p1, p2}
  EvalProcs = {e1}
  MaxFaults = 1
SPECIFICATION Spec
SYMMETRY PairSymmetry
CHECK_DEADLOCK FALSE
INVARIANTS
  ArmsRunOnce
  CompletedPairIsWhole
  PairPassIsTrustworthy
  CleanPairPasses
