SPECIFICATION FairSpec
CONSTANTS
  Procs = {p1, p2, p3}
  Exts = {e1, e2}
  None = None
  MaxCalls = 2
PROPERTY Atomic
PROPERTY NumbersAreFresh
PROPERTY CallReturns
CHECK_DEADLOCK FALSE
