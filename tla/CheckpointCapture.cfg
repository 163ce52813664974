SPECIFICATION Spec
CONSTANTS
  plain = plain  hidden = hidden  merging = merging
  c1 = c1  c2 = c2  secret = secret  big = big
  Paths = {plain, hidden, merging}
  Contents = {c1, c2, secret, big}
  Secret = {secret}
  Big = {big}
  SensitivePaths = {hidden}
  Selected = {hidden, merging}
  Ignored = {hidden}
  Unsupported = {merging}
  MaxWrites = 2
INVARIANTS EveryPathAccounted ContentsAreUntorn SecretsStayOut SnapshotWhenQuiet
CHECK_DEADLOCK FALSE
