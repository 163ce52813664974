CONSTANTS
  Slots = {s1, s2}
  Scripts <- MCScripts
  Verifier = "v"
  MaxHooks = 3
  MaxKills = 1
SPECIFICATION Spec
ACTION_CONSTRAINT HooksOnFewScripts
SYMMETRY SlotSymmetry
CHECK_DEADLOCK FALSE
INVARIANTS
  LoneHookHeals
  EndIsKept
  HitsAreRepeats
PROPERTIES
  MarksOnlyGrow
