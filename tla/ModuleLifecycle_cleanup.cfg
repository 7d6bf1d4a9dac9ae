CONSTANTS
  KnownPops = TRUE
SPECIFICATION LifeSpec
CHECK_DEADLOCK FALSE
INVARIANTS
  PatchUndone
