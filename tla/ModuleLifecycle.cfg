CONSTANTS
  KnownPops = TRUE
SPECIFICATION LifeFairSpec
CHECK_DEADLOCK FALSE
INVARIANTS
  TrampolineIsOriginal
  GateMatchesWhileLoaded
  NothingLeftBehind
PROPERTIES
  LatchesTell
  InstalledWhileLoaded
  PulseEndsWhileLoaded
