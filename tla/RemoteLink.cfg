CONSTANTS
  PowerSwitch = TRUE
  RingEvents = 2
  MaxSessions = 2
  MaxErrors = 1
SPECIFICATION FairSpec
CHECK_DEADLOCK FALSE
INVARIANTS
  FreshInput
  ReadyAgreement
  TransfersTracked
PROPERTIES
  Connects
  InputReleased
  StandbyCompletes
