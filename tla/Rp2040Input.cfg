CONSTANTS
  Buttons = {a}
  SticksAt = {128}
  Center = 128
  AimsAt = {100}
  EVENT_QUEUE_SIZE = 3
  ANALOG_DEADBAND = 2
  TransfersFail = TRUE
  MaxReports = 2
  Profiles = 2
  ComboProfiles = {0}
  Presses1 = {{}, {"start", "combo"}, {"start", "left", "r3"}}
  Presses2 = {{}, {"start", "combo"}}
SPECIFICATION InputSpec
INVARIANTS
  ReleasedUnlessLost
  GunSurvivesOverflow
  PortReadRight
  OneSwitchPerStart
PROPERTIES
  HeldReaches
