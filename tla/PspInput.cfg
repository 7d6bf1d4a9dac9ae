CONSTANTS
  Buttons = {a, b}
  SticksAt = {128, 130}
  Center = 128
  AimsAt = {100, 120, 140}
  EVENT_QUEUE_SIZE = 3
  ANALOG_DEADBAND = 2
  AIM_DEADBAND = 32
  MaxReports = 2
SPECIFICATION FairSpec
INVARIANTS
  InputMirrored
  Player2Mirrored
PROPERTIES
  Settles
  ImplementsPadChannel
