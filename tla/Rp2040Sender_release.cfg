CONSTANTS
  Buttons = {a}
  SticksAt = {128}
  Center = 128
  AimsAt = {}
  EVENT_QUEUE_SIZE = 3
  ANALOG_DEADBAND = 2
  TransfersFail = FALSE
  MaxReports = 3
SPECIFICATION FairSpec
PROPERTIES
  Player2Released
