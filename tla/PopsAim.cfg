CONSTANTS
  Readings <- GunReadings
  Aims <- GyroAims
  Display <- Lcd
  SHOT_PRESS = 1
  FLASH_WAIT = 1
  GUN_HOLD = 2
  SHOT_HOLD = 3
  DETECT_SETTLE_TICKS = 1
SPECIFICATION AimFairSpec
PROPERTIES
  GunSeenRight
  HeldShotReaches
  PadGivenBack
