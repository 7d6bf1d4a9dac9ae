CONSTANTS
  Frames = {f1, f2}
  Displays <- SomeDisplays
  Aims <- GyroAims
  Readings <- GunReadings
  XH_RECORDS = 3
SPECIFICATION OverlaySpec
INVARIANTS
  NoTrail
  FlashAccounted
  CrosshairTrue
