CONSTANTS
  Buttons = {"START", "LEFT", "VOLDOWN", "NOTE", "HOME"}
  Changes = {{}, {"START"}, {"LEFT"}, {"VOLDOWN"}, {"NOTE"}, {"HOME"}, {"START", "LEFT"}}
  VOLUME_REPEAT_DELAY = 3
  VOLUME_REPEAT_INTERVAL = 2
  SOUND_HOLD = 2
  DISPLAY_HOLD = 2
  MaxEvents = 5
SPECIFICATION FairSpec
INVARIANTS
  ActsWerePressed
  InterceptReleased
PROPERTIES
  QuietWhenReleased
  PressesAct
