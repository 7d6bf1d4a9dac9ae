CONSTANTS
  Capacity = 7
  MaxEvents = 6
SPECIFICATION FairSpec
INVARIANTS
  AcceptedEventIsWhole
  NoLostWakeup
  NoSilentLoss
PROPERTIES
  ImplementsEventChannel
  RingDrains
