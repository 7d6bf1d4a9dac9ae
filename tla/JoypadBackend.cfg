CONSTANTS
  Addresses = {c1, c2}
  RJM_PROFILE_MAX = 3
SPECIFICATION FairSpec
INVARIANTS
  GunConFollows
  RestartBringsBack
  OnlyPairedReported
PROPERTIES
  DiscoveryFollows
