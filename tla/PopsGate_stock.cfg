CONSTANTS
  KnownPops = TRUE
SPECIFICATION FairSpec
PROPERTIES
  StockBehaviourReturns
