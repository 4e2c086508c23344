SPECIFICATION FairChainSpec
CONSTANTS
  Runs = {"a", "b", "c"}
  Domains <- MCDomains
  Capacity <- MCCapacity
  Chain <- OrderedChains
  MaxBreaks = 1
  MaxRefusals = 1
INVARIANT NeverWaitsForItself
PROPERTY EveryRunEnds
CHECK_DEADLOCK FALSE
