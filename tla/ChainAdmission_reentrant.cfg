SPECIFICATION FairChainSpec
CONSTANTS
  Runs = {"a"}
  Domains <- MCDomains
  Capacity <- MCCapacity
  Chain <- ReentrantChain
  MaxBreaks = 0
  MaxRefusals = 0
PROPERTY EveryRunEnds
CHECK_DEADLOCK FALSE
