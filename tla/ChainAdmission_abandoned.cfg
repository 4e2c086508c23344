SPECIFICATION FairChainSpec
CONSTANTS
  Runs = {"a", "b", "c"}
  Domains <- MCDomains
  Capacity <- MCCapacity
  Chain <- OrderedChains
  MaxBreaks = 0
  MaxRefusals = 1
PROPERTY FailedRunsHoldNothing
CHECK_DEADLOCK FALSE
