SPECIFICATION FairRegionSpec
CONSTANTS
  Runs = {1, 2, 3, 4}
  Domains <- MCDomains
  Capacity <- MCCapacity
  Chain <- Chains
  MaxBreaks = 1
  MaxRefusals = 1
  Bodies = 3
  InFlight = 2
  Buffered = 1
  Policies = {"fail", "keep"}
  MaxTroubles = 1
INVARIANTS
  NeverShort
PROPERTIES
  EveryBodyEnds
  RegionEnds
CHECK_DEADLOCK FALSE
