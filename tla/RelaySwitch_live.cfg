SPECIFICATION FairSpec
CONSTANTS
  Externals = {"e"}
  Peers = {"p"}
  Probes = {}
  Masters = {"m", "n"}
  ParentOf <- OnePeer
  Capacity = 1
  Scenarios <- LiveScenarios
PROPERTY EveryRequestEnds
CHECK_DEADLOCK FALSE
