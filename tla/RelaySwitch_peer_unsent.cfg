SPECIFICATION Spec
CONSTANTS
  Externals = {"e", "f"}
  Peers = {"p", "q"}
  Probes = {"v"}
  Masters = {"m", "n"}
  ParentOf <- MCParents
  Capacity = 1
  Scenarios <- PeerDeath
INVARIANT PeerAlwaysAnswered
CHECK_DEADLOCK FALSE
