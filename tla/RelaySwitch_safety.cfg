SPECIFICATION Spec
CONSTANTS
  Externals = {"e", "f"}
  Peers = {"p", "q"}
  Probes = {"v"}
  Masters = {"m", "n"}
  ParentOf <- MCParents
  Capacity = 1
  Scenarios <- SafetyScenarios
INVARIANTS OneTerminal AnsweredWhenReleased PermitsFollowRequests CascadeReaches DeadMasterHoldsNothing
CHECK_DEADLOCK FALSE
