SPECIFICATION Spec
CONSTANTS
  Externals = {"e", "f"}
  Peers = {"p", "q"}
  Probes = {"v"}
  Masters = {"m", "n"}
  ParentOf <- MCParents
  Capacity = 1
  Scenarios <- ProbePending
INVARIANTS DeadMasterHoldsNothing ProbedBeforeRouted
CHECK_DEADLOCK FALSE
