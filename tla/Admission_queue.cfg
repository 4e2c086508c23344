SPECIFICATION FairSpec
CONSTANTS
  c1 = c1
  c2 = c2
  c3 = c3
  k1 = k1
  k2 = k2
  m1 = m1
  m2 = m2
  Callers <- TwoCallers
  Keys = {k1}
  Masters = {m1}
  MasterOf <- OneMaster
  Grace = 2
  MaxCapacity = 1
  MaxChurn = 1
INVARIANTS
  PermitsMatchHolders
  NoLostWakeup
  NobodySleepsPastTheWindow
PROPERTIES
  ImplementsPermitLine
  EveryWaiterResolved
CHECK_DEADLOCK FALSE
