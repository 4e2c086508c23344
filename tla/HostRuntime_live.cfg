SPECIFICATION FairSpec
CONSTANTS
  Cartridges = {c1, c2}
  Requests = {a, p}
  Handler <- SelfLoop
  Caller <- Called
  Parent <- Parents
  Streaming = {}
  BrokenPipes = FALSE
  Granted = {}
  Troubles = 2
  Elsewhere = Elsewhere
  None = None
  c1 = c1
  c2 = c2
  a = a
  b = b
  p = p
PROPERTIES
  EveryCallEnds
CHECK_DEADLOCK FALSE
