SPECIFICATION Spec
CONSTANTS
  Cartridges = {c1, c2}
  Requests = {a, p}
  Handler <- SelfLoop
  Caller <- Called
  Parent <- Parents
  Streaming = {p}
  BrokenPipes = FALSE
  Granted = {}
  Troubles = 0
  Elsewhere = Elsewhere
  None = None
  c1 = c1
  c2 = c2
  a = a
  b = b
  p = p
INVARIANTS
  RightEnd
CHECK_DEADLOCK FALSE
