SPECIFICATION Spec
CONSTANTS
  Cartridges = {c1}
  Requests = {a, b, p}
  Handler <- Served
  Caller <- Called
  Parent <- Parents
  Streaming = {a}
  BrokenPipes = TRUE
  Granted = {a}
  Troubles = 2
  Elsewhere = Elsewhere
  None = None
  c1 = c1
  c2 = c2
  a = a
  b = b
  p = p
INVARIANTS
  RoutesAreOfTheLiving
  RightEnd
  SeqFollows
PROPERTIES
  RetiredWhenIdle
CHECK_DEADLOCK FALSE
