SPECIFICATION Spec
CONSTANTS
  Selectors <- DropOldest
  ChannelCap = 1
  MaxCaptured = 3
  MaxCancels = 0
INVARIANT JumpsAreMarked
CHECK_DEADLOCK FALSE
