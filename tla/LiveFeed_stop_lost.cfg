SPECIFICATION FairSpec
CONSTANTS
  Selectors <- DropOldest
  ChannelCap = 1
  MaxCaptured = 2
  MaxCancels = 1
PROPERTY StopEndsTheRequest
CHECK_DEADLOCK FALSE
