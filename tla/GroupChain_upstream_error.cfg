SPECIFICATION FairSpec
CONSTANTS
  N = 2
  Items = 2
  Window = 2
  CapWindow <- TwoWindows
  Frames <- TwoFrames
  Collecting = {2}
  MayFail = {1}
  MayStop = {}
PROPERTY RunEnds
CHECK_DEADLOCK FALSE
