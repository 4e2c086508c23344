SPECIFICATION FairSpec
CONSTANTS
  N = 2
  Items = 3
  Window = 2
  CapWindow <- TwoWindows
  Frames <- TwoFrames
  Collecting = {2}
  MayFail = {1, 2}
  MayStop = {2}
INVARIANTS
  SuccessIsComplete
PROPERTIES
  HopsAreCreditHops
  CleanRunEnds
CHECK_DEADLOCK FALSE
