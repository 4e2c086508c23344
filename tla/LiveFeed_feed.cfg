SPECIFICATION FairSpec
CONSTANTS
  Selectors <- EverySelector
  ChannelCap = 1
  MaxCaptured = 4
  MaxCancels = 2
INVARIANTS NothingSilent LossReportedInTime StopLosesAtMostOne
PROPERTIES FailureNeverLooksClean ClosedFeedEnds
CHECK_DEADLOCK FALSE
