CONSTANTS
  MaxDuration = 3
  MaxUpdates = 2
  MaxTicks = 2
SPECIFICATION FairSpec
PROPERTIES
  WaitsAsLastPolled
  KeepsBeating
  StopEndsHeartBeat
CHECK_DEADLOCK FALSE
