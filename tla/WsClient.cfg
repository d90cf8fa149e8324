CONSTANTS
  Interval = 2
  MaxQueue = 2
  MaxFrames = 2
  MaxStatuses = 3
SPECIFICATION FairSpec
PROPERTIES
  OrderlyEndSendsAll
  AttemptsArePaced
  ClosedSessionEnds
  StoppedClientEnds
CHECK_DEADLOCK FALSE
