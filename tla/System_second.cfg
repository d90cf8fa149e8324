CONSTANTS
  Waits = {w1}
  MaxSignals = 3
SPECIFICATION FairSpec
PROPERTY SecondSignalReturns
CHECK_DEADLOCK FALSE
