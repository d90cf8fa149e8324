CONSTANTS
  Waits = {w1, w2}
  MaxSignals = 2
SPECIFICATION FairProcess
INVARIANT NeverAbandonsUnasked
PROPERTIES
  DropReturns
  SignalEndsProcess
CHECK_DEADLOCK FALSE
