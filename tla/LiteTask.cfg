CONSTANT Tasks = {t1, t2}
SPECIFICATION FairSpec
INVARIANT InterruptedOnlyIfStopped
PROPERTIES
  StoppedEnds
  StopAllEndsAll
CHECK_DEADLOCK FALSE
