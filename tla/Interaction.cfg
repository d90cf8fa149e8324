CONSTANTS
  front = front  back = back
  Actors = {front, back}
  MaxRequests = 3
  Layer <- MCLayer
  None = None
SPECIFICATION FairSpec
INVARIANTS
  WaitingHasResponder
  ForwardedFaithfully
  BroadcastComplete
PROPERTIES
  EveryCallReturns
CHECK_DEADLOCK FALSE
