CONSTANT MaxItems = 3
SPECIFICATION FairSpec
INVARIANTS
  ItemsInOrder
  TaskFinishedMeansForwarded
PROPERTY StreamEnds
CHECK_DEADLOCK FALSE
