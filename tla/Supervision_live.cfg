CONSTANTS
  root = root  kid = kid  job = job  g1 = g1  g2 = g2
  Actors <- MCActors
  Tasks <- MCTasks
  Ids <- MCIds
  Groups <- OneGroup
  Prioritized <- MCSequence
  NoGroup = NoGroup
  Nobody = Nobody
  Root = root
  Obedient <- MCActors
  Panicky = {}
  MaxInterrupts = 1
SPECIFICATION FairSpec
PROPERTIES
  InterruptedEnds
  KeepsFamily
