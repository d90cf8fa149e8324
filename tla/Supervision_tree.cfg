CONSTANTS
  root = root  kid = kid  job = job  g1 = g1  g2 = g2
  Actors <- MCActors
  Tasks <- MCTasks
  Ids <- MCIds
  Groups <- MCGroups
  Prioritized <- MCSequence
  NoGroup = NoGroup
  Nobody = Nobody
  Root = root
  Obedient = {root}
  Panicky = {kid, job}
  MaxInterrupts = 1
SPECIFICATION Spec
INVARIANTS
  TypeOK
  TrackersConsistent
  TerminatingStagesInterrupted
  TerminationPending
  GracefulShutdown
  FamilyInv
PROPERTY OrderedTermination
