CONSTANTS
  n1 = n1  n2 = n2  i1 = i1  s1 = s1  s2 = s2
  Normals = {n1, n2}
  Instants = {i1}
  Scheduleds = {s1, s2}
  deadline <- MCDeadline
  Horizon = 1
  NoMessage = NoMessage
SPECIFICATION FairSpec
INVARIANTS
  OvertakenAtMostOnce
  JoinMeansOver
PROPERTIES
  KeepsMailbox
  EverySentMessageSettles
  StoppedReleasesJoiners
CHECK_DEADLOCK FALSE
