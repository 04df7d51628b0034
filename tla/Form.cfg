SPECIFICATION FairSpec
INVARIANTS TypeOK JoinFileKept ReadyMeansJoined
PROPERTIES ClusterForms
CONSTANTS
  n1 = n1  n2 = n2  n3 = n3  n4 = n4  n5 = n5
  NoNode = NoNode
  None = None
  Voters = 3
  Node = {n1, n2, n3}
  StandBys = 1
  Metadata <- Same
  InitConfs <- OneOrTwo
  InitUp <- AllUp
  Ticking = {n1, n2, n3}
  Leaving = {}
  Closing = {}
  Crashing = {n1, n3}
  Flaky = FALSE
  SlowProbes = FALSE
  MaxElections = 0
  MaxStops = 1
CHECK_DEADLOCK FALSE
