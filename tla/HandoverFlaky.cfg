SPECIFICATION FairSpec
INVARIANTS HandoverKeepsVoters
PROPERTIES HandoverReturns
CONSTANTS
  n1 = n1  n2 = n2  n3 = n3  n4 = n4  n5 = n5
  NoNode = NoNode
  None = None
  Voters = 3
  Node = {n1, n2, n3, n4}
  StandBys = 1
  Metadata <- Same
  InitConfs <- GracefulConfs
  InitUp <- AllUp
  Ticking = {}
  Leaving = {n1}
  Closing = {n1}
  Crashing = {}
  Flaky = TRUE
  SlowProbes = FALSE
  MaxElections = 1
  MaxStops = 1
CHECK_DEADLOCK FALSE
