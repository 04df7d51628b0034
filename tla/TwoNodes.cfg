SPECIFICATION Spec
INVARIANTS HandoverHasSuccessor
CONSTANTS
  n1 = n1  n2 = n2  n3 = n3  n4 = n4  n5 = n5
  NoNode = NoNode
  None = None
  Voters = 3
  Node = {n1, n2}
  StandBys = 1
  Metadata <- Same
  InitConfs <- TwoNodes
  InitUp <- AllUp
  Ticking = {n1}
  Leaving = {n1}
  Closing = {}
  Crashing = {}
  Flaky = FALSE
  SlowProbes = FALSE
  MaxElections = 0
  MaxStops = 0
CHECK_DEADLOCK FALSE
