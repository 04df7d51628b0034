SPECIFICATION Spec
INVARIANTS HandoversKeepCount
CONSTANTS
  n1 = n1  n2 = n2  n3 = n3  n4 = n4  n5 = n5
  NoNode = NoNode
  None = None
  Voters = 3
  Node = {n1, n2, n3, n4, n5}
  StandBys = 1
  Metadata <- Same
  InitConfs <- OneOfEach
  InitUp <- AllUp
  Ticking = {}
  Leaving = {n1, n2}
  Closing = {}
  Crashing = {}
  Flaky = FALSE
  SlowProbes = FALSE
  MaxElections = 1
  MaxStops = 0
CHECK_DEADLOCK FALSE
