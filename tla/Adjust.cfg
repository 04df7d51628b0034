SPECIFICATION FairSpec
PROPERTIES Converges CloseCompletes
CONSTANTS
  n1 = n1  n2 = n2  n3 = n3  n4 = n4  n5 = n5
  NoNode = NoNode
  None = None
  Voters = 3
  Node = {n1, n2, n3, n4, n5}
  StandBys = 1
  Metadata <- AdjustMeta
  InitConfs <- AnyConf
  InitUp <- OneDown
  Ticking = {n1}
  Leaving = {}
  Closing = {n1}
  Crashing = {}
  Flaky = FALSE
  SlowProbes = FALSE
  MaxElections = 0
  MaxStops = 1
CHECK_DEADLOCK FALSE
