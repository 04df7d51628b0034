SPECIFICATION Spec
INVARIANTS VotersFloor AdjustDemotesSafely
PROPERTIES AdjustKeepsVoters
CONSTANTS
  n1 = n1  n2 = n2  n3 = n3  n4 = n4  n5 = n5
  NoNode = NoNode
  None = None
  Voters = 3
  Node = {n1, n2, n3, n4}
  StandBys = 1
  Metadata <- Same
  InitConfs <- ThreeAndSpare
  InitUp <- AllUp
  Ticking = {n2}
  Leaving = {n1}
  Closing = {n1}
  Crashing = {n4}
  Flaky = FALSE
  SlowProbes = FALSE
  MaxElections = 0
  MaxStops = 1
CHECK_DEADLOCK FALSE
