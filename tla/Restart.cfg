SPECIFICATION Spec
INVARIANTS StoreNotOlder JoinPending  RunningConsistent Retryable
CONSTANTS
  Clusters = {TRUE, FALSE}
  RemoveFails = TRUE
  MaxSets = 3
  MaxFaults = 3
  MaxCrashes = 2
CHECK_DEADLOCK FALSE
