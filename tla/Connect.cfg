SPECIFICATION FairSpec
INVARIANTS NoStrayConnection BackoffExact
PROPERTIES ImplementsSearch Connects ReturnsWhenDone
CONSTANTS
  s1 = s1  s2 = s2  s3 = s3
  NoServer = NoServer
  Server = {s1, s2, s3}
  Store <- TwoKnown
  Legacy = {s2}
  RetryLimits = {0, 1}
  BackoffFactor = 1
  BackoffCap = 7
  Width = 5
  MaxAttempts = 4
  MaxElections = 1
  MaxFails = 1
CHECK_DEADLOCK FALSE
