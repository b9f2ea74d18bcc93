CONSTANTS
  Node = {n1}
  MaxConsecutiveFailures = 3
  PingOutcomes = {TRUE, FALSE}
  MaxRunning = 3
  MaxLate = 2
  MaxReplaced = 2
  MaxTimers = 3
SPECIFICATION NodesSpec
INVARIANTS
  NodesTypeOK
  HealthFlagHonest
PROPERTY
  ConnectedOrGivenUp
