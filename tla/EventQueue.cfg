CONSTANTS
  Messages = {m1}
  Fallible = {m1}
  MaxRetries = 2
  Prefetch = 1
  MaxReconnectAttempts = 2
  MaxCopies = 3
  MaxConnections = 3
  MaxLosses = 2
  MaxCrashes = 1
SPECIFICATION Spec
INVARIANTS TypeOK NothingLost AttemptsBounded DeadLettersWereTried
PROPERTIES HandledOrDeadLettered
CHECK_DEADLOCK FALSE
