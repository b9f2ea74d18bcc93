CONSTANTS
  Nft = {n1}
  Process = {p1}
  Caller = {c1}
  NoValue = NoValue
  Sources <- MCSources
  Gateways = 2
  BatchSize = 1
  MaxRetries = 2
  MaxDbFailures = 1
  MaxCrashes = 1
SPECIFICATION Spec
INVARIANTS
  TypeOK
  CompletedIsServed
  AttemptsBounded
PROPERTIES
  QueueSettles
