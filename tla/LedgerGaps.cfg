CONSTANTS
  Node = {n1, n2}
  Backfiller = {b1, b2}
  RetryAttempts = 1
  MaxLag = 1
  MaxLedger = 4
  MaxCrashes = 1
SPECIFICATION GapsSpec
INVARIANTS
  GapsTypeOK
  NoSilentGap
PROPERTIES
  GapClosedOnlyWhenFetched
  BackfillEnds
