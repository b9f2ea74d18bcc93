CONSTANTS
  a1 = a1
  a2 = a2
  a3 = a3
  NoValue = NoValue
  Fraction = Fraction
  t1 = t1
  SmallTaxon = {t1}
  Minter = {a1}
  Trader = {a1, a2}
  Wrapped = FALSE
  BigTaxon = BigTaxon
  Nft = {1, 2}
  Account <- MCAccount
  Price <- MCPrice
  Attributes <- MCAttributes
  Alert <- MCAlert
  ChunkSize = 2
  MaxMessages = 3
  MaxLate = 2
  MaxFailures = 1
SPECIFICATION Spec
INVARIANTS OwnerFollowsLedger CollectionLinked AlertsSound ClassifiedIsParsed
PROPERTY KeepsBatches
CHECK_DEADLOCK FALSE
