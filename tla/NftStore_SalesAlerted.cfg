CONSTANTS
  a1 = a1
  a2 = a2
  a3 = a3
  NoValue = NoValue
  Fraction = Fraction
  t1 = t1
  SmallTaxon = {t1}
  Minter = {a1}
  Trader = {a1, a2}
  Wrapped = FALSE
  BigTaxon = BigTaxon
  Nft = {1, 2}
  Account <- MCAccount
  Price <- MCPrice
  Attributes <- MCAttributes
  Alert <- MCAlert
  ChunkSize = 2
  MaxMessages = 2
  MaxLate = 0
  MaxFailures = 0
SPECIFICATION Spec
INVARIANT SalesAlerted
CHECK_DEADLOCK FALSE
