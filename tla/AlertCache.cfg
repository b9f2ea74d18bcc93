SPECIFICATION Spec
CONSTANTS
  Alert = {a1, a2}
  User = {u1, u2}
  Request = {r1, r2}
  Process = {p1, p2}
  NoValue = NoValue
  Prices = {1, 2}
  Edits <- MCEdits
CHECK_DEADLOCK FALSE
INVARIANTS EditsKept StoredIsAccepted
PROPERTIES CacheCatchesUp
