SPECIFICATION Spec
CONSTANTS
  Id = {i1, i2}
  Address = {"Ann", "ann", "Bob"}
  Lower <- MCLower
  Password = {p1, p2, weak}
  Strong = {p1, p2}
  Request = {q1, q2}
  SameSecret = TRUE
  NoValue = NoValue
SYMMETRY Symmetry
INVARIANTS OneAccountPerAddress GrantsJustified
