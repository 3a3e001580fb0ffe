CONSTANTS
  Categories = {led}
  Resent = {}
  ThrowErrors = FALSE
  Values = {0, 1}
  MaxWrites = 1
  MaxLink = 3
  MaxGets = 1
SPECIFICATION Spec
INVARIANTS GetReturnsNext
