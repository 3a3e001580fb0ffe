CONSTANTS
  Categories = {led}
  Resent = {}
  ThrowErrors = FALSE
  Values = {0}
  MaxWrites = 2
  MaxLink = 2
  MaxGets = 2
SPECIFICATION Spec
PROPERTIES PacketReachesWaiter
