CONSTANTS
  MaxMade = 3
  MaxRepeats = 1
  MaxLink = 2
SPECIFICATION Spec
INVARIANTS TypeOK
PROPERTIES HostNotices BoardNotices
