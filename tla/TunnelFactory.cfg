CONSTANTS
  Boards = {b1, b2}
  MaxConns = 2
  MaxBacklog = 1
SPECIFICATION FairSpec
INVARIANTS TypeOK Conserved NeverRaises
PROPERTIES Reaped EventuallyServed
