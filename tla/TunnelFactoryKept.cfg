CONSTANTS
  Boards = {b1, b2}
  MaxConns = 2
  MaxBacklog = 1
SPECIFICATION Spec
PROPERTIES LiveTunnelKept
