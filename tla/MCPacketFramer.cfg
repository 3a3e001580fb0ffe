\* Two packets; the longest message is as long as a packet may be.
CONSTANTS
  Messages <- MCMessages
  Formats <- MCFormats
  DebugBytes <- Text
  MAX_PACKET_LEN = 23
  MaxPackets = 2
  MaxDebug = 2
  MaxTimeouts = 2
SPECIFICATION Spec
INVARIANTS FoundInOrder ReadBack AllFound
CHECK_DEADLOCK FALSE
