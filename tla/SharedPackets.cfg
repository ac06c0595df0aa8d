\* Two connections; numbers that lie apart or overlap.
SPECIFICATION SharedSpec
CONSTANTS
  NumConnections = 2
  Starts <- MCStarts
  MaxPackets = 4
  MaxReads = 2
CHECK_DEADLOCK FALSE
INVARIANT LastConnectionDecides
