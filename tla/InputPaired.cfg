CONSTANTS
  Bodies <- MCBodies
  Length <- MCLength
  Payload = 6
  BlockCap = 2
  ForeignCap = 1
  Stride = 2
  MaxWire = 3
  MaxFaults = 0
  MaxMoves = 0
  QuietBound = 14
SPECIFICATION InputSpec
INVARIANT TailIsDriven
CHECK_DEADLOCK FALSE
