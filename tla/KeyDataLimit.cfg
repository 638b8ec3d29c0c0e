SPECIFICATION KSpec
CONSTANTS
  RedLimit <- MCRedLimit
  MaxPacket = 2
  Modulus = 7
  MaxTotal = 8
INVARIANTS LimitTriggers
CHECK_DEADLOCK FALSE
