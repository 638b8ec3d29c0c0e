SPECIFICATION DataSpec
CONSTANTS
  StartAt = 1
  MaxPid = 6
  WindowSize = 4
  RecvExpire = 1
  MaxTime = 2
  RedLimit <- MCRedLimit
  MaxPacket = 2
  Modulus = 7
  MaxTotal = 8
INVARIANTS TypeOK AcceptedOnce HistoryExact ProbeDecides NewestAccepted
INVARIANTS RedNeedsPeer NoRedLost LimitNoticed
PROPERTIES SentOnce
CHECK_DEADLOCK FALSE
