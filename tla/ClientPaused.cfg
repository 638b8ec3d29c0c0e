SPECIFICATION Spec
CONSTANTS
  NumRemotes = 2
  MaxCalls = 2
  MaxReady = 2
INVARIANTS PausedMeansIdle
CHECK_DEADLOCK FALSE
