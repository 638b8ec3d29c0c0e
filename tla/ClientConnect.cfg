SPECIFICATION Spec
CONSTANTS
  NumRemotes = 2
  MaxCalls = 2
  MaxReady = 2
INVARIANTS TypeOK NeverRunsDry StopDrains ConnTimerGuards FinalizedWhenEnded
PROPERTIES Retries SilentServerLeft
CHECK_DEADLOCK FALSE
