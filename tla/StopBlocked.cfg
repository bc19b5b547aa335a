SPECIFICATION FairSpec
CONSTANTS
  PipeSize = 2
  MaxSessions = 1
  MaxRx = 1
  MaxBtss = 0
  Uart = TRUE
  RestartWaits = TRUE
  EarlyClose = FALSE
CHECK_DEADLOCK FALSE
PROPERTIES
  StopReturns
