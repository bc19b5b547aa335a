SPECIFICATION Spec
CONSTANTS
  PipeSize = 3
  MaxSessions = 2
  MaxRx = 0
  MaxBtss = 0
  Uart = TRUE
  RestartWaits = TRUE
  EarlyClose = TRUE
CHECK_DEADLOCK FALSE
PROPERTIES
  MockOffOnlyWithoutDisable
