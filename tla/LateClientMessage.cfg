SPECIFICATION Spec
CONSTANTS
  PipeSize = 3
  MaxSessions = 2
  MaxRx = 1
  MaxBtss = 0
  Uart = TRUE
  RestartWaits = TRUE
  EarlyClose = FALSE
CHECK_DEADLOCK FALSE
INVARIANTS
  ClientMessagesExpected
