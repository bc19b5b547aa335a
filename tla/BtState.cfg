SPECIFICATION FairSpec
CONSTANTS
  PipeSize = 3
  MaxSessions = 2
  MaxRx = 1
  MaxBtss = 1
  Uart = TRUE
  RestartWaits = TRUE
  EarlyClose = TRUE
CHECK_DEADLOCK FALSE
INVARIANTS
  TypeOK
  NoStackCrash
  SessionEndsClean
  NoOtherMode
PROPERTIES
  EnableAnswered
  DisableAnswered
  CrashCleanedUp
