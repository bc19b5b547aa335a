SPECIFICATION FairSpec
CONSTANTS
  s1 = s1
  s2 = s2
  s3 = s3
  Sockets = {s1, s2}
  NoSocket = NoSocket
  UnknownId = UnknownId
  Low16 <- MCLow16
  NumInstances = 1
  MaxRfcommConn = 2
  MaxLecocConn = 1
  InvalidConnId = InvalidConnId
  Contexts <- CrossedContexts
  MaxSocketSupported = 1
  MaxCloseInd = 1
  MaxGattSessions = 1
INVARIANT
  TablesAgree
PROPERTIES
  LifecycleLive
  CloseIndHonoured
