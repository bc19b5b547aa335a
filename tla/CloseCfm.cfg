SPECIFICATION Spec
CONSTANTS
  s1 = s1
  s2 = s2
  s3 = s3
  Sockets = {s1, s2}
  NoSocket = NoSocket
  UnknownId = UnknownId
  Low16 <- MCLow16
  NumInstances = 2
  MaxRfcommConn = 2
  MaxLecocConn = 1
  InvalidConnId = InvalidConnId
  Contexts <- MixedContexts
  MaxSocketSupported = 2
  MaxCloseInd = 0
  MaxGattSessions = 1
PROPERTY
  CloseCfmCompletes
