SPECIFICATION Spec
CONSTANTS
  s1 = s1
  s2 = s2
  s3 = s3
  Sockets = {s1, s2, s3}
  NoSocket = NoSocket
  UnknownId = UnknownId
  Low16 <- MCLow16
  NumInstances = 2
  MaxRfcommConn = 2
  MaxLecocConn = 1
  InvalidConnId = InvalidConnId
  Contexts <- AllContexts
  MaxSocketSupported = 2
  MaxCloseInd = 0
  MaxGattSessions = 0
SYMMETRY Symmetric
INVARIANTS
  TypeOK
  OneOwner
  SocketIdRouting
  ConnIdRouting
  NoMicrostackLeak
  NoMicroappLeak
  OpenedEndToEnd
  NoLateRefusal
PROPERTY
  LifecycleSafety
\* The answer about an unknown endpoint names no socket: all sockets may wait for ever.
CHECK_DEADLOCK FALSE
