SPECIFICATION DataSpec
CONSTANTS
  Sockets = {1, 2}
  NoSocket = 0
  UnknownId = 255
  Low16 <- MCLow16
  NumInstances = 1
  MaxRfcommConn = 1
  MaxLecocConn = 1
  InvalidConnId = InvalidConnId
  Contexts <- RfcommOnly
  MaxSocketSupported = 1
  MaxCloseInd = 0
  MaxGattSessions = 0
  InitCredits = 2
  CreditSendThreshold = 2
  PeerBuffers = 1
  TxWindow = 2
  RxAppCredit = 1
  NumPackets = 1
  MaxTraffic = 2
INVARIANTS
  DataTypeOK
  CreditsConserved
  WindowAccounts
  AnsweredOnce
  RxInOrder
  NothingStuck
CHECK_DEADLOCK FALSE
