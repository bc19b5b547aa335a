SPECIFICATION FairSpec
CONSTANTS
  Channels = {hci, socket}
  HalChannels = {hci, socket}
  Hci = hci
  hci = hci
  socket = socket
  PipeSize = 4
  MaxSessions = 2
  MaxLinkDowns = 1
CHECK_DEADLOCK FALSE
INVARIANTS
  TypeOK
  NeverDeaf
PROPERTIES
  LossIsTold
  LiveHalKept
  ReadyAgain
