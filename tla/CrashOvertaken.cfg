SPECIFICATION Spec
CONSTANTS
  Channels = {hci, socket}
  HalChannels = {hci, socket}
  Hci = hci
  hci = hci
  socket = socket
  PipeSize = 4
  MaxSessions = 2
  MaxLinkDowns = 0
CHECK_DEADLOCK FALSE
INVARIANT
  CrashIsMockedOff
