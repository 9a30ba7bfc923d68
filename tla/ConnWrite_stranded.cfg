CONSTANTS
  Writers = {w1}
  PollerWriters = {}
  MaxSend = 2
  PacketLen = 2
  SockBuf = 1
  NoPacket = NoPacket
SPECIFICATION Spec
INVARIANT NothingStranded
CHECK_DEADLOCK FALSE
