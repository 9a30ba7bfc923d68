CONSTANTS
  Writers = {w1, w2}
  PollerWriters = {w1, w2}
  MaxSend = 2
  PacketLen = 3
  SockBuf = 2
  NoPacket = NoPacket
SPECIFICATION FairSpec
PROPERTIES
  ImplementsStream
  EverythingSent
CHECK_DEADLOCK FALSE
