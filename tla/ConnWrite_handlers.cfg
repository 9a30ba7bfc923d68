CONSTANTS
  Writers = {w1, w2}
  PollerWriters = {}
  MaxSend = 2
  PacketLen = 2
  SockBuf = 1
  NoPacket = NoPacket
SPECIFICATION FairSpec
INVARIANTS
  TypeOK
  BytesKept
  HalfSentIsWatched
PROPERTIES
  OneSenderIsServed
  HalfSentIsFinished
CHECK_DEADLOCK FALSE
