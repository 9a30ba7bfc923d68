CONSTANTS
  Modes = {"plain", "tls"}
  Pipelining = {"plain"}
  SplitHeads = {"plain"}
  MaxPacket = 3
  MaxBody = 4
  HeadLen = 2
  MaxBodyLength = 3
  MaxRecord = 4
  RawRead = 5
  MaxRead = 2
SPECIFICATION FairSpec
INVARIANTS
  TypeOK
  Framed
PROPERTIES
  ClosedForCause
  NothingWaits
CHECK_DEADLOCK FALSE
