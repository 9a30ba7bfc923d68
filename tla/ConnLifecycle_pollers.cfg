CONSTANTS
  MaxConn = 3
  MaxFd = 2
  NumPoller = 2
  Handlers = {h1}
  Closers = {}
  Heartbeats = {}
  MaxMsg = 1
  None = None
SPECIFICATION FairSpec
INVARIANTS
  TypeOK
  NoneForgotten
PROPERTIES
  UsesOwnSocket
  GoneIsClosed
CHECK_DEADLOCK FALSE
