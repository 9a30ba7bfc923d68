CONSTANTS
  MaxConn = 2
  MaxFd = 2
  NumPoller = 2
  Handlers = {h1}
  Closers = {h1}
  Heartbeats = {hb}
  MaxMsg = 1
  None = None
SPECIFICATION Spec
INVARIANTS
  ReportedIsClosed
  OnCloseOnce
CHECK_DEADLOCK FALSE
