CONSTANTS
  Stoppers = {s1, s2}
  MaxConn = 2
  MaxMsg = 1
  NumPoller = 1
  EmitCap = 1
  None = None
SPECIFICATION FairSpec
INVARIANTS
  TypeOK
  CalmStop
PROPERTIES
  EverybodyReturns
  Drained
CHECK_DEADLOCK FALSE
