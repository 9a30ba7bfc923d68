CONSTANTS
  Peers = {p1, p2}
  Kinds = {"whole", "empty", "longer", "bad"}
  MaxDatagram = 3
  MaxFail = 1
  NumPoller = 2
  EmitCap = 1
  None = None
SPECIFICATION FairSpec
INVARIANTS
  TypeOK
  InOrder
  Attributed
  Verdicts
PROPERTY Served
CHECK_DEADLOCK FALSE
