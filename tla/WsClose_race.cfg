CONSTANTS
  Closers = {g1}
  MaxSend = 4
  Poller = Poller
  Nil = Nil
SPECIFICATION FairSpec
INVARIANTS
  TypeOK
  Confined
  Partings
PROPERTIES
  EndsForGood
  GoneIsClosed
CHECK_DEADLOCK FALSE
