CONSTANTS
  Ids = {id1, id2}
  Routers = {r1, r2}
  Middlewares = {m1, m2}
  Dispatchers = {d1}
  MaxCall = 3
  MaxGroup = 2
  MaxUse = 1
  MaxRun = 2
  MaxMore = 1
  None = None
  Destination = Destination
  MessageHandler = MessageHandler
SPECIFICATION RoutingSpec
SYMMETRY MCSymmetry
INVARIANTS
  RoutingTypeOK
PROPERTIES
  RightRoute
CHECK_DEADLOCK FALSE
