CONSTANTS
  Router = {1, 2, 3}
  NoRouter = 0
  Port = {0, 1}
  CostMod = 65536
  PONG_TIMEOUT = 15000
  DV_LS_TIMEOUT = 45000
  PING_DURATION = 10000
  DV_DURATION = 30000
  TIMEOUT_DURATION = 1000
  Wire <- TriangleWire
  InitialDelay <- TriangleDelay
  MaxLost = 2
  LossEnd = 50000
  Scenarios <- MCTriangle
  DETECT = 19000
  SETTLE = 65000
SPECIFICATION Spec
INVARIANTS QueueSound FindsCheapest NeighborsKnown RoutesForward AdvertsWellFormed
PROPERTIES DataOnCourse
CHECK_DEADLOCK FALSE
