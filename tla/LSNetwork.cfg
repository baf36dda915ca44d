CONSTANTS
  Router = {1, 2, 3}
  NoRouter = 0
  Port = {0, 1}
  CostMod = 65536
  PONG_TIMEOUT = 15000
  DV_LS_TIMEOUT = 45000
  PING_DURATION = 10000
  LS_DURATION = 30000
  SEQ_MOD = 65536
  TIMEOUT_DURATION = 1000
  Wire <- TriangleWire
  InitialDelay <- TriangleDelay
  MaxLost = 1
  LossEnd = 2000
  Scenarios <- MCTriangle
  DETECT = 16600
  SETTLE = 65000
  LastOf <- Whichever
SPECIFICATION Spec
INVARIANTS QueueSound NeighborsKnown GraphsTrue FloodsReachAll NoLoops RoutesForward
CHECK_DEADLOCK FALSE
