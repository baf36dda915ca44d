CONSTANTS
  Router = {1, 2, 3}
  NoRouter = 0
  Port = {0, 1}
  CostMod = 65536
  PONG_TIMEOUT = 15000
  DV_LS_TIMEOUT = 45000
  PING_DURATION = 10000
  LS_DURATION = 30000
  SEQ_MOD = 3
  TIMEOUT_DURATION = 1000
  Wire <- TriangleWire
  InitialDelay <- TriangleDelay
  MaxLost = 0
  LossEnd = 0
  Scenarios <- Quiet
  DETECT = 16600
  SETTLE = 65000
  LastOf <- Whichever
SPECIFICATION Spec
INVARIANTS FloodsReachAll
CHECK_DEADLOCK FALSE
