CONSTANTS
  Router = {1, 2, 3, 4, 5}
  NoRouter = 0
  Port = {0, 1, 2}
  CostMod = 65536
  PONG_TIMEOUT = 15000
  DV_LS_TIMEOUT = 45000
  PING_DURATION = 10000
  DV_DURATION = 30000
  TIMEOUT_DURATION = 1000
  Wire <- RingWire
  InitialDelay <- RingDelay
  MaxLost = 0
  LossEnd = 0
  Scenarios <- RingTests
  DETECT = 19000
  SETTLE = 255000
SPECIFICATION Spec
INVARIANTS ForgetsUnreachable
CHECK_DEADLOCK FALSE
