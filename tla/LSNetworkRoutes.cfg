CONSTANTS
  Router = {1, 2, 3, 4, 5}
  NoRouter = 0
  Port = {0, 1, 2}
  CostMod = 65536
  PONG_TIMEOUT = 15000
  DV_LS_TIMEOUT = 45000
  PING_DURATION = 10000
  LS_DURATION = 30000
  SEQ_MOD = 65536
  TIMEOUT_DURATION = 1000
  Wire <- AddTest2Wire
  InitialDelay <- AddTest2Delay
  MaxLost = 0
  LossEnd = 0
  Scenarios <- Quiet
  DETECT = 16600
  SETTLE = 67000
  LastOf <- Nearest
SPECIFICATION Spec
INVARIANTS FindsCheapest
CHECK_DEADLOCK FALSE
