CONSTANTS
  self = 1
  Router = {1, 2, 3}
  NoRouter = 0
  Port = {0, 1}
  Peer <- MCPeer
  LSPs <- MCLSPs
  CostMod = 16
  RTTs = {2, 4}
  PONG_TIMEOUT = 1
  DV_LS_TIMEOUT = 1
  SEQ_MOD = 2
  LS_DURATION = 1
  TIMEOUT_DURATION = 1
  LastOf <- Whichever
SPECIFICATION FairSpec
INVARIANTS TypeOK
PROPERTIES FloodsOnce AnnouncesChange FreshRoutesForward Forgets
