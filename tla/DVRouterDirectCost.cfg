CONSTANTS
  r = r
  a = a
  b = b
  d = d
  self = r
  Router = {r, a, b, d}
  NoRouter = NoRouter
  Port = {0, 1}
  Peer <- MCPeer
  Adverts <- MCAdverts
  CostMod = 8
  RTTs = {3, 4}
  PONG_TIMEOUT = 2
  DV_LS_TIMEOUT = 3
  PING_DURATION = 1
  DV_DURATION = 2
  TIMEOUT_DURATION = 1
SPECIFICATION Spec
INVARIANTS DirectRouteCostsRTT
