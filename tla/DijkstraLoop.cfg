CONSTANTS
  root = 0
  Router = {0, 1, 2, 3}
  NoRouter = NoRouter
  Port = {0, 1, 2, 3}
  CostMod = 64
  PONG_TIMEOUT = 1
  Records <- MCRecords
SPECIFICATION LoopSpec
INVARIANTS LocalsOK ComputesCheapest VisitedIsFinal
PROPERTIES Terminates
CHECK_DEADLOCK FALSE
