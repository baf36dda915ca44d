CONSTANTS
  a = a
  b = b
  Client = {a, b}
  BUFFER_LEN = 4
  SIZE_FIELD = 2
  NoSize = 2
  INT_MAX = 6
  iteration = 2
  Configs <- MCConfigs
SPECIFICATION FairSpec
INVARIANTS TypeOK EchoesWhole
PROPERTIES DropsOnlyEnded Serves Releases
CHECK_DEADLOCK FALSE
