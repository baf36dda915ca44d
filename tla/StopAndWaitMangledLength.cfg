CONSTANTS
  old = old
  NoBlock = NoBlock
  File <- MCShortFile
  Old <- MCOld
  SEQ_SIZE = 4
  LIFETIME = 3
  SeqErrors <- AnyButFIN
  LenErrors <- Lengths
  AckErrors <- Strange
SPECIFICATION FairSpec
PROPERTIES DeliversMangled
CHECK_DEADLOCK FALSE
