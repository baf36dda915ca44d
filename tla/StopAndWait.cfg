CONSTANTS
  old = old
  NoBlock = NoBlock
  File <- MCFile
  Old <- MCOld
  SEQ_SIZE = 4
  LIFETIME = 3
  SeqErrors <- AnyButFIN
  LenErrors <- Lengths
  AckErrors <- Strange
SPECIFICATION FairSpec
INVARIANTS TypeOK CompleteWhenClosed AcksAreTrue
PROPERTIES TransfersFile Delivers
CHECK_DEADLOCK FALSE
