CONSTANTS
  old = old
  NoBlock = NoBlock
  File <- MCShortFile
  Old <- MCOld
  SEQ_SIZE = 4
  LIFETIME = 3
  SeqErrors <- Any
  LenErrors = {"inside"}
  AckErrors <- Strange
SPECIFICATION Spec
INVARIANTS CompleteWhenClosed
CHECK_DEADLOCK FALSE
