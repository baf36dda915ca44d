CONSTANTS
  old = old
  NoBlock = NoBlock
  File <- MCShortFile
  Old <- MCOld
  SEQ_SIZE = 4
  LIFETIME = 3
  SeqErrors <- AnyButFIN
  LenErrors = {"inside"}
  AckErrors <- AnyButFIN
SPECIFICATION Spec
INVARIANTS CompleteWhenClosed
CHECK_DEADLOCK FALSE
