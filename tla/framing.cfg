SPECIFICATION Spec
CONSTANTS
  Base = 3
  Syn = 2
  SynLen = 2
  MinHeadLen = 3
  HeadLen = 6
  BufSize = 6
  ReadSize = 5
  MaxPiece = 3
INVARIANTS
  TypeOK
  CrashNeedsWrap
PROPERTIES
  ImplementsFrames
  LooksAgain
CHECK_DEADLOCK FALSE
