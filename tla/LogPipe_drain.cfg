\* The read buffer is smaller than the pipe: drains of several chunks and overruns happen.
CONSTANTS
  Nul = Nul
  BanLen = 2
  LogLen = 3
  BufCap = 6
  PipeCap = 8
  MaxRec = 4
  MaxErr = 1
SPECIFICATION FairSpec
INVARIANTS
  TypeOK
  Conservation
  AtMostOnce
PROPERTIES
  ChildGoneNoticed
CHECK_DEADLOCK FALSE
