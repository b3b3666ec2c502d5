\* Do all bans that the pipe accepted get executed?
CONSTANTS
  Nul = Nul
  BanLen = 2
  LogLen = 3
  BufCap = 13
  PipeCap = 8
  MaxRec = 3
  MaxErr = 0
SPECIFICATION Spec
INVARIANTS
  BansExecuted
CHECK_DEADLOCK FALSE
