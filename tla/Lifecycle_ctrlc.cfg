\* ctrl + c: signals go to both processes, with the timer of the child armed or not.
CONSTANTS
  use_nft = TRUE
  SwapTimes = {0, 1}
  SigTargets = {{"parent", "child"}}
  MaxSig = 2
SPECIFICATION FairSpec
INVARIANTS
  TypeOK
  ExitZeroClean
  ServingProtected
PROPERTIES
  GroupSignalExits
  ChildExitEndsParent
CHECK_DEADLOCK FALSE
