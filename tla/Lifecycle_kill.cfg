\* kill PID: the signal goes to the parent only.
CONSTANTS
  use_nft = TRUE
  SwapTimes = {1}
  SigTargets = {{"parent"}}
  MaxSig = 1
SPECIFICATION FairSpec
PROPERTIES
  KillExits
CHECK_DEADLOCK FALSE
