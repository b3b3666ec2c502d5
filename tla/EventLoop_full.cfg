\* A third client waits while both descriptors are in use.
CONSTANTS
  FdLimit = 2
  maxEvent = 2
  MaxConn = 3
  MaxSend = 2
  MaxErr = 0
SPECIFICATION FairSpec
PROPERTIES
  TickHandled
CHECK_DEADLOCK FALSE
