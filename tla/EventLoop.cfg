\* Three clients, two descriptors, batches of two events.
CONSTANTS
  FdLimit = 2
  maxEvent = 2
  MaxConn = 3
  MaxSend = 2
  MaxErr = 1
SPECIFICATION FairSpec
INVARIANTS
  TypeOK
  NoStale
  Watched
  
PROPERTIES
  Attended
CHECK_DEADLOCK FALSE
