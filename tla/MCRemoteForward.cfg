SPECIFICATION FairSpec
CONSTANTS
  MaxConnections = 3
  Cap = 2
  MaxConns = 1
  MaxOpens = 4
PROPERTY RemoteComesBack
CHECK_DEADLOCK FALSE
