SPECIFICATION FairSpec
CONSTANTS
  Clients = {w1, w2}
  Cap = 1
  Dirs = {"r", "a", "c"}
  Root = "r"
  Tree <- MCTree
  TooLong = {"c"}
  FrontierCap = 2
  ReadyCap = 1
  InFlightCap = 1
  MaxDepth = 1
  MaxRetries = 0
  Commands = {"pause", "resume", "cancel"}
  MaxCommands = 2
INVARIANTS
    JobAccounted
    CompletedIsComplete

    
CHECK_DEADLOCK FALSE
