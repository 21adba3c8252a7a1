SPECIFICATION FairSpec
CONSTANTS
  Clients = {t1, t2}
  Cap = 1
  MaxRetries = 1
  MaxCommands = 1
PROPERTY PriorityAdvances
CHECK_DEADLOCK FALSE
