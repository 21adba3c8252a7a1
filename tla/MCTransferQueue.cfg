\* Two transfers, one permit, three commands of the user.
SPECIFICATION FairSpec
CONSTANTS
  Clients = {t1, t2}
  Cap = 1
  MaxRetries = 1
  MaxCommands = 3
INVARIANTS
    
    LedgersBalance
PROPERTIES
    QueueDrains
CHECK_DEADLOCK FALSE
