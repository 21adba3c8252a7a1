SPECIFICATION MCSpec
CONSTANTS
  Clients = {c1, c2, c3, c4}
  Cap = 2
  MaxRejected = 1
  CreditHigh = 2
  MaxOffset = 4
  AckIds = {a1, a2}
INVARIANTS
  CreditSound
PROPERTIES
  SemSpec SleeperServed
CHECK_DEADLOCK FALSE
