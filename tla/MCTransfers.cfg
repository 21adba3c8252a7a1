SPECIFICATION MCSpec
CONSTANTS
  Total = 5
  Chunk = 2
  ReadAhead = 2
  MaxRetries = 1
  Sizes = {0, 1, 6}
  MaxPauses = 1
  MaxTransfers = 2
  Files = {f}
  QueueCap = 1
  Batch = 2
  MaxCommands = 2
  MaxExits = 1
  Entities = {e1, e2}
  FrameMax = 1
  MaxChange = 1
  MaxSubs = 2
  MaxFlight = 2
INVARIANTS
  DownloadFaithful  
PROPERTIES
  TransfersProgress
CHECK_DEADLOCK FALSE
