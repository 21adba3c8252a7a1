SPECIFICATION MCSpec
CONSTANTS
  Users = {u1, u2, u3}
  MaxRecoveries = 3
  Sessions = {s1, s2}
  Tasks = {t1, t2}
  MaxSlots = 1
  MaxCtxs = 2
  MaxPauses = 1
  MaxSaves = 3
INVARIANTS
  FlightsInOrder WaitersHaveARecovery ContextsKept
PROPERTIES
  SftpProgress
CHECK_DEADLOCK FALSE
