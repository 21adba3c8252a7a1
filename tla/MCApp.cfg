SPECIFICATION MCSpec
CONSTANTS
  MaxRestarts = 2
  MaxChanges = 1
  Ports = {p1, p2}
  DefaultPort = p1
  MaxReqs = 2
  Permits = 1
  BufCap = 3
  MaxTotal = 9
  MaxChunk = 4
  s1 = s1
  t1 = t1
  a1 = a1
  Stored <- OneSession
  Tunnels <- TwoTunnels
  Owner <- OneOwner
  AdHoc = {a1}
  Commands = {c1, c2}
  Capacity = 2
  MaxVersion = 3
  MaxOps = 3
  Profiles = {f1, f2, f3}
  MaxHops = 2
  Grouped = {g1}
  Gone = Gone
  MaxArg = 3
  MaxLen = 6
INVARIANTS
    FollowersTold 
PROPERTIES
  GroupsAreATree AppProgress
CHECK_DEADLOCK FALSE
