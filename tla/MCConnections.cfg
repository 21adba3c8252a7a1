SPECIFICATION MCSpec
CONSTANTS
  l1 = l1
  r1 = r1
  Tabs = {l1, r1}
  LocalTabs = {l1}
  AttemptLimits = {0, 2}
  MaxDrops = 3
  a1 = a1
  a2 = a2
  b = b
  h1 = h1
  h2 = h2
  Attempts = {a1, a2, b}
  Background = {b}
  Interactive = {a2}
  Chain <- MCChain
  Hosts = {h1, h2}
  Keys = {k1, k2}
  FirstKey = k1
  MaxRekeys = 1
  ChanCap = 1
  PipeCap = 1
  MaxOutput = 4
  MaxMsgs = 3
  Conns = {n1, n2, n3}
  MaxConns = 2
  MaxHandshakes = 1
  MaxChans = 1
  MaxQueue = 2
  MaxLosses = 1
  MaxChunks = 2
  MaxConnections = 3
  RouteCap = 2
  MaxRelays = 1
  MaxOpens = 4
INVARIANTS
     RelayFaithful TabsConsistent
  OutputEndsWhole RemoteQuiet
PROPERTIES
  ConnectionsProgress
CHECK_DEADLOCK FALSE
