\* Two tunnels, one of which has a fixed port, two starts and a caller of stop.
SPECIFICATION FairSpec
CONSTANTS
  Ids = {x, y}
  FixedPort = {x}
  Stoppers = {p1}
  MaxRuns = 2
  MaxConnects = 2
INVARIANTS
    LeasesAreTasks
    SupervisorOutlivesTunnels
    ListeningIsConnected
PROPERTIES
    ShutdownCompletes
CHECK_DEADLOCK FALSE
