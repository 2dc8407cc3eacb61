SPECIFICATION FairSpec
CONSTANTS
  Requests = {r1, r2}
  H2C = {r2}
  NumHooks = 1
  NumDeps = 2
  PreStopDelay = 2
  DrainTimeout = 2
  GracePeriods <- MCGracePeriods
  Slack = 2
  AdminDrainTimeout = 1
  FlushTimeout = 1
  Propagation = 1
  LastEvent = 2
  MaxNow = 9
INVARIANTS TypeOK NoRefusedTraffic DepsOutliveRequests CleanExitIsComplete
INVARIANTS NotKilledMidDrain
PROPERTY ShutdownTerminates
