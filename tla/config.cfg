SPECIFICATION Spec
CONSTANTS
  MainlandNumbers = {"a"}
  MaxPerAccount = 4
  LowerCase <- Capitals
  Handlers = {h1, h2}
  Requests <- AllRequests
  Deployments <- AllDeployments
  Files <- AllFiles
  DefaultPer = 2
  MaxRequests = 2
  MaxFailures = 1
  MaxCrashes = 1
INVARIANT StoreIsConsistent
INVARIANT PoolFollowsStore
PROPERTY EditsKeepTheRest
PROPERTY RestartRestores
INVARIANT MarkTellsTheTruth
CHECK_DEADLOCK FALSE
