SPECIFICATION FairSpec
CONSTANTS
  Calls = {c1}
  Firings = {f1}
  Envs <- MCEnvs
  Stores = {"postgres", "redis", "minio"}
  MaxUpsets = 2
INVARIANTS TypeOK StopAnswersRequests OpenWhileNeeded RunsOnce
PROPERTIES ServesAgain StopEnds TasksHandled
CHECK_DEADLOCK FALSE
