SPECIFICATION FairSpec
CONSTANTS
  NumConn = 2
  Blob = {b1, b2}
  MaxObjects = 3
  QueueMax = 2
INVARIANTS PoolConserves StartFindsBlobs CloseReleases
PROPERTIES GeneratorReturns CloseFreesThreads
CHECK_DEADLOCK FALSE
