CONSTANT MaxQueue = 3
SPECIFICATION FairSpec
INVARIANTS
  DataAccessExclusive
  LockLeakOnlyAtStop
  StartWaitsForThread
  StopWaitsForThread
PROPERTIES
  CallsReturn
  PacketsReachCodec
CHECK_DEADLOCK FALSE
