SPECIFICATION FairSpec
CONSTANTS
  Use = "TClient"
  MaxConnects = 1
  MaxData = 2
  MaxOther = 1
CHECK_DEADLOCK FALSE
INVARIANT DataAfterConnected
PROPERTY WorkerEnds
