SPECIFICATION Spec
CONSTANTS
  Use = "TFriend"
  MaxConnects = 3
  MaxData = 2
  MaxOther = 2
CHECK_DEADLOCK FALSE
INVARIANTS OneWorker AnsweredOnce DestroyedStopped
