SPECIFICATION FairSpec
CONSTANTS
  Use = "TFriend"
  MaxConnects = 2
  MaxData = 1
  MaxOther = 2
CHECK_DEADLOCK FALSE
PROPERTY CallReturns
