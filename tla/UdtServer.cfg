SPECIFICATION FairSpec
CONSTANTS
  Address = {a, b}
  MaxSockets = 3
  MaxData = 1
CHECK_DEADLOCK FALSE
INVARIANTS SocketKnown AnswerGoesBack OwnSession
PROPERTY BrokenSessionEnds
