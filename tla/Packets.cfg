SPECIFICATION FairSpec
CONSTANTS
  Thread = {window, event}
  Size = {1, 3}
  Width = 3
  Piece = 2
  Slice = 4
  Payload = 2
  MaxPackets = 2
  MaxLinks = 2
CHECK_DEADLOCK FALSE
INVARIANTS InOrder NoneKept
PROPERTY PacketsArrive
