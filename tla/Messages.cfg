SPECIFICATION FairSpec
CONSTANTS
  al = al
  bob = bob
  al1 = al1
  da = da
  db = db
  NoDevice = NoDevice
  Forever = Forever
  Login = {al, bob, al1}
  Device = {da, db}
  Owner <- OneDevice
  Near <- DigitAfter
  Ceiling = 3
  MaxMessages = 2
  MaxConnects = 2
CHECK_DEADLOCK FALSE
INVARIANTS SessionComplete FirstSyncComplete
PROPERTIES FirstSyncShown ImplementsMessageLog
