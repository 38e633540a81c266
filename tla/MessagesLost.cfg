SPECIFICATION Spec
CONSTANTS
  al = al
  bob = bob
  al1 = al1
  da = da
  db = db
  NoDevice = NoDevice
  Forever = Forever
  Login = {al, bob}
  Device = {da, db}
  Owner <- OneDevice
  Near = {}
  Ceiling = 9
  MaxMessages = 2
  MaxConnects = 2
CHECK_DEADLOCK FALSE
INVARIANTS SyncComplete
