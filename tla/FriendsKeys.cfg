SPECIFICATION FairSpec
CONSTANTS
  alice = alice
  bob = bob
  eve = eve
  da = da
  db = db
  NoDevice = NoDevice
  Login = {alice, bob}
  Remote = {}
  Device = {da, db}
  Owner <- OneDevice
  MaxKeys = 4
  MaxRemoves = 0
  MaxConnects = 1
CHECK_DEADLOCK FALSE
PROPERTY KeysEventuallyExchanged
