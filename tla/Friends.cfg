SPECIFICATION Spec
CONSTANTS
  alice = alice
  bob = bob
  eve = eve
  da = da
  db = db
  NoDevice = NoDevice
  Login = {alice, bob}
  Remote = {eve}
  Device = {da, db}
  Owner <- OneDevice
  MaxKeys = 3
  MaxRemoves = 1
  MaxConnects = 2
CHECK_DEADLOCK FALSE
INVARIANTS KeysPresent FriendshipMutual SessionInfoCurrent RosterSynced NoMismatch
PROPERTIES OfflineKeyStable ImplementsFriendship
SYMMETRY Exchange
