SPECIFICATION FairSpec
CONSTANTS
  alice = alice
  bob = bob
  Peer = {alice, bob}
  Other <- TwoFriends
  HasNatPmp = {alice}
  Garbage = Garbage
  MaxClients = 4
  MaxBreaks = 1
  MaxSyncs <- OneTwo
CHECK_DEADLOCK FALSE
INVARIANTS TypeOK KeysAgree AvailableTogether
PROPERTY FriendsMeet
