SPECIFICATION FairSpec
CONSTANTS
  alice = alice
  d1 = d1
  d2 = d2
  NoLogin = NoLogin
  Login = {alice}
  Device = {d1, d2}
  MaxConnects = 2
  OldKey <- OneOldKey
CHECK_DEADLOCK FALSE
INVARIANTS TypeOK SessionsAgree OnlyOwners SavedKeys LatestRegistered DiesOnlyOfLoss
PROPERTY HandshakesEnd
