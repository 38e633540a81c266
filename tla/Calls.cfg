SPECIFICATION Spec
CONSTANTS
  alice = alice
  bob = bob
  carol = carol
  None = None
  User <- Three
  Friends <- Alices
  Bounds <- OneOrTwoCalls
CHECK_DEADLOCK FALSE
INVARIANTS TypeOK CallsAgree WindowShowsCall TalksWhenWanted MicrophoneFollowsCalls
SYMMETRY Callers
