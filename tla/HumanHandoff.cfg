SPECIFICATION FairSpec
CONSTANTS
  Conversations = {1, 2, 3, 4, 5}
  Messages = {1, 2}
  Workers = {w1}
  People = {merchant}
  NoOne = NoOne
  MaxActs = 2
  MaxAttempts = 2
  MaxCrashes = 1
CHECK_DEADLOCK FALSE
INVARIANTS
  RowsAgree
  GateIsHonest
PROPERTIES
  HumanStaysInCharge
  EveryMessageSettles
  ExpiredPauseEnds
