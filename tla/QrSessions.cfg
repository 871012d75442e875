SPECIFICATION FairSpec
CHECK_DEADLOCK FALSE
CONSTANTS
  Processes = {p1, p2}
  Home = p1
  NoOne = NoOne
  MaxActs = 2
  MaxCloses = 2
  MaxRetries = 1
  FaultKinds = {"crash", "shutdown", "stall", "db"}
  MaxFaults = 2
  MaxEvents = 2
INVARIANTS
  SessionsExclude
PROPERTIES
  CompetitionEnds
  RevokedEnds
