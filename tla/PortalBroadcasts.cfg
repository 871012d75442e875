SPECIFICATION FairSpec
CONSTANTS
  ali = ali
  sara = sara
  Broadcasts = {1}
  Customers = {ali}
  Subscribed = {ali}
  Senders = {w1, w2}
  NeedsApproval = TRUE
  MaxTries = 3
  MaxChanges = 2
  FaultKinds = {"crash", "stall", "lost", "db"}
  MaxFaults = 2
CHECK_DEADLOCK FALSE
INVARIANTS
  OptOutIsRespected
  DuplicatesNeedFaults
  FinishedIsFinished
PROPERTY EveryBroadcastEnds
