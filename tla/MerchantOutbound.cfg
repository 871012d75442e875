SPECIFICATION MerchantFair
CONSTANTS
  Messages = {1}
  NoMessage = NoMessage
  MaxSends = 2
  Ids <- MCIds
  Owner <- MCOwner
  NoId = NoId
  Slots = {p1, p2}
  Processes = {p1, p2}
  Process <- MCProcess
  SweepLimit = 1
  MaxReceipts = 1
  MaxAged = 1
  FaultKinds = {"crash", "db", "drain", "stall"}
  MaxFaults = 2
  MaxAttempts = 2
INVARIANTS
  JobAndMessageAgree
  DuplicatesNeedFaults
PROPERTIES
  OnlyHeldUpTurnBack
  EveryMessageSettles
