SPECIFICATION FairSpec
CONSTANTS
  m1 = m1
  own1 = own1
  foreign = foreign
  Messages = {m1}
  NoMessage = NoMessage
  Ids = {own1, foreign}
  Owner <- MCOwner
  NoId = NoId
  Processes = {p1, p2}
  SweepLimit = 1
  MaxReceipts = 2
  MaxAged = 1
  FaultKinds = {"crash", "db", "record"}
  MaxFaults = 1
INVARIANT
  StatusIsBestEvidence
PROPERTIES
  OnlyRelinksTurnBack
  EveryReceiptCounts
