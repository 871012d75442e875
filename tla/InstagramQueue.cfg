SPECIFICATION FairSpec
CONSTANTS
  ali = ali
  Jobs = {1, 2}
  Senders = {ali}
  Sender <- MCSender
  Processes = {p1, p2}
  MaxAttempts = 2
  MaxChanges = 2
  FaultKinds = {"crash", "stall", "db", "conflict"}
  MaxFaults = 1
INVARIANTS
  TruthfulOutcome
  HumanIsHeard
PROPERTIES
  AnswersInOrder
  MessagesSettle
