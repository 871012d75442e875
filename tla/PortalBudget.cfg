SPECIFICATION Spec
CONSTANTS
  Messages = {1, 2}
  VoiceNotes = {1}
  Attempts <- MCAttempts
  Kinds = {"llm"}
  PerTurn <- MCPerTurn
  MaxOps = 1
  Cost <- MCCost
  Overrun = 1
  FirstCeiling = 3
  Ceilings = {2, 3}
  MaxMessages = 2
  Months = 2
  MaxChanges = 1
  FaultKinds = {"crash", "stall", "db"}
  MaxFaults = 1
CHECK_DEADLOCK FALSE
INVARIANTS
  TotalsMatchLedger
  NoOverspend
  PaidOnce
