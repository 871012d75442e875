SPECIFICATION Spec
CONSTANTS
  Messages = {1}
  VoiceNotes = {}
  Attempts <- MCAttempts
  Kinds = {"llm"}
  PerTurn <- MCPerTurn
  MaxOps = 1
  Cost <- MCCost
  Overrun = 1
  FirstCeiling = 3
  Ceilings = {3}
  MaxMessages = 2
  Months = 1
  MaxChanges = 0
  FaultKinds = {"crash"}
  MaxFaults = 1
CHECK_DEADLOCK FALSE
INVARIANTS
  RecoveredIsHandled
