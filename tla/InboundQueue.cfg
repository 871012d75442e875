SPECIFICATION Spec
CONSTANTS
  Jobs = {1, 2}
  QrJobs = {2}
  Slots = {s1, s2}
  Partition <- MCPartition
  Process <- MCTwoProcesses
  NoOne = NoOne
  MaxAttempts = 2
  FaultKinds = {"crash", "stall", "record", "db"}
  MaxFaults = 2
INVARIANTS
  AtMostOneDelivery
  TruthfulOutcome
  OneLiveJobPerPartition
PROPERTY
  ImplementsContract
SYMMETRY LoopSymmetry
