SPECIFICATION FairSpec
CONSTANTS
  Jobs = {1, 2}
  QrJobs = {}
  Slots = {s1, s2}
  Partition <- MCPartition
  Process <- MCTwoProcesses
  NoOne = NoOne
  MaxAttempts = 2
  FaultKinds = {"crash", "drain", "record"}
  MaxFaults = 2
PROPERTIES
  EveryJobSettles
  
  DeliveryInOrder
