SPECIFICATION Spec
CONSTANTS
  Devices = {d1, d2}
  MaxTasks = 2
  MaxFaults = 1
  MaxUpsets = 1
  NoDevice = NoDevice
  NoFile = NoFile
INVARIANTS
  FailureHasCause
PROPERTIES
  DoneMeansDone
  ReplaceKeepsOthers
  
CHECK_DEADLOCK FALSE
