SPECIFICATION Spec
CONSTANTS
  NumGroups = 2
  BlocksPerGroup = 3
  InodesPerGroup = 2
  UsedBitmaps <- MCUsedBitmaps
  MaxRun = 2
  MaxCalls = 2
  MaxHandlers = 3
  MaxMounts = 2
  NoPin = NoPin
INVARIANTS
  AllocTypeOK
  
  
 
CHECK_DEADLOCK FALSE
