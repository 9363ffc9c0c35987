SPECIFICATION ServedSpec
CONSTANTS
  Ids = {1}
  MaxBurst = 1
  Crossing = FALSE
  NoReq = NoReq
  Req <- AllRequests
  N = 2
  MaxCalls = 1
  Room = 4
  Faults = {"lose"}
  MaxFaults = 2
  Hasty = FALSE
  None = None
PROPERTIES
  
  Returns
CHECK_DEADLOCK FALSE
