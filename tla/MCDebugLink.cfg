SPECIFICATION StageSpec
CONSTANTS
  LastAddr = 2
  MAXWRLEN = 2
  READBLOCK = 1
  READAHEAD = 1
  LINELEN = 5
  TBL = 2
  Ops <- MCOps
  MaxOps = 3
  MaxProgs = 2
  MaxBytes <- MCBytes
  MaxUp = 1
  MaxConns <- MCConns
  PIPEBUFLEN = 2
  NBITS = 3
  CLOCKS_PER_BAUD = 6
  CHGMAX = 7
  Ids = {1, 2}
  MaxBurst = 3
  Crossing = FALSE
  NoReq = NoReq
  Req <- AllRequests
INVARIANTS
  ReadsRight
  WritesLand
  
  
  
PROPERTIES
  LineExact
  
CHECK_DEADLOCK FALSE
