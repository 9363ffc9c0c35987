SPECIFICATION TtySpec
CONSTANTS
  LastAddr = 2
  MAXWRLEN = 2
  READBLOCK = 1
  READAHEAD = 1
  LINELEN = 5
  TBL = 2
  Ops <- MCOps
  MaxOps = 3
  MaxProgs = 2
INVARIANTS ReadsAlwaysRight
CHECK_DEADLOCK FALSE
