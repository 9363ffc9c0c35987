SPECIFICATION PortSpec
CONSTANTS
  N = 2
  MaxCalls = 2
  Room = 1
  Faults = {"late", "twice", "kill"}
  MaxFaults = 1
  Hasty = TRUE
  None = None
  CLKS = 4
  PHYADDR = 1
  PHY_ADDR = 1
  RESETPOS = 40
  MAXCLOCKS = 34
  Values <- MCValues
  Written = {3}
  MaxWrites = 1
  NWords = 2
  Delays = {2, 3}
  Half = {0, 1}
INVARIANTS
  ResultRight
  PositionRight
  AckedInTime
PROPERTIES
  PhyRight
