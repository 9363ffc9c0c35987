SPECIFICATION LogicSpec
CONSTANTS
  Data = {d1, d2}
  FLEN = 4
  Value = {0, 1, 2}
  Zero = 0
  Req = {r1, r2}
  MaxOwed = 4
  AddrMod = 2
  MaxLen = 4
  AckMod = 4
  WdtMax = 3
  MaxOut = 2
INVARIANTS
  FifoInv
  TfrInv
  LinkInv
  ExecInv
  ExactRead
PROPERTIES
  ImplementsQueue
  NeverTorn
  Delivered
  
  NeverWedged
