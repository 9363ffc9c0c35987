SPECIFICATION ExecSpec
CONSTANTS
  AddrMod = 1
  MaxLen = 4
  AckMod = 4
  WdtMax = 3
  MaxOut = 3
INVARIANT
  WaitsForSomething
