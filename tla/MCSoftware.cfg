SPECIFICATION ProgSpec
CONSTANTS
  PGLENB = 4
  SECTORSZB = 8
  FLASHLEN = 16
  WORDB = 2
  FLASHBASE = 16
  ADDRMOD = 64
  Garbage = {0}
  Images <- MCFlashImages
  Requests <- MCFlashAligned
  MaxRuns = 2
  BKRAMBASE = 10
  BKRAMLEN = 3
  ROMBASE = 16
  ROMLEN = 4
  MaxLoads = 2
  Programs <- MCPrograms
  FIFOLEN = 2
  Strings <- MCStrings
  MaxCalls = 3
  MaxTyped = 2
  HeapSize = 8
  LGMEM = 3
  Holdoffs = {0, 2}
  MaxWrites = 1
  Intervals = {20, 16, 26, 22}
  W = 4
  Dividends = {0, 1, 2, 14, 15, 16, 17, 31, 32, 100, 127, 128, 129, 144, 200, 240, 254, 255}
  Divisors = {1, 2, 3, 5, 15, 16, 17, 18, 31, 32, 48, 64, 127, 128, 200, 255}
  Words = {0, 1, 15, 16, 128, 239, 240, 255}
  BitsIn = 6
  BitsOut = {3, 5, 6}
  RegNames <- MCRegNames
  MapFiles <- MCMapFiles
  Arguments <- MCArguments
  NoMap = NoMap
  Lens = {0, 4, 14}
  MaxReq = 2
  MinFrame = 48
  MaxHigh = 2
  LGWORDS = 3
  STEP_BITS = 2
  Delayed = {0, 2}
  MaxChanges = 1
  MaxStarts = 1
INVARIANTS
  FlashRight
  ConsoleRight
  TriggerMarked
  RunsExact
  TracesTold
  AddressMeant
  
PROPERTIES
  
  BootedRight
  EdgesKept
CHECK_DEADLOCK FALSE
