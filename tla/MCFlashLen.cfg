CONSTANTS
  PGLENB = 4
  SECTORSZB = 8
  FLASHLEN = 16
  WORDB = 2
  FLASHBASE = 16
  ADDRMOD = 64
  Garbage = {0}
  Images <- MCFlashImages
  Requests <- MCFlashUnaligned
  MaxRuns = 2
SPECIFICATION FlashSpec
INVARIANTS PageAsserts
CHECK_DEADLOCK FALSE
