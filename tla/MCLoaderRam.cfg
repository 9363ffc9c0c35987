SPECIFICATION LoaderSpec
CONSTANTS
  BKRAMBASE = 10
  BKRAMLEN = 3
  ROMBASE = 16
  ROMLEN = 4
  MaxLoads = 2
  Programs <- MCPrograms
PROPERTIES RamAsLinked
CHECK_DEADLOCK FALSE
