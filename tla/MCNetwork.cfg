SPECIFICATION SoftSpec
CONSTANTS
  MaxForeign = 2
  None = None
  NUM_ARP_ENTRIES = 2
  OldAge = 2
  LocalIps = {"a", "b"}
  OtherIps = {"off"}
  Router = "router"
  Me = "me"
  Macs = {"m1", "m2"}
  EvEntry = TRUE
  NoArp = NoArp
  Hosts = {"a"}
  MaxPkts = 2
  LastPps = {0, 1}
INVARIANTS
  PacketsAccounted
  
  TableRight
  TasksRight
PROPERTIES
  
  
  WaitingKept
