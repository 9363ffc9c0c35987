SPECIFICATION ArpSpec
CONSTANTS
  NUM_ARP_ENTRIES = 2
  OldAge = 2
  LocalIps = {"a", "b"}
  OtherIps = {"off"}
  Router = "router"
  Me = "me"
  Macs = {"m1", "m2"}
  EvEntry = FALSE
  NoArp = NoArp
INVARIANT EntryHidden
