------------------------------ MODULE ArpTable -------------------------------
(***************************************************************************)
(* The ARP table of the board's software, sw/rv32/arp.c.                   *)
(*                                                                         *)
(* A search ages the entries that it passes; an entry that has become too  *)
(* old is dropped, and a new one takes the place of the eldest when there  *)
(* is no other.  The router's address is kept apart from the table and     *)
(* serves all addresses behind the router.                                 *)
(*                                                                         *)
(* Definitions marked as a variant show a slip that a property catches; no *)
(* specification uses them.                                                *)
(***************************************************************************)
EXTENDS Integers, FiniteSets, FiniteSetsExt

CONSTANTS
  NUM_ARP_ENTRIES,
  OldAge,      \* 0x010000, the age at which an entry is dropped
  LocalIps,    \* addresses under my_ip_mask, other than the two below
  OtherIps,    \* addresses behind the router
  Router, Me,  \* my_ip_router, my_ip_addr
  Macs,
  EvEntry,     \* the uninitialised index in arp_table_add() is the right one
  NoArp

ASSUME ArpAssumption ==
  /\ NUM_ARP_ENTRIES \in Nat \ {0} /\ OldAge \in Nat /\ EvEntry \in BOOLEAN
  /\ Router # Me /\ {Router, Me} \cap (LocalIps \cup OtherIps) = {}
  /\ LocalIps \cap OtherIps = {} /\ NoArp \notin Macs

VARIABLES
  arp_table, router_mac_addr,
  asked,     \* the addresses that a request has been sent for, and no reply heard
  said,      \* the MAC address that each address last gave for its own
  exposed    \* an entry was valid while it was overwritten

arpvars == <<arp_table, router_mac_addr, asked, said, exposed>>

Entries == 0 .. NUM_ARP_ENTRIES - 1
ips     == LocalIps \cup OtherIps \cup {Router, Me}
\* Variant: memory that nobody has cleared.
NoEntryValid == [valid |-> TRUE, age |-> 0, ipaddr |-> NoArp, mac |-> NoArp]

NoEntry == [valid |-> FALSE, age |-> 0, ipaddr |-> NoArp, mac |-> NoArp]

\* An entry with some of its fields set.
InUse(x, v)        == [x EXCEPT !.valid = v]
WithAge(x, a)      == [x EXCEPT !.age = a]
Filled(x, ip, mac) == [x EXCEPT !.age = 0, !.ipaddr = ip, !.mac = mac]

-----------------------------------------------------------------------------
\* A search of the table t for an address.

ByRouter(ip) == ip \in OtherIps \cup {Router} /\ router_mac_addr # NoArp

Holding(t, ip) == {e \in Entries : t[e].valid /\ t[e].ipaddr = ip}

Found(ip) == ByRouter(ip) \/ Holding(arp_table, ip) # {}

MacOf(ip) == IF ByRouter(ip) THEN router_mac_addr
             ELSE arp_table[Min(Holding(arp_table, ip))].mac

\* An entry that the search passes: the eldest so far is dropped if it is too old.
Passed(t, e) ==
  LET eldest == t[e].age > 0
                  /\ \A f \in Entries : f < e /\ t[f].valid => t[f].age < t[e].age
  IN  IF ~t[e].valid THEN t[e]
      ELSE InUse(WithAge(t[e], t[e].age + 1), ~(eldest /\ t[e].age >= OldAge))

Searched(t, ip) ==
  LET found == Holding(t, ip) IN
  IF ByRouter(ip) THEN t
  ELSE [e \in Entries |->
          IF found = {} \/ e < Min(found) THEN Passed(t, e)
          ELSE IF e = Min(found) THEN WithAge(t[e], 0) ELSE t[e]]

\* arp_lookup() in a function that goes on with the table.
Asks(ip) == asked' = IF Found(ip) THEN asked ELSE asked \cup {ip}

get_next_arp_index(t) ==
  LET unused == {e \in Entries : ~t[e].valid}
      eldest == {e \in Entries : \A f \in Entries : t[f].age <= t[e].age}
  IN  IF unused # {} THEN Min(unused) ELSE Min(eldest)

-----------------------------------------------------------------------------
\* Static memory is zero; init_arp_table() would make no difference.
ArpInit ==
  /\ arp_table = [e \in Entries |-> NoEntry] /\ router_mac_addr = NoArp
  /\ asked = {} /\ said = [ip \in ips |-> NoArp] /\ exposed = FALSE

\* tx_ippkt() looks for the MAC address of the destination.
arp_lookup(ip) ==
  /\ arp_table' = Searched(arp_table, ip) /\ Asks(ip)
  /\ UNCHANGED <<router_mac_addr, said, exposed>>

\* What rx_arp() hears in a reply, whether it was asked for or not.
Hears(ip, mac) == said' = [said EXCEPT ![ip] = mac]

\* arp_table_add(), in its four branches.
AddMine(mac) ==
  Hears(Me, mac) /\ UNCHANGED <<arp_table, router_mac_addr, asked, exposed>>

AddRouter(mac) ==
  /\ Hears(Router, mac) /\ router_mac_addr' = mac /\ asked' = asked \ {Router}
  /\ UNCHANGED <<arp_table, exposed>>

\* Variant: a host that has moved keeps its old address.
AddKnownOnce(ip, mac) ==
  /\ ip \notin {Me, Router} /\ Found(ip) /\ Hears(ip, mac)
  /\ arp_table' = Searched(arp_table, ip) /\ asked' = asked \ {ip}
  /\ UNCHANGED <<router_mac_addr, exposed>>

\* Variant: a host that has moved gets another entry.
AddKnownAgain(ip, mac) ==
  /\ ip \notin {Me, Router} /\ Found(ip) /\ Hears(ip, mac)
  /\ LET t == Searched(arp_table, ip) IN
     arp_table' = IF mac = MacOf(ip) THEN t
                  ELSE [t EXCEPT ![get_next_arp_index(t)] =
                         [valid |-> TRUE, age |-> 0, ipaddr |-> ip, mac |-> mac]]
  /\ asked' = asked \ {ip}
  /\ UNCHANGED <<router_mac_addr, exposed>>

AddKnown(ip, mac) ==
  /\ ip \notin {Me, Router} /\ Found(ip) /\ Hears(ip, mac)
  /\ LET t    == Searched(arp_table, ip)
         held == Holding(t, ip)
     IN  arp_table' = IF mac = MacOf(ip) \/ held = {} THEN t
                      ELSE [t EXCEPT ![Min(held)] = Filled(@, @.ipaddr, mac)]
  /\ asked' = asked \ {ip}
  /\ UNCHANGED <<router_mac_addr, exposed>>

\* Variant: the entry is taken out of use and not put back.
AddNewHidden(ip, mac) ==
  /\ ip \notin {Me, Router} /\ ~Found(ip) /\ Hears(ip, mac)
  /\ LET t   == Searched(arp_table, ip)
         eid == get_next_arp_index(t)
     IN  arp_table' = [t EXCEPT ![eid] = [valid |-> FALSE, age |-> 0, ipaddr |-> ip, mac |-> mac]]
  /\ asked' = (asked \ {ip}) \cup {ip}
  /\ UNCHANGED <<router_mac_addr, exposed>>

\* The pointer to the valid flag is set up from an index that has not been given a
\* value yet.  It may point to any entry, or elsewhere.  The search before has
\* sent another request.
AddNew(ip, mac) ==
  /\ ip \notin {Me, Router} /\ ~Found(ip) /\ Hears(ip, mac)
  /\ LET t   == Searched(arp_table, ip)
         eid == get_next_arp_index(t)
         Flag(u, ev, v) == IF ev \in Entries THEN [u EXCEPT ![ev] = InUse(@, v)] ELSE u
     IN  \E ev \in IF EvEntry THEN {eid} ELSE Entries \cup {NoArp} :
           LET hidden == Flag(t, ev, FALSE) IN
           /\ arp_table' = Flag([hidden EXCEPT ![eid] = Filled(@, ip, mac)], ev, TRUE)
           /\ exposed' = (exposed \/ hidden[eid].valid)
  /\ asked' = (asked \ {ip}) \cup {ip}
  /\ UNCHANGED router_mac_addr

arp_table_add(ip, mac) ==
  \/ ip = Me /\ AddMine(mac)
  \/ ip = Router /\ AddRouter(mac)
  \/ AddKnown(ip, mac)
  \/ AddNew(ip, mac)

Lookup == \E ip \in ips \ {Me} : arp_lookup(ip)
Reply  == \E ip \in ips, mac \in Macs : arp_table_add(ip, mac)

ArpNext == Lookup \/ Reply

ArpSpec == ArpInit /\ [][ArpNext]_arpvars

-----------------------------------------------------------------------------
\* The table has an address and a MAC address in every entry that is in use.
ArpTypeOK ==
  /\ arp_table \in [Entries -> [valid : BOOLEAN, age : Nat,
                                ipaddr : ips \cup {NoArp}, mac : Macs \cup {NoArp}]]
  /\ \A e \in Entries : arp_table[e].valid =>
       arp_table[e].ipaddr # NoArp /\ arp_table[e].mac # NoArp
  /\ router_mac_addr \in Macs \cup {NoArp}
  /\ asked \subseteq ips /\ said \in [ips -> Macs \cup {NoArp}] /\ exposed \in BOOLEAN

\* No address has two entries in use.
OneEntry == \A ip \in ips : Cardinality(Holding(arp_table, ip)) <= 1

\* arp_lookup() answers with the MAC address that the host, or the router for a
\* host behind it, has given last.
TableFresh ==
  \A ip \in ips : Found(ip) => MacOf(ip) = said[IF ByRouter(ip) THEN Router ELSE ip]

\* Both.
TableRight == OneEntry /\ TableFresh

\* After a reply the next search for its sender succeeds.
ReplyFound == [][\A ip \in ips \ {Me} : said'[ip] # said[ip] => Found(ip)']_arpvars

\* "Prevent anyone from using an invalid entry while we are updating it": an entry
\* is marked invalid before it is overwritten.
EntryHidden == ~exposed

=============================================================================
