--------------------------- MODULE NetworkProofs ----------------------------
(***************************************************************************)
(* The network software of the board's two processors.  The ARP table      *)
(* never gives a wrong address, and never forgets an answer at once, for   *)
(* every size of the table, every age limit and every set of hosts, if the *)
(* index in arp_table_add() is the intended one.  The main loop of the one *)
(* processor (NetStack) loses and leaks no packet but those for other      *)
(* addresses, and the two tasks of the other (BoardPing) hand over to each *)
(* other without a fault.                                                  *)
(***************************************************************************)
EXTENDS ArpTable, NetStack, BoardPing, FiniteSetTheorems, WellFoundedInduction, TLAPS

EntryType == [valid : BOOLEAN, age : Nat, ipaddr : ips \cup {NoArp}, mac : Macs \cup {NoArp}]

Unique(t) ==
  \A e, f \in Entries : t[e].valid /\ t[f].valid /\ t[e].ipaddr = t[f].ipaddr => e = f

\* The inductive invariant.  An entry that was made before the router was known is
\* passed over from then on, and may be out of date.
ArpInv ==
  /\ arp_table \in [Entries -> EntryType]
  /\ router_mac_addr \in Macs \cup {NoArp} /\ said \in [ips -> Macs \cup {NoArp}]
  /\ \A e \in Entries : arp_table[e].valid => arp_table[e].ipaddr \in LocalIps \cup OtherIps
  /\ Unique(arp_table)
  /\ \A e \in Entries : arp_table[e].valid /\ ~ByRouter(arp_table[e].ipaddr)
                          => arp_table[e].mac = said[arp_table[e].ipaddr]
  /\ router_mac_addr # NoArp => router_mac_addr = said[Router]

-----------------------------------------------------------------------------
\* A set of numbers has a least one.
LEMMA MinFits ==
  ASSUME NEW S, S \subseteq Nat, S # {}
  PROVE  Min(S) \in S /\ \A y \in S : Min(S) <= y
  <1> DEFINE Less == OpToRel(<, Nat)
  <1>1. IsWellFoundedOn(Less, Nat)
    BY NatLessThanWellFounded, Zenon
  <1>2. \A i, j \in Nat : j < i => <<j, i>> \in Less
    BY DEF OpToRel
  <1> HIDE DEF Less
  <1>3. PICK i \in S : \A j \in S : ~(<<j, i>> \in Less)
    BY <1>1, WFMin
  <1>4. ASSUME NEW j \in S PROVE i <= j
    <2>1. i \in Nat /\ j \in Nat
      OBVIOUS
    <2>2. ~(j < i)
      BY <1>2, <1>3, <2>1, Zenon
    <2>3. QED
      BY <2>1, <2>2
  <1>5. QED
    BY <1>4 DEF Min

\* The entry that holds an address is the only one.
LEMMA OneHolds ==
  ASSUME NEW t, Unique(t), NEW ip, Holding(t, ip) # {}
  PROVE  /\ Min(Holding(t, ip)) \in Entries
         /\ Holding(t, ip) = {Min(Holding(t, ip))}
         /\ t[Min(Holding(t, ip))].valid /\ t[Min(Holding(t, ip))].ipaddr = ip
  <1>1. Holding(t, ip) \subseteq Nat
    BY ArpAssumption DEF Holding, Entries
  <1>2. Min(Holding(t, ip)) \in Holding(t, ip)
    BY <1>1, MinFits
  <1>3. \A e, f \in Holding(t, ip) : e = f
    BY DEF Holding, Unique
  <1>4. QED
    BY <1>2, <1>3 DEF Holding

\* An entry with fields set is an entry, and keeps the others.
LEMMA EntrySet ==
  ASSUME NEW x \in EntryType
  PROVE  /\ \A a \in Nat : /\ WithAge(x, a) \in EntryType /\ WithAge(x, a).valid = x.valid
                           /\ WithAge(x, a).ipaddr = x.ipaddr /\ WithAge(x, a).mac = x.mac
         /\ \A v \in BOOLEAN : /\ InUse(x, v) \in EntryType /\ InUse(x, v).valid = v
                               /\ InUse(x, v).ipaddr = x.ipaddr /\ InUse(x, v).mac = x.mac
         /\ \A ip \in ips \cup {NoArp}, m \in Macs :
              /\ Filled(x, ip, m) \in EntryType /\ Filled(x, ip, m).valid = x.valid
              /\ Filled(x, ip, m).ipaddr = ip /\ Filled(x, ip, m).mac = m
  BY DEF EntryType, WithAge, InUse, Filled

\* A search changes ages, and takes entries out of use: not the one that it finds.
LEMMA SearchKeeps ==
  ASSUME NEW t \in [Entries -> EntryType], Unique(t), NEW ip, NEW e \in Entries
  PROVE  /\ Searched(t, ip) \in [Entries -> EntryType]
         /\ Searched(t, ip)[e].ipaddr = t[e].ipaddr
         /\ Searched(t, ip)[e].mac = t[e].mac
         /\ Searched(t, ip)[e].valid => t[e].valid
         /\ e \in Holding(t, ip) => Searched(t, ip)[e].valid
  <1>1. CASE ByRouter(ip)
    BY <1>1 DEF Searched, Holding
  <1>2. CASE ~ByRouter(ip)
    <2>1. ASSUME NEW f \in Entries
          PROVE  /\ Passed(t, f) \in EntryType /\ Passed(t, f).ipaddr = t[f].ipaddr
                 /\ Passed(t, f).mac = t[f].mac /\ (Passed(t, f).valid => t[f].valid)
      <3> DEFINE eldest == t[f].age > 0
                             /\ \A g \in Entries : g < f /\ t[g].valid => t[g].age < t[f].age
                 keep == ~(eldest /\ t[f].age >= OldAge)
      <3>1. Passed(t, f) = IF ~t[f].valid THEN t[f]
                           ELSE InUse(WithAge(t[f], t[f].age + 1), keep)
        BY DEF Passed
      <3>2. keep \in BOOLEAN
        OBVIOUS
      <3> HIDE DEF keep
      <3>3. t[f] \in EntryType /\ t[f].age + 1 \in Nat
        BY DEF EntryType
      <3>4. /\ WithAge(t[f], t[f].age + 1) \in EntryType
            /\ WithAge(t[f], t[f].age + 1).ipaddr = t[f].ipaddr
            /\ WithAge(t[f], t[f].age + 1).mac = t[f].mac
        <4>1. \A a \in Nat : /\ WithAge(t[f], a) \in EntryType
                             /\ WithAge(t[f], a).ipaddr = t[f].ipaddr
                             /\ WithAge(t[f], a).mac = t[f].mac
          BY <3>3, EntrySet
        <4>2. QED
          BY <3>3, <4>1
      <3> DEFINE x == WithAge(t[f], t[f].age + 1)
      <3>5. InUse(x, keep) \in EntryType /\ InUse(x, keep).ipaddr = x.ipaddr
            /\ InUse(x, keep).mac = x.mac
        <4> HIDE DEF x
        <4>1. x \in EntryType
          BY <3>4 DEF x
        <4>2. QED
          BY <3>2, <4>1, EntrySet
      <3>6. CASE t[f].valid
        BY <3>1, <3>4, <3>5, <3>6
      <3>7. CASE ~t[f].valid
        BY <3>1, <3>3, <3>7
      <3>8. QED
        BY <3>6, <3>7
    <2>3. CASE Holding(t, ip) = {}
      <3>1. Searched(t, ip) = [f \in Entries |-> Passed(t, f)]
        BY <1>2, <2>3 DEF Searched
      <3>2. QED
        BY <2>1, <2>3, <3>1
    <2>4. CASE Holding(t, ip) # {}
      <3> DEFINE m == Min(Holding(t, ip))
      <3>1. m \in Entries /\ Holding(t, ip) = {m} /\ t[m].valid
        BY <2>4, OneHolds
      <3>2. Searched(t, ip) =
              [f \in Entries |-> IF f < m THEN Passed(t, f)
                                 ELSE IF f = m THEN WithAge(t[f], 0) ELSE t[f]]
        BY <1>2, <2>4 DEF Searched
      <3> HIDE DEF m
      <3>3. \A f \in Entries :
              /\ WithAge(t[f], 0) \in EntryType /\ WithAge(t[f], 0).valid = t[f].valid
              /\ WithAge(t[f], 0).ipaddr = t[f].ipaddr /\ WithAge(t[f], 0).mac = t[f].mac
        BY EntrySet
      <3>4. m \in Nat
        BY <3>1, ArpAssumption DEF Entries
      <3>5. QED
        BY <2>1, <3>1, <3>2, <3>3, <3>4
    <2>5. QED
      BY <2>3, <2>4
  <1>3. QED
    BY <1>1, <1>2

\* There is an entry that none is older than: get_next_arp_index() has a result.
LEMMA EldestExists ==
  ASSUME NEW t \in [Entries -> EntryType]
  PROVE  \E e \in Entries : \A f \in Entries : t[f].age <= t[e].age
  <1> DEFINE N == NUM_ARP_ENTRIES
             Eldest(n) == \E e \in 0 .. n : \A f \in 0 .. n : t[f].age <= t[e].age
             S == {n \in 0 .. N - 1 : ~Eldest(n)}
  <1>1. N \in Nat \ {0} /\ Entries = 0 .. N - 1 /\ \A e \in Entries : t[e].age \in Nat
    BY ArpAssumption DEF Entries, EntryType
  <1> SUFFICES Eldest(N - 1)
    BY <1>1
  <1> HIDE DEF Eldest, S, N
  <1>2. CASE S # {}
    <2>1. PICK n \in S : \A y \in S : n <= y
      <3>1. S \subseteq Nat
        BY <1>1 DEF S
      <3>2. QED
        BY <1>2, <3>1, MinFits
    <2>2. n \in 0 .. N - 1 /\ ~Eldest(n)
      BY <2>1 DEF S
    <2>3. n # 0
      <3>1. ASSUME n = 0 PROVE FALSE
        <4>1. 0 \in 0 .. n /\ \A f \in 0 .. n : t[f].age <= t[0].age
          BY <1>1, <3>1
        <4>2. QED
          BY <2>2, <4>1 DEF Eldest
      <3>2. QED
        BY <3>1
    <2>4. Eldest(n - 1)
      <3>1. n - 1 \in 0 .. N - 1 /\ ~(n <= n - 1)
        BY <1>1, <2>2, <2>3
      <3>2. n - 1 \notin S
        BY <2>1, <3>1
      <3>3. QED
        BY <3>1, <3>2 DEF S
    <2>5. PICK e \in 0 .. n - 1 : \A f \in 0 .. n - 1 : t[f].age <= t[e].age
      BY <2>4 DEF Eldest
    <2>6. e \in 0 .. n /\ n \in 0 .. n /\ \A f \in 0 .. n : f = n \/ f \in 0 .. n - 1
      BY <1>1, <2>2, <2>3
    <2>7. t[e].age \in Nat /\ t[n].age \in Nat /\ \A f \in 0 .. n : t[f].age \in Nat
      BY <1>1, <2>2, <2>6
    <2>8. CASE t[n].age <= t[e].age
      BY <2>2, <2>5, <2>6, <2>8 DEF Eldest
    <2>9. CASE t[e].age <= t[n].age
      <3>1. \A f \in 0 .. n : t[f].age <= t[n].age
        BY <2>5, <2>6, <2>7, <2>9
      <3>2. QED
        BY <2>2, <2>6, <3>1 DEF Eldest
    <2>10. QED
      BY <2>7, <2>8, <2>9
  <1>3. CASE S = {}
    <2>1. N - 1 \in 0 .. N - 1
      BY <1>1
    <2>2. QED
      BY <1>3, <2>1 DEF S
  <1>4. QED
    BY <1>2, <1>3

LEMMA NextIndex ==
  ASSUME NEW t \in [Entries -> EntryType]
  PROVE  get_next_arp_index(t) \in Entries
  <1> DEFINE unused == {e \in Entries : ~t[e].valid}
             eldest == {e \in Entries : \A f \in Entries : t[f].age <= t[e].age}
  <1>1. unused \subseteq Nat /\ eldest \subseteq Nat
    BY ArpAssumption DEF Entries
  <1>2. eldest # {}
    BY EldestExists
  <1>3. Min(eldest) \in eldest /\ (unused # {} => Min(unused) \in unused)
    <2> HIDE DEF unused, eldest
    <2>1. QED
      BY <1>1, <1>2, MinFits
  <1>4. QED
    BY <1>3 DEF get_next_arp_index

-----------------------------------------------------------------------------
\* What a search leaves of the invariant for the table.
LEMMA SearchedFits ==
  ASSUME ArpInv, NEW ip
  PROVE  /\ Searched(arp_table, ip) \in [Entries -> EntryType]
         /\ Unique(Searched(arp_table, ip))
         /\ \A e \in Entries : Searched(arp_table, ip)[e].valid =>
              /\ arp_table[e].valid
              /\ Searched(arp_table, ip)[e].ipaddr = arp_table[e].ipaddr
              /\ Searched(arp_table, ip)[e].mac = arp_table[e].mac
         /\ Holding(Searched(arp_table, ip), ip) = Holding(arp_table, ip)
  <1> DEFINE t == Searched(arp_table, ip)
  <1>1. arp_table \in [Entries -> EntryType] /\ Unique(arp_table)
    BY DEF ArpInv
  <1>2. \A e \in Entries : /\ t[e].ipaddr = arp_table[e].ipaddr /\ t[e].mac = arp_table[e].mac
                           /\ t[e].valid => arp_table[e].valid
                           /\ e \in Holding(arp_table, ip) => t[e].valid
    BY <1>1, SearchKeeps
  <1>3. t \in [Entries -> EntryType]
    <2>1. 0 \in Entries
      BY ArpAssumption DEF Entries
    <2>2. QED
      BY <1>1, <2>1, SearchKeeps, Zenon
  <1> HIDE DEF t
  <1>4. Unique(t)
    BY <1>1, <1>2 DEF Unique
  <1>5. Holding(t, ip) = Holding(arp_table, ip)
    BY <1>2 DEF Holding
  <1>6. QED
    BY <1>2, <1>3, <1>4, <1>5 DEF t

\* The entry of an address that the table has is kept, or gets the new MAC address.
LEMMA KnownKeeps ==
  ASSUME ArpInv, NEW ip \in ips, NEW mac \in Macs, AddKnown(ip, mac)
  PROVE  ArpInv' /\ Found(ip)'
  <1> DEFINE t == Searched(arp_table, ip)
             held == Holding(t, ip)
             e0 == Min(held)
  <1>1. /\ t \in [Entries -> EntryType] /\ Unique(t) /\ held = Holding(arp_table, ip)
        /\ \A e \in Entries : t[e].valid => /\ arp_table[e].valid
                                           /\ t[e].ipaddr = arp_table[e].ipaddr
                                           /\ t[e].mac = arp_table[e].mac
    BY SearchedFits
  <1>2. held # {} => e0 \in Entries /\ held = {e0} /\ t[e0].valid /\ t[e0].ipaddr = ip
    BY <1>1, OneHolds
  <1>3. /\ arp_table' = IF mac = MacOf(ip) \/ held = {} THEN t
                        ELSE [t EXCEPT ![e0] = Filled(t[e0], t[e0].ipaddr, mac)]
        /\ said' = [said EXCEPT ![ip] = mac] /\ router_mac_addr' = router_mac_addr
        /\ ip \notin {Me, Router} /\ (ByRouter(ip) \/ held # {})
    BY <1>1 DEF AddKnown, Hears, Found
  <1>4. ~ByRouter(ip) => MacOf(ip) = arp_table[e0].mac
    BY <1>1 DEF MacOf
  <1>5. \A x : ByRouter(x)' <=> ByRouter(x)
    BY <1>3 DEF ByRouter
  <1> HIDE DEF e0, held, t
  <1>6. \A e \in Entries :
          /\ arp_table'[e] \in EntryType
          /\ arp_table'[e].valid = t[e].valid /\ arp_table'[e].ipaddr = t[e].ipaddr
          /\ arp_table'[e].mac = t[e].mac \/ (t[e].ipaddr = ip /\ arp_table'[e].mac = mac)
    <2>1. CASE mac = MacOf(ip) \/ held = {}
      BY <1>1, <1>3, <2>1
    <2>2. CASE ~(mac = MacOf(ip) \/ held = {})
      <3>1. /\ Filled(t[e0], t[e0].ipaddr, mac) \in EntryType
            /\ Filled(t[e0], t[e0].ipaddr, mac).valid = t[e0].valid
            /\ Filled(t[e0], t[e0].ipaddr, mac).ipaddr = t[e0].ipaddr
            /\ Filled(t[e0], t[e0].ipaddr, mac).mac = mac
        BY <1>1, <1>2, <2>2, EntrySet
      <3>2. QED
        BY <1>1, <1>2, <1>3, <2>2, <3>1
    <2>3. QED
      BY <2>1, <2>2
  <1>7. arp_table' \in [Entries -> EntryType]
    <2>1. DOMAIN arp_table' = Entries /\ arp_table' = [e \in Entries |-> arp_table'[e]]
      BY <1>1, <1>3
    <2>2. QED
      BY <1>6, <2>1
  <1>8. Unique(arp_table')
    BY <1>1, <1>6 DEF Unique
  <1>9. \A e \in Entries : arp_table'[e].valid /\ ~ByRouter(arp_table'[e].ipaddr)
                            => arp_table'[e].mac = said'[arp_table'[e].ipaddr]
    <2> SUFFICES ASSUME NEW e \in Entries, arp_table'[e].valid, ~ByRouter(arp_table'[e].ipaddr)
                 PROVE  arp_table'[e].mac = said'[arp_table'[e].ipaddr]
      OBVIOUS
    <2>1. /\ t[e].valid /\ arp_table[e].valid /\ arp_table'[e].ipaddr = arp_table[e].ipaddr
          /\ t[e].ipaddr = arp_table[e].ipaddr
          /\ arp_table[e].mac = said[arp_table[e].ipaddr] /\ t[e].mac = arp_table[e].mac
      BY <1>1, <1>6 DEF ArpInv
    <2>2. CASE arp_table[e].ipaddr = ip
      <3>1. e \in held /\ ~ByRouter(ip)
        BY <2>1, <2>2 DEF held, Holding
      <3>2. e = e0 /\ held # {}
        BY <1>2, <3>1
      <3>3. said'[ip] = mac
        BY <1>3 DEF ArpInv
      <3>4. CASE mac = MacOf(ip)
        BY <1>3, <1>4, <2>1, <2>2, <3>1, <3>2, <3>3, <3>4
      <3>5. CASE mac # MacOf(ip)
        <4>1. arp_table'[e] = Filled(t[e0], t[e0].ipaddr, mac)
          BY <1>1, <1>3, <3>2, <3>5
        <4>2. QED
          <5>1. t[e0] \in EntryType
            BY <1>1, <3>2
          <5>2. t[e0].ipaddr \in ips \cup {NoArp} /\ mac \in Macs
            BY <5>1 DEF EntryType
          <5>3. Filled(t[e0], t[e0].ipaddr, mac).mac = mac
            BY <5>1 DEF EntryType, Filled
          <5>4. QED
            BY <2>1, <2>2, <3>3, <4>1, <5>3, Zenon
      <3>6. QED
        BY <3>4, <3>5
    <2>3. CASE arp_table[e].ipaddr # ip
      <3>1. arp_table'[e].mac = t[e].mac
        BY <1>6, <2>1, <2>3
      <3>2. said'[arp_table[e].ipaddr] = said[arp_table[e].ipaddr]
        <4>1. said \in [ips -> Macs \cup {NoArp}] /\ arp_table[e].ipaddr \in ips
          BY <2>1 DEF ArpInv, ips
        <4>2. QED
          BY <1>3, <2>3, <4>1
      <3>3. QED
        BY <2>1, <3>1, <3>2
    <2>4. QED
      BY <2>2, <2>3
  <1>10. ArpInv'
    <2>1. said' \in [ips -> Macs \cup {NoArp}] /\ said'[Router] = said[Router]
      BY <1>3 DEF ArpInv, ips
    <2>2. \A e \in Entries : arp_table'[e].valid => arp_table'[e].ipaddr \in LocalIps \cup OtherIps
      BY <1>1, <1>6 DEF ArpInv
    <2>3. router_mac_addr' \in Macs \cup {NoArp}
          /\ (router_mac_addr' # NoArp => router_mac_addr' = said'[Router])
      BY <1>3, <2>1 DEF ArpInv
    <2>4. QED
      BY <1>5, <1>7, <1>8, <1>9, <2>1, <2>2, <2>3 DEF ArpInv, Unique
  <1>11. Found(ip)'
    <2>1. CASE ByRouter(ip)
      BY <1>5, <2>1 DEF Found
    <2>2. CASE held # {}
      BY <1>2, <1>6, <2>2 DEF Found, Holding
    <2>3. QED
      BY <1>3, <2>1, <2>2
  <1>12. QED
    BY <1>10, <1>11

\* The entry for an address that the table does not have is the only one for it.
LEMMA NewKeeps ==
  ASSUME EvEntry, ArpInv, NEW ip \in ips, NEW mac \in Macs, AddNew(ip, mac)
  PROVE  ArpInv' /\ Found(ip)'
  <1> DEFINE t == Searched(arp_table, ip)
             eid == get_next_arp_index(t)
             x == InUse(t[eid], FALSE)
             y == Filled(x, ip, mac)
             z == InUse(y, TRUE)
  <1>1. /\ t \in [Entries -> EntryType] /\ Unique(t)
        /\ Holding(t, ip) = Holding(arp_table, ip)
        /\ \A e \in Entries : t[e].valid => /\ arp_table[e].valid
                                           /\ t[e].ipaddr = arp_table[e].ipaddr
                                           /\ t[e].mac = arp_table[e].mac
    BY SearchedFits
  <1>2. eid \in Entries
    BY <1>1, NextIndex
  <1>3. /\ said' = [said EXCEPT ![ip] = mac] /\ router_mac_addr' = router_mac_addr
        /\ ip \notin {Me, Router} /\ ~ByRouter(ip) /\ Holding(arp_table, ip) = {}
    BY DEF AddNew, Hears, Found
  <1>4. arp_table' = [t EXCEPT ![eid] = z]
    <2> DEFINE hidden == [t EXCEPT ![eid] = x]
               filled == [hidden EXCEPT ![eid] = Filled(hidden[eid], ip, mac)]
    <2>1. arp_table' = [filled EXCEPT ![eid] = InUse(filled[eid], TRUE)]
      BY <1>2 DEF AddNew
    <2> HIDE DEF eid, t, x
    <2>2. hidden[eid] = x
      BY <1>1, <1>2
    <2>3. filled = [t EXCEPT ![eid] = y]
      BY <1>1, <1>2, <2>2
    <2>4. filled[eid] = y
      BY <1>1, <1>2, <2>3
    <2> HIDE DEF y
    <2>5. QED
      BY <1>1, <1>2, <2>1, <2>3, <2>4
  <1> HIDE DEF eid, t
  <1>5. z \in EntryType /\ z.valid = TRUE /\ z.ipaddr = ip /\ z.mac = mac
    <2>1. x \in EntryType
      BY <1>1, <1>2, EntrySet
    <2> HIDE DEF x
    <2>2. y \in EntryType /\ y.ipaddr = ip /\ y.mac = mac
      BY <2>1, EntrySet
    <2> HIDE DEF y
    <2>3. QED
      BY <2>2, EntrySet
  <1> HIDE DEF x, y, z
  <1>6. \A e \in Entries : arp_table'[e] = IF e = eid THEN z ELSE t[e]
    BY <1>1, <1>2, <1>4
  <1>7. \A e \in Entries : t[e].valid => t[e].ipaddr # ip
    BY <1>1, <1>3 DEF Holding
  <1>8. arp_table' \in [Entries -> EntryType]
    BY <1>1, <1>2, <1>4, <1>5
  <1>9. Unique(arp_table')
    BY <1>1, <1>5, <1>6, <1>7 DEF Unique
  <1>10. \A n : ByRouter(n)' <=> ByRouter(n)
    BY <1>3 DEF ByRouter
  <1>11. \A e \in Entries : arp_table'[e].valid /\ ~ByRouter(arp_table'[e].ipaddr)
                             => arp_table'[e].mac = said'[arp_table'[e].ipaddr]
    <2>1. said'[ip] = mac
      BY <1>3 DEF ArpInv
    <2>2. \A e \in Entries : t[e].valid /\ ~ByRouter(t[e].ipaddr) => t[e].mac = said'[t[e].ipaddr]
      BY <1>1, <1>3, <1>7 DEF ArpInv
    <2>3. QED
      BY <1>5, <1>6, <2>1, <2>2
  <1>12. ArpInv'
    <2>1. said' \in [ips -> Macs \cup {NoArp}] /\ said'[Router] = said[Router]
      BY <1>3 DEF ArpInv, ips
    <2>2. \A e \in Entries : arp_table'[e].valid => arp_table'[e].ipaddr \in LocalIps \cup OtherIps
      BY <1>1, <1>3, <1>5, <1>6 DEF ArpInv, ips
    <2>3. router_mac_addr' \in Macs \cup {NoArp}
          /\ (router_mac_addr' # NoArp => router_mac_addr' = said'[Router])
      BY <1>3, <2>1 DEF ArpInv
    <2>4. QED
      BY <1>8, <1>9, <1>10, <1>11, <2>1, <2>2, <2>3 DEF ArpInv, Unique
  <1>13. Found(ip)'
    BY <1>2, <1>5, <1>6 DEF Found, Holding
  <1>14. QED
    BY <1>12, <1>13

\* The router's address is kept apart, and once it is known it stays known.
LEMMA RouterKeeps ==
  ASSUME ArpInv, NEW mac \in Macs, AddRouter(mac)
  PROVE  ArpInv' /\ Found(Router)'
  <1>1. /\ arp_table' = arp_table /\ router_mac_addr' = mac
        /\ said' = [said EXCEPT ![Router] = mac] /\ mac # NoArp
    BY ArpAssumption DEF AddRouter, Hears
  <1>2. said' \in [ips -> Macs \cup {NoArp}] /\ said'[Router] = mac
    BY <1>1 DEF ArpInv, ips
  <1>3. \A n : ByRouter(n) => ByRouter(n)'
    BY <1>1 DEF ByRouter
  <1>4. \A e \in Entries : arp_table[e].valid => said'[arp_table[e].ipaddr] = said[arp_table[e].ipaddr]
    BY <1>1, ArpAssumption DEF ArpInv
  <1>5. ArpInv'
    BY <1>1, <1>2, <1>3, <1>4 DEF ArpInv, Unique
  <1>6. QED
    BY <1>1, <1>5 DEF Found, ByRouter

LEMMA MineKeeps ==
  ASSUME ArpInv, NEW mac \in Macs, AddMine(mac)
  PROVE  ArpInv'
  <1>1. /\ arp_table' = arp_table /\ router_mac_addr' = router_mac_addr
        /\ said' = [said EXCEPT ![Me] = mac]
    BY DEF AddMine, Hears
  <1>2. said' \in [ips -> Macs \cup {NoArp}] /\ said'[Router] = said[Router]
    BY <1>1, ArpAssumption DEF ArpInv, ips
  <1>3. \A n : ByRouter(n)' <=> ByRouter(n)
    BY <1>1 DEF ByRouter
  <1>4. \A e \in Entries : arp_table[e].valid => said'[arp_table[e].ipaddr] = said[arp_table[e].ipaddr]
    BY <1>1, ArpAssumption DEF ArpInv
  <1>5. QED
    BY <1>1, <1>2, <1>3, <1>4 DEF ArpInv, Unique

LEMMA LookupKeeps ==
  ASSUME ArpInv, NEW ip \in ips, arp_lookup(ip)
  PROVE  ArpInv'
  <1>1. /\ arp_table' = Searched(arp_table, ip)
        /\ router_mac_addr' = router_mac_addr /\ said' = said
    BY DEF arp_lookup
  <1>2. /\ arp_table' \in [Entries -> EntryType] /\ Unique(arp_table')
        /\ \A e \in Entries : arp_table'[e].valid => /\ arp_table[e].valid
                                                    /\ arp_table'[e].ipaddr = arp_table[e].ipaddr
                                                    /\ arp_table'[e].mac = arp_table[e].mac
    BY <1>1, SearchedFits
  <1>3. \A n : ByRouter(n)' <=> ByRouter(n)
    BY <1>1 DEF ByRouter
  <1>4. QED
    BY <1>1, <1>2, <1>3 DEF ArpInv, Unique

LEMMA ArpStep ==
  ASSUME EvEntry, ArpInv, [ArpNext]_arpvars
  PROVE  ArpInv'
  <1>1. CASE Lookup
    BY <1>1, LookupKeeps DEF Lookup
  <1>2. CASE Reply
    <2>1. PICK ip \in ips, mac \in Macs : arp_table_add(ip, mac)
      BY <1>2 DEF Reply
    <2>2. QED
      BY <2>1, MineKeeps, RouterKeeps, KnownKeeps, NewKeeps DEF arp_table_add
  <1>3. CASE UNCHANGED arpvars
    <2>1. arp_table' = arp_table /\ router_mac_addr' = router_mac_addr /\ said' = said
      BY <1>3 DEF arpvars
    <2>2. \A n : ByRouter(n)' <=> ByRouter(n)
      BY <2>1 DEF ByRouter
    <2>3. QED
      BY <2>1, <2>2 DEF ArpInv, Unique
  <1>4. QED
    BY <1>1, <1>2, <1>3 DEF ArpNext

LEMMA ArpStart == ArpInit => ArpInv
  <1> SUFFICES ASSUME ArpInit PROVE ArpInv
    OBVIOUS
  <1>1. NoEntry \in EntryType /\ NoEntry.valid = FALSE
    BY DEF NoEntry, EntryType
  <1>2. \A e \in Entries : arp_table[e] = NoEntry
    BY DEF ArpInit
  <1>3. QED
    BY <1>1, <1>2 DEF ArpInit, ArpInv, Unique

LEMMA InvRight == ArpInv => TableRight
  <1> SUFFICES ASSUME ArpInv, NEW ip \in ips
               PROVE  /\ Cardinality(Holding(arp_table, ip)) <= 1
                      /\ Found(ip) => MacOf(ip) = said[IF ByRouter(ip) THEN Router ELSE ip]
    BY DEF TableRight, OneEntry, TableFresh
  <1>1. Unique(arp_table)
    BY DEF ArpInv
  <1> DEFINE H == Holding(arp_table, ip)
  <1>2. H # {} => Min(H) \in Entries /\ H = {Min(H)} /\ arp_table[Min(H)].valid
                  /\ arp_table[Min(H)].ipaddr = ip
    BY <1>1, OneHolds
  <1>3. Cardinality(H) <= 1
    <2> HIDE DEF H
    <2>1. CASE H = {}
      BY <2>1, FS_EmptySet
    <2>2. CASE H # {}
      <3>1. Cardinality(H) = 1
        BY <1>2, <2>2, FS_Singleton
      <3>2. QED
        BY <3>1
    <2>3. QED
      BY <2>1, <2>2
  <1>4. CASE ByRouter(ip)
    BY <1>3, <1>4 DEF ArpInv, MacOf, ByRouter
  <1>5. CASE ~ByRouter(ip)
    <2>1. Found(ip) => H # {}
      BY <1>5 DEF Found
    <2>2. MacOf(ip) = arp_table[Min(H)].mac
      BY <1>5 DEF MacOf
    <2> HIDE DEF H
    <2>3. H # {} => arp_table[Min(H)].mac = said[ip]
      BY <1>2, <1>5 DEF ArpInv
    <2>4. Found(ip) => MacOf(ip) = said[ip]
      BY <2>1, <2>2, <2>3
    <2>5. QED
      BY <1>3, <1>5, <2>4 DEF H
  <1>6. QED
    BY <1>4, <1>5

-----------------------------------------------------------------------------
\* With the intended index, arp_lookup() always answers with the MAC address that
\* the host, or the router for a host behind it, has given last, and no address ever
\* has two entries in use: for tables of every size, and however entries age.
THEOREM TableIsRight ==
  ASSUME EvEntry
  PROVE  ArpSpec => []TableRight
  <1>1. ArpInit => ArpInv
    BY ArpStart
  <1>2. ArpInv /\ [ArpNext]_arpvars => ArpInv'
    BY ArpStep
  <1>3. ArpInv => TableRight
    BY InvRight
  <1>4. QED
    BY <1>1, <1>2, <1>3, PTL DEF ArpSpec

\* With the intended index, the address of a reply that arp_table_add() has stored is
\* found by the next search, whichever entry it takes: an unused one, or the eldest.
THEOREM ReplyIsFound ==
  ASSUME EvEntry
  PROVE  ArpSpec => ReplyFound
  <1> DEFINE Finds == \A ip \in ips \ {Me} : said'[ip] # said[ip] => Found(ip)'
  <1>1. ArpInit => ArpInv
    BY ArpStart
  <1>2. ArpInv /\ [ArpNext]_arpvars => ArpInv'
    BY ArpStep
  <1>3. ArpInv /\ [ArpNext]_arpvars => [Finds]_arpvars
    <2> SUFFICES ASSUME ArpInv, ArpNext, NEW n \in ips \ {Me}, said'[n] # said[n]
                 PROVE  Found(n)'
      BY DEF arpvars
    <2>1. CASE Lookup
      BY <2>1 DEF Lookup, arp_lookup
    <2>2. CASE Reply
      <3>1. PICK ip \in ips, mac \in Macs : arp_table_add(ip, mac)
        BY <2>2 DEF Reply
      <3>2. said' = [said EXCEPT ![ip] = mac]
        BY <3>1 DEF arp_table_add, AddMine, AddRouter, AddKnown, AddNew, Hears
      <3>3. n = ip
        BY <3>2 DEF ArpInv
      <3>4. QED
        BY <3>1, <3>3, RouterKeeps, KnownKeeps, NewKeeps DEF arp_table_add
    <2>3. QED
      BY <2>1, <2>2 DEF ArpNext
  <1>4. QED
    BY <1>1, <1>2, <1>3, PTL DEF ArpSpec, ReplyFound

-----------------------------------------------------------------------------
\* The state that the functions of the network software share.
Packet   == [usage : 0 .. 2, kind : Kinds \cup {None}]
SysState == [heap : [Pkts -> Packet], waiting : Pkts \cup {None}, net : Kinds \cup {None}]

\* A packet has as many references as h says that it is held, or one if it waits;
\* nobody else holds the packet that waits, and it is one to be sent.
Owned(s, h) ==
  /\ s \in SysState
  /\ h \in [Pkts -> 0 .. 2]
  /\ \A p \in Pkts : s.heap[p].usage = IF p = s.waiting THEN 1 ELSE h[p]
  /\ s.waiting # None => h[s.waiting] = 0 /\ s.heap[s.waiting].kind \in Kinds

\* What sending may do to the transmitter and to the packet that waits: the one is
\* never interrupted, the other gives way only while the transmitter is busy.
Sends(s, t) ==
  /\ s.net # None => t.net = s.net
  /\ t.waiting # s.waiting => /\ t.net # None /\ t.waiting # None
                              /\ s.waiting # None => s.net # None

LEMMA NoneIsNoPacket == None \notin Pkts /\ None \notin Kinds
  BY NetAssumption, NoneAssumption DEF Pkts, Kinds

\* A packet's record is replaced, and nothing else.
LEMMA HeapChange ==
  ASSUME NEW s \in SysState, NEW p \in Pkts, NEW r \in Packet
  PROVE  LET t == [s EXCEPT !.heap[p] = r]
         IN  /\ t \in SysState /\ t.waiting = s.waiting /\ t.net = s.net /\ t.heap[p] = r
             /\ \A q \in Pkts \ {p} : t.heap[q] = s.heap[q]
  BY DEF SysState

\* free_pkt() gives up one reference, and touches nothing else.
LEMMA FreeKeeps ==
  ASSUME NEW s, NEW h, Owned(s, h), NEW p \in Pkts, h[p] > 0
  PROVE  /\ Owned(free_pkt(s, p), [h EXCEPT ![p] = h[p] - 1])
         /\ free_pkt(s, p).waiting = s.waiting /\ free_pkt(s, p).net = s.net
         /\ \A q \in Pkts \ {p} : free_pkt(s, p).heap[q] = s.heap[q]
  <1> DEFINE r == Freed(s.heap[p])
             t == free_pkt(s, p)
  <1>1. s \in SysState /\ s.waiting # p /\ s.heap[p] \in Packet /\ s.heap[p].usage = h[p]
    BY NoneIsNoPacket DEF Owned, SysState
  <1>2. r \in Packet /\ r.usage = h[p] - 1
    BY <1>1 DEF Freed, Packet, Unused, Owned
  <1> HIDE DEF r
  <1>3. /\ t \in SysState /\ t.waiting = s.waiting /\ t.net = s.net /\ t.heap[p] = r
        /\ \A q \in Pkts \ {p} : t.heap[q] = s.heap[q]
    BY <1>1, <1>2, HeapChange DEF free_pkt, r
  <1> HIDE DEF t
  <1>4. Owned(t, [h EXCEPT ![p] = h[p] - 1])
    <2> DEFINE g == [h EXCEPT ![p] = h[p] - 1]
    <2>1. g \in [Pkts -> 0 .. 2] /\ g[p] = h[p] - 1 /\ \A q \in Pkts \ {p} : g[q] = h[q]
      BY DEF Owned
    <2> HIDE DEF g
    <2>2. \A q \in Pkts : t.heap[q].usage = IF q = t.waiting THEN 1 ELSE g[q]
      BY <1>1, <1>2, <1>3, <2>1 DEF Owned
    <2>3. t.waiting # None => g[t.waiting] = 0 /\ t.heap[t.waiting].kind \in Kinds
      BY <1>1, <1>3, <2>1 DEF Owned, SysState
    <2>4. QED
      BY <1>3, <2>1, <2>2, <2>3 DEF Owned, g
  <1>5. QED
    BY <1>3, <1>4 DEF t

\* tx_pkt() passes the only reference to a packet on: to the transmitter, which frees
\* it, or to waiting_pkt.
LEMMA SendKeeps ==
  ASSUME NEW s, NEW h, Owned(s, h), NEW p \in Pkts, h[p] = 1, s.heap[p].kind \in Kinds
  PROVE  /\ Owned(tx_pkt(s, p), [h EXCEPT ![p] = 0])
         /\ Sends(s, tx_pkt(s, p))
         /\ tx_pkt(s, p).net # None
         /\ s.net = None => tx_pkt(s, p).net = s.heap[p].kind
  <1> DEFINE g == [h EXCEPT ![p] = 0]
  <1>1. p # s.waiting /\ s \in SysState
    BY NoneIsNoPacket DEF Owned
  <1>2. CASE s.net = None
    <2> DEFINE s1 == [s EXCEPT !.net = s.heap[p].kind]
    <2>1. Owned(s1, h) /\ s1.net = s.heap[p].kind /\ s1.waiting = s.waiting
      BY <1>1, NoneIsNoPacket DEF Owned, SysState
    <2>2. tx_pkt(s, p) = free_pkt(s1, p)
      BY <1>2 DEF tx_pkt
    <2> HIDE DEF s1
    <2>3. QED
      BY <1>2, <2>1, <2>2, FreeKeeps, NoneIsNoPacket DEF Sends
  <1>3. CASE s.net # None
    <2>1. tx_pkt(s, p) = tx_busy(s, p)
      BY <1>3 DEF tx_pkt
    <2> DEFINE r == IF s.waiting = None THEN s ELSE free_pkt(s, s.waiting)
    <2>2. tx_busy(s, p) = [r EXCEPT !.waiting = p]
      BY <1>1 DEF tx_busy
    <2>3. /\ r \in SysState /\ r.net = s.net
          /\ \A q \in Pkts : r.heap[q] = IF q = s.waiting THEN Unused ELSE s.heap[q]
      BY <1>1, NoneIsNoPacket DEF Owned, SysState, Packet, free_pkt, Freed, Unused
    <2> HIDE DEF r
    <2>4. Owned([r EXCEPT !.waiting = p], g)
      BY <1>1, <2>3, NoneIsNoPacket DEF Owned, SysState, Unused
    <2>5. [r EXCEPT !.waiting = p].net = s.net /\ [r EXCEPT !.waiting = p].waiting = p
      BY <2>3 DEF SysState
    <2>6. QED
      BY <1>3, <2>1, <2>2, <2>4, <2>5, NoneIsNoPacket DEF Sends
  <1>4. QED
    BY <1>2, <1>3

-----------------------------------------------------------------------------
LEMMA OneMore ==
  ASSUME NEW T, IsFiniteSet(T), NEW x
  PROVE  /\ IsFiniteSet(T \cup {x})
         /\ Cardinality(T) \in Nat /\ Cardinality(T \cup {x}) \in Nat
         /\ Cardinality(T \cup {x}) <= Cardinality(T) + 1
  <1>1. IsFiniteSet(T \cup {x})
    BY FS_AddElement
  <1>2. Cardinality(T) \in Nat /\ Cardinality(T \cup {x}) \in Nat
    BY <1>1, FS_CardinalityType
  <1>3. Cardinality(T \cup {x}) = Cardinality(T) \/ Cardinality(T \cup {x}) = Cardinality(T) + 1
    BY FS_AddElement
  <1>4. QED
    BY <1>1, <1>2, <1>3

\* Memory has room for one more packet while no more than MaxForeign + 2 are held.
LEMMA FreshFits ==
  ASSUME NEW s, NEW h, Owned(s, h),
         NEW T, IsFiniteSet(T), Cardinality(T) <= MaxForeign + 2,
         \A p \in Pkts : h[p] > 0 => p \in T
  PROVE  Fresh(s) \in Pkts /\ s.heap[Fresh(s)].usage = 0
  <1> DEFINE Room == {p \in Pkts : s.heap[p].usage = 0}
  <1>1. Pkts \subseteq T \cup {s.waiting} \cup Room
    BY DEF Owned, SysState, Packet
  <1>2. IsFiniteSet(Pkts) /\ Cardinality(Pkts) = MaxForeign + 4
    BY NetAssumption, FS_Interval DEF Pkts
  <1>3. IsFiniteSet(T \cup {s.waiting}) /\ Cardinality(T \cup {s.waiting}) <= MaxForeign + 3
    <2>1. /\ IsFiniteSet(T \cup {s.waiting})
          /\ Cardinality(T) \in Nat /\ Cardinality(T \cup {s.waiting}) \in Nat
          /\ Cardinality(T \cup {s.waiting}) <= Cardinality(T) + 1
      BY OneMore, Zenon
    <2>2. QED
      BY <2>1, NetAssumption
  <1>4. Room # {}
    <2>1. SUFFICES ASSUME Room = {} PROVE FALSE
      OBVIOUS
    <2>2. Pkts \subseteq T \cup {s.waiting}
      BY <1>1, <2>1
    <2>3. Cardinality(Pkts) <= Cardinality(T \cup {s.waiting})
      BY <1>3, <2>2, FS_Subset
    <2>4. QED
      BY <1>2, <1>3, <2>3, NetAssumption, FS_CardinalityType
  <1>5. Room \subseteq Nat
    BY NetAssumption DEF Pkts
  <1>6. Min(Room) \in Room
    BY <1>4, <1>5, MinFits
  <1>7. QED
    BY <1>6 DEF Fresh

\* new_pkt() makes a packet with one reference, that nobody else has.
LEMMA AllocKeeps ==
  ASSUME NEW s, NEW h, Owned(s, h), NEW kind \in Kinds \cup {None},
         Fresh(s) \in Pkts, s.heap[Fresh(s)].usage = 0
  PROVE  /\ Owned(new_pkt(s, kind), [h EXCEPT ![Fresh(s)] = 1])
         /\ h[Fresh(s)] = 0
         /\ new_pkt(s, kind).waiting = s.waiting /\ new_pkt(s, kind).net = s.net
         /\ new_pkt(s, kind).heap[Fresh(s)].kind = kind
  <1> DEFINE f == Fresh(s)
  <1>1. f \in Pkts /\ s.heap[f].usage = 0 /\ new_pkt(s, kind) = [s EXCEPT !.heap[f] = [usage |-> 1, kind |-> kind]]
    BY DEF new_pkt
  <1> DEFINE t == new_pkt(s, kind)
             r == [usage |-> 1, kind |-> kind]
  <1> HIDE DEF f
  <1>2. f # s.waiting /\ h[f] = 0 /\ s \in SysState
    BY <1>1 DEF Owned
  <1>3. r \in Packet /\ r.usage = 1 /\ r.kind = kind
    BY DEF Packet
  <1> HIDE DEF r
  <1>4. /\ t \in SysState /\ t.waiting = s.waiting /\ t.net = s.net /\ t.heap[f] = r
        /\ \A q \in Pkts \ {f} : t.heap[q] = s.heap[q]
    BY <1>1, <1>2, <1>3, HeapChange DEF r
  <1> HIDE DEF t
  <1>5. Owned(t, [h EXCEPT ![f] = 1])
    <2> DEFINE g == [h EXCEPT ![f] = 1]
    <2>1. g \in [Pkts -> 0 .. 2] /\ g[f] = 1 /\ \A q \in Pkts \ {f} : g[q] = h[q]
      BY <1>1 DEF Owned
    <2> HIDE DEF g
    <2>2. \A q \in Pkts : t.heap[q].usage = IF q = t.waiting THEN 1 ELSE g[q]
      BY <1>2, <1>3, <1>4, <2>1 DEF Owned
    <2>3. t.waiting # None => g[t.waiting] = 0 /\ t.heap[t.waiting].kind \in Kinds
      BY <1>2, <1>4, <2>1 DEF Owned, SysState
    <2>4. QED
      BY <1>4, <2>1, <2>2, <2>3 DEF Owned, g
  <1>6. QED
    BY <1>2, <1>3, <1>4, <1>5 DEF t, f

\* An ARP packet leaves no reference behind.
LEMMA SendArpKeeps ==
  ASSUME NEW s, NEW h, Owned(s, h), NEW kind \in Kinds,
         NEW T, IsFiniteSet(T), Cardinality(T) <= MaxForeign + 2,
         \A p \in Pkts : h[p] > 0 => p \in T
  PROVE  /\ Owned(send_arp(s, kind), h)
         /\ Sends(s, send_arp(s, kind))
         /\ send_arp(s, kind).net # None
  <1> DEFINE f  == Fresh(s)
             s1 == new_pkt(s, kind)
             g  == [h EXCEPT ![f] = 1]
  <1>1. f \in Pkts /\ s.heap[f].usage = 0
    BY FreshFits
  <1>2. /\ Owned(s1, g) /\ h[f] = 0
        /\ s1.waiting = s.waiting /\ s1.net = s.net /\ s1.heap[f].kind = kind
    BY <1>1, AllocKeeps
  <1>3. send_arp(s, kind) = tx_pkt(s1, f)
    BY DEF send_arp
  <1> HIDE DEF f, s1
  <1>4. h \in [Pkts -> 0 .. 2]
    BY DEF Owned
  <1>5. g[f] = 1 /\ [g EXCEPT ![f] = 0] = h
    BY <1>1, <1>2, <1>4
  <1> HIDE DEF g
  <1>6. /\ Owned(tx_pkt(s1, f), [g EXCEPT ![f] = 0])
        /\ Sends(s1, tx_pkt(s1, f))
        /\ tx_pkt(s1, f).net # None
    BY <1>1, <1>2, <1>5, SendKeeps
  <1>7. QED
    BY <1>2, <1>3, <1>5, <1>6 DEF Sends

\* Nor does an IP packet, whether it is sent or dropped for an ARP request.
LEMMA SendIpKeeps ==
  ASSUME NEW s, NEW h, Owned(s, h), NEW found \in BOOLEAN,
         NEW T, IsFiniteSet(T), Cardinality(T) <= MaxForeign + 1,
         \A p \in Pkts : h[p] > 0 => p \in T
  PROVE  /\ Owned(tx_ippkt(s, found), h)
         /\ Sends(s, tx_ippkt(s, found))
         /\ tx_ippkt(s, found).net # None
  <1> DEFINE f  == Fresh(s)
             s1 == new_pkt(s, "ip")
             g  == [h EXCEPT ![f] = 1]
  <1>1. f \in Pkts /\ s.heap[f].usage = 0
    BY FreshFits, FS_CardinalityType, NetAssumption
  <1>2. /\ Owned(s1, g) /\ h[f] = 0
        /\ s1.waiting = s.waiting /\ s1.net = s.net /\ s1.heap[f].kind = "ip"
    BY <1>1, AllocKeeps DEF Kinds
  <1>3. tx_ippkt(s, found) = IF found THEN tx_pkt(s1, f) ELSE free_pkt(send_arp(s1, "arp_request"), f)
    BY DEF tx_ippkt
  <1> HIDE DEF f, s1
  <1>4. h \in [Pkts -> 0 .. 2]
    BY DEF Owned
  <1>5. g[f] = 1 /\ [g EXCEPT ![f] = 0] = h /\ \A p \in Pkts : g[p] > 0 => p \in T \cup {f}
    BY <1>1, <1>2, <1>4
  <1>6. [g EXCEPT ![f] = g[f] - 1] = h
    BY <1>5
  <1> HIDE DEF g
  <1>7. CASE found
    <2>1. /\ Owned(tx_pkt(s1, f), [g EXCEPT ![f] = 0])
          /\ Sends(s1, tx_pkt(s1, f))
          /\ tx_pkt(s1, f).net # None
      BY <1>1, <1>2, <1>5, SendKeeps DEF Kinds
    <2>2. QED
      BY <1>2, <1>3, <1>5, <1>7, <2>1 DEF Sends
  <1>8. CASE ~found
    <2> DEFINE s2 == send_arp(s1, "arp_request")
    <2>1. IsFiniteSet(T \cup {f}) /\ Cardinality(T \cup {f}) <= MaxForeign + 2
      <3>1. /\ IsFiniteSet(T \cup {f})
            /\ Cardinality(T) \in Nat /\ Cardinality(T \cup {f}) \in Nat
            /\ Cardinality(T \cup {f}) <= Cardinality(T) + 1
        BY OneMore, Zenon
      <3>2. QED
        BY <3>1, NetAssumption
    <2>2. Owned(s2, g) /\ Sends(s1, s2) /\ s2.net # None
      BY <1>2, <1>5, <2>1, SendArpKeeps DEF Kinds
    <2>3. tx_ippkt(s, found) = free_pkt(s2, f)
      BY <1>3, <1>8
    <2> HIDE DEF s2
    <2> g[f] > 0
      BY <1>5
    <2>4. /\ Owned(free_pkt(s2, f), [g EXCEPT ![f] = g[f] - 1])
          /\ free_pkt(s2, f).waiting = s2.waiting /\ free_pkt(s2, f).net = s2.net
      BY <1>1, <2>2, FreeKeeps
    <2>5. QED
      BY <1>2, <1>6, <2>2, <2>3, <2>4 DEF Sends
  <1>9. QED
    BY <1>7, <1>8

-----------------------------------------------------------------------------
\* The packets for other addresses, held for ever by one reference each.
HeldBy(F) == [p \in Pkts |-> IF p \in F THEN 1 ELSE 0]

\* The invariant of the main loop.
NetInv == NetTypeOK /\ PacketsAccounted /\ WakeUp

LEMMA InvOwned ==
  ASSUME NetInv, NEW F, F = Live \ {waiting_pkt}
  PROVE  /\ Owned(sys, HeldBy(F))
         /\ F \subseteq Pkts /\ IsFiniteSet(F) /\ Cardinality(F) = foreign
         /\ \A p \in Pkts : HeldBy(F)[p] > 0 => p \in F
  <1>1. IsFiniteSet(Pkts)
    BY NetAssumption, FS_Interval DEF Pkts
  <1>2. F \subseteq Pkts /\ Cardinality(F) = foreign
    BY DEF NetInv, PacketsAccounted, Live
  <1>3. IsFiniteSet(F)
    BY <1>1, <1>2, FS_Subset
  <1>4. Owned(sys, HeldBy(F))
    BY NoneIsNoPacket DEF NetInv, PacketsAccounted, Live, NetTypeOK, Owned, SysState, Packet, HeldBy, sys
  <1>5. QED
    BY <1>2, <1>3, <1>4 DEF HeldBy

\* Conversely, a state whose packets are so held is accounted for.
LEMMA OwnedAccounted ==
  ASSUME NEW s, NEW F, F \subseteq Pkts, Owned(s, HeldBy(F)), Become(s),
         Cardinality(F) = foreign'
  PROVE  /\ heap' \in [Pkts -> [usage : 0 .. 1, kind : Kinds \cup {None}]]
         /\ waiting_pkt' \in Pkts \cup {None} /\ netbtx' \in Kinds \cup {None}
         /\ PacketsAccounted'
  <1>1. heap' = s.heap /\ waiting_pkt' = s.waiting /\ netbtx' = s.net
    BY DEF Become
  <1>2. /\ heap' \in [Pkts -> Packet] /\ waiting_pkt' \in Pkts \cup {None} /\ netbtx' \in Kinds \cup {None}
        /\ \A p \in Pkts : heap'[p].usage = IF p = waiting_pkt' \/ p \in F THEN 1 ELSE 0
        /\ waiting_pkt' # None => waiting_pkt' \notin F /\ heap'[waiting_pkt'].kind \in Kinds
    BY <1>1 DEF Owned, SysState, HeldBy
  <1>3. Live' \ {waiting_pkt'} = F
    <2>1. ASSUME NEW p \in Pkts PROVE heap'[p].usage > 0 <=> p = waiting_pkt' \/ p \in F
      <3>1. heap'[p].usage = IF p = waiting_pkt' \/ p \in F THEN 1 ELSE 0
        BY <1>2, Zenon
      <3> QED
        BY <3>1
    <2>2. Live' = {p \in Pkts : p = waiting_pkt' \/ p \in F}
      BY <2>1, Zenon DEF Live
    <2>3. waiting_pkt' \notin F
      BY <1>2, NoneIsNoPacket, Zenon
    <2> QED
      BY <2>2, <2>3, Zenon
  <1>4. waiting_pkt' # None => waiting_pkt' \in Live' /\ heap'[waiting_pkt'].kind \in Kinds
    BY <1>2 DEF Live
  <1>5. heap' \in [Pkts -> [usage : 0 .. 1, kind : Kinds \cup {None}]]
    BY <1>2 DEF Packet
  <1>6. QED
    BY <1>2, <1>3, <1>4, <1>5 DEF PacketsAccounted

\* What a pass through the loop's state may do to the packet that waits.
GivesWay ==
  waiting_pkt # None /\ waiting_pkt' # waiting_pkt =>
    \/ waiting_pkt' = None /\ netbtx = None /\ netbtx' = heap[waiting_pkt].kind
    \/ waiting_pkt' # None /\ netbtx # None

\* One timer interrupt.
LEMMA TimedKeeps ==
  ASSUME NEW s, NEW h, Owned(s, h), NEW found \in BOOLEAN,
         NEW T, IsFiniteSet(T), Cardinality(T) <= MaxForeign + 1,
         \A p \in Pkts : h[p] > 0 => p \in T
  PROVE  /\ Owned(Timed(s, found), h) /\ Sends(s, Timed(s, found))
         /\ s.waiting # None => Timed(s, found) = s
  BY SendIpKeeps DEF Timed, Sends

\* A step of the loop that only sends keeps the packets accounted for.
LEMMA SendingStep ==
  ASSUME NetInv, NEW s, NEW F, F = Live \ {waiting_pkt}, Owned(s, HeldBy(F)),
         Sends(sys, s), Become(s), UNCHANGED <<nettx, foreign>>,
         rx' \in {"none", "avail", "err"}, turn' \in {"top", "rx", "tx"}, pic' \subseteq {"rx", "tx"}
  PROVE  NetInv' /\ GivesWay
  <1>1. F \subseteq Pkts /\ Cardinality(F) = foreign'
    BY InvOwned
  <1>2. /\ heap' \in [Pkts -> [usage : 0 .. 1, kind : Kinds \cup {None}]]
        /\ waiting_pkt' \in Pkts \cup {None} /\ netbtx' \in Kinds \cup {None}
        /\ PacketsAccounted'
    BY <1>1, OwnedAccounted
  <1>3. NetTypeOK'
    BY <1>2 DEF NetInv, NetTypeOK
  <1>4. /\ netbtx # None => netbtx' = netbtx
        /\ waiting_pkt' # waiting_pkt => /\ netbtx' # None /\ waiting_pkt' # None
                                         /\ waiting_pkt # None => netbtx # None
    BY DEF Sends, Become, sys
  <1>5. WakeUp'
    BY <1>4 DEF NetInv, WakeUp
  <1>6. QED
    BY <1>2, <1>3, <1>4, <1>5 DEF NetInv, GivesWay

\* The top of the loop, with both of its timer interrupts.
LEMMA TopStep ==
  ASSUME NetInv, Poll \/ Tick \/ Tick2
  PROVE  NetInv' /\ GivesWay
  <1> DEFINE F == Live \ {waiting_pkt}
             h == HeldBy(F)
  <1>1. /\ Owned(sys, h) /\ F \subseteq Pkts /\ IsFiniteSet(F) /\ Cardinality(F) <= MaxForeign + 1
        /\ \A p \in Pkts : h[p] > 0 => p \in F
    BY InvOwned, NetAssumption DEF NetInv, NetTypeOK
  <1> HIDE DEF F, h
  <1>2. ASSUME NEW s, LoopTop(s), Owned(s, h), Sends(sys, s)
        PROVE  NetInv' /\ GivesWay
    BY <1>2, SendingStep DEF LoopTop, NetInv, NetTypeOK, F, h
  <1>3. CASE Poll
    BY <1>1, <1>2, <1>3 DEF Poll, Sends
  <1>4. CASE Tick
    BY <1>1, <1>2, <1>4, TimedKeeps DEF Tick
  <1>5. CASE Tick2
    <2>1. PICK ping \in BOOLEAN, fft \in BOOLEAN : LoopTop(Timed(Timed(sys, ping), fft))
      BY <1>5 DEF Tick2
    <2> DEFINE s == Timed(sys, ping)
               t == Timed(s, fft)
    <2>2. Owned(s, h) /\ Sends(sys, s)
      BY <1>1, TimedKeeps
    <2> HIDE DEF s
    <2>3. Owned(t, h) /\ Sends(s, t)
      BY <1>1, <2>2, TimedKeeps
    <2>4. LoopTop(t)
      BY <2>1 DEF s
    <2> HIDE DEF t
    <2>5. sys.waiting # None => t = sys
      BY <1>1, <2>2, TimedKeeps DEF s, t
    <2>6. Sends(sys, t)
      BY <2>2, <2>3, <2>5 DEF Sends
    <2>7. QED
      BY <1>2, <2>3, <2>4, <2>6
  <1>6. QED
    BY <1>3, <1>4, <1>5

-----------------------------------------------------------------------------
\* A packet has come in: it is held twice.
LEMMA GotKeeps ==
  ASSUME NetInv, NEW F, F = Live \ {waiting_pkt}
  PROVE  /\ rcvd \in Pkts \ F
         /\ Owned(Got, [HeldBy(F) EXCEPT ![rcvd] = 2])
         /\ Got.waiting = waiting_pkt /\ Got.net = netbtx
  <1> DEFINE h == HeldBy(F)
             r == Fresh(sys)
             s == new_pkt(sys, None)
  <1>1. /\ Owned(sys, h) /\ IsFiniteSet(F) /\ Cardinality(F) <= MaxForeign + 2
        /\ \A p \in Pkts : h[p] > 0 => p \in F
    BY InvOwned, NetAssumption DEF NetInv, NetTypeOK
  <1>2. r \in Pkts /\ sys.heap[r].usage = 0
    BY <1>1, FreshFits
  <1>3. /\ Owned(s, [h EXCEPT ![r] = 1]) /\ h[r] = 0
        /\ s.waiting = waiting_pkt /\ s.net = netbtx
    BY <1>1, <1>2, AllocKeeps DEF sys
  <1>4. Got = [s EXCEPT !.heap[r].usage = 2]
    BY DEF Got, rcvd
  <1>5. h \in [Pkts -> 0 .. 2] /\ r \notin F
    <2>1. h \in [Pkts -> 0 .. 2]
      BY <1>1, Zenon DEF Owned
    <2> HIDE DEF r
    <2>2. ASSUME r \in F PROVE h[r] = 1
      BY <1>2, <2>2, Zenon DEF HeldBy
    <2> QED
      BY <1>3, <2>1, <2>2
  <1> HIDE DEF h, r, s
  <1>6. Owned(Got, [h EXCEPT ![r] = 2]) /\ Got.waiting = s.waiting /\ Got.net = s.net
    BY <1>2, <1>3, <1>4, <1>5, NoneIsNoPacket DEF Owned, SysState, Packet
  <1>7. QED
    BY <1>2, <1>3, <1>5, <1>6 DEF h, r, rcvd

\* The loop and the subsystem give their references up.
LEMMA HandledKeeps ==
  ASSUME NEW s, NEW F, NEW r \in Pkts \ F, r = rcvd, Owned(s, [HeldBy(F) EXCEPT ![r] = 2])
  PROVE  /\ Owned(Handled(s), HeldBy(F))
         /\ Handled(s).waiting = s.waiting /\ Handled(s).net = s.net
  <1> DEFINE h2 == [HeldBy(F) EXCEPT ![r] = 2]
             h1 == [h2 EXCEPT ![r] = h2[r] - 1]
             h0 == [h1 EXCEPT ![r] = h1[r] - 1]
             s1 == free_pkt(s, r)
  <1>1. h2[r] = 2 /\ h1[r] > 0 /\ h0 = HeldBy(F)
    BY DEF HeldBy
  <1> HIDE DEF h2
  <1>2. Owned(s, h2) /\ h2[r] > 0
    BY <1>1 DEF h2
  <1>3. Owned(s1, h1) /\ s1.waiting = s.waiting /\ s1.net = s.net
    BY <1>2, FreeKeeps
  <1>4. Handled(s) = free_pkt(s1, r)
    BY DEF Handled
  <1> HIDE DEF h1, s1
  <1> HIDE DEF h0
  <1>5. Owned(free_pkt(s1, r), [h1 EXCEPT ![r] = h1[r] - 1]) /\ free_pkt(s1, r).waiting = s1.waiting /\ free_pkt(s1, r).net = s1.net
    BY <1>1, <1>3, FreeKeeps
  <1>6. QED
    BY <1>1, <1>3, <1>4, <1>5 DEF h0

\* A packet that comes in is handled, answered or dropped.
LEMMA ReceiveStep ==
  ASSUME NetInv, RxArpRequest \/ RxArpReply \/ RxAnswered \/ RxIgnored \/ RxDropped
  PROVE  NetInv' /\ GivesWay
  <1> DEFINE F == Live \ {waiting_pkt}
             g == [HeldBy(F) EXCEPT ![rcvd] = 2]
  <1>1. Owned(sys, HeldBy(F)) /\ F \subseteq Pkts /\ IsFiniteSet(F) /\ Cardinality(F) <= MaxForeign
    BY InvOwned DEF NetInv, NetTypeOK
  <1>2. /\ rcvd \in Pkts \ F /\ Owned(Got, g)
        /\ Got.waiting = sys.waiting /\ Got.net = sys.net
    BY GotKeeps DEF sys
  <1>3. /\ IsFiniteSet(F \cup {rcvd}) /\ Cardinality(F \cup {rcvd}) <= MaxForeign + 1
        /\ Cardinality(F \cup {rcvd}) <= MaxForeign + 2
    <2>1. /\ IsFiniteSet(F \cup {rcvd})
          /\ Cardinality(F) \in Nat /\ Cardinality(F \cup {rcvd}) \in Nat
          /\ Cardinality(F \cup {rcvd}) <= Cardinality(F) + 1
      BY <1>1, OneMore, Zenon
    <2>2. QED
      BY <1>1, <2>1, NetAssumption
  <1>4. \A p \in Pkts : g[p] > 0 => p \in F \cup {rcvd}
    BY DEF HeldBy
  <1> HIDE DEF F, g
  <1>5. ASSUME NEW s, Receive(Handled(s)), UNCHANGED foreign, Owned(s, g), Sends(Got, s)
        PROVE  NetInv' /\ GivesWay
    <2>1. Owned(Handled(s), HeldBy(F)) /\ Handled(s).waiting = s.waiting /\ Handled(s).net = s.net
      BY <1>2, <1>5, HandledKeeps DEF g
    <2>2. Sends(sys, Handled(s))
      BY <1>2, <1>5, <2>1 DEF Sends
    <2>3. QED
      BY <1>5, <2>1, <2>2, SendingStep DEF Receive, NetInv, NetTypeOK, F
  <1>6. CASE RxArpRequest
    <2>1. Owned(send_arp(Got, "arp_reply"), g) /\ Sends(Got, send_arp(Got, "arp_reply"))
      BY <1>2, <1>3, <1>4, SendArpKeeps DEF Kinds
    <2>2. QED
      BY <1>5, <1>6, <2>1 DEF RxArpRequest
  <1>7. CASE RxArpReply
    <2>1. Owned(send_arp(Got, "arp_request"), g) /\ Sends(Got, send_arp(Got, "arp_request"))
      BY <1>2, <1>3, <1>4, SendArpKeeps DEF Kinds
    <2>2. QED
      BY <1>5, <1>7, <2>1 DEF RxArpReply
  <1>8. CASE RxAnswered
    BY <1>2, <1>3, <1>4, <1>5, <1>8, SendIpKeeps DEF RxAnswered
  <1>9. CASE RxIgnored
    BY <1>2, <1>5, <1>9 DEF RxIgnored, Sends
  <1>10. CASE RxDropped
    BY <1>1, <1>10, SendingStep DEF RxDropped, Receive, Sends, NetInv, NetTypeOK, F
  <1>11. QED
    BY <1>6, <1>7, <1>8, <1>9, <1>10

\* A packet for another address keeps one reference, for ever.
LEMMA ForeignStep ==
  ASSUME NetInv, RxForeign
  PROVE  NetInv' /\ GivesWay
  <1> DEFINE F == Live \ {waiting_pkt}
             g == [HeldBy(F) EXCEPT ![rcvd] = 2]
             G == F \cup {rcvd}
             s == free_pkt(Got, rcvd)
  <1>1. F \subseteq Pkts /\ IsFiniteSet(F) /\ Cardinality(F) = foreign
    BY InvOwned
  <1>2. rcvd \in Pkts \ F /\ Owned(Got, g) /\ Got.waiting = waiting_pkt /\ Got.net = netbtx
    BY GotKeeps
  <1>3. g[rcvd] = 2 /\ [g EXCEPT ![rcvd] = g[rcvd] - 1] = HeldBy(G)
    BY <1>2 DEF HeldBy
  <1>4. G \subseteq Pkts /\ Cardinality(G) = foreign + 1
    BY <1>1, <1>2, FS_AddElement
  <1> HIDE DEF F, g, G
  <1>5. Owned(s, HeldBy(G)) /\ s.waiting = waiting_pkt /\ s.net = netbtx
    BY <1>2, <1>3, FreeKeeps
  <1>6. /\ Become(s) /\ foreign' = foreign + 1 /\ foreign < MaxForeign /\ UNCHANGED <<nettx, pic>>
        /\ rx' = "none" /\ turn' = "tx"
    BY DEF RxForeign, Receive
  <1> HIDE DEF s
  <1>7. /\ heap' \in [Pkts -> [usage : 0 .. 1, kind : Kinds \cup {None}]]
        /\ waiting_pkt' \in Pkts \cup {None} /\ netbtx' \in Kinds \cup {None}
        /\ PacketsAccounted'
    BY <1>4, <1>5, <1>6, OwnedAccounted
  <1>8. foreign' \in 0 .. MaxForeign
    BY <1>6, NetAssumption DEF NetInv, NetTypeOK
  <1>9. NetTypeOK'
    BY <1>6, <1>7, <1>8 DEF NetInv, NetTypeOK
  <1>10. waiting_pkt' = waiting_pkt /\ netbtx' = netbtx
    BY <1>5, <1>6 DEF Become
  <1>11. QED
    BY <1>6, <1>7, <1>9, <1>10 DEF NetInv, WakeUp, GivesWay

\* The packet that waits is sent, or goes on waiting.
LEMMA RetransmitStep ==
  ASSUME NetInv, Retransmit
  PROVE  NetInv' /\ GivesWay
  <1> DEFINE w == waiting_pkt
             F == Live \ {w}
             h == [HeldBy(F) EXCEPT ![w] = 1]
             s == [sys EXCEPT !.waiting = None]
             t == tx_pkt(s, w)
  <1>1. CASE "tx" \in pic /\ w # None
    <2>1. Owned(sys, HeldBy(F)) /\ F \subseteq Pkts /\ Cardinality(F) = foreign
      BY InvOwned
    <2>2. w \in Pkts \ F /\ heap[w].kind \in Kinds /\ heap[w].usage = 1
      BY <1>1 DEF NetInv, NetTypeOK, PacketsAccounted, Live
    <2>3. Owned(s, h) /\ s.heap = heap /\ s.net = netbtx /\ s.waiting = None
      BY <2>1, <2>2, NoneIsNoPacket DEF Owned, SysState, HeldBy, sys
    <2>4. h[w] = 1 /\ [h EXCEPT ![w] = 0] = HeldBy(F)
      BY <2>2 DEF HeldBy
    <2>5. /\ Become(t) /\ nettx' = (netbtx' = None) /\ UNCHANGED <<rx, pic, foreign>>
          /\ turn' = "top"
      BY <1>1 DEF Retransmit
    <2> HIDE DEF F, h, s
    <2>6. /\ Owned(t, HeldBy(F)) /\ Sends(s, t) /\ t.net # None
          /\ netbtx = None => t.net = heap[w].kind
      <3>1. w \in Pkts /\ s.heap[w].kind \in Kinds /\ h[w] = 1 /\ Owned(s, h)
        BY <2>2, <2>3, <2>4
      <3>2. /\ Owned(t, [h EXCEPT ![w] = 0]) /\ Sends(s, t) /\ t.net # None
            /\ s.net = None => t.net = s.heap[w].kind
        BY ONLY <3>1, SendKeeps
      <3> HIDE DEF t
      <3>3. QED
        BY <2>3, <2>4, <3>2, Zenon
    <2>7. netbtx # None => t.waiting = w
      BY <2>2, <2>3, NoneIsNoPacket DEF tx_pkt, tx_busy, Owned, SysState
    <2>8. netbtx = None => t.waiting = None
      BY <2>2, <2>3, <2>4, <2>6 DEF Owned, SysState, tx_pkt, free_pkt
    <2> HIDE DEF t
    <2>9. /\ heap' \in [Pkts -> [usage : 0 .. 1, kind : Kinds \cup {None}]]
          /\ waiting_pkt' \in Pkts \cup {None} /\ netbtx' \in Kinds \cup {None}
          /\ PacketsAccounted'
      BY <2>1, <2>5, <2>6, OwnedAccounted
    <2>10. waiting_pkt' = t.waiting /\ netbtx' = t.net /\ nettx' = FALSE
      BY <2>5, <2>6 DEF Become
    <2>11. NetTypeOK'
      BY <2>5, <2>9, <2>10 DEF NetInv, NetTypeOK
    <2>12. QED
      BY <2>6, <2>7, <2>8, <2>9, <2>10, <2>11 DEF NetInv, WakeUp, GivesWay
  <1>2. CASE ~("tx" \in pic /\ w # None)
    BY <1>2 DEF Retransmit, mem, NetInv, NetTypeOK, PacketsAccounted, WakeUp, GivesWay, Live
  <1>3. QED
    BY <1>1, <1>2

\* Every step of the loop and of the hardware.
LEMMA NetStep ==
  ASSUME NetInv, NetNext
  PROVE  NetInv' /\ GivesWay
  <1>1. CASE RxNothing \/ TxDone \/ Arrive
    <2>1. heap' = heap /\ waiting_pkt' = waiting_pkt /\ foreign' = foreign
      BY <1>1 DEF RxNothing, TxDone, Arrive, mem
    <2>2. PacketsAccounted'
      BY <2>1 DEF NetInv, PacketsAccounted, Live
    <2>3. NetTypeOK'
      BY <1>1, <2>1 DEF NetInv, NetTypeOK, RxNothing, TxDone, Arrive, mem
    <2>4. WakeUp'
      BY <1>1 DEF NetInv, WakeUp, RxNothing, TxDone, Arrive, mem
    <2>5. QED
      BY <2>1, <2>2, <2>3, <2>4 DEF NetInv, GivesWay
  <1>2. QED
    BY <1>1, TopStep, ReceiveStep, ForeignStep, RetransmitStep DEF NetNext, Loop

LEMMA NetStarts == NetInit => NetInv
  <1>1. NetInit => Live = {}
    BY DEF NetInit, Live, Unused
  <1>2. NetInit => Cardinality(Live \ {waiting_pkt}) = foreign
    BY <1>1, FS_EmptySet DEF NetInit
  <1>3. NetInit => foreign \in 0 .. MaxForeign
    BY NetAssumption DEF NetInit
  <1>4. NetInit => heap \in [Pkts -> [usage : 0 .. 1, kind : Kinds \cup {None}]]
    <2>1. Unused \in [usage : 0 .. 1, kind : Kinds \cup {None}]
      BY DEF Unused
    <2> QED
      BY <2>1, Zenon DEF NetInit
  <1>5. NetInit => NetTypeOK
    BY <1>3, <1>4, Zenon DEF NetInit, NetTypeOK, Kinds
  <1>6. NetInit => PacketsAccounted /\ WakeUp
    BY <1>2, Zenon DEF NetInit, PacketsAccounted, WakeUp
  <1>7. QED
    BY <1>5, <1>6 DEF NetInv

LEMMA NetInvariant == NetSpec => []NetInv
  <1>1. NetInv /\ [NetNext]_netvars => NetInv'
    <2>1. NetInv /\ UNCHANGED netvars => NetInv'
      BY DEF NetInv, NetTypeOK, PacketsAccounted, WakeUp, Live, netvars, mem
    <2>2. QED
      BY <2>1, NetStep
  <1>2. QED
    BY <1>1, NetStarts, PTL DEF NetSpec

\* pkt.c, fftmain.c: however many packets for other addresses come in, the packet that
\* waits is allocated and one to be sent, and no other packet is still allocated after
\* the pass of the loop that received or made it.
THEOREM NoPacketLeaks == NetSpec => []PacketsAccounted
  BY NetInvariant, PTL DEF NetInv

\* fftmain.c, tx_busy(): the packet that waits is never forgotten, because the
\* transmitter's interrupt is pending or will come.
THEOREM LoopWakesUp == NetSpec => []WakeUp
  BY NetInvariant, PTL DEF NetInv

\* tx_busy(): the packet that waits goes to the transmitter, unless a later one takes
\* its place.
THEOREM WaitingIsKept == NetSpec => WaitingKept
  <1>1. NetInv /\ [NetNext]_netvars => [GivesWay]_netvars
    BY NetStep
  <1>2. QED
    BY <1>1, NetInvariant, PTL DEF NetSpec, WaitingKept, GivesWay

-----------------------------------------------------------------------------
\* The two tasks of sw/board/simple_ping.c.

Traps == [kind : {"arp request", "arp reply", "reply"}, long : BOOLEAN]

\* Whenever the user task may stop, the timer's interrupt is enabled; it has stopped
\* because of a trap or of an interrupt, and the trap lasts until it is served.
PingInv ==
  /\ TasksRight
  /\ trap \in Traps \cup {NoPkt}
  /\ ping_replies_sent \in Nat /\ wire \in Nat /\ lost \in Nat
  /\ spc \in {"check", "user", "back"} => "TMA" \in en
  /\ spc = "back" => trap # NoPkt \/ pend \cap en # {}
  /\ spc = "trap" => trap # NoPkt

\* What PingInv says of the supervisor does not depend on where the user task is.
LEMMA HardwareStep ==
  ASSUME PingInv, TimerA \/ TxEnds \/ RxPacket
  PROVE  PingInv'
  <1>1. /\ UNCHANGED <<en, spc, trap, ping_replies_sent, lost>> /\ pend \subseteq pend'
    BY DEF TimerA, TxEnds, RxPacket, hw, super, user, count
  <1>2. RepliesLeave' /\ wire' \in Nat
    BY <1>1 DEF PingInv, TasksRight, RepliesLeave, TimerA, TxEnds, RxPacket, hw, count
  <1>3. QED
    BY <1>1, <1>2 DEF PingInv, TasksRight, NoFault

LEMMA SupervisorStep ==
  ASSUME PingInv, PingSupervisor
  PROVE  PingInv'
  <1> USE DEF PingInv, TasksRight, NoFault, RepliesLeave, Rest, user, count
  <1>1. CASE SendPing
    BY <1>1 DEF SendPing
  <1>2. CASE PingOut
    BY <1>2 DEF PingOut
  <1>3. CASE Enable
    BY <1>3 DEF Enable
  <1>4. CASE Check
    BY <1>4 DEF Check
  <1>5. CASE ToSupervisor
    BY <1>5 DEF ToSupervisor
  <1>6. CASE Back
    BY <1>6 DEF Back
  <1>7. CASE TrapSend
    <2>1. trap \in Traps /\ trap' = NoPkt /\ NoPkt.kind = "none" /\ NoPkt \notin Traps
      BY <1>7 DEF TrapSend, Traps, NoPkt
    <2>2. /\ ~txbusy /\ spc' = "ints" /\ UNCHANGED <<ping_replies_sent, wire>>
          /\ IF trap.long THEN UNCHANGED <<txbuf, txbusy>> ELSE txbuf' = trap /\ txbusy' = TRUE
          /\ lost' = IF trap.kind = "reply" /\ trap.long THEN lost + 1 ELSE lost
      BY <1>7 DEF TrapSend
    <2>3. trap.long \in BOOLEAN
      BY <2>1 DEF Traps
    <2>4. lost' \in Nat
      BY <2>2
    <2>5. RepliesLeave'
      <3>1. CASE trap.long
        BY <2>1, <2>2, <3>1
      <3>2. CASE ~trap.long
        BY <2>1, <2>2, <3>2
      <3>3. QED
        BY <3>1, <3>2
    <2>6. QED
      BY <2>1, <2>2, <2>4, <2>5
  <1>8. CASE Ints
    BY <1>8 DEF Ints
  <1>9. QED
    BY <1>1, <1>2, <1>3, <1>4, <1>5, <1>6, <1>7, <1>8 DEF PingSupervisor

LEMMA UserStep ==
  ASSUME PingInv, PingUser
  PROVE  PingInv'
  <1>1. /\ spc = "user" /\ trap = NoPkt
        /\ UNCHANGED <<en, spc, txbusy, txbuf, wire, lost>>
    BY DEF PingUser, LookupPing, LookupPing2, Idle, uping_reply, UserRx, RouterReply2, Runs, Sys, super
  <1> DEFINE ArpTrap == trap' \in Traps /\ trap'.kind # "reply" /\ UNCHANGED ping_replies_sent
             Replies == trap' \in Traps /\ trap'.kind = "reply" /\ ping_replies_sent' = ping_replies_sent + 1
             Quiet == trap' = NoPkt /\ UNCHANGED ping_replies_sent
  <1>2. Quiet \/ ArpTrap \/ Replies
    <2>1. send_arp_request \/ send_arp_reply => trap' \in Traps /\ trap'.kind # "reply"
      <3>1. ASSUME NEW k \in {"arp request", "arp reply"}, NEW l \in BOOLEAN, Syscall(k, l)
            PROVE  trap' \in Traps /\ trap'.kind # "reply"
        BY <3>1 DEF Syscall, Traps
      <3>2. QED
        BY <3>1 DEF send_arp_request, send_arp_reply
    <2>2. ASSUME NEW l \in BOOLEAN, Syscall("reply", l) PROVE trap' \in Traps /\ trap'.kind = "reply"
      BY <2>2 DEF Syscall, Traps
    <2>3. CASE uping_reply
      BY <1>1, <2>1, <2>2, <2>3 DEF uping_reply
    <2>4. CASE UserRx
      BY <1>1, <2>1, <2>4 DEF UserRx, board_arp_table_add
    <2>5. CASE LookupPing
      BY <1>1, <2>1, <2>5 DEF LookupPing
    <2>6. CASE LookupPing2 \/ Idle \/ RouterReply2
      BY <1>1, <2>6 DEF LookupPing2, Idle, RouterReply2
    <2>7. QED
      BY <2>3, <2>4, <2>5, <2>6 DEF PingUser
  <1>3. RepliesLeave' /\ ping_replies_sent' \in Nat
    BY <1>1, <1>2 DEF PingInv, TasksRight, RepliesLeave, NoPkt
  <1>4. QED
    BY <1>1, <1>2, <1>3 DEF PingInv, TasksRight, NoFault

\* simple_ping.c: for every number of packets, every set of hosts and every value that
\* lastpps may have at first, the supervisor never comes to a place that halts the
\* processor, and every reply that is counted leaves the board once or is too long.
THEOREM TasksHandOver == PingSpec => []TasksRight
  <1>1. PingInit => PingInv
    BY DEF PingInit, PingInv, TasksRight, NoFault, RepliesLeave, NoPkt
  <1>2. PingInv /\ [PingNext]_pingvars => PingInv'
    <2>1. PingInv /\ UNCHANGED pingvars => PingInv'
      BY DEF PingInv, TasksRight, NoFault, RepliesLeave, pingvars, hw, super, user, count
    <2>2. QED
      BY <2>1, HardwareStep, SupervisorStep, UserStep DEF PingNext
  <1>3. PingInv => TasksRight
    BY DEF PingInv
  <1>4. QED
    BY <1>1, <1>2, <1>3, PTL DEF PingSpec

\* send_ping() and the supervisor's loop: no packet that is being transmitted changes.
THEOREM TxBufferIntact == PingSpec => TxIntact
  <1>1. [PingNext]_pingvars => [txbusy /\ txbusy' => txbuf' = txbuf]_pingvars
    BY DEF PingNext, PingSupervisor, PingUser, TimerA, TxEnds, RxPacket, SendPing, PingOut, Enable,
           Check, ToSupervisor, Back, TrapSend, Ints, LookupPing, LookupPing2, Idle, uping_reply,
           UserRx, RouterReply2, Sys, hw
  <1>2. QED
    BY <1>1, PTL DEF PingSpec, TxIntact
=============================================================================
