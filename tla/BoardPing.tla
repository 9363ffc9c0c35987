----------------------------- MODULE BoardPing ------------------------------
(***************************************************************************)
(* The ping program for the ZipCPU, sw/board/simple_ping.c, with the ARP   *)
(* functions of sw/board/arp.c.  A supervisor sends pings and, for the user*)
(* task, packets; the user task reads the packets that arrive and answers  *)
(* them.  The supervisor runs when the user task traps or an interrupt     *)
(* comes, between any two instructions of the user task.                   *)
(*                                                                         *)
(* The header gives SYSINT_PPS the value of SYSINT_TMA.  The host that is  *)
(* pinged is the router (etcnet.h); its MAC address is kept in two words.  *)
(***************************************************************************)
EXTENDS Integers, FiniteSets

CONSTANTS Hosts,      \* other hosts, on the local net
          MaxPkts,    \* packets that arrive
          LastPps     \* values that the uninitialised lastpps may have

VARIABLES
  pend, en,           \* r_int_state and r_int_enable of the interrupt controller
  txbusy, txbuf, rxbuf,  \* the packet interface: transmitting, its buffer, a packet to read
  spc, picv, lastpps, \* the supervisor
  upc, trap, sha,     \* the user task, its packet in a trap, the address it stores
  ping_mac_addr, router_mac, known,
  ping_replies_sent, wire, lost, arrived \* lost: replies that the supervisor does not send

hw    == <<txbusy, txbuf, rxbuf>>
super == <<spc, picv, lastpps>>
user  == <<upc, trap, sha, ping_mac_addr, router_mac, known>>
count == <<ping_replies_sent, wire, lost, arrived>>
pingvars == <<pend, en, hw, super, user, count>>

Unknown == <<0, 0>>
NoPkt   == [kind |-> "none"]
Level   == (IF rxbuf # NoPkt THEN {"RX"} ELSE {}) \cup (IF txbusy THEN {} ELSE {"TX"})

init_arp_table == known = {}

PingInit ==
  /\ pend = {"TX"} /\ en = {} /\ txbusy = FALSE /\ txbuf = NoPkt /\ rxbuf = NoPkt
  /\ spc = "ping" /\ picv = [pend |-> {}, en |-> {}] /\ lastpps \in LastPps
  /\ upc = "top" /\ trap = NoPkt /\ sha = Unknown
  /\ ping_mac_addr = Unknown /\ router_mac = Unknown /\ init_arp_table
  /\ ping_replies_sent = 0 /\ wire = 0 /\ lost = 0 /\ arrived = 0

-----------------------------------------------------------------------------
\* The hardware: the timer, the end of a transmission, a packet.
TimerA ==
  /\ "TMA" \notin pend /\ pend' = pend \cup {"TMA"}
  /\ UNCHANGED <<en, hw, super, user, count>>

TxEnds ==
  /\ txbusy /\ txbusy' = FALSE /\ pend' = pend \cup {"TX"}
  /\ wire' = IF txbuf.kind = "reply" THEN wire + 1 ELSE wire
  /\ UNCHANGED <<en, txbuf, rxbuf, super, user, ping_replies_sent, lost, arrived>>

\* An echo request is one that can be answered, one whose answer takes 1400 bytes or
\* more, or one that is refused: with options, or larger than the interface's buffer.
Packets ==
  [kind : {"echo"}, from : Hosts, size : {"fits", "long", "refused"}] \cup [kind : {"arp request"}, from : Hosts]
    \cup [kind : {"arp reply"}, from : Hosts \cup {"router"}, mac : {<<1, 1>>, <<2, 2>>}]
    \cup [kind : {"pong", "invalid"}]

RxPacket ==
  /\ rxbuf = NoPkt /\ arrived < MaxPkts /\ arrived' = arrived + 1
  /\ \E p \in Packets : rxbuf' = p
  /\ pend' = pend \cup {"RX"}
  /\ UNCHANGED <<en, txbusy, txbuf, super, user, ping_replies_sent, wire, lost>>

-----------------------------------------------------------------------------
\* The user task.
Runs(l) == spc = "user" /\ trap = NoPkt /\ upc = l
Sys     == <<pend, en, super, txbusy, txbuf, wire, lost, arrived>>

\* arp_lookup(): the router's address is kept apart from the table.
\* A search of the table makes its entries older, and drops the ones that are too old.
Knows(ip) == IF ip = "router" THEN router_mac # Unknown ELSE ip \in known
Aged(ip)  == {k \in SUBSET known : ip \in known => ip \in k}

\* send_arp_request(), send_arp_reply() and uping_reply() end in a system call.
Syscall(kind, long) == trap' = [kind |-> kind, long |-> long]
send_arp_request == Syscall("arp request", FALSE)
send_arp_reply   == Syscall("arp reply", FALSE)

\* arp_table_add(), for another host than the router: it searches the table first, and
\* asks for an address that it does not find, before it enters it; which entry it then
\* makes valid is undefined (ev points to an entry that has not been chosen yet).
board_arp_table_add(ip) ==
  \/ ip \in known /\ known' \in Aged(ip) /\ UNCHANGED trap
  \/ ip \notin known /\ send_arp_request /\ known' \in SUBSET (known \cup {ip})

\* The first of the two words of ping_mac_addr is written: the address of the
\* router, or a trap to ask for it.
LookupPing ==
  /\ Runs("top")
  /\ IF Knows("router")
     THEN /\ sha' = router_mac /\ ping_mac_addr' = [ping_mac_addr EXCEPT ![1] = router_mac[1]]
          /\ upc' = "lookup2" /\ UNCHANGED <<trap, known>>
     ELSE /\ send_arp_request /\ known' \in Aged("router")
          /\ upc' = "idle" /\ UNCHANGED <<sha, ping_mac_addr>>
  /\ UNCHANGED <<Sys, rxbuf, router_mac, ping_replies_sent>>

LookupPing2 ==
  /\ Runs("lookup2") /\ ping_mac_addr' = [ping_mac_addr EXCEPT ![2] = sha[2]] /\ upc' = "idle"
  /\ UNCHANGED <<Sys, rxbuf, trap, sha, router_mac, known, ping_replies_sent>>

\* It waits for a packet, and searches again once a second.
Idle ==
  /\ Runs("idle") /\ upc' = IF rxbuf # NoPkt THEN "rx" ELSE "top"
  /\ UNCHANGED <<Sys, rxbuf, trap, sha, ping_mac_addr, router_mac, known, ping_replies_sent>>

\* The packet is copied and the interface freed, then the packet is handled.
\* Variant: a reply is counted when the address is not known, too.
UserRxCounts ==
  /\ Runs("rx") /\ rxbuf.kind = "echo" /\ rxbuf' = NoPkt /\ upc' = "top"
  /\ Syscall(IF Knows(rxbuf.from) THEN "reply" ELSE "arp request", rxbuf.size = "long")
  /\ ping_replies_sent' = ping_replies_sent + 1 /\ known' \in Aged(rxbuf.from)
  /\ UNCHANGED <<Sys, sha, ping_mac_addr, router_mac>>

uping_reply ==
  /\ Runs("rx") /\ rxbuf.kind = "echo" /\ rxbuf' = NoPkt /\ upc' = "top"
  /\ known' \in Aged(rxbuf.from)
  /\ \/ /\ ~Knows(rxbuf.from)
        /\ send_arp_request /\ UNCHANGED ping_replies_sent
     \/ /\ Knows(rxbuf.from) /\ rxbuf.size # "refused"
        /\ Syscall("reply", rxbuf.size = "long") /\ ping_replies_sent' = ping_replies_sent + 1
     \/ Knows(rxbuf.from) /\ rxbuf.size = "refused" /\ UNCHANGED <<trap, ping_replies_sent>>
  /\ UNCHANGED <<Sys, sha, ping_mac_addr, router_mac>>

\* rxpkt of any other kind.
UserRx ==
  /\ Runs("rx") /\ rxbuf.kind # "echo" /\ rxbuf' = NoPkt
  /\ \/ rxbuf.kind \in {"pong", "invalid"} /\ upc' = "top" /\ UNCHANGED <<trap, sha, ping_mac_addr, known>>
     \/ /\ rxbuf.kind = "arp request" /\ send_arp_reply
        /\ upc' = "top" /\ UNCHANGED <<sha, ping_mac_addr, known>>
     \/ /\ rxbuf.kind = "arp reply" /\ rxbuf.from = "router"
        /\ sha' = rxbuf.mac /\ ping_mac_addr' = [ping_mac_addr EXCEPT ![1] = rxbuf.mac[1]]
        /\ upc' = "arp2" /\ UNCHANGED <<trap, known>>
     \/ /\ rxbuf.kind = "arp reply" /\ rxbuf.from \in Hosts /\ board_arp_table_add(rxbuf.from)
        /\ upc' = "top" /\ UNCHANGED <<sha, ping_mac_addr>>
  /\ UNCHANGED <<Sys, router_mac, ping_replies_sent>>

RouterReply2 ==
  /\ Runs("arp2") /\ ping_mac_addr' = [ping_mac_addr EXCEPT ![2] = sha[2]]
  /\ router_mac' = sha /\ upc' = "top"
  /\ UNCHANGED <<Sys, rxbuf, trap, sha, known, ping_replies_sent>>

-----------------------------------------------------------------------------
\* The supervisor.  send_ping() returns at once without an address, and waits for
\* the end of a transmission; nothing is sent while the link is down.
Rest == <<user, rxbuf, count>>

SendPing ==
  /\ spc = "ping"
  /\ spc' \in IF ping_mac_addr = Unknown THEN {"enable"} ELSE {"enable", "wait"}
  /\ UNCHANGED <<pend, en, txbusy, txbuf, picv, lastpps, Rest>>

\* Variant: nobody waits for the end of a transmission.
PingOutAtOnce ==
  /\ spc = "wait" /\ txbuf' = [kind |-> "ping", to |-> ping_mac_addr] /\ txbusy' = TRUE
  /\ spc' = "enable" /\ UNCHANGED <<pend, en, picv, lastpps, Rest>>

PingOut ==
  /\ spc = "wait" /\ ~txbusy
  /\ txbuf' = [kind |-> "ping", to |-> ping_mac_addr] /\ txbusy' = TRUE
  /\ spc' = "enable" /\ UNCHANGED <<pend, en, picv, lastpps, Rest>>

Enable ==
  /\ spc = "enable" /\ en' = {"TMA", "RX"} /\ spc' = "check"
  /\ UNCHANGED <<pend, txbusy, txbuf, picv, lastpps, Rest>>

Check ==
  /\ spc = "check" /\ spc' = IF pend \cap en = {} THEN "user" ELSE "back"
  /\ UNCHANGED <<pend, en, txbusy, txbuf, picv, lastpps, Rest>>

\* zip_rtu() ends.
ToSupervisor ==
  /\ spc = "user" /\ (trap # NoPkt \/ pend \cap en # {}) /\ spc' = "back"
  /\ UNCHANGED <<pend, en, txbusy, txbuf, picv, lastpps, Rest>>

\* The interrupts are read and cleared; the ones that are still asserted remain.
Back ==
  /\ spc = "back" /\ picv' = [pend |-> pend, en |-> en] /\ pend' = Level
  /\ spc' = IF trap # NoPkt THEN "trap"
            ELSE IF pend \cap en = {} \/ "TMA" \notin en THEN "halt" ELSE "ints"
  /\ UNCHANGED <<en, txbusy, txbuf, lastpps, Rest>>

\* The user's packet is sent, unless it is 1400 bytes long or longer.
TrapSend ==
  /\ spc = "trap" /\ ~txbusy /\ trap' = NoPkt /\ spc' = "ints"
  /\ IF trap.long THEN UNCHANGED <<txbuf, txbusy, en>>
     ELSE txbuf' = trap /\ txbusy' = TRUE /\ en' = en \cup {"TX", "RX"}
  /\ lost' = IF trap.kind = "reply" /\ trap.long THEN lost + 1 ELSE lost
  /\ UNCHANGED <<pend, rxbuf, picv, lastpps, upc, sha, ping_mac_addr, router_mac, known>>
  /\ UNCHANGED <<ping_replies_sent, wire, arrived>>

\* A level interrupt that has come is disabled, if it was enabled; the ones that
\* have not come are enabled.  The timer ends the loop only when lastpps is one.
Toggle(e, i) == IF i \notin picv.pend THEN e \cup {i}
                ELSE IF i \in picv.en THEN e \ {i} ELSE e

Ints ==
  LET pps == "TMA" \in picv.pend /\ lastpps = 1
  IN  /\ spc = "ints" /\ en' = Toggle(Toggle(en, "RX"), "TX") \cup {"TMA"}
      /\ lastpps' = IF "TMA" \in picv.pend /\ ~pps THEN 0 ELSE lastpps
      /\ spc' = IF pps THEN "ping" ELSE "check"
      /\ UNCHANGED <<pend, txbusy, txbuf, picv, Rest>>

PingSupervisor == SendPing \/ PingOut \/ Enable \/ Check \/ ToSupervisor \/ Back \/ TrapSend \/ Ints
PingUser == LookupPing \/ LookupPing2 \/ Idle \/ uping_reply \/ UserRx \/ RouterReply2

PingNext == TimerA \/ TxEnds \/ RxPacket \/ PingSupervisor \/ PingUser

PingSpec == PingInit /\ [][PingNext]_pingvars
\* The processor runs, the timer is an interval timer, a transmission ends.
PingFairSpec ==
  PingSpec /\ WF_pingvars(PingSupervisor) /\ WF_pingvars(TimerA) /\ WF_pingvars(TxEnds)

-----------------------------------------------------------------------------
\* The supervisor never comes to the places that halt the processor: whenever the
\* user task stops there is a trap, or an enabled interrupt, and the timer's is
\* enabled, although the loop itself switches interrupts on and off.
NoFault == spc # "halt"

\* Neither the supervisor's pings nor the packets it sends for the user task
\* touch the buffer of a packet that is being transmitted.
TxIntact == [][txbusy /\ txbusy' => txbuf' = txbuf]_pingvars

\* Every reply that ping_replies_sent counts leaves the board once, or is one of the
\* replies of 1400 bytes or more, which are dropped: interrupts between the trap and
\* the transmission lose no other and repeat none.
RepliesLeave ==
  ping_replies_sent = wire + lost + (IF trap.kind = "reply" THEN 1 ELSE 0)
                                  + (IF txbusy /\ txbuf.kind = "reply" THEN 1 ELSE 0)

\* Both: the two tasks hand over to each other without a fault and without a loss.
TasksRight == NoFault /\ RepliesLeave

\* "Set our timer to have us send a ping 1/sec": the loop comes back to send_ping().
PingsAgain == []<>(spc = "ping")

\* "If we don't know our destination MAC address yet, just return": a ping goes to
\* an address that the router has given.
KnowsAddress == txbuf.kind = "ping" => txbuf.to \in {<<1, 1>>, <<2, 2>>}
=============================================================================
