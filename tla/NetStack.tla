------------------------------ MODULE NetStack -------------------------------
(***************************************************************************)
(* The network software of the board: the main loop of sw/rv32/fftmain.c   *)
(* (and of pingtest.c, which has the same loop without the FFT), the       *)
(* packets that it counts references to (pkt.c) and the packet that waits  *)
(* for the transmitter (tx_busy).                                          *)
(*                                                                         *)
(* Of a packet only its kind is kept.  Whether the ARP table knows a MAC   *)
(* address is a choice here; module ArpTable has the table.  IP headers    *)
(* with options, at which dump_ippkt() stops the processor, are left out.  *)
(*                                                                         *)
(* Definitions marked as a variant show a slip that a property catches; no *)
(* specification uses them.                                                *)
(***************************************************************************)
EXTENDS Integers, FiniteSets, FiniteSetsExt

CONSTANTS
  MaxForeign,  \* how many packets for other addresses are received
  None

ASSUME NetAssumption == MaxForeign \in Nat
ASSUME NoneAssumption == None \notin Nat /\ None \notin {"arp_request", "arp_reply", "ip"}

VARIABLES
  heap,            \* the packets: their p_usage_count and kind
  waiting_pkt,
  netbtx, nettx,   \* the transmitter, and its interrupt
  rx,              \* the receiver: "none", "avail" or "err"
  turn, pic,       \* the main loop, and the interrupts it has read
  foreign          \* how many packets for other addresses came in

mem  == <<heap, waiting_pkt, netbtx>>
netvars == <<mem, nettx, rx, turn, pic, foreign>>

\* The packets that memory needs room for: besides those for other addresses one
\* that waits, one received, one sent in answer and one that asks for its address.
Pkts   == 1 .. MaxForeign + 4
Unused == [usage |-> 0, kind |-> None]

-----------------------------------------------------------------------------
\* What the functions of the network software do to the state s that they share.

sys == [heap |-> heap, waiting |-> waiting_pkt, net |-> netbtx]

Become(s) == heap' = s.heap /\ waiting_pkt' = s.waiting /\ netbtx' = s.net

\* malloc() finds room.
Fresh(s) == Min({p \in Pkts : s.heap[p].usage = 0})

new_pkt(s, kind) == [s EXCEPT !.heap[Fresh(s)] = [usage |-> 1, kind |-> kind]]

\* A packet that is not allocated must not be freed.
Freed(r) == IF r.usage = 1 THEN Unused
            ELSE [r EXCEPT !.usage = IF r.usage > 1 THEN r.usage - 1 ELSE -1]

free_pkt(s, p) == [s EXCEPT !.heap[p] = Freed(s.heap[p])]

\* Variant: the packet that waited is forgotten.
tx_busyForgets(s, p) == [s EXCEPT !.waiting = p]

tx_busy(s, p) ==
  [ (IF s.waiting \in {None, p} THEN s ELSE free_pkt(s, s.waiting))
    EXCEPT !.waiting = p]

tx_pkt(s, p) ==
  IF s.net # None THEN tx_busy(s, p)
  ELSE free_pkt([s EXCEPT !.net = s.heap[p].kind], p)

\* An ARP packet is made and sent.
send_arp(s, kind) == tx_pkt(new_pkt(s, kind), Fresh(s))

\* An IP packet is made and sent, or dropped when its MAC address must first be
\* asked for.
tx_ippkt(s, found) ==
  LET p  == Fresh(s)
      s1 == new_pkt(s, "ip")
  IN  IF found THEN tx_pkt(s1, p) ELSE free_pkt(send_arp(s1, "arp_request"), p)

-----------------------------------------------------------------------------
\* The first ping has made main() ask for the router's MAC address.
NetInit ==
  /\ heap = [p \in Pkts |-> Unused] /\ waiting_pkt = None
  /\ netbtx = "arp_request" /\ nettx = TRUE /\ rx = "none"
  /\ turn = "top" /\ pic = {} /\ foreign = 0

\* The top of the loop.  The interrupts are read once.
LoopTop(s) ==
  /\ turn = "top" /\ turn' = "rx"
  /\ pic' = {i \in {"rx", "tx"} : IF i = "rx" THEN rx = "avail" ELSE nettx}
  /\ Become(s)
  /\ UNCHANGED <<nettx, rx, foreign>>

\* A timer interrupt may have a ping sent, or the last answer of the FFT, or both,
\* if no packet waits.
Timed(s, found) == IF s.waiting = None THEN tx_ippkt(s, found) ELSE s

Poll  == LoopTop(sys)
Tick  == \E found \in BOOLEAN : LoopTop(Timed(sys, found))
Tick2 == \E ping, fft \in BOOLEAN : LoopTop(Timed(Timed(sys, ping), fft))

\* A received packet, with one reference of the loop and one of the subsystem.
rcvd == Fresh(sys)
Got  == [new_pkt(sys, None) EXCEPT !.heap[rcvd].usage = 2]

\* Variant: the subsystem gives up its reference twice.
HandledTwice(s) == free_pkt(free_pkt(free_pkt(s, rcvd), rcvd), rcvd)

\* Both references are given up.
Handled(s) == free_pkt(free_pkt(s, rcvd), rcvd)

Receive(s) ==
  /\ turn = "rx" /\ "rx" \in pic /\ turn' = "tx" /\ rx' = "none"
  /\ Become(s)
  /\ UNCHANGED <<nettx, pic>>

\* rx_arp(): an address that the table does not have is asked for once more.
RxArpRequest == Receive(Handled(send_arp(Got, "arp_reply"))) /\ UNCHANGED foreign
RxArpReply   == Receive(Handled(send_arp(Got, "arp_request"))) /\ UNCHANGED foreign

\* icmp_reply() and fftpacket().
RxAnswered ==
  (\E found \in BOOLEAN : Receive(Handled(tx_ippkt(Got, found)))) /\ UNCHANGED foreign

\* Known or malformed ARP packets, other ICMP messages, pings that are too long,
\* other UDP ports, unknown protocols, the end of a transform.
RxIgnored == Receive(Handled(Got)) /\ UNCHANGED foreign

\* A packet for another IP address.
RxForeign ==
  /\ foreign < MaxForeign /\ foreign' = foreign + 1
  /\ Receive(free_pkt(Got, rcvd))

\* rx_pkt() drops a packet with an error.
RxDropped == Receive(sys) /\ UNCHANGED foreign

RxNothing ==
  /\ turn = "rx" /\ "rx" \notin pic /\ turn' = "tx"
  /\ rx' = IF rx = "err" THEN "none" ELSE rx
  /\ UNCHANGED <<mem, nettx, pic, foreign>>

\* Variant: the packet is not put back when the transmitter is busy again.
RetransmitOnce ==
  /\ turn = "tx" /\ turn' = "top"
  /\ IF "tx" \in pic /\ waiting_pkt # None
     THEN /\ Become(IF netbtx # None THEN [sys EXCEPT !.waiting = None]
                    ELSE tx_pkt([sys EXCEPT !.waiting = None], waiting_pkt))
          /\ nettx' = (netbtx' = None)
     ELSE UNCHANGED <<mem, nettx>>
  /\ UNCHANGED <<rx, pic, foreign>>

\* The interrupt that is cleared comes back while the transmitter is idle.
Retransmit ==
  /\ turn = "tx" /\ turn' = "top"
  /\ IF "tx" \in pic /\ waiting_pkt # None
     THEN /\ Become(tx_pkt([sys EXCEPT !.waiting = None], waiting_pkt))
          /\ nettx' = (netbtx' = None)
     ELSE UNCHANGED <<mem, nettx>>
  /\ UNCHANGED <<rx, pic, foreign>>

\* Variant: the end of a transmission is noted only at the top of the loop.
TxDoneMasked ==
  /\ netbtx # None /\ netbtx' = None /\ nettx' = (nettx \/ turn = "top")
  /\ UNCHANGED <<heap, waiting_pkt, rx, turn, pic, foreign>>

TxDone ==
  /\ netbtx # None /\ netbtx' = None /\ nettx' = TRUE
  /\ UNCHANGED <<heap, waiting_pkt, rx, turn, pic, foreign>>

Arrive ==
  /\ rx = "none" /\ rx' \in {"avail", "err"}
  /\ UNCHANGED <<mem, nettx, turn, pic, foreign>>

Loop ==
  \/ Poll \/ Tick \/ Tick2
  \/ RxArpRequest \/ RxArpReply \/ RxAnswered \/ RxIgnored \/ RxForeign
  \/ RxDropped \/ RxNothing \/ Retransmit

NetNext == Loop \/ TxDone \/ Arrive

NetSpec == NetInit /\ [][NetNext]_netvars

-----------------------------------------------------------------------------
Kinds == {"arp_request", "arp_reply", "ip"}
Live  == {p \in Pkts : heap[p].usage > 0}

\* Between two steps of the loop nobody but the loop holds a packet.
NetTypeOK ==
  /\ heap \in [Pkts -> [usage : 0 .. 1, kind : Kinds \cup {None}]]
  /\ waiting_pkt \in Pkts \cup {None} /\ netbtx \in Kinds \cup {None}
  /\ nettx \in BOOLEAN /\ rx \in {"none", "avail", "err"}
  /\ turn \in {"top", "rx", "tx"} /\ pic \subseteq {"rx", "tx"}
  /\ foreign \in 0 .. MaxForeign

\* The packet that waits for the transmitter is allocated and is one to be sent,
\* and of all other packets none but those for other addresses is still allocated
\* after the pass of the loop that received or made it.
PacketsAccounted ==
  /\ waiting_pkt # None => waiting_pkt \in Live /\ heap[waiting_pkt].kind \in Kinds
  /\ Cardinality(Live \ {waiting_pkt}) = foreign

\* "Now we can free the packet ourselves": no packet survives the pass of the loop
\* that received it.
PacketFreed == Live \subseteq {waiting_pkt}

\* A waiting packet is never forgotten: the transmitter is at work, or its
\* interrupt is pending, so that the loop will try again.
WakeUp == waiting_pkt # None => netbtx # None \/ nettx

\* A packet that waits goes to the transmitter or gives way to a later one.
WaitingKept ==
  [][waiting_pkt # None /\ waiting_pkt' # waiting_pkt =>
       \/ waiting_pkt' = None /\ netbtx = None /\ netbtx' = heap[waiting_pkt].kind
       \/ waiting_pkt' # None /\ netbtx # None]_netvars

=============================================================================
