------------------------------ MODULE Packets -------------------------------
(***************************************************************************)
(* How the board's network software takes packets apart and puts them      *)
(* together (sw/rv32: pkt.c, ethproto.c, ipproto.c, icmp.c, udpproto.c).   *)
(* A NET_PACKET is its memory p_raw and a window on it, p_user and         *)
(* p_length, which each layer moves over its own header.                   *)
(*                                                                         *)
(* The offsets and the sizes of the headers are those of the code.  A      *)
(* field of several bytes is in its first, and the others are zero.  The   *)
(* main loop, with the counts of references, is in module NetStack and the *)
(* lookup of MAC addresses, which here succeeds, in module ArpTable.       *)
(***************************************************************************)
EXTENDS Integers, SequencesExt

CONSTANTS Lens,        \* how many bytes of payload are sent
          MaxReq,      \* how many requests are sent
          MinFrame     \* frames are padded to this size

VARIABLES rxmem, netbtx, waiting, requests, given, shown
pktvars == <<rxmem, netbtx, waiting, requests, given, shown>>

NoPacket == [raw |-> <<>>, user |-> 0, length |-> 0]

ETHERTYPE_IP   == 2048
IPPROTO_ICMP   == 1
IPPROTO_UDP    == 17
ICMP_PING      == 8
ICMP_ECHOREPLY == 0
FFTPORT        == 6783
MyIp   == 22
HostIp == 1
MacAddr(ip) == 100 + ip

-----------------------------------------------------------------------------
\* A packet's window: the byte at p_user[i], the window moved by n, bytes written.
At(p, i)   == p.raw[p.user + i + 1]
Move(p, n) == [p EXCEPT !.user = @ + n, !.length = @ - n]
Set(p, at, bytes) ==
  [p EXCEPT !.raw = [i \in DOMAIN p.raw |->
     IF i - p.user - at \in DOMAIN bytes THEN bytes[i - p.user - at] ELSE p.raw[i]]]
View(p)  == SubSeq(p.raw, p.user + 1, p.user + p.length)

\* The sum does not depend on the order of the bytes; module Arith has the carries.
ipcksum(len, p) ==
  65535 - (FoldLeft(LAMBDA a, b : a + b, 0, SubSeq(p.raw, p.user + 1, p.user + len)) % 65535)

\* malloc() leaves anything in the memory.
Leftover           == 99
new_pkt(len)   == [raw |-> [i \in 1 .. len |-> Leftover], user |-> 0, length |-> len]
pkt_reset(p)   == [p EXCEPT !.user = 0, !.length = Len(p.raw)]
rx_pkt(mem)    == [raw |-> mem, user |-> 0, length |-> Len(mem)]

eth_headersize  == 8
new_ethpkt(len) == Move(new_pkt(len + 8), 8)
rx_ethpkt(p)    == Move(p, 8)
ethpkt_ethtype(p) == At(p, 6)

ip_headersize  == 20
new_ippkt(len) == Move(new_ethpkt(len + 20), 20)
Ihl(p)         == (At(p, 0) % 16) * 4
rx_ippkt(p)    == Move(p, Ihl(p))
ippkt_src(p)      == At(p, 12)
ippkt_dst(p)      == At(p, 16)
ippkt_subproto(p) == At(p, 9)

\* Variant: the checksum's own bytes are not cleared before the sum is taken.
ip_set_stale(p, subproto, src, dest) ==
  LET q == Set(Set(p, 0, <<69, 0, p.length, 0, 3, 0, 0, 0, 128, subproto>>),
               12, <<src, 0, 0, 0, dest, 0, 0, 0>>)
  IN  Set(q, 10, <<ipcksum(ip_headersize, q), 0>>)

ip_set(p, subproto, src, dest) ==
  LET q == Set(p, 0, <<69, 0, p.length, 0, 3, 0, 0, 0, 128, subproto, 0, 0,
                       src, 0, 0, 0, dest, 0, 0, 0>>)
  IN  Set(q, 10, <<ipcksum(ip_headersize, q), 0>>)

\* new_udppkt() has no return statement: the packet is still in the register in which
\* new_ippkt() returned it.
udp_headersize  == 8
new_udppkt(len) == Move(new_ippkt(len + udp_headersize), udp_headersize)
udp_sport(p)    == At(p, 0)
udp_dport(p)    == At(p, 2)

\* Variant: the padding of a short frame stays in the window.
rx_udp_padded(p) == Move(p, udp_headersize)

rx_udp(p) ==
  LET ln == At(p, 4) IN
  [p EXCEPT !.user = @ + udp_headersize,
            !.length = IF ln <= 8 THEN 0
                       ELSE IF @ > ln THEN ln - udp_headersize ELSE @ - udp_headersize]

\* dump_ippkt() clears the checksum to compute its own, and puts it back.  So does
\* dump_icmp().
dump_icmp(p) ==
  LET q == Set(p, 2, <<0, 0>>) IN Set(q, 2, <<At(p, 2), At(p, 3)>>)
dump_ippkt(p) ==
  LET q == Set(Set(p, 10, <<0, 0>>), 10, <<At(p, 10), At(p, 11)>>)
      r == Move(q, Ihl(p))
  IN  IF At(p, 2) > p.length THEN p
      ELSE Move(IF ippkt_subproto(p) = IPPROTO_ICMP THEN dump_icmp(r) ELSE r,
                -(Ihl(p)))
dump_ethpkt(p) ==
  LET q == pkt_reset(p) IN
  IF ethpkt_ethtype(q) = ETHERTYPE_IP THEN Move(dump_ippkt(Move(q, 8)), -8) ELSE q

-----------------------------------------------------------------------------
\* Sending: the packet goes to the transmitter, or waits for it in place of another.
tx_pkt(p) ==
  IF netbtx # <<>> THEN waiting' = p /\ UNCHANGED netbtx
  ELSE netbtx' = View(p) /\ UNCHANGED waiting

tx_ethpkt(p, ethtype, mac) ==
  tx_pkt(Set(Move(p, -eth_headersize), 0, <<mac, 0, 0, 0, 0, 0, ethtype, 0>>))

tx_ippkt(p, subproto, src, dest) ==
  IF p.user < 28 THEN UNCHANGED <<netbtx, waiting>>
  ELSE tx_ethpkt(ip_set(Move(p, -ip_headersize), subproto, src, dest),
                 ETHERTYPE_IP, MacAddr(dest))

tx_udp(p, dest, sport, dport) ==
  LET q == Move(p, -udp_headersize) IN
  tx_ippkt(Set(q, 0, <<sport, 0, dport, 0, q.length, 0, 0, 0>>),
           IPPROTO_UDP, MyIp, dest)

\* The checksum covers all that was copied, the padding of the request too.
icmp_reply(ipaddr, request) ==
  LET pktln == IF request.length < 8 THEN 8 ELSE request.length
      p == new_ippkt(pktln)
      q == Set(p, 0, [i \in 1 .. pktln |-> At(request, i - 1)])
      r == Set(q, 0, <<ICMP_ECHOREPLY, 0, 0, 0>>)
  IN  IF pktln >= 1024 THEN UNCHANGED <<netbtx, waiting>>
      ELSE tx_ippkt(Set(r, 2, <<ipcksum(r.length, r), 0>>), IPPROTO_ICMP, MyIp, ipaddr)

\* The main loop's timer sends one when no packet waits.
icmp_send_ping ==
  LET p == Set(new_ippkt(8), 0, <<ICMP_PING, 0, 0, 0, 5, 0, 0, 0>>) IN
  /\ waiting = NoPacket
  /\ tx_ippkt(Set(p, 2, <<ipcksum(8, p), 0>>), IPPROTO_ICMP, MyIp, HostIp)
  /\ UNCHANGED <<rxmem, requests, given, shown>>

\* fftpacket() goes back to the headers for the sender's address and port, and
\* returns to the payload.  What it answers is in module FftLink.
fftpacket(p, len) ==
  LET ip  == rx_ethpkt(pkt_reset(p))
      udp == rx_ippkt(ip)
      tx  == new_udppkt(len)
  IN  /\ given' = [ip |-> ippkt_src(ip), port |-> udp_sport(udp), data |-> View(p)]
      /\ tx_udp(Set(tx, 0, [i \in 1 .. len |-> 69 + i]), ippkt_src(ip), FFTPORT,
                udp_sport(udp))

-----------------------------------------------------------------------------
\* The network.  A request has a payload of its own; short frames are padded.
Payload(r) == [i \in 1 .. r.len |-> 10 * r.port + i]

Frame(r) ==
  LET body == IF r.kind = "udp" THEN <<r.port, 0, FFTPORT, 0, 8 + r.len, 0, 0, 0>>
              ELSE <<ICMP_PING, 0, 77, 0, r.port, 0, 0, 0>>
      ip   == <<69, 0, 28 + r.len, 0, 0, 0, 0, 0, 64, CASE r.kind = "udp" -> IPPROTO_UDP
                  [] r.kind = "ping" -> IPPROTO_ICMP [] OTHER -> 6,
                55, 0, r.ip, 0, 0, 0, MyIp, 0, 0, 0>>
      all  == <<MacAddr(MyIp), 0, 0, 0, 0, 0, ETHERTYPE_IP, 0>> \o ip \o body \o Payload(r)
  IN  all \o [i \in 1 .. (IF Len(all) < MinFrame THEN MinFrame - Len(all) ELSE 0) |-> 0]

Arrives ==
  /\ rxmem = <<>> /\ Len(requests) < MaxReq
  /\ \E kind \in {"udp", "ping", "other"}, ip \in {HostIp, HostIp + 1}, len \in Lens :
       LET r == [kind |-> kind, ip |-> ip, len |-> len, port |-> Len(requests) + 1] IN
       rxmem' = Frame(r) /\ requests' = Append(requests, r)
  /\ UNCHANGED <<netbtx, waiting, given, shown>>

\* The main loop's switch on the kind of a received packet.
Received ==
  LET p   == rx_pkt(rxmem)
      ip  == rx_ethpkt(p)
      sub == rx_ippkt(ip)
  IN  /\ rxmem # <<>> /\ rxmem' = <<>> /\ UNCHANGED requests
      /\ ethpkt_ethtype(p) = ETHERTYPE_IP /\ ippkt_dst(ip) = MyIp
      /\ \/ /\ ippkt_subproto(ip) = IPPROTO_ICMP /\ At(sub, 0) = ICMP_PING
            /\ icmp_reply(ippkt_src(ip), sub)
            /\ UNCHANGED <<given, shown>>
         \/ /\ ippkt_subproto(ip) = IPPROTO_UDP /\ udp_dport(sub) = FFTPORT
            /\ \E len \in {4, 8} : fftpacket(rx_udp(sub), len)
            /\ UNCHANGED shown
         \/ /\ ippkt_subproto(ip) \notin {IPPROTO_ICMP, IPPROTO_UDP}
            /\ shown' = dump_ethpkt(sub)
            /\ UNCHANGED <<given, netbtx, waiting>>

\* The packet that waited is sent as it is.
Resent ==
  /\ waiting # NoPacket /\ netbtx = <<>>
  /\ netbtx' = View(waiting) /\ waiting' = NoPacket
  /\ UNCHANGED <<rxmem, requests, given, shown>>

Leaves ==
  /\ netbtx # <<>> /\ netbtx' = <<>>
  /\ UNCHANGED <<rxmem, waiting, requests, given, shown>>

PktInit ==
  /\ rxmem = <<>> /\ netbtx = <<>> /\ waiting = NoPacket /\ requests = <<>>
  /\ given = [ip |-> 0, port |-> 0, data |-> <<>>] /\ shown = NoPacket
PktNext == Arrives \/ Received \/ icmp_send_ping \/ Resent \/ Leaves
PktSpec == PktInit /\ [][PktNext]_pktvars

-----------------------------------------------------------------------------
Asked == {requests[i] : i \in DOMAIN requests}

\* Sums to zero, with its checksum at byte c.
Summed(s, c) == s[c] = 65535 - ((FoldLeft(LAMBDA a, b : a + b, 0, s) - s[c]) % 65535)

\* Every frame that reaches the transmitter, at once or after waiting, is whole: its
\* length is that of its headers, the header checksum is right, and it answers a
\* request, with that request's data, to the one who sent it.
FramesRight ==
  netbtx # <<>> =>
    LET ip   == SubSeq(netbtx, 9, Len(netbtx))
        body == SubSeq(ip, 21, Len(ip))
    IN  /\ netbtx[1] = MacAddr(ip[17]) /\ netbtx[7] = ETHERTYPE_IP
        /\ ip[1] = 69 /\ ip[3] = Len(ip) /\ ip[13] = MyIp /\ Summed(SubSeq(ip, 1, 20), 11)
        /\ \/ /\ ip[10] = IPPROTO_ICMP /\ body[1] = ICMP_PING /\ Len(body) = 8
              /\ Summed(body, 3) /\ ip[17] = HostIp
           \/ /\ ip[10] = IPPROTO_ICMP /\ body[1] = ICMP_ECHOREPLY /\ Summed(body, 3)
              /\ \E r \in Asked : /\ r.kind = "ping" /\ r.ip = ip[17] /\ r.port = body[5]
                                     /\ IsPrefix(Payload(r), SubSeq(body, 9, Len(body)))
           \/ /\ ip[10] = IPPROTO_UDP /\ body[1] = FFTPORT /\ body[5] = Len(body)
              /\ SubSeq(body, 9, Len(body)) = [i \in 1 .. Len(body) - 8 |-> 69 + i]
              /\ \E r \in Asked : r.kind = "udp" /\ r.ip = ip[17] /\ r.port = body[3]

\* The FFT sees the payload that was sent, to the byte, and whose it is.  A packet
\* that is shown on the console is shown whole and unchanged.
WindowsRight ==
  /\ given.ip # 0 =>
       \E r \in Asked : r.kind = "udp" /\ given = [ip |-> r.ip, port |-> r.port,
                                                      data |-> Payload(r)]
  /\ shown # NoPacket =>
       \E r \in Asked : r.kind = "other" /\ View(shown) = Frame(r)

\* Both.
PacketsRight == FramesRight /\ WindowsRight
=============================================================================
