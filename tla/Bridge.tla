------------------------------- MODULE Bridge -------------------------------
(***************************************************************************)
(* The network bridge of the serial line: sw/host/netuart.cpp on a host    *)
(* with a board, and the network half of sim/verilated/dbluartsim.cpp in   *)
(* simulation.  Both carry two channels over one line, the debug bus ("cmd"*)
(* bit 7 set) and the console ("con"), and serve one client on each.       *)
(***************************************************************************)
EXTENDS Integers, SequencesExt

CONSTANTS MaxBytes,   \* bytes the board sends on each channel
          MaxUp,      \* bytes a client sends on a connection
          MaxConns,   \* clients that come, one after the other, on each channel
          PIPEBUFLEN  \* bytes of a line that dbluartsim keeps

Chan == {"cmd", "con"}

VARIABLES impl,     \* "netuart" or "dbluart"
          alive,    \* the bridge has not exited
          tty,      \* bytes from the board that the bridge has not read
          made,     \* how many bytes the board has sent on each channel
          peer,     \* the client: "none", "wait", "open", "gone"
          fd,       \* is the bridge's end of the connection open?
          conns, sock, got,   \* clients so far, bytes they sent, bytes they received
          sent,     \* bytes the present client has sent
          board,    \* bytes that reached the board
          poll,     \* revents of netuart's poll(): the turns it still takes
          m_cmdbuf, m_conbuf, m_rxbuf

bridgevars == <<impl, alive, tty, made, peer, fd, conns, sock, got, sent, board, poll,
                m_cmdbuf, m_conbuf, m_rxbuf>>
env  == <<made, peer, conns, sent>>
bufs == <<m_cmdbuf, m_conbuf, m_rxbuf>>

Of(c, s) == SelectSeq(s, LAMBDA b : b.ch = c)

\* The listening sockets: clients may come.
setup_listener ==
  /\ peer = [c \in Chan |-> "none"] /\ fd = [c \in Chan |-> FALSE] /\ conns = [c \in Chan |-> 0]
  /\ sock = [c \in Chan |-> <<>>] /\ got = [c \in Chan |-> <<>>] /\ sent = [c \in Chan |-> 0]

\* netuart listens before it opens the serial port.
BridgeInit ==
  /\ impl \in {"netuart", "dbluart"} /\ alive = TRUE /\ setup_listener
  /\ tty = <<>> /\ made = [c \in Chan |-> 0] /\ board = <<>>
  /\ poll = IF impl = "netuart" THEN {"open"} ELSE {}
  /\ m_cmdbuf = <<>> /\ m_conbuf = <<>> /\ m_rxbuf = <<>>

-----------------------------------------------------------------------------
\* The clients and the board.
Connect(c) ==
  /\ peer[c] = "none" /\ conns[c] < MaxConns[c]
  /\ peer' = [peer EXCEPT ![c] = "wait"] /\ conns' = [conns EXCEPT ![c] = @ + 1]
  /\ sock' = [sock EXCEPT ![c] = <<>>] /\ got' = [got EXCEPT ![c] = <<>>]
  /\ sent' = [sent EXCEPT ![c] = 0]
  /\ UNCHANGED <<impl, alive, tty, made, fd, board, poll, bufs>>

ClientSends(c) ==
  /\ peer[c] = "open" /\ sent[c] < MaxUp
  /\ sent' = [sent EXCEPT ![c] = @ + 1]
  /\ sock' = [sock EXCEPT ![c] = Append(@, [ch |-> c, of |-> conns[c], n |-> sent[c]])]
  /\ UNCHANGED <<impl, alive, tty, made, peer, fd, conns, got, board, poll, bufs>>

ClientCloses(c) ==
  /\ peer[c] = "open" /\ peer' = [peer EXCEPT ![c] = "gone"]
  /\ UNCHANGED <<impl, alive, tty, made, fd, conns, sock, got, sent, board, poll, bufs>>

\* A byte from the board; it may be a newline.
BoardSends(c) ==
  /\ made[c] < MaxBytes[c] /\ made' = [made EXCEPT ![c] = @ + 1]
  /\ \E nl \in BOOLEAN : tty' = Append(tty, [ch |-> c, n |-> made[c], nl |-> nl])
  /\ UNCHANGED <<impl, alive, peer, fd, conns, sock, got, sent, board, poll, bufs>>

\* The writes, to the clients of cs, that fail: the kernel still takes the first
\* ones after the peer has closed.
Failures(cs) == SUBSET {c \in cs : fd[c] /\ peer[c] = "gone"}
Reached(c) == fd[c] /\ peer[c] = "open"

\* What read() finds on a client's socket: its bytes, or, after them, its end.
Readable(c) == sock[c] # <<>> \/ peer[c] = "gone"

AcceptPeer(c) ==
  /\ fd' = [fd EXCEPT ![c] = TRUE] /\ peer' = [peer EXCEPT ![c] = "open"]
ClosePeer(c) ==
  /\ fd' = [fd EXCEPT ![c] = FALSE] /\ peer' = [peer EXCEPT ![c] = "none"]

-----------------------------------------------------------------------------
\* netuart.cpp, main().  The serial port is opened, and set to raw bytes, or the
\* bridge exits.
OpenTty ==
  /\ impl = "netuart" /\ alive /\ poll = {"open"}
  /\ alive' \in BOOLEAN /\ poll' = IF alive' THEN {} ELSE poll
  /\ UNCHANGED <<impl, tty, fd, sock, got, board, bufs, env>>

\* poll() returns when anything is ready.
Poll ==
  LET ready == {c \in Chan : IF fd[c] THEN Readable(c) ELSE peer[c] = "wait"}
                 \cup (IF tty # <<>> THEN {"tty"} ELSE {})
  IN  /\ impl = "netuart" /\ alive /\ poll = {} /\ ready # {} /\ poll' = ready
      /\ UNCHANGED <<impl, alive, tty, fd, sock, got, board, bufs, env>>

\* Everything that has arrived from the board is split by bit 7 and written to
\* the clients that are there; LINBUFS::write() exits when a write fails.
\* Variant: bit 7 is not looked at.
TtyEventUnsplit ==
  /\ impl = "netuart" /\ alive /\ "tty" \in poll
  /\ tty' = <<>> /\ poll' = poll \ {"tty"} /\ alive' = alive
  /\ got' = [c \in Chan |-> IF Reached(c) THEN got[c] \o tty ELSE got[c]]
  /\ UNCHANGED <<impl, fd, sock, board, bufs, env>>

TtyEvent ==
  /\ impl = "netuart" /\ alive /\ "tty" \in poll
  /\ tty' = <<>> /\ poll' = poll \ {"tty"}
  /\ \E failed \in Failures({c \in Chan : Of(c, tty) # <<>>}) : alive' = (failed = {})
  /\ got' = [c \in Chan |-> IF Reached(c) THEN got[c] \o Of(c, tty) ELSE got[c]]
  /\ UNCHANGED <<impl, fd, sock, board, bufs, env>>

\* A client is accepted, or its bytes are marked and written to the line, or
\* its end is seen and the connection closed.
ClientEvent(c) ==
  /\ impl = "netuart" /\ alive /\ c \in poll /\ "tty" \notin poll
  /\ c = "con" => "cmd" \notin poll
  /\ poll' = poll \ {c}
  /\ \/ ~fd[c] /\ AcceptPeer(c) /\ UNCHANGED <<sock, board>>
     \/ /\ fd[c] /\ sock[c] # <<>>
        /\ board' = board \o sock[c] /\ sock' = [sock EXCEPT ![c] = <<>>]
        /\ UNCHANGED <<fd, peer>>
     \/ fd[c] /\ sock[c] = <<>> /\ ClosePeer(c) /\ UNCHANGED <<sock, board>>
  /\ UNCHANGED <<impl, alive, tty, got, made, conns, sent, bufs>>

-----------------------------------------------------------------------------
\* dbluartsim.cpp.  poll_accept() runs with every clock.
PollAccept(c) ==
  /\ impl = "dbluart" /\ alive /\ ~fd[c] /\ peer[c] = "wait" /\ AcceptPeer(c)
  /\ UNCHANGED <<impl, alive, tty, sock, got, board, poll, bufs, made, conns, sent>>

\* received() and flushrx(): bytes for the debug bus are kept to the end of
\* their line; a byte for the console is sent at once, without those before it.
Received ==
  LET b    == Head(tty)
      cmd  == IF b.ch = "cmd" THEN Append(m_cmdbuf, b) ELSE m_cmdbuf
      con  == IF b.ch = "con" THEN Append(m_conbuf, b) ELSE m_conbuf
      full(s) == s # <<>> /\ (Last(s).nl \/ Len(s) >= PIPEBUFLEN)
      talk == fd["con"] /\ con # <<>>
  IN  /\ impl = "dbluart" /\ alive /\ tty # <<>> /\ tty' = Tail(tty)
      /\ got' = [c \in Chan |->
           CASE c = "cmd" /\ full(cmd) /\ Reached(c) -> got[c] \o cmd
             [] c = "con" /\ talk /\ Reached(c) -> Append(got[c], Last(con))
             [] OTHER -> got[c]]
      /\ m_cmdbuf' = IF full(cmd) THEN <<>> ELSE cmd
      /\ m_conbuf' = IF talk \/ full(con) THEN <<>> ELSE con
      /\ \E failed \in Failures((IF full(cmd) THEN {"cmd"} ELSE {}) \cup (IF talk THEN {"con"} ELSE {})) :
           /\ fd' = [c \in Chan |-> fd[c] /\ c \notin failed]
           /\ peer' = [c \in Chan |-> IF c \in failed THEN "none" ELSE peer[c]]
      /\ UNCHANGED <<impl, alive, sock, board, poll, made, conns, sent, m_rxbuf>>

\* next() and poll_read(): when the buffer is empty, both clients are read, the
\* debug bus first; then a byte goes to the line.
\* Variant: the second read starts at the front of the buffer again.
PollReadOver ==
  /\ impl = "dbluart" /\ alive /\ m_rxbuf = <<>> /\ \E c \in Chan : fd[c] /\ Readable(c)
  /\ m_rxbuf' = IF fd["con"] /\ sock["con"] # <<>> THEN sock["con"] ELSE sock["cmd"]
  /\ sock' = [c \in Chan |-> IF fd[c] THEN <<>> ELSE sock[c]]
  /\ UNCHANGED <<impl, alive, tty, fd, got, board, poll, env, m_cmdbuf, m_conbuf>>

PollRead ==
  /\ impl = "dbluart" /\ alive /\ m_rxbuf = <<>> /\ \E c \in Chan : fd[c] /\ Readable(c)
  /\ LET bytes(c) == IF fd[c] THEN sock[c] ELSE <<>>
         ended(c) == fd[c] /\ sock[c] = <<>> /\ peer[c] = "gone"
     IN  /\ m_rxbuf' = bytes("cmd") \o bytes("con")
         /\ sock' = [c \in Chan |-> IF fd[c] THEN <<>> ELSE sock[c]]
         /\ fd' = [c \in Chan |-> fd[c] /\ ~ended(c)]
         /\ peer' = [c \in Chan |-> IF ended(c) THEN "none" ELSE peer[c]]
  /\ UNCHANGED <<impl, alive, tty, got, board, poll, made, conns, sent, m_cmdbuf, m_conbuf>>

NextByte ==
  /\ impl = "dbluart" /\ alive /\ m_rxbuf # <<>>
  /\ board' = Append(board, Head(m_rxbuf)) /\ m_rxbuf' = Tail(m_rxbuf)
  /\ UNCHANGED <<impl, alive, tty, fd, sock, got, poll, env, m_cmdbuf, m_conbuf>>

\* kill(), when the simulation ends: what is still kept is sent.
Kill ==
  /\ impl = "dbluart" /\ alive /\ alive' = FALSE
  /\ got' = [c \in Chan |->
       IF Reached(c) THEN got[c] \o (IF c = "cmd" THEN m_cmdbuf ELSE m_conbuf) ELSE got[c]]
  /\ fd' = [c \in Chan |-> FALSE]
  /\ UNCHANGED <<impl, tty, sock, board, poll, env, bufs>>

BridgeNext ==
  \/ \E c \in Chan : Connect(c) \/ ClientSends(c) \/ ClientCloses(c) \/ BoardSends(c)
                       \/ ClientEvent(c) \/ PollAccept(c)
  \/ OpenTty \/ Poll \/ TtyEvent \/ Received \/ PollRead \/ NextByte \/ Kill

BridgeSpec == BridgeInit /\ [][BridgeNext]_bridgevars

-----------------------------------------------------------------------------
Consecutive(s) == \A i \in 1 .. Len(s) - 1 : s[i + 1].n = s[i].n + 1

\* What a client receives is an uninterrupted piece of what the board sends on
\* its channel: nothing of the other channel, nothing lost between two bytes,
\* nothing twice, although clients come and go on both.
ClientsInOrder == \A c \in Chan : got[c] = Of(c, got[c]) /\ Consecutive(got[c])

\* Towards the board: the bytes of each client arrive in order and complete, the
\* last of them included when the client closes its connection at once.
BoardInOrder ==
  \A c \in Chan : \A k \in 1 .. conns[c] :
    LET s == SelectSeq(board, LAMBDA b : b.ch = c /\ b.of = k)
    IN  /\ Consecutive(s) /\ (s # <<>> => s[1].n = 0)
        /\ peer[c] = "none" /\ k = conns[c] /\ Of(c, m_rxbuf) = <<>> /\ sock[c] = <<>>
             => Len(s) = sent[c]

\* Both ways.
BytesInOrder == ClientsInOrder /\ BoardInOrder

\* netuart.cpp says of a client that resets its connection "we'll just kindly
\* close the connection": the bridge goes on.
BridgeSurvives == impl = "netuart" /\ poll # {"open"} => alive
=============================================================================
