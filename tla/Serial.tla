------------------------------- MODULE Serial -------------------------------
(***************************************************************************)
(* The serial line bit by bit, in simulation: txuartlite.v sends to the    *)
(* receiver of dbluartsim.cpp ("down"), and the transmitter of             *)
(* dbluartsim.cpp, which takes its bytes from the network, to rxuartlite.v *)
(* ("up").  A step is a clock.  Bytes are sequences of NBITS bits, lowest  *)
(* first; there is one stop bit and no parity, as setup(50) asks for.      *)
(***************************************************************************)
EXTENDS Integers, Sequences

CONSTANTS NBITS,            \* bits of a byte (8)
          CLOCKS_PER_BAUD,  \* of both ends (50)
          CHGMAX            \* where chg_counter stops: 2^TIMER_BITS - 1

\* The states of both ends of the design are four bits, of which 15 is idle.  The
\* receiver sees the line three clocks late: the proof follows it from five clocks
\* a bit on (two are too few).  A baud fits in the counters.
ASSUME LineAssumption ==
  /\ NBITS \in 1 .. 13
  /\ CLOCKS_PER_BAUD \in Nat /\ CLOCKS_PER_BAUD >= 5
  /\ CHGMAX \in Nat /\ CHGMAX >= CLOCKS_PER_BAUD

VARIABLES dir, stx, srx, line,
          queue,    \* the bytes accepted for sending and not yet received
          rcvd      \* the byte received in this clock, if any

serialvars == <<dir, stx, srx, line, queue, rcvd>>

Bits == [1 .. NBITS -> {0, 1}]
None == <<>>
STOP == NBITS
IDLE == 15

-----------------------------------------------------------------------------
\* txuartlite.v.  i_wr is <<>> or the byte.
TxuartInit ==
  [state |-> IDLE, baud |-> 0, zero |-> TRUE, busy |-> TRUE, data |-> <<>>, out |-> 1]

\* Variant: a byte is taken at the end of any bit.
TxuartBusyByBit(u, take) == ~(u.zero /\ ~take)

TxuartBusy(u, take) == ~(u.zero /\ u.state > STOP /\ ~take)

Txuart(u, i_wr) ==
  LET take  == i_wr # None /\ ~u.busy
      idle  == u.state > STOP
      state == IF ~u.zero THEN u.state
               ELSE IF idle THEN IF take THEN 0 ELSE IDLE
               ELSE u.state + 1
      baud  == IF u.state = IDLE THEN IF take THEN CLOCKS_PER_BAUD - 1 ELSE 0
               ELSE IF u.zero /\ u.state = STOP + 1 THEN 0
               ELSE IF ~u.zero THEN u.baud - 1
               ELSE CLOCKS_PER_BAUD - 1
      zero  == IF u.state = IDLE THEN ~take
               ELSE IF u.zero /\ u.state = STOP + 1 THEN TRUE
               ELSE u.baud = 1
  IN  [state |-> state, baud |-> baud, zero |-> zero,
       busy |-> TxuartBusy(u, take),
       data |-> IF take THEN i_wr ELSE IF u.zero /\ u.data # <<>> THEN Tail(u.data) ELSE u.data,
       out  |-> IF take THEN 0 ELSE IF u.zero THEN IF u.data = <<>> THEN 1 ELSE Head(u.data)
                ELSE u.out]

\* rxuartlite.v.
RxuartInit ==
  [state |-> IDLE, baud |-> 0, zero |-> TRUE, q |-> 1, qq |-> 1, ck |-> 1,
   chg |-> CHGMAX, half |-> FALSE, data |-> [i \in 1 .. NBITS |-> 0]]

RxuartStarts(u) == u.state = IDLE /\ u.ck = 0 /\ u.half

Rxuart(u, i) ==
  LET start == RxuartStarts(u)
  IN  [q |-> i, qq |-> u.q, ck |-> u.qq,
       chg  |-> IF u.qq # u.ck THEN 0 ELSE IF u.chg < CHGMAX THEN u.chg + 1 ELSE u.chg,
       half |-> u.ck = 0 /\ u.chg >= CLOCKS_PER_BAUD \div 2 - 2,
       state |-> IF u.state = IDLE THEN IF start THEN 0 ELSE IDLE
                 ELSE IF u.state > STOP /\ u.ck = 1 THEN IDLE
                 ELSE IF u.zero /\ u.state <= STOP THEN u.state + 1 ELSE u.state,
       baud |-> IF start THEN CLOCKS_PER_BAUD - 1
                ELSE IF u.state = STOP + 1 THEN 0
                ELSE IF u.zero /\ u.state < STOP THEN CLOCKS_PER_BAUD - 1
                ELSE IF u.zero THEN u.baud ELSE u.baud - 1,
       zero |-> IF start THEN FALSE
                ELSE IF u.state = STOP + 1 THEN TRUE
                ELSE IF u.zero /\ u.state < STOP THEN FALSE
                ELSE u.zero \/ u.baud = 1,
       data |-> IF u.zero /\ u.state # STOP THEN Append(Tail(u.data), u.qq) ELSE u.data]

RxuartByte(u) == IF u.zero /\ u.state = STOP /\ u.ck = 1 THEN u.data ELSE None

-----------------------------------------------------------------------------
\* dbluartsim.cpp, tick(): the half that receives, and the byte it hands to
\* received().  n is the number of bits in m_rx_busy.
RxsimInit == [state |-> "RXIDLE", baud |-> 0, n |-> 0, data |-> <<>>, chg |-> 0, last |-> 1]

RxsimFirst(chg) == CLOCKS_PER_BAUD + CLOCKS_PER_BAUD \div 2 - 1 - chg

RxsimFull(u) == u.n >= NBITS + 1

Rxsim(u, i_tx) ==
  LET chg    == IF i_tx = 0 /\ u.last = 1 THEN 0
                ELSE IF u.chg < 2 * CLOCKS_PER_BAUD THEN u.chg + 1 ELSE u.chg
      starts == u.state = "RXIDLE" /\ i_tx = 0
      due    == u.state = "RXDATA" /\ u.baud <= 0
  IN  [state |-> IF starts THEN "RXDATA" ELSE IF due /\ RxsimFull(u) THEN "RXIDLE" ELSE u.state,
       baud  |-> IF starts THEN RxsimFirst(chg) ELSE IF due THEN CLOCKS_PER_BAUD - 1
                 ELSE IF u.state = "RXDATA" THEN u.baud - 1 ELSE u.baud,
       n     |-> IF starts THEN 0 ELSE IF due /\ ~RxsimFull(u) THEN u.n + 1 ELSE u.n,
       data  |-> IF starts \/ (due /\ RxsimFull(u)) THEN <<>>
                 ELSE IF due THEN Append(u.data, i_tx) ELSE u.data,
       chg   |-> chg, last |-> i_tx]

RxsimByte(u) ==
  IF u.state = "RXDATA" /\ u.baud <= 0 /\ RxsimFull(u) THEN SubSeq(u.data, 1, NBITS) ELSE None

\* The half that sends: the start bit goes out with the clock that next()
\* returns the byte.  m_tx_busy has as many bits as are left to send.
TxsimInit == [state |-> "TXIDLE", baud |-> 0, data |-> <<>>, out |-> 1]

Txsim(u, ch) ==
  LET bits == Tail(u.data)
  IN  IF u.state = "TXIDLE"
      THEN IF ch = None THEN [u EXCEPT !.out = 1]
           ELSE [state |-> "TXDATA", baud |-> CLOCKS_PER_BAUD - 1,
                 data |-> <<0>> \o ch \o <<1>>, out |-> 0]
      ELSE IF u.baud <= 0
      THEN [state |-> IF bits = <<>> THEN "TXIDLE" ELSE "TXDATA",
            baud |-> IF bits = <<>> THEN u.baud ELSE CLOCKS_PER_BAUD - 1,
            data |-> bits, out |-> IF bits = <<>> THEN 1 ELSE Head(bits)]
      ELSE [u EXCEPT !.baud = @ - 1, !.out = Head(u.data)]

-----------------------------------------------------------------------------
SerialInit ==
  /\ dir \in {"down", "up"}
  /\ stx = IF dir = "down" THEN TxuartInit ELSE TxsimInit
  /\ srx = IF dir = "down" THEN RxsimInit ELSE RxuartInit
  /\ line = 1 /\ queue = <<>> /\ rcvd = None

Ready == IF dir = "down" THEN ~stx.busy ELSE stx.state = "TXIDLE"

\* A clock, in which the sender is given the byte ch, if any.
SerialTick(ch) ==
  /\ ch # None => Ready
  /\ stx' = IF dir = "down" THEN Txuart(stx, ch) ELSE Txsim(stx, ch)
  /\ line' = stx'.out
  /\ srx' = IF dir = "down" THEN Rxsim(srx, line) ELSE Rxuart(srx, line)
  /\ rcvd' = IF dir = "down" THEN RxsimByte(srx) ELSE RxuartByte(srx)
  /\ LET left == IF rcvd' # None /\ queue # <<>> THEN Tail(queue) ELSE queue
     IN  queue' = IF ch = None THEN left ELSE Append(left, ch)
  /\ UNCHANGED dir

SerialNext == \E ch \in Bits \cup {None} : SerialTick(ch)
SerialSpec == SerialInit /\ [][SerialNext]_serialvars

-----------------------------------------------------------------------------
\* Whatever the gaps between bytes, the receiver hands on each byte that was
\* sent, once, unchanged and in order, and before the one after the next is sent.
LineExactStep ==
  /\ rcvd' # None => queue # <<>> /\ rcvd' = Head(queue)
  /\ Len(queue') <= 2

LineExact == [][LineExactStep]_serialvars
=============================================================================
