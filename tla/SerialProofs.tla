---------------------------- MODULE SerialProofs ----------------------------
(***************************************************************************)
(* The two ends of the console line agree for every width of a byte, every *)
(* bit time of at least five clocks and every moment at which a byte is    *)
(* handed over: what the receiver reports is what was sent, byte by byte.  *)
(***************************************************************************)
EXTENDS Serial, TLAPS

\* The frame of a byte b on the line: the start bit, its bits, the stop bit.
FrameBit(b, k) == IF k = 0 THEN 0 ELSE IF k <= NBITS THEN b[k] ELSE 1

HalfBaud == CLOCKS_PER_BAUD \div 2

\* The clocks of a bit that are over when c are left after this one.
Past(c) == CLOCKS_PER_BAUD - 1 - c

\* The senders: at rest, or sending bit k of the frame of b with c clocks of it to
\* come after this one.
TxuartRests(u) ==
  /\ u.state = IDLE /\ u.zero = TRUE /\ u.data = <<>> /\ u.out = 1

TxuartSends(u, b, k, c) ==
  /\ u.state = k /\ u.baud = c /\ (u.zero <=> c = 0) /\ u.busy
  /\ u.data \in Seq({0, 1}) /\ Len(u.data) = IF k <= NBITS THEN NBITS - k ELSE 0
  /\ \A i \in 1 .. Len(u.data) : u.data[i] = b[k + i]
  /\ u.out = FrameBit(b, k)

TxsimShape(u) ==
  u = [state |-> u.state, baud |-> u.baud, data |-> u.data, out |-> u.out]

TxsimRests(u) == TxsimShape(u) /\ u.state = "TXIDLE" /\ u.out = 1

TxsimSends(u, b, k, c) ==
  /\ TxsimShape(u) /\ u.state = "TXDATA" /\ u.baud = c
  /\ u.data \in Seq({0, 1}) /\ Len(u.data) = NBITS + 2 - k
  /\ \A i \in 1 .. Len(u.data) : u.data[i] = FrameBit(b, k + i - 1)
  /\ u.out = FrameBit(b, k)

Rests == IF dir = "down" THEN TxuartRests(stx) ELSE TxsimRests(stx)
Sends(b, k, c) == IF dir = "down" THEN TxuartSends(stx, b, k, c) ELSE TxsimSends(stx, b, k, c)

\* The receiver of dbluartsim.cpp: it has n bits of the frame of b after the start
\* bit, and takes the next in r clocks.
RxsimReads(u, b, n, r) ==
  /\ u.state = "RXDATA" /\ u.n = n /\ u.baud = r
  /\ u.data \in Seq({0, 1}) /\ Len(u.data) = n /\ \A i \in 1 .. n : u.data[i] = FrameBit(b, i)

RxsimRests(u) == u.state = "RXIDLE"

\* The line fell e clocks ago; the receiver saw it fall in all but the last of them.
Fell(u, e) == IF e = 0 THEN u.last = 1 ELSE u.last = 0 /\ u.chg = e - 1

\* "down": nothing is sent; a frame begins that the receiver does not follow yet;
\* it follows, half a bit behind the edges; the sender is done and the receiver has
\* the stop bit to sit out; the next frame begins before that is over.
DownWaits == queue = <<>> /\ Rests /\ RxsimRests(srx) /\ srx.last = 1

DownBegins ==
  \E b \in Bits, c \in 0 .. CLOCKS_PER_BAUD - 1 :
    /\ queue = <<b>> /\ Sends(b, 0, c) /\ Past(c) <= HalfBaud
    /\ RxsimRests(srx) /\ Fell(srx, Past(c))

DownFollows ==
  \E b \in Bits, k \in 0 .. NBITS + 1, c \in 0 .. CLOCKS_PER_BAUD - 1 :
    /\ queue = <<b>> /\ Sends(b, k, c)
    /\ \/ RxsimReads(srx, b, k, HalfBaud + 1 + c)
       \/ /\ k >= 1 /\ HalfBaud + 1 + c >= CLOCKS_PER_BAUD
          /\ RxsimReads(srx, b, k - 1, HalfBaud + 1 + c - CLOCKS_PER_BAUD)
    /\ k = NBITS + 1 /\ c < CLOCKS_PER_BAUD - 1 => srx.last = 1

DownEnds ==
  \E b \in Bits, r \in 0 .. HalfBaud :
    queue = <<b>> /\ Rests /\ RxsimReads(srx, b, NBITS + 1, r) /\ srx.last = 1

DownOverlaps ==
  \E b, d \in Bits, c \in 0 .. CLOCKS_PER_BAUD - 1, r \in 0 .. HalfBaud :
    /\ queue = <<b, d>> /\ Sends(d, 0, c) /\ RxsimReads(srx, b, NBITS + 1, r)
    /\ r + Past(c) < HalfBaud /\ Fell(srx, Past(c))

\* The line before bit k.
Was(b, k) == IF k = 0 THEN 1 ELSE FrameBit(b, k - 1)

\* rxuartlite.v: the three registers that the line goes through, when the sender is
\* at bit k with c clocks of it to come.
Flops(u, b, k, c) ==
  /\ u.q  = IF c >= CLOCKS_PER_BAUD - 1 THEN Was(b, k) ELSE FrameBit(b, k)
  /\ u.qq = IF c >= CLOCKS_PER_BAUD - 2 THEN Was(b, k) ELSE FrameBit(b, k)
  /\ u.ck = IF c >= CLOCKS_PER_BAUD - 3 THEN Was(b, k) ELSE FrameBit(b, k)

RxuartRests(u) ==
  /\ u.state = IDLE \/ u.state = NBITS + 1
  /\ u.zero = TRUE /\ u.data \in Bits

\* It has m bits of b, and looks at the line again in r clocks.
RxuartReads(u, b, m, r) ==
  /\ u.state = m /\ m \in 0 .. NBITS /\ u.baud = r /\ (u.zero <=> r = 0)
  /\ u.data \in Bits /\ \A i \in 1 .. m : u.data[NBITS - m + i] = b[i]

\* "up": nothing is sent; a frame begins, and the receiver counts its low line;
\* it follows, half a bit and three registers behind; it has the byte and the stop
\* bit is still on the line.
UpWaits ==
  /\ queue = <<>> /\ Rests /\ RxuartRests(srx)
  /\ srx.q = 1 /\ srx.qq = 1 /\ srx.ck = 1 /\ ~srx.half

UpBegins ==
  \E b \in Bits, c \in 0 .. CLOCKS_PER_BAUD - 1 :
    /\ queue = <<b>> /\ Sends(b, 0, c) /\ Past(c) <= HalfBaud + 2
    /\ RxuartRests(srx) /\ srx.state = IDLE /\ Flops(srx, b, 0, c)
    /\ (srx.half <=> Past(c) >= HalfBaud + 2)
    /\ Past(c) >= 3 => srx.chg = Past(c) - 3

UpFollows ==
  \E b \in Bits, k \in 0 .. NBITS + 1, c \in 0 .. CLOCKS_PER_BAUD - 1 :
    /\ queue = <<b>> /\ Sends(b, k, c) /\ Flops(srx, b, k, c)
    /\ \/ RxuartReads(srx, b, k, HalfBaud + 3 + c)
       \/ /\ k >= 1 /\ HalfBaud + 3 + c >= CLOCKS_PER_BAUD
          /\ RxuartReads(srx, b, k - 1, HalfBaud + 3 + c - CLOCKS_PER_BAUD)

UpEnds ==
  \E b \in Bits, c \in 0 .. CLOCKS_PER_BAUD - 1 :
    /\ queue = <<>> /\ Sends(b, NBITS + 1, c) /\ c + 4 + HalfBaud <= CLOCKS_PER_BAUD
    /\ RxuartRests(srx) /\ Flops(srx, b, NBITS + 1, c) /\ ~srx.half

DownInv == DownWaits \/ DownBegins \/ DownFollows \/ DownEnds \/ DownOverlaps
UpInv   == UpWaits \/ UpBegins \/ UpFollows \/ UpEnds

\* The inductive invariant: the two ends are in one of these phases.
SerialInv ==
  /\ dir \in {"down", "up"} /\ line = stx.out
  /\ dir = "down" => DownInv
  /\ dir = "up" => UpInv

LEMMA HalfBaudFact == HalfBaud \in Nat /\ HalfBaud >= 2 /\ 2 * HalfBaud <= CLOCKS_PER_BAUD
                      /\ CLOCKS_PER_BAUD <= 2 * HalfBaud + 1 /\ HalfBaud + 3 <= CLOCKS_PER_BAUD
BY LineAssumption DEF HalfBaud

LEMMA BitsSeq == \A b \in Bits : b \in Seq({0, 1}) /\ Len(b) = NBITS /\ b # None
BY LineAssumption DEF Bits, None

\* The clocks of txuartlite.v: it takes a byte, rests, counts, goes on to the next
\* bit, and ends.
LEMMA TxuartTakes ==
  ASSUME NEW u, TxuartRests(u), ~u.busy, NEW ch \in Bits
  PROVE  TxuartSends(Txuart(u, ch), ch, 0, CLOCKS_PER_BAUD - 1)
  <1> DEFINE v == Txuart(u, ch)
  <1>1. ch # None
    BY BitsSeq
  <1>2. v.state = 0
    BY <1>1, LineAssumption DEF TxuartRests, Txuart, STOP, IDLE
  <1>3. v.baud = CLOCKS_PER_BAUD - 1
    BY <1>1, LineAssumption DEF TxuartRests, Txuart, STOP, IDLE
  <1>4. v.zero = FALSE
    BY <1>1, LineAssumption DEF TxuartRests, Txuart, STOP, IDLE
  <1>5. v.busy
    BY <1>1, LineAssumption DEF TxuartRests, Txuart, STOP, IDLE, TxuartBusy
  <1>6. v.data = ch
    BY <1>1, LineAssumption DEF TxuartRests, Txuart, STOP, IDLE
  <1>7. v.out = 0
    BY <1>1, LineAssumption DEF TxuartRests, Txuart, STOP, IDLE
  <1> HIDE DEF v
  <1>8. v.zero <=> CLOCKS_PER_BAUD - 1 = 0
    BY <1>4, LineAssumption
  <1> QED
    BY <1>2, <1>3, <1>5, <1>6, <1>7, <1>8, BitsSeq, LineAssumption DEF TxuartSends, FrameBit, v

LEMMA TxuartStays ==
  ASSUME NEW u, TxuartRests(u)
  PROVE  TxuartRests(Txuart(u, None))
  <1> DEFINE v == Txuart(u, None)
  <1>2. v.state = IDLE
    BY LineAssumption DEF TxuartRests, Txuart, STOP, IDLE
  <1>4. v.zero = TRUE
    BY LineAssumption DEF TxuartRests, Txuart, STOP, IDLE
  <1>6. v.data = <<>>
    BY LineAssumption DEF TxuartRests, Txuart, STOP, IDLE
  <1>7. v.out = 1
    BY LineAssumption DEF TxuartRests, Txuart, STOP, IDLE
  <1> QED
    BY <1>2, <1>4, <1>6, <1>7 DEF TxuartRests

LEMMA TxuartCounts ==
  ASSUME NEW u, NEW b \in Bits, NEW k \in 0 .. NBITS + 1, NEW c \in 1 .. CLOCKS_PER_BAUD - 1,
         TxuartSends(u, b, k, c)
  PROVE  TxuartSends(Txuart(u, None), b, k, c - 1)
  <1> DEFINE v == Txuart(u, None)
  <1>2. v.state = k
    BY LineAssumption DEF TxuartSends, Txuart, STOP, IDLE, None
  <1>3. v.baud = c - 1
    BY LineAssumption DEF TxuartSends, Txuart, STOP, IDLE, None
  <1>4. v.zero <=> c - 1 = 0
    <2>1. u.state # IDLE /\ ~u.zero /\ (u.baud = 1 <=> c - 1 = 0)
      BY LineAssumption DEF TxuartSends, IDLE
    <2>2. v.zero = (u.baud = 1)
      BY <2>1, Zenon DEF Txuart
    <2> QED
      BY <2>1, <2>2, Zenon
  <1>5. v.busy
    <2>1. ~(u.zero /\ u.state > STOP)
      BY LineAssumption DEF TxuartSends, STOP
    <2> QED
      BY <2>1, Zenon DEF Txuart, TxuartBusy
  <1>6. v.data = u.data
    BY LineAssumption DEF TxuartSends, Txuart, STOP, IDLE, None
  <1>7. v.out = u.out
    BY LineAssumption DEF TxuartSends, Txuart, STOP, IDLE, FrameBit, None
  <1> HIDE DEF v
  <1> QED
    BY <1>2, <1>3, <1>4, <1>5, <1>6, <1>7 DEF TxuartSends, v

LEMMA TxuartMoves ==
  ASSUME NEW u, NEW b \in Bits, NEW k \in 0 .. NBITS, TxuartSends(u, b, k, 0)
  PROVE  TxuartSends(Txuart(u, None), b, k + 1, CLOCKS_PER_BAUD - 1)
  <1> DEFINE v == Txuart(u, None)
  <1>2. v.state = k + 1
    BY LineAssumption DEF TxuartSends, Txuart, STOP, IDLE, None
  <1>3. v.baud = CLOCKS_PER_BAUD - 1
    BY LineAssumption DEF TxuartSends, Txuart, STOP, IDLE, None
  <1>4. v.zero <=> CLOCKS_PER_BAUD - 1 = 0
    <2>1. u.state # IDLE /\ u.state # STOP + 1 /\ u.baud # 1 /\ CLOCKS_PER_BAUD - 1 # 0
      BY LineAssumption DEF TxuartSends, IDLE, STOP
    <2>2. v.zero = (u.baud = 1)
      BY <2>1, Zenon DEF Txuart
    <2> QED
      BY <2>1, <2>2, Zenon
  <1>5. v.busy
    <2>1. ~(u.zero /\ u.state > STOP)
      BY LineAssumption DEF TxuartSends, STOP
    <2> QED
      BY <2>1, Zenon DEF Txuart, TxuartBusy
  <1>6. v.data = IF k = NBITS THEN <<>> ELSE Tail(u.data)
    BY LineAssumption DEF TxuartSends, Txuart, STOP, IDLE, None
  <1>7. v.out = FrameBit(b, k + 1)
    BY LineAssumption DEF TxuartSends, Txuart, STOP, IDLE, FrameBit, None
  <1> HIDE DEF v
  <1>8. /\ v.data \in Seq({0, 1}) /\ Len(v.data) = IF k + 1 <= NBITS THEN NBITS - (k + 1) ELSE 0
        /\ \A i \in 1 .. Len(v.data) : v.data[i] = b[(k + 1) + i]
    BY <1>6, LineAssumption DEF TxuartSends
  <1> QED
    BY <1>2, <1>3, <1>4, <1>5, <1>8, <1>7 DEF TxuartSends, v

LEMMA TxuartEnds ==
  ASSUME NEW u, NEW b \in Bits, TxuartSends(u, b, NBITS + 1, 0)
  PROVE  TxuartRests(Txuart(u, None))
  <1> DEFINE v == Txuart(u, None)
  <1>2. v.state = IDLE
    BY LineAssumption DEF TxuartSends, Txuart, STOP, IDLE, None
  <1>3. v.zero = TRUE
    BY LineAssumption DEF TxuartSends, Txuart, STOP, IDLE, None
  <1>4. v.data = <<>>
    BY LineAssumption DEF TxuartSends, Txuart, STOP, IDLE, None
  <1>5. v.out = 1
    BY LineAssumption DEF TxuartSends, Txuart, STOP, IDLE, FrameBit, None
  <1> QED
    BY <1>2, <1>3, <1>4, <1>5 DEF TxuartRests

\* The same five of dbluartsim.cpp's sender.
LEMMA TxsimTakes ==
  ASSUME NEW u, TxsimRests(u), NEW ch \in Bits
  PROVE  TxsimSends(Txsim(u, ch), ch, 0, CLOCKS_PER_BAUD - 1)
  <1> DEFINE v == Txsim(u, ch)
  <1>1. ch # None /\ ch \in Seq({0, 1}) /\ Len(ch) = NBITS
    BY BitsSeq
  <1>2. v = [state |-> "TXDATA", baud |-> CLOCKS_PER_BAUD - 1, data |-> <<0>> \o ch \o <<1>>,
             out |-> 0]
    BY <1>1 DEF TxsimRests, Txsim
  <1> DEFINE s == <<0>> \o ch \o <<1>>
  <1>3. s \in Seq({0, 1}) /\ Len(s) = NBITS + 2
    BY <1>1, LineAssumption
  <1>4. \A i \in 1 .. NBITS + 2 : s[i] = FrameBit(ch, i - 1)
    BY <1>1, LineAssumption DEF FrameBit
  <1> HIDE DEF s
  <1>5. /\ TxsimShape(v) /\ v.state = "TXDATA" /\ v.baud = CLOCKS_PER_BAUD - 1
        /\ v.data = s /\ v.out = 0
    BY <1>2 DEF TxsimShape, s
  <1> QED
    BY <1>3, <1>4, <1>5, LineAssumption DEF TxsimSends, FrameBit

LEMMA TxsimStays ==
  ASSUME NEW u, TxsimRests(u)
  PROVE  TxsimRests(Txsim(u, None))
BY DEF TxsimRests, Txsim, None, TxsimShape

LEMMA TxsimCounts ==
  ASSUME NEW u, NEW b \in Bits, NEW k \in 0 .. NBITS + 1, NEW c \in 1 .. CLOCKS_PER_BAUD - 1,
         TxsimSends(u, b, k, c)
  PROVE  TxsimSends(Txsim(u, None), b, k, c - 1)
  <1> DEFINE v == Txsim(u, None)
  <1>1. Head(u.data) = FrameBit(b, k)
    BY LineAssumption DEF TxsimSends, FrameBit, Bits
  <1>2. v = [u EXCEPT !.baud = u.baud - 1, !.out = Head(u.data)]
    BY LineAssumption DEF TxsimSends, Txsim
  <1>3. v = [state |-> "TXDATA", baud |-> c - 1, data |-> u.data, out |-> FrameBit(b, k)]
    BY <1>1, <1>2 DEF TxsimSends, TxsimShape
  <1> QED
    BY <1>3 DEF TxsimSends, TxsimShape

LEMMA Tails ==
  ASSUME NEW s \in Seq({0, 1}), s # <<>>
  PROVE  /\ Tail(s) \in Seq({0, 1}) /\ Len(Tail(s)) = Len(s) - 1
         /\ \A i \in 1 .. Len(s) - 1 : Tail(s)[i] = s[i + 1]
OBVIOUS

LEMMA Ends ==
  ASSUME NEW s \in Seq({0, 1})
  PROVE  (Len(s) = 0 <=> s = <<>>) /\ (s # <<>> => Head(s) = s[1])
OBVIOUS

LEMMA TxsimMoves ==
  ASSUME NEW u, NEW b \in Bits, NEW k \in 0 .. NBITS, TxsimSends(u, b, k, 0)
  PROVE  TxsimSends(Txsim(u, None), b, k + 1, CLOCKS_PER_BAUD - 1)
  <1> DEFINE v == Txsim(u, None)
             s == Tail(u.data)
  <1>0. u.data # <<>>
    <2>1. u.data \in Seq({0, 1}) /\ Len(u.data) # 0
      BY LineAssumption DEF TxsimSends
    <2> QED
      BY <2>1, Ends, Zenon
  <1>1. /\ s \in Seq({0, 1}) /\ Len(s) = NBITS + 2 - (k + 1)
        /\ \A i \in 1 .. Len(s) : s[i] = FrameBit(b, (k + 1) + i - 1)
    <2>1. Len(s) = NBITS + 2 - (k + 1)
      BY <1>0, Tails, LineAssumption DEF TxsimSends
    <2>2. ASSUME NEW i \in 1 .. Len(s) PROVE s[i] = FrameBit(b, (k + 1) + i - 1)
      <3>1. s[i] = u.data[i + 1] /\ i + 1 \in 1 .. Len(u.data)
        BY <1>0, <2>1, Tails, LineAssumption DEF TxsimSends
      <3>2. (k + 1) + i - 1 = k + (i + 1) - 1
        BY <2>1, LineAssumption
      <3> QED
        BY <3>1, <3>2 DEF TxsimSends
    <2> QED
      BY <1>0, <2>1, <2>2, Tails DEF TxsimSends
  <1>2. Head(s) = FrameBit(b, k + 1) /\ s # <<>>
    <2> HIDE DEF s
    <2>1. Len(s) # 0 /\ 1 \in 1 .. Len(s)
      BY <1>1, LineAssumption
    <2>2. (k + 1) + 1 - 1 = k + 1
      OBVIOUS
    <2>3. s[1] = FrameBit(b, k + 1)
      BY <1>1, <2>1, <2>2
    <2> QED
      BY <1>1, <2>1, <2>3, Ends
  <1>3. v = [state |-> "TXDATA", baud |-> CLOCKS_PER_BAUD - 1, data |-> s,
             out |-> FrameBit(b, k + 1)]
    <2>1. u.state # "TXIDLE" /\ u.baud <= 0
      BY DEF TxsimSends
    <2> QED
      BY <1>2, <2>1, Zenon DEF Txsim
  <1> HIDE DEF s, v
  <1> QED
    BY <1>1, <1>3 DEF TxsimSends, TxsimShape, v

LEMMA TxsimEnds ==
  ASSUME NEW u, NEW b \in Bits, TxsimSends(u, b, NBITS + 1, 0)
  PROVE  TxsimRests(Txsim(u, None))
  <1>1. Len(u.data) = 1 /\ u.data \in Seq({0, 1})
    BY LineAssumption DEF TxsimSends
  <1>2. Tail(u.data) = <<>> /\ u.state # "TXIDLE" /\ u.baud <= 0
    <2>1. Tail(u.data) \in Seq({0, 1}) /\ Len(Tail(u.data)) = 0
      <3>0. u.data \in Seq({0, 1}) /\ Len(u.data) # 0
        BY <1>1
      <3>1. u.data # <<>>
        BY <3>0, Ends, Zenon
      <3> QED
        BY <1>1, <3>1, Tails
    <2> QED
      BY <2>1, Ends DEF TxsimSends
  <1>3. Txsim(u, None) = [state |-> "TXIDLE", baud |-> u.baud, data |-> <<>>, out |-> 1]
    BY <1>2, Zenon DEF Txsim
  <1> QED
    BY <1>3 DEF TxsimRests, TxsimShape

\* The clocks of dbluartsim.cpp's receiver.
LEMMA RxsimQuiet ==
  ASSUME NEW u, RxsimRests(u)
  PROVE  RxsimRests(Rxsim(u, 1)) /\ Rxsim(u, 1).last = 1 /\ RxsimByte(u) = None
BY DEF RxsimRests, Rxsim, RxsimByte

\* What every clock does with the counter since the line fell.
LEMMA RxsimFell ==
  ASSUME NEW u, NEW e \in 0 .. CLOCKS_PER_BAUD, Fell(u, e)
  PROVE  Fell(Rxsim(u, 0), e + 1)
BY LineAssumption DEF Fell, Rxsim

LEMMA RxsimStarts ==
  ASSUME NEW u, RxsimRests(u), NEW b \in Bits, NEW e \in 0 .. HalfBaud, Fell(u, e)
  PROVE  /\ RxsimReads(Rxsim(u, 0), b, 0, CLOCKS_PER_BAUD + HalfBaud - 1 - e)
         /\ RxsimByte(u) = None
  <1> DEFINE v == Rxsim(u, 0)
  <1>1. Fell(v, e + 1)
    BY HalfBaudFact, LineAssumption, RxsimFell
  <1>2. v.state = "RXDATA" /\ v.n = 0 /\ v.data = <<>>
    BY DEF RxsimRests, Rxsim
  <1>3. v.baud = RxsimFirst(v.chg)
    BY DEF RxsimRests, Rxsim
  <1> HIDE DEF v
  <1>4. v.baud = CLOCKS_PER_BAUD + HalfBaud - 1 - e
    BY <1>1, <1>3, HalfBaudFact, LineAssumption DEF Fell, RxsimFirst, HalfBaud
  <1>5. RxsimByte(u) = None
    BY DEF RxsimRests, RxsimByte
  <1>6. v.data \in Seq({0, 1}) /\ Len(v.data) = 0 /\ \A i \in 1 .. 0 : v.data[i] = FrameBit(b, i)
    BY <1>2
  <1> QED
    BY <1>2, <1>4, <1>5, <1>6 DEF RxsimReads, v

LEMMA RxsimCounts ==
  ASSUME NEW u, NEW b \in Bits, NEW n \in 0 .. NBITS + 1, NEW r \in Nat, r >= 1,
         RxsimReads(u, b, n, r), NEW i \in {0, 1}
  PROVE  RxsimReads(Rxsim(u, i), b, n, r - 1) /\ RxsimByte(u) = None
  <1> DEFINE v == Rxsim(u, i)
  <1>1. v.state = "RXDATA" /\ v.n = n /\ v.baud = r - 1 /\ v.data = u.data
    <2>1. /\ u.state = "RXDATA" /\ u.state # "RXIDLE" /\ ~(u.baud <= 0)
          /\ u.n = n /\ u.baud = r
      BY DEF RxsimReads
    <2> QED
      BY <2>1, Zenon DEF Rxsim
  <1>2. RxsimByte(u) = None
    BY DEF RxsimReads, RxsimByte
  <1> HIDE DEF v
  <1> QED
    BY <1>1, <1>2 DEF RxsimReads, v

LEMMA RxsimSamples ==
  ASSUME NEW u, NEW b \in Bits, NEW n \in 0 .. NBITS, RxsimReads(u, b, n, 0)
  PROVE  /\ RxsimReads(Rxsim(u, FrameBit(b, n + 1)), b, n + 1, CLOCKS_PER_BAUD - 1)
         /\ RxsimByte(u) = None
  <1> DEFINE i == FrameBit(b, n + 1)
             v == Rxsim(u, i)
  <1>1. /\ v.state = "RXDATA" /\ v.n = n + 1 /\ v.baud = CLOCKS_PER_BAUD - 1
        /\ v.data = Append(u.data, i)
    <2> HIDE DEF i
    <2>1. /\ u.state = "RXDATA" /\ u.state # "RXIDLE" /\ u.baud <= 0
          /\ u.n = n /\ ~RxsimFull(u)
      BY LineAssumption DEF RxsimReads, RxsimFull
    <2> QED
      BY <2>1, Zenon DEF Rxsim
  <1>2. RxsimByte(u) = None
    BY LineAssumption DEF RxsimReads, RxsimByte, RxsimFull
  <1>3. i \in {0, 1}
    BY DEF FrameBit, Bits
  <1> HIDE DEF i, v
  <1>4. v.data \in Seq({0, 1}) /\ Len(v.data) = n + 1
    BY <1>1, <1>3 DEF RxsimReads
  <1>5. ASSUME NEW j \in 1 .. n + 1 PROVE v.data[j] = FrameBit(b, j)
    BY <1>1, <1>3 DEF RxsimReads, i
  <1> QED
    BY <1>1, <1>2, <1>4, <1>5 DEF RxsimReads, v, i

LEMMA RxsimHands ==
  ASSUME NEW u, NEW b \in Bits, RxsimReads(u, b, NBITS + 1, 0), NEW i \in {0, 1}
  PROVE  RxsimRests(Rxsim(u, i)) /\ RxsimByte(u) = b
  <1>1. RxsimRests(Rxsim(u, i))
    BY LineAssumption DEF RxsimReads, Rxsim, RxsimFull, RxsimRests
  <1>2. RxsimByte(u) = SubSeq(u.data, 1, NBITS)
    BY LineAssumption DEF RxsimReads, RxsimByte, RxsimFull
  <1>3. /\ SubSeq(u.data, 1, NBITS) \in Seq({0, 1}) /\ Len(SubSeq(u.data, 1, NBITS)) = NBITS
        /\ \A j \in 1 .. NBITS : SubSeq(u.data, 1, NBITS)[j] = u.data[j]
    BY LineAssumption DEF RxsimReads
  <1>4. ASSUME NEW j \in 1 .. NBITS PROVE u.data[j] = b[j]
    <2>1. j \in 1 .. NBITS + 1 /\ FrameBit(b, j) = b[j]
      BY LineAssumption DEF FrameBit
    <2> QED
      BY <2>1 DEF RxsimReads
  <1>5. SubSeq(u.data, 1, NBITS) = b
    BY <1>3, <1>4 DEF Bits
  <1> QED
    BY <1>1, <1>2, <1>5

\* The three registers follow the line.
LEMMA FlopsCount ==
  ASSUME NEW u, NEW b \in Bits, NEW k \in 0 .. NBITS + 1, NEW c \in 1 .. CLOCKS_PER_BAUD - 1,
         Flops(u, b, k, c)
  PROVE  Flops(Rxuart(u, FrameBit(b, k)), b, k, c - 1)
  <1> DEFINE v == Rxuart(u, FrameBit(b, k))
  <1>1. v.q = FrameBit(b, k) /\ v.qq = u.q /\ v.ck = u.qq
    BY DEF Rxuart
  <1> HIDE DEF v
  <1> QED
    BY <1>1, LineAssumption DEF Flops, v

LEMMA FlopsMove ==
  ASSUME NEW u, NEW b \in Bits, NEW k \in 0 .. NBITS, Flops(u, b, k, 0)
  PROVE  Flops(Rxuart(u, FrameBit(b, k)), b, k + 1, CLOCKS_PER_BAUD - 1)
  <1> DEFINE v == Rxuart(u, FrameBit(b, k))
  <1>1. v.q = FrameBit(b, k) /\ v.qq = u.q /\ v.ck = u.qq
    BY DEF Rxuart
  <1>2. u.q = FrameBit(b, k) /\ u.qq = FrameBit(b, k)
    BY LineAssumption DEF Flops
  <1>3. Was(b, k + 1) = FrameBit(b, k)
    BY DEF Was
  <1> HIDE DEF v
  <1> QED
    BY <1>1, <1>2, <1>3, LineAssumption DEF Flops, v

LEMMA FlopsEnd ==
  ASSUME NEW u, NEW b \in Bits, Flops(u, b, NBITS + 1, 0)
  PROVE  LET v == Rxuart(u, FrameBit(b, NBITS + 1)) IN v.q = 1 /\ v.qq = 1 /\ v.ck = 1
  <1>1. FrameBit(b, NBITS + 1) = 1
    BY LineAssumption DEF FrameBit
  <1>2. u.q = 1 /\ u.qq = 1
    BY <1>1, LineAssumption DEF Flops
  <1> QED
    BY <1>1, <1>2 DEF Rxuart

LEMMA SameBits ==
  ASSUME NEW a \in Bits, NEW b \in Bits, \A j \in 1 .. NBITS : a[j] = b[j]
  PROVE  a = b
  <1>1. a = [j \in 1 .. NBITS |-> a[j]] /\ b = [j \in 1 .. NBITS |-> b[j]]
    BY DEF Bits
  <1>2. [j \in 1 .. NBITS |-> a[j]] = [j \in 1 .. NBITS |-> b[j]]
    OBVIOUS
  <1> QED
    BY <1>1, <1>2, Zenon

\* The shift register of rxuartlite.v.
LEMMA ShiftIn ==
  ASSUME NEW d \in Bits, NEW x \in {0, 1}
  PROVE  /\ Append(Tail(d), x) \in Bits /\ Append(Tail(d), x)[NBITS] = x
         /\ \A j \in 1 .. NBITS - 1 : Append(Tail(d), x)[j] = d[j + 1]
  <1>1. d \in Seq({0, 1}) /\ Len(d) = NBITS /\ NBITS \in Nat /\ NBITS >= 1
    BY BitsSeq, LineAssumption
  <1>2. /\ Tail(d) \in Seq({0, 1}) /\ Len(Tail(d)) = NBITS - 1
        /\ \A j \in 1 .. NBITS - 1 : Tail(d)[j] = d[j + 1]
    BY <1>1
  <1> DEFINE t == Tail(d)
             s == Append(t, x)
  <1> HIDE DEF t
  <1>3. s \in Seq({0, 1}) /\ Len(s) = NBITS /\ s[NBITS] = x /\ \A j \in 1 .. NBITS - 1 : s[j] = t[j]
    BY <1>1, <1>2 DEF t
  <1> HIDE DEF s
  <1>4. s \in Bits
    BY <1>3 DEF Bits
  <1> QED
    BY <1>2, <1>3, <1>4 DEF s, t

\* At rest, with the line high where it is looked at.
LEMMA RxuartQuiet ==
  ASSUME NEW u, RxuartRests(u), u.ck = 1, u.qq \in {0, 1}, NEW i \in {0, 1}
  PROVE  /\ RxuartRests(Rxuart(u, i)) /\ Rxuart(u, i).state = IDLE /\ ~Rxuart(u, i).half
         /\ RxuartByte(u) = None
  <1> DEFINE v == Rxuart(u, i)
  <1>1. ~RxuartStarts(u) /\ u.state # STOP /\ ~(u.state < STOP)
    BY LineAssumption DEF RxuartStarts, RxuartRests, STOP, IDLE
  <1>2. v.state = IDLE
    BY <1>1, LineAssumption DEF RxuartRests, Rxuart, STOP, IDLE
  <1>3. v.zero = TRUE
    BY <1>1, Zenon DEF RxuartRests, Rxuart
  <1>4. v.data = Append(Tail(u.data), u.qq)
    BY <1>1 DEF RxuartRests, Rxuart
  <1>5. v.data \in Bits
    BY <1>4, ShiftIn DEF RxuartRests
  <1>6. ~v.half
    <2>1. u.ck # 0
      OBVIOUS
    <2> QED
      BY <2>1, Zenon DEF Rxuart
  <1>7. RxuartByte(u) = None
    BY <1>1 DEF RxuartByte
  <1> QED
    BY <1>2, <1>3, <1>5, <1>6, <1>7 DEF RxuartRests

\* At rest, with the line low where it is looked at and not yet for half a bit.
LEMMA RxuartHolds ==
  ASSUME NEW u, RxuartRests(u), u.state = IDLE, ~u.half, u.qq \in {0, 1}, NEW i \in {0, 1}
  PROVE  RxuartRests(Rxuart(u, i)) /\ Rxuart(u, i).state = IDLE /\ RxuartByte(u) = None
  <1> DEFINE v == Rxuart(u, i)
  <1>1. ~RxuartStarts(u) /\ u.state # STOP /\ ~(u.state < STOP) /\ u.state # STOP + 1
    BY LineAssumption DEF RxuartStarts, RxuartRests, STOP, IDLE
  <1>2. v.state = IDLE
    BY <1>1, LineAssumption DEF RxuartRests, Rxuart, STOP, IDLE
  <1>3. v.zero = TRUE
    BY <1>1, Zenon DEF RxuartRests, Rxuart
  <1>4. v.data = Append(Tail(u.data), u.qq)
    BY <1>1 DEF RxuartRests, Rxuart
  <1>5. v.data \in Bits
    BY <1>4, ShiftIn DEF RxuartRests
  <1>7. RxuartByte(u) = None
    BY <1>1 DEF RxuartByte
  <1> QED
    BY <1>2, <1>3, <1>5, <1>7 DEF RxuartRests

\* It starts, counts, takes a bit, and hands the byte on.
LEMMA RxuartBegins ==
  ASSUME NEW u, RxuartRests(u), u.state = IDLE, u.half, u.ck = 0, u.qq \in {0, 1}, NEW i \in {0, 1},
         NEW b \in Bits
  PROVE  RxuartReads(Rxuart(u, i), b, 0, CLOCKS_PER_BAUD - 1) /\ RxuartByte(u) = None
  <1> DEFINE v == Rxuart(u, i)
  <1>1. RxuartStarts(u) /\ u.state # STOP
    BY LineAssumption DEF RxuartStarts, STOP, IDLE
  <1>2. v.state = 0
    BY <1>1 DEF Rxuart
  <1>3. v.zero = FALSE
    BY <1>1, Zenon DEF Rxuart
  <1>4. v.baud = CLOCKS_PER_BAUD - 1
    BY <1>1, Zenon DEF Rxuart
  <1>5. v.data = Append(Tail(u.data), u.qq)
    BY <1>1 DEF RxuartRests, Rxuart
  <1>6. v.data \in Bits
    BY <1>5, ShiftIn DEF RxuartRests
  <1>7. RxuartByte(u) = None
    BY <1>1 DEF RxuartByte
  <1> HIDE DEF v
  <1>8. v.zero <=> CLOCKS_PER_BAUD - 1 = 0
    BY <1>3, LineAssumption
  <1> QED
    BY <1>2, <1>4, <1>6, <1>7, <1>8, LineAssumption DEF RxuartReads, v

LEMMA RxuartCounts ==
  ASSUME NEW u, NEW b \in Bits, NEW m \in 0 .. NBITS, NEW r \in Nat, r >= 1,
         RxuartReads(u, b, m, r), NEW i \in {0, 1}
  PROVE  RxuartReads(Rxuart(u, i), b, m, r - 1) /\ RxuartByte(u) = None
  <1> DEFINE v == Rxuart(u, i)
  <1>1. /\ u.state # IDLE /\ ~(u.state > STOP) /\ ~u.zero /\ u.state # STOP + 1
        /\ (u.baud = 1 <=> r - 1 = 0) /\ u.state = m /\ u.baud = r
    BY LineAssumption DEF RxuartReads, IDLE, STOP
  <1>2. ~RxuartStarts(u)
    BY <1>1 DEF RxuartStarts
  <1>3. v.state = m
    BY <1>1, Zenon DEF Rxuart
  <1>4. v.baud = r - 1
    BY <1>1, <1>2, Zenon DEF Rxuart
  <1>5. v.zero = (u.zero \/ u.baud = 1)
    BY <1>1, <1>2, Zenon DEF Rxuart
  <1>6. v.zero <=> r - 1 = 0
    BY <1>1, <1>5, Zenon
  <1>7. v.data = u.data
    BY <1>1, Zenon DEF Rxuart
  <1>8. RxuartByte(u) = None
    BY <1>1, Zenon DEF RxuartByte
  <1> HIDE DEF v
  <1> QED
    BY <1>3, <1>4, <1>6, <1>7, <1>8 DEF RxuartReads, v

LEMMA RxuartSamples ==
  ASSUME NEW u, NEW b \in Bits, NEW m \in 0 .. NBITS - 1, RxuartReads(u, b, m, 0), u.qq = b[m + 1],
         NEW i \in {0, 1}
  PROVE  RxuartReads(Rxuart(u, i), b, m + 1, CLOCKS_PER_BAUD - 1) /\ RxuartByte(u) = None
  <1> DEFINE v == Rxuart(u, i)
  <1>1. /\ u.state # IDLE /\ ~(u.state > STOP) /\ u.zero /\ u.state # STOP + 1 /\ u.state < STOP
        /\ u.state # STOP /\ u.state <= STOP /\ u.state = m
    BY LineAssumption DEF RxuartReads, IDLE, STOP
  <1>2. ~RxuartStarts(u)
    BY <1>1 DEF RxuartStarts
  <1>3. v.state = m + 1
    BY <1>1, Zenon DEF Rxuart
  <1>4. v.baud = CLOCKS_PER_BAUD - 1
    BY <1>1, <1>2, Zenon DEF Rxuart
  <1>5. v.zero = FALSE
    BY <1>1, <1>2, Zenon DEF Rxuart
  <1>6. v.data = Append(Tail(u.data), u.qq)
    BY <1>1, Zenon DEF Rxuart
  <1>7. RxuartByte(u) = None
    BY <1>1, Zenon DEF RxuartByte
  <1> HIDE DEF v
  <1>8. v.zero <=> CLOCKS_PER_BAUD - 1 = 0
    BY <1>5, LineAssumption
  <1>9. u.data \in Bits /\ u.qq \in {0, 1}
    BY LineAssumption DEF RxuartReads, Bits
  <1>10. /\ v.data \in Bits /\ v.data[NBITS] = b[m + 1]
         /\ \A j \in 1 .. NBITS - 1 : v.data[j] = u.data[j + 1]
    <2>1. /\ Append(Tail(u.data), u.qq) \in Bits /\ Append(Tail(u.data), u.qq)[NBITS] = u.qq
          /\ \A j \in 1 .. NBITS - 1 : Append(Tail(u.data), u.qq)[j] = u.data[j + 1]
      BY <1>9, ShiftIn, Zenon
    <2> QED
      BY <1>6, <2>1, Zenon
  <1>11. ASSUME NEW j \in 1 .. m + 1 PROVE v.data[NBITS - (m + 1) + j] = b[j]
    <2>1. CASE j = m + 1
      <3>1. NBITS - (m + 1) + j = NBITS
        BY <2>1, LineAssumption
      <3> QED
        BY <2>1, <3>1, <1>10
    <2>2. CASE j # m + 1
      <3>1. /\ j \in 1 .. m /\ NBITS - (m + 1) + j \in 1 .. NBITS - 1
            /\ (NBITS - (m + 1) + j) + 1 = NBITS - m + j
        BY <2>2, LineAssumption
      <3>2. v.data[NBITS - (m + 1) + j] = u.data[(NBITS - (m + 1) + j) + 1]
        BY <3>1, <1>10
      <3> QED
        BY <3>1, <3>2 DEF RxuartReads
    <2> QED
      BY <2>1, <2>2
  <1> QED
    BY <1>3, <1>4, <1>7, <1>8, <1>10, <1>11, LineAssumption DEF RxuartReads, v

LEMMA RxuartHands ==
  ASSUME NEW u, NEW b \in Bits, RxuartReads(u, b, NBITS, 0), u.ck = 1, NEW i \in {0, 1}
  PROVE  RxuartRests(Rxuart(u, i)) /\ ~Rxuart(u, i).half /\ RxuartByte(u) = b
  <1> DEFINE v == Rxuart(u, i)
  <1>1. /\ u.state # IDLE /\ ~(u.state > STOP) /\ u.zero /\ u.state # STOP + 1 /\ ~(u.state < STOP)
        /\ u.state = STOP /\ u.state <= STOP /\ u.data \in Bits
    BY LineAssumption DEF RxuartReads, IDLE, STOP
  <1>2. ~RxuartStarts(u)
    BY <1>1 DEF RxuartStarts
  <1>3. v.state = NBITS + 1
    BY <1>1, Zenon DEF Rxuart, STOP
  <1>4. v.zero = (u.zero \/ u.baud = 1)
    BY <1>1, <1>2, Zenon DEF Rxuart
  <1>5. v.zero = TRUE
    BY <1>1, <1>4, Zenon
  <1>6. v.data = u.data
    BY <1>1, Zenon DEF Rxuart
  <1>7. ~v.half
    <2>1. u.ck # 0
      OBVIOUS
    <2> QED
      BY <2>1, Zenon DEF Rxuart
  <1>8. RxuartByte(u) = u.data
    BY <1>1, Zenon DEF RxuartByte
  <1>9. \A j \in 1 .. NBITS : u.data[j] = b[j]
    BY LineAssumption DEF RxuartReads
  <1>10. u.data = b
    BY <1>1, <1>9, SameBits
  <1> QED
    BY <1>1, <1>3, <1>5, <1>6, <1>7, <1>8, <1>10 DEF RxuartRests

\* The line carries what the sender is at.
LEMMA LineLevel ==
  ASSUME line = stx.out
  PROVE  /\ Rests => line = 1
         /\ \A b, k, c : Sends(b, k, c) => line = FrameBit(b, k)
BY Zenon DEF Rests, Sends, TxuartRests, TxsimRests, TxuartSends, TxsimSends

\* A clock of the sender, of either kind.
LEMMA SenderRests ==
  ASSUME dir \in {"down", "up"}, NEW ch \in Bits \cup {None}, SerialTick(ch), Rests
  PROVE  /\ ch = None => Rests'
         /\ ch # None => ch \in Bits /\ Sends(ch, 0, CLOCKS_PER_BAUD - 1)'
  <1>0. dir' = dir
    BY DEF SerialTick
  <1>1. CASE dir = "down" /\ ch = None
    <2>1. stx' = Txuart(stx, None) /\ TxuartRests(stx)
      BY <1>1 DEF SerialTick, Rests
    <2>2. TxuartRests(stx')
      BY <2>1, TxuartStays
    <2> QED
      BY <1>0, <1>1, <2>2, Zenon DEF Rests
  <1>2. CASE dir = "down" /\ ch # None
    <2>1. stx' = Txuart(stx, ch) /\ TxuartRests(stx) /\ ~stx.busy /\ ch \in Bits
      BY <1>2 DEF SerialTick, Rests, Ready
    <2>2. TxuartSends(stx', ch, 0, CLOCKS_PER_BAUD - 1)
      BY <2>1, TxuartTakes
    <2> QED
      BY <1>0, <1>2, <2>1, <2>2, Zenon DEF Sends
  <1>3. CASE dir = "up" /\ ch = None
    <2>1. stx' = Txsim(stx, None) /\ TxsimRests(stx)
      BY <1>3 DEF SerialTick, Rests
    <2>2. TxsimRests(stx')
      BY <2>1, TxsimStays
    <2>3. dir' # "down"
      BY <1>0, <1>3
    <2> QED
      BY <1>3, <2>2, <2>3, Zenon DEF Rests
  <1>4. CASE dir = "up" /\ ch # None
    <2>1. stx' = Txsim(stx, ch) /\ TxsimRests(stx) /\ ch \in Bits
      BY <1>4 DEF SerialTick, Rests, Ready
    <2>2. TxsimSends(stx', ch, 0, CLOCKS_PER_BAUD - 1)
      BY <2>1, TxsimTakes
    <2>3. dir' # "down"
      BY <1>0, <1>4
    <2> QED
      BY <1>4, <2>1, <2>2, <2>3, Zenon DEF Sends
  <1> QED
    BY <1>1, <1>2, <1>3, <1>4

LEMMA SenderSends ==
  ASSUME dir \in {"down", "up"}, NEW ch \in Bits \cup {None}, SerialTick(ch),
         NEW b \in Bits, NEW k \in 0 .. NBITS + 1, NEW c \in 0 .. CLOCKS_PER_BAUD - 1,
         Sends(b, k, c)
  PROVE  /\ ch = None
         /\ c > 0 => Sends(b, k, c - 1)'
         /\ c = 0 /\ k <= NBITS => Sends(b, k + 1, CLOCKS_PER_BAUD - 1)'
         /\ c = 0 /\ k = NBITS + 1 => Rests'
  <1>0. dir' = dir
    BY DEF SerialTick
  <1>1. CASE dir = "down"
    <2>1. TxuartSends(stx, b, k, c)
      BY <1>1 DEF Sends
    <2>2. ch = None
      BY <1>1, <2>1 DEF SerialTick, Ready, TxuartSends
    <2>3. stx' = Txuart(stx, None)
      BY <1>1, <2>2 DEF SerialTick
    <2>4. c > 0 => TxuartSends(stx', b, k, c - 1)
      <3>1. c > 0 => c \in 1 .. CLOCKS_PER_BAUD - 1
        BY LineAssumption
      <3> QED
        BY <2>1, <2>3, <3>1, TxuartCounts
    <2>5. c = 0 /\ k <= NBITS => TxuartSends(stx', b, k + 1, CLOCKS_PER_BAUD - 1)
      <3>1. k <= NBITS => k \in 0 .. NBITS
        BY LineAssumption
      <3> QED
        BY <2>1, <2>3, <3>1, TxuartMoves
    <2>6. c = 0 /\ k = NBITS + 1 => TxuartRests(stx')
      BY <2>1, <2>3, TxuartEnds
    <2> QED
      BY <1>0, <1>1, <2>2, <2>4, <2>5, <2>6, Zenon DEF Sends, Rests
  <1>2. CASE dir = "up"
    <2>0. dir # "down" /\ dir' # "down"
      BY <1>0, <1>2
    <2>1. TxsimSends(stx, b, k, c)
      BY <2>0 DEF Sends
    <2>2. ch = None
      BY <1>2, <2>1 DEF SerialTick, Ready, TxsimSends
    <2>3. stx' = Txsim(stx, None)
      BY <1>2, <2>2 DEF SerialTick
    <2>4. c > 0 => TxsimSends(stx', b, k, c - 1)
      <3>1. c > 0 => c \in 1 .. CLOCKS_PER_BAUD - 1
        BY LineAssumption
      <3> QED
        BY <2>1, <2>3, <3>1, TxsimCounts
    <2>5. c = 0 /\ k <= NBITS => TxsimSends(stx', b, k + 1, CLOCKS_PER_BAUD - 1)
      <3>1. k <= NBITS => k \in 0 .. NBITS
        BY LineAssumption
      <3> QED
        BY <2>1, <2>3, <3>1, TxsimMoves
    <2>6. c = 0 /\ k = NBITS + 1 => TxsimRests(stx')
      BY <2>1, <2>3, TxsimEnds
    <2> QED
      BY <2>0, <2>2, <2>4, <2>5, <2>6, Zenon DEF Sends, Rests
  <1> QED
    BY <1>1, <1>2

\* What a clock does to the bytes under way.
LEMMA QueueKept ==
  ASSUME NEW ch, SerialTick(ch), rcvd' = None, queue \in Seq(Bits)
  PROVE  /\ ch = None => queue' = queue
         /\ ch # None => queue' = Append(queue, ch)
BY DEF SerialTick

LEMMA QueueTaken ==
  ASSUME NEW ch \in Bits \cup {None}, SerialTick(ch), NEW b \in Bits, rcvd' = b, queue = <<b>>
  PROVE  queue' = IF ch = None THEN <<>> ELSE <<ch>>
  <1>1. rcvd' # None /\ Tail(queue) = <<>> /\ queue # <<>>
    BY BitsSeq
  <1>2. queue' = IF ch = None THEN Tail(queue) ELSE Append(Tail(queue), ch)
    BY <1>1 DEF SerialTick
  <1> QED
    BY <1>1, <1>2

LEMMA QueueTakenOfTwo ==
  ASSUME SerialTick(None), NEW b \in Bits, NEW d \in Bits, rcvd' = b, queue = <<b, d>>
  PROVE  queue' = <<d>>
  <1>1. rcvd' # None /\ Tail(queue) = <<d>> /\ queue # <<>>
    BY BitsSeq
  <1>2. queue' = Tail(queue)
    BY <1>1 DEF SerialTick
  <1> QED
    BY <1>1, <1>2

LEMMA DownTick ==
  ASSUME NEW ch, SerialTick(ch), dir = "down"
  PROVE  /\ dir' = "down" /\ line' = stx'.out
         /\ srx' = Rxsim(srx, line) /\ rcvd' = RxsimByte(srx)
BY DEF SerialTick

LEMMA FrameBits ==
  ASSUME NEW b \in Bits, NEW k \in 0 .. NBITS + 1
  PROVE  FrameBit(b, k) \in {0, 1} /\ FrameBit(b, 0) = 0 /\ FrameBit(b, NBITS + 1) = 1
BY LineAssumption DEF FrameBit, Bits

\* The queue of one or two bytes.
LEMMA Queues ==
  ASSUME NEW b \in Bits, NEW d \in Bits
  PROVE  /\ <<>> \in Seq(Bits) /\ <<b>> \in Seq(Bits) /\ <<b, d>> \in Seq(Bits)
         /\ Append(<<>>, b) = <<b>> /\ Append(<<b>>, d) = <<b, d>>
         /\ Head(<<b>>) = b /\ Head(<<b, d>>) = b /\ <<b>> # <<>> /\ <<b, d>> # <<>>
         /\ Len(<<>>) = 0 /\ Len(<<b>>) = 1 /\ Len(<<b, d>>) = 2
  <1>1. <<>> \in Seq(Bits) /\ <<b>> \in Seq(Bits) /\ <<b, d>> \in Seq(Bits)
    OBVIOUS
  <1>2. Append(<<>>, b) = <<b>>
    OBVIOUS
  <1>3. Append(<<b>>, d) = <<b, d>>
    <2>1. \A s, t \in Seq(Bits) : (Len(s) = 2 /\ Len(t) = 2 /\ s[1] = t[1] /\ s[2] = t[2]) => s = t
      OBVIOUS
    <2> DEFINE s == Append(<<b>>, d)
    <2>2. s \in Seq(Bits) /\ Len(s) = 2 /\ s[1] = b /\ s[2] = d
      OBVIOUS
    <2> HIDE DEF s
    <2>3. s = <<b, d>>
      BY <2>1, <2>2
    <2> QED
      BY <2>3 DEF s
  <1>4. Head(<<b>>) = b /\ Head(<<b, d>>) = b
    OBVIOUS
  <1>5. <<b>> # <<>> /\ <<b, d>> # <<>> /\ Len(<<>>) = 0 /\ Len(<<b>>) = 1 /\ Len(<<b, d>>) = 2
    OBVIOUS
  <1> QED
    BY <1>1, <1>2, <1>3, <1>4, <1>5

\* Each phase goes on or leads to the next, and what is received is what was sent.
LEMMA DownWaitsStep ==
  ASSUME NEW ch \in Bits \cup {None}, SerialTick(ch), dir = "down", line = stx.out, DownWaits
  PROVE  DownInv' /\ LineExactStep
  <1>1. queue = <<>> /\ Rests /\ RxsimRests(srx) /\ srx.last = 1
    BY DEF DownWaits
  <1>2. srx' = Rxsim(srx, 1) /\ rcvd' = RxsimByte(srx)
    BY <1>1, DownTick, LineLevel
  <1>3. RxsimRests(srx') /\ srx'.last = 1 /\ rcvd' = None
    BY <1>1, <1>2, RxsimQuiet
  <1>4. CASE ch = None
    <2>1. Rests' /\ queue' = <<>>
      BY <1>1, <1>3, <1>4, SenderRests, QueueKept
    <2> QED
      BY <1>3, <2>1 DEF DownInv, DownWaits, LineExactStep
  <1>5. CASE ch # None
    <2>1. ch \in Bits /\ Sends(ch, 0, CLOCKS_PER_BAUD - 1)'
      BY <1>1, <1>5, SenderRests
    <2>2. queue' = <<ch>>
      BY <1>1, <1>3, <1>5, <2>1, QueueKept, Queues
    <2>3. Past(CLOCKS_PER_BAUD - 1) = 0 /\ CLOCKS_PER_BAUD - 1 \in 0 .. CLOCKS_PER_BAUD - 1
      BY LineAssumption DEF Past
    <2>4. Fell(srx', 0)
      BY <1>3 DEF Fell
    <2>5. DownBegins'
      BY <1>3, <2>1, <2>2, <2>3, <2>4, HalfBaudFact DEF DownBegins
    <2> QED
      BY <1>3, <2>1, <2>2, <2>5, Queues DEF DownInv, LineExactStep
  <1> QED
    BY <1>4, <1>5

LEMMA DownBeginsStep ==
  ASSUME NEW ch \in Bits \cup {None}, SerialTick(ch), dir = "down", line = stx.out, DownBegins
  PROVE  DownInv' /\ LineExactStep
  <1>1. PICK b \in Bits, c \in 0 .. CLOCKS_PER_BAUD - 1 :
           /\ queue = <<b>> /\ Sends(b, 0, c) /\ Past(c) <= HalfBaud
           /\ RxsimRests(srx) /\ Fell(srx, Past(c))
    BY DEF DownBegins
  <1>2. srx' = Rxsim(srx, 0) /\ rcvd' = RxsimByte(srx)
    BY <1>1, DownTick, LineLevel, FrameBits, LineAssumption
  <1>3. /\ Past(c) \in 0 .. HalfBaud /\ c > 0 /\ c - 1 \in 0 .. CLOCKS_PER_BAUD - 1
        /\ CLOCKS_PER_BAUD + HalfBaud - 1 - Past(c) = HalfBaud + 1 + (c - 1)
    BY <1>1, HalfBaudFact, LineAssumption DEF Past
  <1>4. RxsimReads(srx', b, 0, HalfBaud + 1 + (c - 1)) /\ rcvd' = None
    BY <1>1, <1>2, <1>3, RxsimStarts
  <1>5. 0 \in 0 .. NBITS + 1 /\ 0 # NBITS + 1
    BY LineAssumption
  <1>6. ch = None /\ Sends(b, 0, c - 1)'
    BY <1>1, <1>3, <1>5, SenderSends
  <1>7. queue' = <<b>>
    BY <1>1, <1>4, <1>6, QueueKept, Queues
  <1>8. DownFollows'
    BY <1>3, <1>4, <1>5, <1>6, <1>7 DEF DownFollows
  <1> QED
    BY <1>4, <1>7, <1>8, Queues DEF DownInv, LineExactStep

LEMMA DownEndsStep ==
  ASSUME NEW ch \in Bits \cup {None}, SerialTick(ch), dir = "down", line = stx.out, DownEnds
  PROVE  DownInv' /\ LineExactStep
  <1>1. PICK b \in Bits, r \in 0 .. HalfBaud :
           queue = <<b>> /\ Rests /\ RxsimReads(srx, b, NBITS + 1, r) /\ srx.last = 1
    BY DEF DownEnds
  <1>2. srx' = Rxsim(srx, 1) /\ rcvd' = RxsimByte(srx)
    BY <1>1, DownTick, LineLevel
  <1>3. srx'.last = 1
    BY <1>2 DEF Rxsim
  <1>4. NBITS + 1 \in 0 .. NBITS + 1 /\ r \in Nat /\ HalfBaud \in Nat /\ HalfBaud >= 2
    BY HalfBaudFact, LineAssumption
  <1>5. /\ ch = None => Rests'
        /\ ch # None => ch \in Bits /\ Sends(ch, 0, CLOCKS_PER_BAUD - 1)'
    BY <1>1, SenderRests
  <1>6. Past(CLOCKS_PER_BAUD - 1) = 0 /\ CLOCKS_PER_BAUD - 1 \in 0 .. CLOCKS_PER_BAUD - 1
    BY LineAssumption DEF Past
  <1>7. Fell(srx', 0)
    BY <1>3 DEF Fell
  <1>8. CASE r >= 1
    <2>1. RxsimReads(srx', b, NBITS + 1, r - 1) /\ rcvd' = None
      BY <1>1, <1>2, <1>4, <1>8, RxsimCounts
    <2>2. r - 1 \in 0 .. HalfBaud /\ r - 1 + 0 < HalfBaud
      BY <1>4, <1>8
    <2>3. CASE ch = None
      <3>1. queue' = <<b>>
        BY <1>1, <2>1, <2>3, QueueKept, Queues
      <3>2. DownEnds'
        BY <1>3, <1>5, <2>1, <2>2, <2>3, <3>1 DEF DownEnds
      <3> QED
        BY <2>1, <3>1, <3>2, Queues DEF DownInv, LineExactStep
    <2>4. CASE ch # None
      <3>1. queue' = <<b, ch>>
        BY <1>1, <1>5, <2>1, <2>4, QueueKept, Queues
      <3>2. DownOverlaps'
        BY <1>5, <1>6, <1>7, <2>1, <2>2, <2>4, <3>1 DEF DownOverlaps
      <3> QED
        BY <1>5, <2>1, <2>4, <3>1, <3>2, Queues DEF DownInv, LineExactStep
    <2> QED
      BY <2>3, <2>4
  <1>9. CASE r = 0
    <2>1. RxsimRests(srx') /\ rcvd' = b
      BY <1>1, <1>2, <1>9, RxsimHands
    <2>2. queue' = IF ch = None THEN <<>> ELSE <<ch>>
      BY <1>1, <2>1, QueueTaken
    <2>3. LineExactStep
      BY <1>1, <1>5, <2>1, <2>2, Queues DEF LineExactStep
    <2>4. CASE ch = None
      BY <1>3, <1>5, <2>1, <2>2, <2>3, <2>4 DEF DownInv, DownWaits
    <2>5. CASE ch # None
      <3>1. DownBegins'
        BY <1>4, <1>5, <1>6, <1>7, <2>1, <2>2, <2>5 DEF DownBegins
      <3> QED
        BY <2>3, <3>1 DEF DownInv
    <2> QED
      BY <2>4, <2>5
  <1> QED
    BY <1>4, <1>8, <1>9

LEMMA DownOverlapsStep ==
  ASSUME NEW ch \in Bits \cup {None}, SerialTick(ch), dir = "down", line = stx.out, DownOverlaps
  PROVE  DownInv' /\ LineExactStep
  <1>1. PICK b \in Bits, d \in Bits, c \in 0 .. CLOCKS_PER_BAUD - 1, r \in 0 .. HalfBaud :
           /\ queue = <<b, d>> /\ Sends(d, 0, c) /\ RxsimReads(srx, b, NBITS + 1, r)
           /\ r + Past(c) < HalfBaud /\ Fell(srx, Past(c))
    BY DEF DownOverlaps
  <1>2. srx' = Rxsim(srx, 0) /\ rcvd' = RxsimByte(srx)
    BY <1>1, DownTick, LineLevel, FrameBits, LineAssumption
  <1>3. /\ Past(c) \in 0 .. CLOCKS_PER_BAUD /\ c > 0 /\ c - 1 \in 0 .. CLOCKS_PER_BAUD - 1
        /\ Past(c - 1) = Past(c) + 1 /\ Past(c - 1) <= HalfBaud /\ r \in Nat
        /\ r >= 1 => r - 1 \in 0 .. HalfBaud /\ r - 1 + Past(c - 1) < HalfBaud
    BY <1>1, HalfBaudFact, LineAssumption DEF Past
  <1>4. 0 \in 0 .. NBITS + 1 /\ NBITS + 1 \in 0 .. NBITS + 1
    BY LineAssumption
  <1>5. ch = None /\ Sends(d, 0, c - 1)'
    BY <1>1, <1>3, <1>4, SenderSends
  <1>6. Fell(srx', Past(c - 1))
    BY <1>1, <1>2, <1>3, RxsimFell
  <1>7. CASE r >= 1
    <2>1. RxsimReads(srx', b, NBITS + 1, r - 1) /\ rcvd' = None
      BY <1>1, <1>2, <1>3, <1>4, <1>7, RxsimCounts
    <2>2. queue' = <<b, d>>
      BY <1>1, <1>5, <2>1, QueueKept, Queues
    <2>3. DownOverlaps'
      BY <1>3, <1>5, <1>6, <1>7, <2>1, <2>2 DEF DownOverlaps
    <2> QED
      BY <2>1, <2>2, <2>3, Queues DEF DownInv, LineExactStep
  <1>8. CASE r = 0
    <2>1. RxsimRests(srx') /\ rcvd' = b
      BY <1>1, <1>2, <1>8, RxsimHands
    <2>2. queue' = <<d>>
      BY <1>1, <1>5, <2>1, QueueTakenOfTwo
    <2>3. DownBegins'
      BY <1>3, <1>5, <1>6, <2>1, <2>2 DEF DownBegins
    <2> QED
      BY <1>1, <2>1, <2>2, <2>3, Queues DEF DownInv, LineExactStep
  <1> QED
    BY <1>3, <1>7, <1>8

LEMMA DownFollowsStep ==
  ASSUME NEW ch \in Bits \cup {None}, SerialTick(ch), dir = "down", line = stx.out, DownFollows
  PROVE  DownInv' /\ LineExactStep
  <1>1. PICK b \in Bits, k \in 0 .. NBITS + 1, c \in 0 .. CLOCKS_PER_BAUD - 1 :
           /\ queue = <<b>> /\ Sends(b, k, c)
           /\ \/ RxsimReads(srx, b, k, HalfBaud + 1 + c)
              \/ /\ k >= 1 /\ HalfBaud + 1 + c >= CLOCKS_PER_BAUD
                 /\ RxsimReads(srx, b, k - 1, HalfBaud + 1 + c - CLOCKS_PER_BAUD)
           /\ k = NBITS + 1 /\ c < CLOCKS_PER_BAUD - 1 => srx.last = 1
    BY DEF DownFollows
  <1> DEFINE i == FrameBit(b, k)
  <1>2. srx' = Rxsim(srx, i) /\ rcvd' = RxsimByte(srx) /\ i \in {0, 1}
    BY <1>1, DownTick, LineLevel, FrameBits
  <1>3. srx'.last = i
    BY <1>2 DEF Rxsim
  <1>4. k = NBITS + 1 => i = 1
    BY FrameBits
  <1> HIDE DEF i
  <1>5. /\ ch = None
        /\ c > 0 => Sends(b, k, c - 1)'
        /\ c = 0 /\ k <= NBITS => Sends(b, k + 1, CLOCKS_PER_BAUD - 1)'
        /\ c = 0 /\ k = NBITS + 1 => Rests'
    BY <1>1, SenderSends
  <1> DEFINE C == CLOCKS_PER_BAUD
             h == HalfBaud
  <1>6. /\ C \in Nat /\ h \in Nat /\ h >= 2 /\ h + 3 <= C /\ C <= 2 * h + 1
        /\ NBITS \in Nat /\ NBITS >= 1
    BY HalfBaudFact, LineAssumption
  <1> HIDE DEF h
  <1>7. CASE RxsimReads(srx, b, k, h + 1 + c)
    <2>1. RxsimReads(srx', b, k, (h + 1 + c) - 1) /\ rcvd' = None
      <3>1. h + 1 + c \in Nat /\ h + 1 + c >= 1
        BY <1>6
      <3> QED
        BY <1>2, <1>7, <3>1, RxsimCounts
    <2>2. queue' = <<b>>
      BY <1>1, <1>5, <2>1, QueueKept, Queues
    <2>3. LineExactStep
      BY <2>1, <2>2, Queues DEF LineExactStep
    <2>4. CASE c > 0
      <3>1. (h + 1 + c) - 1 = h + 1 + (c - 1) /\ c - 1 \in 0 .. C - 1
        BY <1>6, <2>4
      <3>2. DownFollows'
        BY <1>3, <1>4, <1>5, <2>1, <2>2, <2>4, <3>1 DEF DownFollows, h
      <3> QED
        BY <2>3, <3>2 DEF DownInv
    <2>5. CASE c = 0 /\ k <= NBITS
      <3>1. /\ (h + 1 + c) - 1 = h + 1 + (C - 1) - C /\ C - 1 \in 0 .. C - 1
            /\ k + 1 \in 0 .. NBITS + 1
            /\ k + 1 >= 1 /\ h + 1 + (C - 1) >= C /\ (k + 1) - 1 = k /\ ~(C - 1 < C - 1)
        BY <1>6, <2>5
      <3>2. RxsimReads(srx', b, (k + 1) - 1, h + 1 + (C - 1) - C)
        BY <2>1, <3>1
      <3>3. DownFollows'
        BY <1>5, <2>2, <2>5, <3>1, <3>2 DEF DownFollows, h
      <3> QED
        BY <2>3, <3>3 DEF DownInv
    <2>6. CASE c = 0 /\ k = NBITS + 1
      <3>1. (h + 1 + c) - 1 = h /\ h \in 0 .. h
        BY <1>6, <2>6
      <3>2. DownEnds'
        BY <1>3, <1>4, <1>5, <2>1, <2>2, <2>6, <3>1 DEF DownEnds, h
      <3> QED
        BY <2>3, <3>2 DEF DownInv
    <2> QED
      BY <1>6, <2>4, <2>5, <2>6
  <1>8. CASE /\ k >= 1 /\ h + 1 + c >= C /\ h + 1 + c - C >= 1
             /\ RxsimReads(srx, b, k - 1, h + 1 + c - C)
    <2>1. /\ h + 1 + c - C \in Nat /\ k - 1 \in 0 .. NBITS + 1 /\ c > 0 /\ c - 1 \in 0 .. C - 1
          /\ (h + 1 + c - C) - 1 = h + 1 + (c - 1) - C /\ h + 1 + (c - 1) >= C
      BY <1>6, <1>8
    <2>2. RxsimReads(srx', b, k - 1, (h + 1 + c - C) - 1) /\ rcvd' = None
      BY <1>2, <1>8, <2>1, RxsimCounts
    <2>3. queue' = <<b>>
      BY <1>1, <1>5, <2>2, QueueKept, Queues
    <2>4. RxsimReads(srx', b, k - 1, h + 1 + (c - 1) - C)
      BY <2>1, <2>2
    <2>5. DownFollows'
      BY <1>3, <1>4, <1>5, <1>8, <2>1, <2>3, <2>4 DEF DownFollows, h
    <2> QED
      BY <2>2, <2>3, <2>5, Queues DEF DownInv, LineExactStep
  <1>9. CASE /\ k >= 1 /\ h + 1 + c - C = 0
             /\ RxsimReads(srx, b, k - 1, h + 1 + c - C)
    <2>1. /\ k - 1 \in 0 .. NBITS /\ c > 0 /\ c - 1 \in 0 .. C - 1 /\ (k - 1) + 1 = k
          /\ C - 1 = h + 1 + (c - 1)
      BY <1>6, <1>9
    <2>2. RxsimReads(srx', b, k, C - 1) /\ rcvd' = None
      <3>1. RxsimReads(srx, b, k - 1, 0) /\ srx' = Rxsim(srx, FrameBit(b, (k - 1) + 1))
        BY <1>2, <1>9, <2>1 DEF i
      <3> QED
        BY <1>2, <2>1, <3>1, RxsimSamples
    <2>3. queue' = <<b>>
      BY <1>1, <1>5, <2>2, QueueKept, Queues
    <2>4. RxsimReads(srx', b, k, h + 1 + (c - 1))
      BY <2>1, <2>2
    <2>5. DownFollows'
      BY <1>3, <1>4, <1>5, <2>1, <2>3, <2>4 DEF DownFollows, h
    <2> QED
      BY <2>2, <2>3, <2>5, Queues DEF DownInv, LineExactStep
  <1>10. h + 1 + c >= C => (h + 1 + c - C = 0 \/ h + 1 + c - C >= 1)
    BY <1>6
  <1> QED
    BY <1>1, <1>7, <1>8, <1>9, <1>10 DEF h

LEMMA UpTick ==
  ASSUME NEW ch, SerialTick(ch), dir = "up"
  PROVE  /\ dir' = "up" /\ line' = stx'.out
         /\ srx' = Rxuart(srx, line) /\ rcvd' = RxuartByte(srx)
BY DEF SerialTick

LEMMA UpWaitsStep ==
  ASSUME NEW ch \in Bits \cup {None}, SerialTick(ch), dir = "up", line = stx.out, UpWaits
  PROVE  UpInv' /\ LineExactStep
  <1>1. /\ queue = <<>> /\ Rests /\ RxuartRests(srx)
        /\ srx.q = 1 /\ srx.qq = 1 /\ srx.ck = 1
    BY DEF UpWaits
  <1>2. srx' = Rxuart(srx, 1) /\ rcvd' = RxuartByte(srx)
    BY <1>1, UpTick, LineLevel
  <1>3. RxuartRests(srx') /\ srx'.state = IDLE /\ ~srx'.half /\ rcvd' = None
    BY <1>1, <1>2, RxuartQuiet
  <1>4. srx'.q = 1 /\ srx'.qq = 1 /\ srx'.ck = 1
    BY <1>1, <1>2 DEF Rxuart
  <1>5. CASE ch = None
    <2>1. Rests' /\ queue' = <<>>
      BY <1>1, <1>3, <1>5, SenderRests, QueueKept
    <2> QED
      BY <1>3, <1>4, <2>1 DEF UpInv, UpWaits, LineExactStep
  <1>6. CASE ch # None
    <2>1. ch \in Bits /\ Sends(ch, 0, CLOCKS_PER_BAUD - 1)'
      BY <1>1, <1>6, SenderRests
    <2>2. queue' = <<ch>>
      BY <1>1, <1>3, <1>6, <2>1, QueueKept, Queues
    <2>3. Past(CLOCKS_PER_BAUD - 1) = 0 /\ CLOCKS_PER_BAUD - 1 \in 0 .. CLOCKS_PER_BAUD - 1
      BY LineAssumption DEF Past
    <2>4. Flops(srx', ch, 0, CLOCKS_PER_BAUD - 1)
      BY <1>4, LineAssumption DEF Flops, Was
    <2>5. ~(0 >= HalfBaud + 2) /\ ~(0 >= 3) /\ 0 <= HalfBaud + 2
      BY HalfBaudFact
    <2>6. UpBegins'
      BY <1>3, <2>1, <2>2, <2>3, <2>4, <2>5 DEF UpBegins
    <2> QED
      BY <1>3, <2>1, <2>2, <2>6, Queues DEF UpInv, LineExactStep
  <1> QED
    BY <1>5, <1>6

\* Where the receiver is told of the line falling, it counts from there.
LEMMA RxuartTimes ==
  ASSUME NEW u, NEW b \in Bits, NEW c \in 0 .. CLOCKS_PER_BAUD - 1, Flops(u, b, 0, c),
         Past(c) <= HalfBaud + 2, Past(c) >= 3 => u.chg = Past(c) - 3, NEW i \in {0, 1}
  PROVE  /\ Rxuart(u, i).half <=> Past(c) + 1 >= HalfBaud + 2
         /\ Past(c) + 1 >= 3 => Rxuart(u, i).chg = (Past(c) + 1) - 3
  <1>1. /\ u.qq = IF c >= CLOCKS_PER_BAUD - 2 THEN 1 ELSE 0
        /\ u.ck = IF c >= CLOCKS_PER_BAUD - 3 THEN 1 ELSE 0
    BY DEF Flops, Was, FrameBit
  <1>2. (u.ck = 0 /\ u.chg >= CLOCKS_PER_BAUD \div 2 - 2) <=> Past(c) + 1 >= HalfBaud + 2
    BY <1>1, HalfBaudFact, LineAssumption DEF Past, HalfBaud
  <1>3. Rxuart(u, i).half = (u.ck = 0 /\ u.chg >= CLOCKS_PER_BAUD \div 2 - 2)
    BY Zenon DEF Rxuart
  <1>4. Rxuart(u, i).half <=> Past(c) + 1 >= HalfBaud + 2
    BY <1>2, <1>3, Zenon
  <1>5. Rxuart(u, i).chg = IF u.qq # u.ck THEN 0 ELSE IF u.chg < CHGMAX THEN u.chg + 1 ELSE u.chg
    BY DEF Rxuart
  <1>6. Past(c) + 1 >= 3 => Rxuart(u, i).chg = (Past(c) + 1) - 3
    BY <1>1, <1>5, HalfBaudFact, LineAssumption DEF Past
  <1> QED
    BY <1>4, <1>6

LEMMA UpBeginsStep ==
  ASSUME NEW ch \in Bits \cup {None}, SerialTick(ch), dir = "up", line = stx.out, UpBegins
  PROVE  UpInv' /\ LineExactStep
  <1>1. PICK b \in Bits, c \in 0 .. CLOCKS_PER_BAUD - 1 :
          /\ queue = <<b>> /\ Sends(b, 0, c) /\ Past(c) <= HalfBaud + 2
          /\ RxuartRests(srx) /\ srx.state = IDLE /\ Flops(srx, b, 0, c)
          /\ (srx.half <=> Past(c) >= HalfBaud + 2)
          /\ Past(c) >= 3 => srx.chg = Past(c) - 3
    BY DEF UpBegins
  <1> DEFINE C == CLOCKS_PER_BAUD
             h == HalfBaud
  <1>2. /\ C \in Nat /\ h \in Nat /\ h >= 2 /\ h + 3 <= C /\ C <= 2 * h + 1
        /\ NBITS \in Nat /\ NBITS >= 1
    BY HalfBaudFact, LineAssumption
  <1>3. 0 \in 0 .. NBITS + 1 /\ FrameBit(b, 0) = 0 /\ 0 \in 0 .. NBITS /\ 1 \in 0 .. NBITS + 1
    BY LineAssumption DEF FrameBit
  <1>4. srx' = Rxuart(srx, FrameBit(b, 0)) /\ rcvd' = RxuartByte(srx) /\ srx' = Rxuart(srx, 0)
    BY <1>1, <1>3, UpTick, LineLevel
  <1>5. srx.qq \in {0, 1}
    BY <1>1 DEF Flops, Was, FrameBit
  <1>6. /\ ch = None /\ (c > 0 => Sends(b, 0, c - 1)')
        /\ c = 0 => Sends(b, 1, CLOCKS_PER_BAUD - 1)'
    BY <1>1, <1>2, <1>3, SenderSends
  <1>7. c > 0 => Flops(srx', b, 0, c - 1)
    <2>1. c > 0 => c \in 1 .. C - 1
      BY <1>2
    <2> QED
      BY <1>1, <1>3, <1>4, <2>1, FlopsCount
  <1>8. CASE Past(c) < h + 2
    <2>1. RxuartRests(srx') /\ srx'.state = IDLE /\ rcvd' = None
      <3>1. ~srx.half
        BY <1>1, <1>2, <1>8 DEF Past
      <3> QED
        BY <1>1, <1>4, <1>5, <3>1, RxuartHolds
    <2>2. /\ srx'.half <=> Past(c) + 1 >= HalfBaud + 2
          /\ Past(c) + 1 >= 3 => srx'.chg = (Past(c) + 1) - 3
      BY <1>1, <1>4, RxuartTimes
    <2>3. c > 0 /\ c - 1 \in 0 .. C - 1 /\ Past(c - 1) = Past(c) + 1 /\ Past(c - 1) <= h + 2
      BY <1>2, <1>8 DEF Past
    <2>4. queue' = <<b>>
      BY <1>1, <1>6, <2>1, QueueKept, Queues
    <2> HIDE DEF h
    <2>5. UpBegins'
      BY <1>6, <1>7, <2>1, <2>2, <2>3, <2>4 DEF UpBegins, h
    <2> QED
      BY <2>1, <2>4, <2>5, Queues DEF UpInv, LineExactStep
  <1>9. CASE Past(c) = h + 2
    <2>1. srx.half /\ srx.ck = 0
      BY <1>1, <1>2, <1>9 DEF Past, Flops, FrameBit
    <2>2. RxuartReads(srx', b, 0, C - 1) /\ rcvd' = None
      BY <1>1, <1>4, <1>5, <2>1, RxuartBegins
    <2>3. queue' = <<b>>
      BY <1>1, <1>6, <2>2, QueueKept, Queues
    <2>4. UpFollows'
      <3>1. CASE c > 0
        <4>1. c - 1 \in 0 .. C - 1 /\ C - 1 = h + 3 + (c - 1)
          BY <1>2, <1>9, <3>1 DEF Past
        <4>2. RxuartReads(srx', b, 0, h + 3 + (c - 1))
          BY <2>2, <4>1
        <4> HIDE DEF h
        <4> QED
          BY <1>3, <1>6, <1>7, <2>3, <3>1, <4>1, <4>2 DEF UpFollows, h
      <3>2. CASE c = 0
        <4>1. /\ C - 1 \in 0 .. C - 1 /\ C - 1 = h + 3 + (C - 1) - C /\ h + 3 + (C - 1) >= C
              /\ 1 - 1 = 0 /\ 0 + 1 = 1
          BY <1>2, <1>9, <3>2 DEF Past
        <4>2. RxuartReads(srx', b, 1 - 1, h + 3 + (C - 1) - C)
          BY <2>2, <4>1
        <4>3. Flops(srx', b, 1, C - 1)
          BY <1>1, <1>3, <1>4, <3>2, <4>1, FlopsMove
        <4> HIDE DEF h
        <4> QED
          BY <1>3, <1>6, <2>3, <3>2, <4>1, <4>2, <4>3 DEF UpFollows, h
      <3> QED
        BY <1>2, <3>1, <3>2
    <2> QED
      BY <2>2, <2>3, <2>4, Queues DEF UpInv, LineExactStep
  <1> QED
    BY <1>1, <1>2, <1>8, <1>9 DEF Past

LEMMA UpEndsStep ==
  ASSUME NEW ch \in Bits \cup {None}, SerialTick(ch), dir = "up", line = stx.out, UpEnds
  PROVE  UpInv' /\ LineExactStep
  <1>1. PICK b \in Bits, c \in 0 .. CLOCKS_PER_BAUD - 1 :
          /\ queue = <<>> /\ Sends(b, NBITS + 1, c) /\ c + 4 + HalfBaud <= CLOCKS_PER_BAUD
          /\ RxuartRests(srx) /\ Flops(srx, b, NBITS + 1, c)
    BY DEF UpEnds
  <1>2. /\ NBITS + 1 \in 0 .. NBITS + 1 /\ NBITS \in Nat
        /\ FrameBit(b, NBITS + 1) = 1 /\ CLOCKS_PER_BAUD \in Nat
    BY LineAssumption DEF FrameBit
  <1>3. srx.ck = 1 /\ srx.qq = 1
    BY <1>1, <1>2, HalfBaudFact DEF Flops
  <1>4. /\ srx' = Rxuart(srx, FrameBit(b, NBITS + 1)) /\ srx' = Rxuart(srx, 1)
        /\ rcvd' = RxuartByte(srx)
    BY <1>1, <1>2, UpTick, LineLevel
  <1>5. RxuartRests(srx') /\ srx'.state = IDLE /\ ~srx'.half /\ rcvd' = None
    BY <1>1, <1>3, <1>4, RxuartQuiet
  <1>6. /\ ch = None /\ (c > 0 => Sends(b, NBITS + 1, c - 1)')
        /\ c = 0 => Rests'
    BY <1>1, <1>2, SenderSends
  <1>7. queue' = <<>>
    BY <1>1, <1>5, <1>6, QueueKept, Queues
  <1>8. CASE c > 0
    <2>1. c \in 1 .. CLOCKS_PER_BAUD - 1 /\ c - 1 \in 0 .. CLOCKS_PER_BAUD - 1
          /\ (c - 1) + 4 + HalfBaud <= CLOCKS_PER_BAUD
      BY <1>1, <1>2, <1>8, HalfBaudFact
    <2>2. Flops(srx', b, NBITS + 1, c - 1)
      BY <1>1, <1>2, <1>4, <2>1, FlopsCount
    <2>3. UpEnds'
      BY <1>5, <1>6, <1>7, <1>8, <2>1, <2>2 DEF UpEnds
    <2> QED
      BY <1>5, <1>7, <2>3 DEF UpInv, LineExactStep
  <1>9. CASE c = 0
    <2>1. srx'.q = 1 /\ srx'.qq = 1 /\ srx'.ck = 1
      BY <1>1, <1>4, <1>9, FlopsEnd
    <2> QED
      BY <1>5, <1>6, <1>7, <1>9, <2>1 DEF UpInv, UpWaits, LineExactStep
  <1> QED
    BY <1>2, <1>8, <1>9

LEMMA UpFollowsStep ==
  ASSUME NEW ch \in Bits \cup {None}, SerialTick(ch), dir = "up", line = stx.out, UpFollows
  PROVE  UpInv' /\ LineExactStep
  <1>1. PICK b \in Bits, k \in 0 .. NBITS + 1, c \in 0 .. CLOCKS_PER_BAUD - 1 :
          /\ queue = <<b>> /\ Sends(b, k, c) /\ Flops(srx, b, k, c)
          /\ \/ RxuartReads(srx, b, k, HalfBaud + 3 + c)
             \/ /\ k >= 1 /\ HalfBaud + 3 + c >= CLOCKS_PER_BAUD
                /\ RxuartReads(srx, b, k - 1, HalfBaud + 3 + c - CLOCKS_PER_BAUD)
    BY DEF UpFollows
  <1> DEFINE C == CLOCKS_PER_BAUD
             h == HalfBaud
             i == FrameBit(b, k)
  <1>2. /\ C \in Nat /\ h \in Nat /\ h >= 2 /\ h + 3 <= C /\ C <= 2 * h + 1
        /\ NBITS \in Nat /\ NBITS >= 1
    BY HalfBaudFact, LineAssumption
  <1>3. srx' = Rxuart(srx, i) /\ rcvd' = RxuartByte(srx) /\ i \in {0, 1}
    BY <1>1, UpTick, LineLevel, FrameBits
  <1>4. /\ ch = None
        /\ c > 0 => Sends(b, k, c - 1)'
        /\ c = 0 /\ k <= NBITS => Sends(b, k + 1, CLOCKS_PER_BAUD - 1)'
        /\ c = 0 /\ k = NBITS + 1 => Rests'
    BY <1>1, SenderSends
  <1>5. /\ c > 0 => c - 1 \in 0 .. C - 1 /\ Flops(srx', b, k, c - 1)
        /\ c = 0 /\ k <= NBITS => k + 1 \in 0 .. NBITS + 1 /\ Flops(srx', b, k + 1, C - 1)
        /\ c = 0 /\ k = NBITS + 1 => srx'.q = 1 /\ srx'.qq = 1 /\ srx'.ck = 1
    <2>1. c > 0 => c - 1 \in 0 .. C - 1 /\ c \in 1 .. C - 1
      BY <1>2
    <2>2. k <= NBITS => k \in 0 .. NBITS /\ k + 1 \in 0 .. NBITS + 1
      BY <1>2
    <2>3. c > 0 => Flops(srx', b, k, c - 1)
      BY <1>1, <1>3, <2>1, FlopsCount
    <2>4. c = 0 /\ k <= NBITS => Flops(srx', b, k + 1, C - 1)
      BY <1>1, <1>3, <2>2, FlopsMove
    <2>5. c = 0 /\ k = NBITS + 1 => srx'.q = 1 /\ srx'.qq = 1 /\ srx'.ck = 1
      BY <1>1, <1>3, FlopsEnd
    <2> QED
      BY <2>1, <2>2, <2>3, <2>4, <2>5
  <1> HIDE DEF h, i
  <1>6. CASE RxuartReads(srx, b, k, h + 3 + c)
    <2>1. k \in 0 .. NBITS /\ k <= NBITS /\ h + 3 + c \in Nat /\ h + 3 + c >= 1
      BY <1>2, <1>6 DEF RxuartReads
    <2>2. RxuartReads(srx', b, k, (h + 3 + c) - 1) /\ rcvd' = None
      BY <1>3, <1>6, <2>1, RxuartCounts
    <2>3. queue' = <<b>>
      BY <1>1, <1>4, <2>2, QueueKept, Queues
    <2>4. CASE c > 0
      <3>1. (h + 3 + c) - 1 = h + 3 + (c - 1)
        BY <1>2
      <3>2. UpFollows'
        BY <1>4, <1>5, <2>2, <2>3, <2>4, <3>1 DEF UpFollows, h
      <3> QED
        BY <2>2, <2>3, <3>2, Queues DEF UpInv, LineExactStep
    <2>5. CASE c = 0
      <3>1. /\ (h + 3 + c) - 1 = h + 3 + (C - 1) - C /\ C - 1 \in 0 .. C - 1
            /\ k + 1 >= 1 /\ h + 3 + (C - 1) >= C /\ (k + 1) - 1 = k
        BY <1>2, <2>5
      <3>2. RxuartReads(srx', b, (k + 1) - 1, h + 3 + (C - 1) - C)
        BY <2>2, <3>1
      <3>3. UpFollows'
        BY <1>4, <1>5, <2>1, <2>3, <2>5, <3>1, <3>2 DEF UpFollows, h
      <3> QED
        BY <2>2, <2>3, <3>3, Queues DEF UpInv, LineExactStep
    <2> QED
      BY <1>2, <2>4, <2>5
  <1>7. CASE /\ k >= 1 /\ h + 3 + c - C >= 1
             /\ RxuartReads(srx, b, k - 1, h + 3 + c - C)
    <2>1. /\ h + 3 + c - C \in Nat /\ k - 1 \in 0 .. NBITS /\ c > 0
          /\ (h + 3 + c - C) - 1 = h + 3 + (c - 1) - C /\ h + 3 + (c - 1) >= C
      BY <1>2, <1>7
    <2>2. RxuartReads(srx', b, k - 1, (h + 3 + c - C) - 1) /\ rcvd' = None
      BY <1>3, <1>7, <2>1, RxuartCounts
    <2>3. queue' = <<b>>
      BY <1>1, <1>4, <2>2, QueueKept, Queues
    <2>4. RxuartReads(srx', b, k - 1, h + 3 + (c - 1) - C)
      BY <2>1, <2>2
    <2>5. UpFollows'
      BY <1>4, <1>5, <1>7, <2>1, <2>3, <2>4 DEF UpFollows, h
    <2> QED
      BY <2>2, <2>3, <2>5, Queues DEF UpInv, LineExactStep
  <1>8. CASE /\ k >= 1 /\ k <= NBITS /\ h + 3 + c - C = 0
             /\ RxuartReads(srx, b, k - 1, h + 3 + c - C)
    <2>1. /\ k - 1 \in 0 .. NBITS - 1 /\ (k - 1) + 1 = k /\ ~(c >= C - 2)
      BY <1>2, <1>8
    <2>2. srx.qq = b[k]
      BY <1>1, <1>2, <1>8, <2>1 DEF Flops, FrameBit
    <2>3. RxuartReads(srx', b, k, C - 1) /\ rcvd' = None
      BY <1>3, <1>8, <2>1, <2>2, RxuartSamples
    <2>4. queue' = <<b>>
      BY <1>1, <1>4, <2>3, QueueKept, Queues
    <2>5. CASE c > 0
      <3>1. C - 1 = h + 3 + (c - 1)
        BY <1>2, <1>8
      <3>2. RxuartReads(srx', b, k, h + 3 + (c - 1))
        BY <2>3, <3>1
      <3>3. UpFollows'
        BY <1>4, <1>5, <2>4, <2>5, <3>2 DEF UpFollows, h
      <3> QED
        BY <2>3, <2>4, <3>3, Queues DEF UpInv, LineExactStep
    <2>6. CASE c = 0
      <3>1. /\ C - 1 = h + 3 + (C - 1) - C /\ C - 1 \in 0 .. C - 1
            /\ k + 1 >= 1 /\ h + 3 + (C - 1) >= C /\ (k + 1) - 1 = k
        BY <1>2, <1>8, <2>6
      <3>2. RxuartReads(srx', b, (k + 1) - 1, h + 3 + (C - 1) - C)
        BY <2>3, <3>1
      <3>3. UpFollows'
        BY <1>4, <1>5, <1>8, <2>4, <2>6, <3>1, <3>2 DEF UpFollows, h
      <3> QED
        BY <2>3, <2>4, <3>3, Queues DEF UpInv, LineExactStep
    <2> QED
      BY <1>2, <2>5, <2>6
  <1>9. CASE /\ k = NBITS + 1 /\ h + 3 + c - C = 0
             /\ RxuartReads(srx, b, k - 1, h + 3 + c - C)
    <2>1. k - 1 = NBITS /\ ~(c >= C - 3)
      BY <1>2, <1>9
    <2>2. srx.ck = 1
      <3>1. FrameBit(b, k) = 1
        BY <1>9, FrameBits
      <3> QED
        BY <1>1, <2>1, <3>1 DEF Flops
    <2>3. RxuartRests(srx') /\ ~srx'.half /\ rcvd' = b
      BY <1>3, <1>9, <2>1, <2>2, RxuartHands
    <2>4. queue' = <<>>
      BY <1>1, <1>4, <2>3, QueueTaken
    <2>5. LineExactStep
      BY <1>1, <2>3, <2>4, Queues DEF LineExactStep
    <2>6. CASE c > 0
      <3>1. (c - 1) + 4 + h <= C
        BY <1>2, <1>9
      <3>2. UpEnds'
        BY <1>4, <1>5, <1>9, <2>3, <2>4, <2>6, <3>1 DEF UpEnds, h
      <3> QED
        BY <2>5, <3>2 DEF UpInv
    <2>7. CASE c = 0
      BY <1>4, <1>5, <1>9, <2>3, <2>4, <2>5, <2>7 DEF UpInv, UpWaits
    <2> QED
      BY <1>2, <2>6, <2>7
  <1>10. /\ h + 3 + c >= C => (h + 3 + c - C = 0 \/ h + 3 + c - C >= 1)
         /\ k <= NBITS \/ k = NBITS + 1
    BY <1>2
  <1> QED
    BY <1>1, <1>6, <1>7, <1>8, <1>9, <1>10 DEF h

LEMMA SerialStarts == SerialInit => SerialInv
  <1> SUFFICES ASSUME SerialInit PROVE SerialInv
    OBVIOUS
  <1>1. CASE dir = "down"
    <2>1. stx = TxuartInit /\ srx = RxsimInit /\ line = 1 /\ queue = <<>>
      BY <1>1 DEF SerialInit
    <2>2. TxuartRests(stx) /\ stx.out = 1
      BY <2>1 DEF TxuartRests, TxuartInit
    <2>3. RxsimRests(srx) /\ srx.last = 1
      BY <2>1 DEF RxsimRests, RxsimInit
    <2> QED
      BY <1>1, <2>1, <2>2, <2>3 DEF SerialInv, DownInv, DownWaits, Rests
  <1>2. CASE dir = "up"
    <2>1. stx = TxsimInit /\ srx = RxuartInit /\ line = 1 /\ queue = <<>>
      BY <1>2 DEF SerialInit
    <2>2. TxsimRests(stx) /\ stx.out = 1
      BY <2>1 DEF TxsimRests, TxsimInit, TxsimShape
    <2>3. RxuartRests(srx)
      BY <2>1 DEF RxuartRests, RxuartInit, Bits
    <2>4. srx.q = 1 /\ srx.qq = 1 /\ srx.ck = 1 /\ ~srx.half
      BY <2>1 DEF RxuartInit
    <2> QED
      BY <1>2, <2>1, <2>2, <2>3, <2>4 DEF SerialInv, UpInv, UpWaits, Rests
  <1> QED
    BY <1>1, <1>2 DEF SerialInit

LEMMA SerialStep ==
  ASSUME SerialInv, SerialNext
  PROVE  SerialInv' /\ LineExactStep
  <1>1. PICK ch \in Bits \cup {None} : SerialTick(ch)
    BY DEF SerialNext
  <1>2. CASE dir = "down"
    <2>1. dir' = "down" /\ line' = stx'.out
      BY <1>1, <1>2, DownTick
    <2>2. DownInv' /\ LineExactStep
      BY <1>1, <1>2, DownWaitsStep, DownBeginsStep, DownFollowsStep, DownEndsStep, DownOverlapsStep
         DEF SerialInv, DownInv
    <2> QED
      BY <2>1, <2>2 DEF SerialInv
  <1>3. CASE dir = "up"
    <2>1. dir' = "up" /\ line' = stx'.out
      BY <1>1, <1>3, UpTick
    <2>2. UpInv' /\ LineExactStep
      BY <1>1, <1>3, UpWaitsStep, UpBeginsStep, UpFollowsStep, UpEndsStep DEF SerialInv, UpInv
    <2> QED
      BY <2>1, <2>2 DEF SerialInv
  <1> QED
    BY <1>2, <1>3 DEF SerialInv

\* THEOREM: for every width of a byte and every number of clocks per baud, and
\* whatever the gaps between bytes, txuartlite.v to dbluartsim.cpp and dbluartsim.cpp
\* to rxuartlite.v hand on each byte once, unchanged and in order.
THEOREM LineIsExact == SerialSpec => LineExact
  <1>1. SerialInit => SerialInv
    BY SerialStarts
  <1>2. SerialInv /\ [SerialNext]_serialvars => SerialInv'
    <2>1. CASE SerialNext
      BY <2>1, SerialStep
    <2>2. CASE UNCHANGED serialvars
      <3>1. UNCHANGED <<dir, stx, srx, line, queue>>
        BY <2>2 DEF serialvars
      <3>2. (Rests => Rests') /\ \A b, k, c : Sends(b, k, c) => Sends(b, k, c)'
        BY <3>1, Zenon DEF Rests, Sends
      <3>3. DownInv => DownInv'
        BY <3>1, <3>2 DEF DownInv, DownWaits, DownBegins, DownFollows, DownEnds, DownOverlaps
      <3>4. UpInv => UpInv'
        BY <3>1, <3>2 DEF UpInv, UpWaits, UpBegins, UpFollows, UpEnds
      <3> QED
        BY <3>1, <3>3, <3>4 DEF SerialInv
    <2> QED
      BY <2>1, <2>2
  <1>3. SerialInv /\ [SerialNext]_serialvars => [LineExactStep]_serialvars
    BY SerialStep
  <1> QED
    BY <1>1, <1>2, <1>3, PTL DEF SerialSpec, LineExact
=============================================================================
