----------------------------- MODULE BusProofs ------------------------------
(***************************************************************************)
(* The bus delay loses, repeats and reorders nothing, for every set of     *)
(* requests and any number of them in flight; the simulated memory at the  *)
(* end of the bus answers in time, for every delay; and every              *)
(* acknowledgement on the bus of main.v answers the oldest request of the  *)
(* master that it reaches, for bursts of any length, as long as a bus      *)
(* cycle stays with one slave.                                             *)
(***************************************************************************)
EXTENDS BusDelayLink, MemSim, WbBus, TLAPS

\* Sequences: what they hold, joining them, and taking the head off.
LEMMA SeqSame ==
  ASSUME NEW S, NEW s \in Seq(S), NEW t \in Seq(S), Len(s) = Len(t), \A i \in 1 .. Len(s) : s[i] = t[i]
  PROVE  s = t
OBVIOUS

LEMMA SeqEmpty ==
  ASSUME NEW S, NEW s \in Seq(S)
  PROVE  Len(s) \in Nat /\ (s = <<>> <=> Len(s) = 0) /\ <<>> \in Seq(S) /\ Len(<<>>) = 0
OBVIOUS

LEMMA SeqJoin ==
  ASSUME NEW S, NEW s \in Seq(S), NEW t \in Seq(S)
  PROVE  /\ s \o t \in Seq(S) /\ Len(s \o t) = Len(s) + Len(t)
         /\ \A i \in 1 .. Len(s) + Len(t) : (s \o t)[i] = IF i <= Len(s) THEN s[i] ELSE t[i - Len(s)]
OBVIOUS

LEMMA SeqEnds ==
  ASSUME NEW S, NEW s \in Seq(S), s # <<>>
  PROVE  /\ Head(s) = s[1] /\ Head(s) \in S /\ Tail(s) \in Seq(S) /\ Len(Tail(s)) = Len(s) - 1
         /\ \A i \in 1 .. Len(s) - 1 : Tail(s)[i] = s[i + 1]
OBVIOUS

LEMMA SeqJoinEmpty ==
  ASSUME NEW S, NEW s \in Seq(S)
  PROVE  <<>> \o s = s /\ s \o <<>> = s
  <1>1. <<>> \in Seq(S) /\ Len(<<>>) = 0
    OBVIOUS
  <1> DEFINE l == <<>> \o s
             r == s \o <<>>
  <1>2. l \in Seq(S) /\ Len(l) = Len(s) /\ \A i \in 1 .. Len(s) : l[i] = s[i]
    BY SeqJoin
  <1>3. r \in Seq(S) /\ Len(r) = Len(s) /\ \A i \in 1 .. Len(s) : r[i] = s[i]
    BY SeqJoin
  <1> HIDE DEF l, r
  <1>4. l = s /\ r = s
    BY <1>2, <1>3, SeqSame
  <1> QED
    BY <1>4 DEF l, r

LEMMA SeqJoinThree ==
  ASSUME NEW S, NEW a \in Seq(S), NEW b \in Seq(S), NEW c \in Seq(S)
  PROVE  (a \o b) \o c = a \o (b \o c)
  <1> DEFINE ab == a \o b
             bc == b \o c
             l  == ab \o c
             r  == a \o bc
  <1>0. Len(a) \in Nat /\ Len(b) \in Nat /\ Len(c) \in Nat
    OBVIOUS
  <1>1. /\ ab \in Seq(S) /\ Len(ab) = Len(a) + Len(b)
        /\ \A i \in 1 .. Len(a) + Len(b) : ab[i] = IF i <= Len(a) THEN a[i] ELSE b[i - Len(a)]
    BY SeqJoin
  <1>2. /\ bc \in Seq(S) /\ Len(bc) = Len(b) + Len(c)
        /\ \A i \in 1 .. Len(b) + Len(c) : bc[i] = IF i <= Len(b) THEN b[i] ELSE c[i - Len(b)]
    BY SeqJoin
  <1> HIDE DEF ab, bc
  <1>3. /\ l \in Seq(S) /\ Len(l) = Len(ab) + Len(c)
        /\ \A i \in 1 .. Len(ab) + Len(c) : l[i] = IF i <= Len(ab) THEN ab[i] ELSE c[i - Len(ab)]
    <2>1. c \in Seq(S) /\ ab \in Seq(S)
      BY <1>1
    <2> QED
      BY <2>1, SeqJoin
  <1>4. /\ r \in Seq(S) /\ Len(r) = Len(a) + Len(bc)
        /\ \A i \in 1 .. Len(a) + Len(bc) : r[i] = IF i <= Len(a) THEN a[i] ELSE bc[i - Len(a)]
    <2>1. a \in Seq(S) /\ bc \in Seq(S)
      BY <1>2
    <2> QED
      BY <2>1, SeqJoin
  <1> DEFINE x == Len(a)
             y == Len(b)
             z == Len(c)
  <1> HIDE DEF l, r, x, y, z
  <1>5. Len(l) = Len(r) /\ Len(l) = x + y + z /\ x \in Nat /\ y \in Nat /\ z \in Nat
    BY <1>0, <1>1, <1>2, <1>3, <1>4 DEF x, y, z
  <1>6. ASSUME NEW i \in 1 .. Len(l) PROVE l[i] = r[i]
    <2>1. CASE i <= x
      <3>1. i \in 1 .. x + y /\ i \in 1 .. (x + y) + z /\ i <= x + y /\ i \in 1 .. x + (y + z)
        BY <1>5, <2>1
      <3> QED
        BY <1>1, <1>2, <1>3, <1>4, <2>1, <3>1 DEF x, y, z
    <2>2. CASE i > x /\ i <= x + y
      <3>1. /\ i \in 1 .. x + y /\ i \in 1 .. (x + y) + z /\ ~(i <= x) /\ i \in 1 .. x + (y + z)
            /\ i - x \in 1 .. y + z /\ i - x <= y
        BY <1>5, <2>2
      <3>2. l[i] = b[i - x]
        BY <1>1, <1>3, <2>2, <3>1 DEF x, y, z
      <3>3. r[i] = bc[i - x]
        BY <1>2, <1>4, <3>1 DEF x, y, z
      <3> QED
        BY <1>2, <3>1, <3>2, <3>3 DEF x, y, z
    <2>3. CASE i > x + y
      <3>1. /\ i \in 1 .. (x + y) + z /\ ~(i <= x) /\ i \in 1 .. x + (y + z) /\ ~(i <= x + y)
            /\ i - x \in 1 .. y + z /\ ~(i - x <= y) /\ (i - x) - y = i - (x + y)
        BY <1>5, <2>3
      <3>2. l[i] = c[i - (x + y)]
        BY <1>1, <1>3, <2>3, <3>1 DEF x, y, z
      <3>3. r[i] = bc[i - x]
        BY <1>2, <1>4, <3>1 DEF x, y, z
      <3>4. bc[i - x] = c[(i - x) - y]
        BY <1>2, <3>1 DEF x, y, z
      <3> QED
        BY <3>1, <3>2, <3>3, <3>4
    <2> QED
      BY <1>5, <2>1, <2>2, <2>3
  <1>7. l = r
    BY <1>3, <1>4, <1>5, <1>6, SeqSame
  <1> QED
    BY <1>7 DEF l, r, ab, bc

LEMMA SeqJoinNone ==
  ASSUME NEW S, NEW s \in Seq(S), NEW t \in Seq(S), s \o t = <<>>
  PROVE  s = <<>> /\ t = <<>>
  <1>1. Len(s) + Len(t) = 0 /\ Len(s) \in Nat /\ Len(t) \in Nat
    BY SeqJoin, SeqEmpty
  <1>2. Len(s) = 0 /\ Len(t) = 0
    BY <1>1
  <1> QED
    BY <1>2, SeqEmpty

LEMMA HeadThenTail ==
  ASSUME NEW S, NEW s \in Seq(S), s # <<>>
  PROVE  /\ Head(s) \in S
         /\ Tail(s) \in Seq(S)
         /\ s = <<Head(s)>> \o Tail(s)
  <1> DEFINE h == <<Head(s)>>
             t == Tail(s)
             j == h \o t
  <1>1. /\ Head(s) = s[1] /\ Head(s) \in S /\ t \in Seq(S) /\ Len(t) = Len(s) - 1
        /\ \A i \in 1 .. Len(s) - 1 : t[i] = s[i + 1]
    BY SeqEnds
  <1>2. h \in Seq(S) /\ Len(h) = 1 /\ h[1] = s[1]
    BY <1>1
  <1> HIDE DEF h, t
  <1>3. /\ j \in Seq(S) /\ Len(j) = Len(h) + Len(t)
        /\ \A i \in 1 .. Len(h) + Len(t) : j[i] = IF i <= Len(h) THEN h[i] ELSE t[i - Len(h)]
    <2>1. h \in Seq(S) /\ t \in Seq(S)
      BY <1>1, <1>2
    <2> QED
      BY <2>1, SeqJoin
  <1> HIDE DEF j
  <1>4. Len(s) \in Nat /\ Len(s) # 0
    BY SeqEmpty
  <1>5. Len(j) = Len(s)
    BY <1>1, <1>2, <1>3, <1>4
  <1>6. ASSUME NEW i \in 1 .. Len(s) PROVE j[i] = s[i]
    <2>1. CASE i = 1
      BY <1>1, <1>2, <1>3, <1>5, <2>1
    <2>2. CASE i # 1
      <3>1. i \in 1 .. 1 + Len(t) /\ ~(i <= 1) /\ i - 1 \in 1 .. Len(s) - 1 /\ (i - 1) + 1 = i
        BY <1>1, <1>4, <2>2
      <3>2. j[i] = t[i - 1]
        BY <1>2, <1>3, <3>1
      <3> QED
        BY <1>1, <3>1, <3>2
    <2> QED
      BY <2>1, <2>2
  <1>7. j = s
    BY <1>3, <1>5, <1>6, SeqSame
  <1> QED
    BY <1>1, <1>7 DEF h, t, j

LEMMA InitLinkInv == LinkInit => LinkInv
  <1>1. <<>> \in Seq(Req)
    OBVIOUS
  <1>2. LinkInit => LinkTypeOK
    BY <1>1, Zenon DEF LinkInit, DelayInit, LinkTypeOK
  <1>3. LinkInit => Protocol /\ StrobesInCycle /\ Conservation
    BY DEF LinkInit, DelayInit, Protocol, StrobesInCycle, Conservation
  <1>4. QED
    BY <1>2, <1>3 DEF LinkInv

LEMMA LinkTypes ==
  ASSUME LinkInv, LinkNext
  PROVE  LinkTypeOK'
  <1>1. PICK d \in Req :
          DelayEdge(i_reset, i_wb_cyc, i_wb_stb, i_wb_req,
                    i_dly_stall, i_dly_ack, i_dly_err, d)
    BY DEF LinkNext
  <1>2. /\ o_dly_cyc' \in BOOLEAN /\ o_dly_stb' \in BOOLEAN
        /\ r_stb' \in BOOLEAN /\ o_wb_ack' \in BOOLEAN /\ o_wb_err' \in BOOLEAN
    BY <1>1, Zenon DEF DelayEdge, NxtCyc, NxtStb, NxtReply
  <1>3. o_dly_req' \in Req /\ r_req' \in Req /\ o_wb_data' \in Req
    BY <1>1, Zenon DEF DelayEdge, NxtReq, NxtReply, LinkInv, LinkTypeOK
  <1>4. /\ i_reset' \in BOOLEAN /\ i_wb_cyc' \in BOOLEAN
        /\ i_wb_stb' \in BOOLEAN /\ i_wb_req' \in Req
        /\ i_dly_stall' \in BOOLEAN /\ i_dly_ack' \in BOOLEAN
        /\ i_dly_err' \in BOOLEAN
    BY Zenon DEF LinkNext, MasterMoves, SlaveMoves
  <1>5. owed' \in Seq(Req)
    <2>1. (IF o_wb_ack /\ owed # <<>> THEN Tail(owed) ELSE owed) \in Seq(Req)
      BY SeqEnds DEF LinkInv, LinkTypeOK
    <2>2. If(i_wb_stb /\ ~o_wb_stall, <<i_wb_req>>) \in Seq(Req)
      BY DEF LinkInv, LinkTypeOK, If
    <2>3. QED
      BY <2>1, <2>2, SeqJoin, SeqEmpty DEF LinkNext, Account
  <1>6. accepted' \in Seq(Req)
    <2>1. (IF i_dly_ack THEN Tail(accepted) ELSE accepted) \in Seq(Req)
      BY SeqEnds DEF LinkInv, LinkTypeOK, Protocol
    <2>2. If(o_dly_stb /\ ~i_dly_stall, <<o_dly_req>>) \in Seq(Req)
      BY DEF LinkInv, LinkTypeOK, If
    <2>3. QED
      BY <2>1, <2>2, SeqJoin, SeqEmpty DEF LinkNext, SlaveTakes
  <1>7. QED
    BY <1>2, <1>3, <1>4, <1>5, <1>6, Zenon DEF LinkTypeOK

LEMMA LinkControl ==
  ASSUME LinkInv, LinkNext
  PROVE  Protocol' /\ StrobesInCycle'
  <1>1. PICK d \in Req :
          DelayEdge(i_reset, i_wb_cyc, i_wb_stb, i_wb_req,
                    i_dly_stall, i_dly_ack, i_dly_err, d)
    BY DEF LinkNext
  <1>2. Protocol'
    BY Zenon DEF LinkNext, MasterMoves, SlaveMoves, Protocol
  <1>3. StrobesInCycle'
    BY <1>1, Zenon DEF DelayEdge, NxtCyc, NxtStb, Free, Flush, StrobesInCycle,
                       LinkInv
  <1>4. QED
    BY <1>2, <1>3

\* An edge that gives up nothing moves the requests forward: what was pending
\* and what the master adds is what the slave takes and what is pending now.
LEMMA RequestsMoveForward ==
  ASSUME LinkInv, NEW d \in Req,
         DelayEdge(i_reset, i_wb_cyc, i_wb_stb, i_wb_req,
                   i_dly_stall, i_dly_ack, i_dly_err, d),
         ~Flush(i_reset, i_wb_cyc, i_dly_err)
  PROVE  Pending \o If(i_wb_stb /\ ~o_wb_stall, <<i_wb_req>>)
           = If(o_dly_stb /\ ~i_dly_stall, <<o_dly_req>>) \o Pending'
  <1>1. /\ o_dly_stb' <=> (Free(i_dly_stall) => r_stb \/ i_wb_stb)
        /\ r_stb' <=> ~Free(i_dly_stall) /\ (r_stb \/ i_wb_stb)
    BY Zenon DEF DelayEdge, NxtStb
  <1>2. /\ o_dly_req' = IF ~Free(i_dly_stall) THEN o_dly_req
                        ELSE IF r_stb THEN r_req ELSE i_wb_req
        /\ r_req' = IF Free(i_dly_stall) \/ ~r_stb THEN i_wb_req ELSE r_req
    BY Zenon DEF DelayEdge, NxtReq
  <1>3. /\ r_stb => o_dly_stb
        /\ o_dly_req \in Req /\ r_req \in Req /\ i_wb_req \in Req
    BY DEF LinkInv, StrobesInCycle, LinkTypeOK
  <1>4. CASE ~o_dly_stb /\ ~i_wb_stb
    BY <1>1, <1>3, <1>4 DEF Pending, If, Free, o_wb_stall
  <1>5. CASE ~o_dly_stb /\ i_wb_stb
    BY <1>1, <1>2, <1>3, <1>5 DEF Pending, If, Free, o_wb_stall
  <1>6. CASE o_dly_stb /\ ~r_stb /\ i_wb_stb
    BY <1>1, <1>2, <1>3, <1>6 DEF Pending, If, Free, o_wb_stall
  <1>7. CASE o_dly_stb /\ ~r_stb /\ ~i_wb_stb
    BY <1>1, <1>2, <1>3, <1>7 DEF Pending, If, Free, o_wb_stall
  <1>8. CASE o_dly_stb /\ r_stb
    BY <1>1, <1>2, <1>3, <1>8 DEF Pending, If, Free, o_wb_stall
  <1>9. QED
    BY <1>4, <1>5, <1>6, <1>7, <1>8

\* What the slave holds is what it answers now and what it keeps.
LEMMA SlaveAnswersOldest ==
  ASSUME LinkInv, NEW d \in Req, i_dly_data(d)
  PROVE  accepted = If(i_dly_ack, <<d>>)
                      \o (IF i_dly_ack THEN Tail(accepted) ELSE accepted)
  <1>1. CASE i_dly_ack
    BY <1>1, HeadThenTail DEF LinkInv, LinkTypeOK, Protocol, i_dly_data, If
  <1>2. CASE ~i_dly_ack
    BY <1>2, SeqJoinEmpty DEF LinkInv, LinkTypeOK, If
  <1>3. QED
    BY <1>1, <1>2

LEMMA PendingIsSeq == LinkTypeOK => Pending \in Seq(Req)
  <1> SUFFICES ASSUME LinkTypeOK PROVE Pending \in Seq(Req)
    OBVIOUS
  <1>1. If(o_dly_stb, <<o_dly_req>>) \in Seq(Req) /\ If(r_stb, <<r_req>>) \in Seq(Req)
    BY DEF LinkTypeOK, If
  <1>2. QED
    BY <1>1, SeqJoin, Zenon DEF Pending

\* Two ways to regroup a concatenation, named so that a step can cite one.
Associates(a, k, t) == (a \o k) \o t = a \o (k \o t)
Slides(a, k, t, p, n, pp) == ((a \o k) \o p) \o n = (a \o (k \o t)) \o pp

LEMMA Associativity ==
  ASSUME NEW S, NEW a \in Seq(S), NEW k \in Seq(S), NEW t \in Seq(S)
  PROVE  Associates(a, k, t)
  <1>1. (a \o k) \o t = a \o (k \o t)
    BY SeqJoinThree
  <1>2. QED
    BY <1>1, Zenon DEF Associates

LEMMA Regroup ==
  ASSUME NEW S, NEW a \in Seq(S), NEW k \in Seq(S), NEW t \in Seq(S),
         NEW p \in Seq(S), NEW n \in Seq(S), NEW pp \in Seq(S),
         p \o n = t \o pp
  PROVE  Slides(a, k, t, p, n, pp)
  <1> DEFINE ak == a \o k
  <1>1. ak \in Seq(S)
    BY SeqJoin, Zenon
  <1>2. Associates(ak, p, n) /\ Associates(ak, t, pp) /\ Associates(a, k, t)
    <2> HIDE DEF ak
    <2>1. QED
      BY <1>1, Associativity, Zenon
  <1>3. QED
    BY <1>2 DEF Associates, Slides

\* Removing the head of a concatenation.
LEMMA TailOfConcat ==
  ASSUME NEW S, NEW x \in S, NEW t \in Seq(S)
  PROVE  <<x>> \o t # <<>> /\ Tail(<<x>> \o t) = t
  <1>1. <<x>> \o t \in Seq(S) /\ Len(<<x>> \o t) = 1 + Len(t)
    BY SeqJoin
  <1>2. \A i \in 1..(1 + Len(t)) : (<<x>> \o t)[i] = IF i <= 1 THEN x ELSE t[i - 1]
    BY SeqJoin
  <1>3. Len(t) \in Nat
    BY SeqEmpty
  <1>4. <<x>> \o t # <<>>
    BY <1>1, <1>3, SeqEmpty
  <1>5. Tail(<<x>> \o t) = t
    BY <1>1, <1>2, <1>3, <1>4, SeqEnds, SeqSame
  <1>6. QED
    BY <1>4, <1>5

LEMMA LinkConserves ==
  ASSUME LinkInv, LinkNext
  PROVE  Conservation'
  <1>1. PICK d \in Req :
          /\ i_dly_data(d)
          /\ DelayEdge(i_reset, i_wb_cyc, i_wb_stb, i_wb_req,
                       i_dly_stall, i_dly_ack, i_dly_err, d)
    BY DEF LinkNext
  <1>0. LinkTypeOK /\ LinkTypeOK'
    BY LinkTypes DEF LinkInv
  <1>2. CASE ~i_wb_cyc \/ o_wb_err
    <2>1. Flush(i_reset, i_wb_cyc, i_dly_err)
      BY <1>2 DEF Flush
    <2>2. ~o_dly_stb' /\ ~r_stb' /\ ~o_dly_cyc' /\ ~o_wb_ack'
      BY <1>1, <1>2, <2>1, Zenon DEF DelayEdge, NxtStb, NxtCyc, NxtReply
    <2>3. owed' = <<>>
      BY <1>2 DEF LinkNext, Account
    <2>4. QED
      BY <2>2, <2>3 DEF Conservation, Pending, If
  <1>3. CASE i_wb_cyc /\ ~o_wb_err /\ i_dly_err /\ o_dly_cyc
    <2>1. ~i_reset
      BY <1>3 DEF LinkInv, Protocol
    <2>2. o_wb_err'
      BY <1>1, <1>3, <2>1, Zenon DEF DelayEdge, NxtReply
    <2>3. QED
      BY <2>2 DEF Conservation
  <1>4. CASE i_wb_cyc /\ ~o_wb_err /\ ~(i_dly_err /\ o_dly_cyc)
    <2> DEFINE answer == If(i_dly_ack /\ o_dly_cyc, <<d>>)
               kept   == If(o_dly_cyc, IF i_dly_ack THEN Tail(accepted) ELSE accepted)
               newly  == If(o_dly_stb /\ ~i_dly_stall, <<o_dly_req>>)
               new    == If(i_wb_stb /\ ~o_wb_stall, <<i_wb_req>>)
    <2>1. ~i_reset /\ ~Flush(i_reset, i_wb_cyc, i_dly_err)
      BY <1>4 DEF LinkInv, Protocol, Flush
    <2>2. /\ o_dly_cyc' <=> TRUE
          /\ o_wb_ack' <=> i_dly_ack /\ o_dly_cyc
          /\ o_wb_data' = d
      BY <1>1, <1>4, <2>1, Zenon DEF DelayEdge, NxtCyc, NxtReply
    <2>3. owed = (If(o_wb_ack, <<o_wb_data>>) \o If(o_dly_cyc, accepted)) \o Pending
      BY <1>4 DEF LinkInv, Conservation
    <2>4. /\ answer \in Seq(Req) /\ kept \in Seq(Req)
          /\ newly \in Seq(Req) /\ new \in Seq(Req)
          /\ Pending \in Seq(Req) /\ Pending' \in Seq(Req)
          /\ If(o_dly_cyc, accepted) \in Seq(Req)
      <3>1. Pending \in Seq(Req) /\ Pending' \in Seq(Req)
        <4>1. (LinkTypeOK => Pending \in Seq(Req))'
          BY PendingIsSeq, PTL
        <4>2. QED
          BY <1>0, <4>1, PendingIsSeq, Zenon
      <3>2. answer \in Seq(Req) /\ newly \in Seq(Req) /\ new \in Seq(Req)
        BY <1>0 DEF LinkTypeOK, If
      <3>3. kept \in Seq(Req) /\ If(o_dly_cyc, accepted) \in Seq(Req)
        BY <1>0, SeqEnds DEF LinkTypeOK, If, LinkInv, Protocol
      <3>4. QED
        BY <3>1, <3>2, <3>3
    <2>5. Pending \o new = newly \o Pending'
      BY <1>1, <2>1, RequestsMoveForward
    <2>6. If(o_dly_cyc, accepted) = answer \o kept
      <3>1. CASE o_dly_cyc
        BY <1>1, <3>1, SlaveAnswersOldest, Zenon DEF If
      <3>2. CASE ~o_dly_cyc
        BY <3>2 DEF If
      <3>3. QED
        BY <3>1, <3>2
    <2>7. accepted' = kept \o newly
      <3>1. CASE o_dly_cyc
        BY <3>1 DEF LinkNext, SlaveTakes, If
      <3>2. CASE ~o_dly_cyc
        BY <3>2 DEF LinkNext, SlaveTakes, If, LinkInv, StrobesInCycle
      <3>3. QED
        BY <3>1, <3>2
    <2>8. owed' = (If(o_dly_cyc, accepted) \o Pending) \o new
      <3>1. CASE o_wb_ack
        <4>1. owed = <<o_wb_data>> \o (If(o_dly_cyc, accepted) \o Pending)
          <5>1. If(o_wb_ack, <<o_wb_data>>) = <<o_wb_data>>
            BY <3>1 DEF If
          <5>2. <<o_wb_data>> \in Seq(Req)
            BY <1>0 DEF LinkTypeOK
          <5>3. Associates(<<o_wb_data>>, If(o_dly_cyc, accepted), Pending)
            BY <2>4, <5>2, Associativity, Zenon
          <5>4. QED
            BY <2>3, <5>1, <5>3 DEF Associates
        <4>2. If(o_dly_cyc, accepted) \o Pending \in Seq(Req)
          BY <2>4, SeqJoin, Zenon
        <4>3. owed # <<>> /\ Tail(owed) = If(o_dly_cyc, accepted) \o Pending
          BY <1>0, <4>1, <4>2, TailOfConcat, Zenon DEF LinkTypeOK
        <4>4. QED
          BY <1>4, <3>1, <4>3 DEF LinkNext, Account
      <3>2. CASE ~o_wb_ack
        <4>1. owed = If(o_dly_cyc, accepted) \o Pending
          BY <2>3, <2>4, <3>2, SeqJoinEmpty DEF If
        <4>2. QED
          BY <1>4, <3>2, <4>1 DEF LinkNext, Account
      <3>3. QED
        BY <3>1, <3>2
    <2>9. owed' = (answer \o accepted') \o Pending'
      <3>1. ((answer \o kept) \o Pending) \o new = (answer \o (kept \o newly)) \o Pending'
        <4> HIDE DEF answer, kept, newly, new
        <4>1. Slides(answer, kept, newly, Pending, new, Pending')
          BY <2>4, <2>5, Regroup, Zenon
        <4>2. QED
          BY <4>1 DEF Slides
      <3>2. QED
        BY <2>6, <2>7, <2>8, <3>1, Zenon
    <2>10. If(o_wb_ack', <<o_wb_data'>>) = answer /\ If(o_dly_cyc', accepted') = accepted'
      BY <2>2 DEF If
    <2>11. QED
      BY <2>9, <2>10 DEF Conservation, If
  <1>5. QED
    BY <1>2, <1>3, <1>4

\* busdelay.v conserves requests: inside a bus cycle the master waits for exactly
\* what is on its way back, at the slave, or on its way there, in that order.
THEOREM LinkInvariance == LinkSpec => []LinkInv
  <1>1. ASSUME LinkInv, [LinkNext]_linkvars PROVE LinkInv'
    <2>1. CASE LinkNext
      BY <1>1, <2>1, LinkTypes, LinkControl, LinkConserves, Zenon DEF LinkInv
    <2>2. CASE UNCHANGED linkvars
      BY <1>1, <2>2
         DEF linkvars, lines, delayvars, LinkInv, LinkTypeOK, Protocol, StrobesInCycle,
             Conservation, Pending, If
    <2>3. QED
      BY <1>1, <2>1, <2>2
  <1>2. QED
    BY <1>1, InitLinkInv, PTL DEF LinkSpec

\* The acknowledgement busdelay.v returns answers the oldest request of the
\* current bus cycle, never one of a cycle that was given up.
THEOREM LinkAnswersOldest == LinkSpec => []AnswersOldest
  <1>1. ASSUME LinkInv PROVE AnswersOldest
    <2> SUFFICES ASSUME o_wb_ack, i_wb_cyc, ~o_wb_err
                 PROVE  owed # <<>> /\ o_wb_data = Head(owed)
      BY DEF AnswersOldest
    <2>1. /\ o_wb_data \in Req /\ <<o_wb_data>> \in Seq(Req)
          /\ If(o_dly_cyc, accepted) \in Seq(Req) /\ Pending \in Seq(Req)
      BY <1>1, PendingIsSeq DEF LinkInv, LinkTypeOK, If
    <2>2. If(o_dly_cyc, accepted) \o Pending \in Seq(Req)
      BY <2>1, SeqJoin, Zenon
    <2>3. Associates(<<o_wb_data>>, If(o_dly_cyc, accepted), Pending)
      BY <2>1, Associativity, Zenon
    <2>4. owed = <<o_wb_data>> \o (If(o_dly_cyc, accepted) \o Pending)
      <3>1. owed = (<<o_wb_data>> \o If(o_dly_cyc, accepted)) \o Pending
        BY <1>1 DEF LinkInv, Conservation, If
      <3>2. QED
        BY <2>3, <3>1 DEF Associates
    <2>5. owed # <<>>
      BY <2>1, <2>2, <2>4, TailOfConcat, Zenon
    <2>6. Head(<<o_wb_data>> \o (If(o_dly_cyc, accepted) \o Pending)) = o_wb_data
      <3> DEFINE rest == If(o_dly_cyc, accepted) \o Pending
      <3> HIDE DEF rest
      <3>1. rest \in Seq(Req)
        BY <2>2 DEF rest
      <3>2. Head(<<o_wb_data>> \o rest) = o_wb_data
        BY <2>1, <3>1, SeqJoin
      <3>3. QED
        BY <3>2 DEF rest
    <2>7. QED
      BY <2>4, <2>5, <2>6
  <1>2. QED
    BY <1>1, LinkInvariance, PTL

\* The delayed bus holds a stalled request.
THEOREM LinkHoldsStalled == LinkSpec => HoldsStalled
  <1>1. ASSUME LinkNext, o_dly_stb, i_dly_stall, o_dly_cyc'
        PROVE  o_dly_stb' /\ o_dly_req' = o_dly_req
    <2>1. PICK d \in Req :
            DelayEdge(i_reset, i_wb_cyc, i_wb_stb, i_wb_req,
                      i_dly_stall, i_dly_ack, i_dly_err, d)
      BY <1>1 DEF LinkNext
    <2>2. ~Free(i_dly_stall) /\ ~Flush(i_reset, i_wb_cyc, i_dly_err)
      BY <1>1, <2>1, Zenon DEF DelayEdge, NxtCyc, Free, Flush
    <2>3. QED
      BY <2>1, <2>2, Zenon DEF DelayEdge, NxtStb, NxtReq
  <1>2. ASSUME UNCHANGED linkvars
        PROVE  o_dly_stb /\ i_dly_stall /\ o_dly_cyc'
                 => o_dly_stb' /\ o_dly_req' = o_dly_req
    BY <1>2 DEF linkvars, delayvars
  <1>3. QED
    BY <1>1, <1>2, PTL DEF LinkSpec, HoldsStalled

\* An error ends the delayed bus cycle at once.
THEOREM LinkErrorEndsCycle == LinkSpec => ErrorEndsCycle
  <1>1. ASSUME LinkInv, LinkNext, (o_dly_cyc /\ i_dly_err) \/ o_wb_err
        PROVE  ~o_dly_cyc'
    <2>1. PICK d \in Req :
            DelayEdge(i_reset, i_wb_cyc, i_wb_stb, i_wb_req,
                      i_dly_stall, i_dly_ack, i_dly_err, d)
      BY <1>1 DEF LinkNext
    <2>2. QED
      BY <1>1, <2>1, Zenon DEF DelayEdge, NxtCyc, Flush
  <1>2. LinkInv /\ [LinkNext]_linkvars =>
          [(o_dly_cyc /\ i_dly_err) \/ o_wb_err => ~o_dly_cyc']_linkvars
    BY <1>1
  <1>3. QED
    BY <1>2, LinkInvariance, PTL DEF LinkSpec, ErrorEndsCycle


-----------------------------------------------------------------------------
\* The simulated memory.

Answer == [ack : BOOLEAN, data : Word]

\* The place in the ring of the answer to the request made k clocks ago.
Slot(k) == IF m_head >= k THEN m_head - k ELSE m_head - k + Ring

\* The answer that is due k clocks after the latest one.
Due(k) == IF k < Len(asked) THEN asked[k + 1] ELSE NoAnswer

\* The ring holds the answers to the last m_delay requests, each in its place.
MemInv ==
  /\ m_delay \in Delays /\ m_head \in 0 .. Ring - 1
  /\ memsim_mem \in [0 .. m_mask -> Word]
  /\ m_fifo \in [0 .. Ring - 1 -> Answer]
  /\ asked \in Seq(Answer) /\ Len(asked) <= m_delay + 1
  /\ \A k \in 0 .. m_delay - 1 : m_fifo[Slot(k)] = Due(k)
  /\ AckedInTime

\* The constructor's loop finds a power of two for every delay.
LEMMA PowerFound ==
  ASSUME NEW n \in 1 .. MaxSize
  PROVE  Pow2(n) \in Powers /\ Pow2(n) >= n
  <1>1. \E p \in Powers : p >= n /\ (p = 1 \/ p < 2 * n)
    BY DEF Powers, MaxSize
  <1> QED
    BY <1>1 DEF Pow2

\* Masking with a power of two less one: the ring's index goes round.
LEMMA Round ==
  ASSUME NEW R \in Powers, NEW x \in 0 .. R - 1
  PROVE  /\ (x + 1) % R = IF x + 1 = R THEN 0 ELSE x + 1
         /\ \A d \in 1 .. R : (x + 1 - d) % R = IF x >= d - 1 THEN x - (d - 1) ELSE x - (d - 1) + R
  BY DEF Powers

\* And an address stays within the memory.
LEMMA Masked ==
  ASSUME NEW R \in Powers, NEW a \in Int
  PROVE  a % R \in 0 .. R - 1
  BY DEF Powers

\* The sizes of the ring and of the memory.
LEMMA Sizes ==
  ASSUME m_delay \in Delays
  PROVE  /\ m_delay \in Nat /\ m_delay >= 1 /\ Ring \in Powers /\ Ring >= m_delay /\ Ring \in Nat
         /\ m_mask + 1 \in Powers /\ m_mask + 1 \in Nat /\ m_mask \in Int
         /\ NoWord \in Word /\ NoAnswer \in Answer
  <1>1. m_delay \in 1 .. MaxSize /\ NWords \in 1 .. MaxSize
    BY MemAssumption
  <1>2. Ring \in Powers /\ Ring >= m_delay
    <2>1. Pow2(m_delay) \in Powers /\ Pow2(m_delay) >= m_delay
      BY <1>1, PowerFound, Zenon
    <2> QED
      BY <2>1 DEF Ring
  <1>3. Pow2(NWords) \in Powers
    BY <1>1, PowerFound, Zenon
  <1>4. Powers \subseteq Nat
    BY DEF Powers
  <1>5. m_mask + 1 = Pow2(NWords) /\ m_mask \in Int
    <2>1. Pow2(NWords) \in Nat
      BY <1>3, <1>4
    <2> QED
      BY <2>1 DEF m_mask
  <1>6. \E w : w \in Word
    <2>1. PICK h : h \in Half
      BY MemAssumption
    <2> WITNESS [i \in {"hi", "lo"} |-> h]
    <2> QED
      BY <2>1 DEF Word
  <1>7. NoWord \in Word
    BY <1>6 DEF NoWord
  <1>8. NoAnswer \in Answer
    BY <1>7 DEF NoAnswer, Answer
  <1> QED
    BY <1>1, <1>2, <1>3, <1>4, <1>5, <1>7, <1>8 DEF MaxSize

\* A call of apply() that stores the answer new.
LEMMA RingStep ==
  ASSUME MemInv, NEW new \in Answer,
         m_fifo' = [m_fifo EXCEPT ![(m_head + 1) % Ring] = new],
         m_head' = (m_head + 1) % Ring,
         o_ack' = m_fifo[(m_head + 1 - m_delay) % Ring].ack,
         o_data' = m_fifo[(m_head + 1 - m_delay) % Ring].data,
         asked' = SubSeq(<<new>> \o asked, 1, IF Len(asked) < m_delay + 1 THEN Len(asked) + 1 ELSE m_delay + 1),
         m_delay' = m_delay, memsim_mem' \in [0 .. m_mask -> Word]
  PROVE  MemInv'
  <1>1. /\ m_delay \in Nat /\ m_delay >= 1 /\ Ring \in Powers /\ Ring >= m_delay /\ Ring \in Nat
        /\ NoAnswer \in Answer /\ Ring' = Ring
    BY Sizes DEF MemInv, Ring
  <1>2. /\ m_head \in 0 .. Ring - 1 /\ m_fifo \in [0 .. Ring - 1 -> Answer]
        /\ asked \in Seq(Answer) /\ Len(asked) \in Nat /\ Len(asked) <= m_delay + 1
    BY DEF MemInv
  <1>3. /\ m_head' = (IF m_head + 1 = Ring THEN 0 ELSE m_head + 1)
        /\ m_head' \in 0 .. Ring - 1
    <2>1. (m_head + 1) % Ring = IF m_head + 1 = Ring THEN 0 ELSE m_head + 1
      BY <1>1, <1>2, Round, Zenon
    <2> QED
      BY <1>1, <1>2, <2>1
  <1>4. (m_head + 1 - m_delay) % Ring = Slot(m_delay - 1)
    <2>1. m_delay \in 1 .. Ring
      BY <1>1
    <2>2. (m_head + 1 - m_delay) % Ring =
            IF m_head >= m_delay - 1 THEN m_head - (m_delay - 1) ELSE m_head - (m_delay - 1) + Ring
      BY <1>1, <1>2, <2>1, Round, Zenon
    <2> QED
      BY <2>2, Zenon DEF Slot
  <1>5. m_fifo[(m_head + 1 - m_delay) % Ring] = Due(m_delay - 1)
    <2>1. m_delay - 1 \in 0 .. m_delay - 1
      BY <1>1
    <2> QED
      BY <1>4, <2>1, Zenon DEF MemInv
  <1>6. /\ asked' \in Seq(Answer)
        /\ Len(asked') = (IF Len(asked) < m_delay + 1 THEN Len(asked) + 1 ELSE m_delay + 1)
        /\ \A i \in 1 .. Len(asked') : asked'[i] = IF i = 1 THEN new ELSE asked[i - 1]
    <2> DEFINE n == IF Len(asked) < m_delay + 1 THEN Len(asked) + 1 ELSE m_delay + 1
               t == <<new>> \o asked
    <2>1. n \in Nat /\ n <= Len(asked) + 1 /\ n >= 1
      BY <1>1, <1>2
    <2>2. t \in Seq(Answer) /\ Len(t) = Len(asked) + 1
      BY <1>2
    <2>3. \A i \in 1 .. Len(t) : t[i] = IF i = 1 THEN new ELSE asked[i - 1]
      BY <1>2
    <2>4. asked' = SubSeq(t, 1, n)
      OBVIOUS
    <2> HIDE DEF n, t
    <2>5. SubSeq(t, 1, n) \in Seq(Answer) /\ Len(SubSeq(t, 1, n)) = n
      BY <1>2, <2>1, <2>2
    <2>6. \A i \in 1 .. n : SubSeq(t, 1, n)[i] = t[i]
      BY <1>2, <2>1, <2>2
    <2>7. ASSUME NEW j \in 1 .. n
          PROVE  asked'[j] = IF j = 1 THEN new ELSE asked[j - 1]
      <3>1. j \in 1 .. Len(t)
        BY <1>2, <2>1, <2>2, <2>7
      <3> QED
        BY <2>3, <2>4, <2>6, <2>7, <3>1
    <2>8. Len(asked') = n /\ asked' \in Seq(Answer)
      BY <2>4, <2>5
    <2> QED
      BY <2>7, <2>8, Zenon DEF n
  <1>7. Len(asked') <= m_delay + 1
    BY <1>1, <1>2, <1>6
  <1>8. ASSUME NEW k \in 1 .. m_delay - 1
        PROVE  Slot(k)' = Slot(k - 1) /\ Slot(k - 1) # m_head' /\ Slot(k - 1) \in 0 .. Ring - 1
    <2>1. Slot(k)' = IF m_head' >= k THEN m_head' - k ELSE m_head' - k + Ring
      BY <1>1 DEF Slot
    <2>2. Slot(k - 1) = IF m_head >= k - 1 THEN m_head - (k - 1) ELSE m_head - (k - 1) + Ring
      BY DEF Slot
    <2> DEFINE h == m_head
               R == Ring
    <2>3. /\ k \in Int /\ 1 <= k /\ k <= R - 1 /\ h \in Int /\ 0 <= h /\ h <= R - 1 /\ R \in Int
          /\ h' = (IF h + 1 = R THEN 0 ELSE h + 1)
      BY <1>1, <1>2, <1>3, <1>8
    <2> HIDE DEF h, R
    <2>4. /\ Slot(k)' = (IF h' >= k THEN h' - k ELSE h' - k + R)
          /\ Slot(k - 1) = (IF h >= k - 1 THEN h - (k - 1) ELSE h - (k - 1) + R)
      BY <2>1, <2>2, Zenon DEF h, R
    <2>5. Slot(k)' = Slot(k - 1) /\ Slot(k - 1) # h' /\ Slot(k - 1) \in 0 .. R - 1
      BY <2>3, <2>4
    <2> QED
      BY <2>5, Zenon DEF h, R
  <1>9. ASSUME NEW k \in 1 .. m_delay
        PROVE  Due(k)' = Due(k - 1)
    <2>1. k \in Int /\ 1 <= k /\ k <= m_delay /\ m_delay \in Int /\ Len(asked') \in Nat
      BY <1>1, <1>6, <1>9
    <2>2. k < Len(asked') <=> k - 1 < Len(asked)
      BY <1>2, <1>6, <2>1
    <2>3. ASSUME k < Len(asked')
          PROVE  asked'[k + 1] = asked[(k - 1) + 1]
      <3>1. k + 1 \in 1 .. Len(asked') /\ k + 1 # 1 /\ (k + 1) - 1 = (k - 1) + 1
        BY <2>1, <2>3
      <3> QED
        BY <1>6, <3>1
    <2> QED
      BY <2>2, <2>3 DEF Due, NoAnswer, NoWord, Word
  <1>10. ASSUME NEW k \in 0 .. m_delay - 1
         PROVE  m_fifo'[Slot(k)'] = Due(k)'
    <2>1. CASE k = 0
      <3>1. Slot(k)' = m_head'
        BY <1>1, <1>3, <2>1 DEF Slot
      <3>2. m_fifo'[m_head'] = new
        BY <1>2, <1>3
      <3>3. Due(k)' = new
        BY <1>1, <1>2, <1>6, <2>1 DEF Due
      <3> QED
        BY <3>1, <3>2, <3>3
    <2>2. CASE k # 0
      <3>1. k \in 1 .. m_delay - 1 /\ k \in 1 .. m_delay /\ k - 1 \in 0 .. m_delay - 1
        BY <1>1, <1>10, <2>2
      <3>2. m_fifo'[Slot(k - 1)] = m_fifo[Slot(k - 1)]
        BY <1>2, <1>8, <3>1
      <3>3. m_fifo[Slot(k - 1)] = Due(k - 1)
        BY <3>1 DEF MemInv
      <3> QED
        BY <1>8, <1>9, <3>1, <3>2, <3>3
    <2> QED
      BY <2>1, <2>2
  <1>11. AckedInTime'
    <2>1. o_ack' = Due(m_delay)'.ack /\ o_data' = Due(m_delay)'.data
      <3>1. m_delay \in 1 .. m_delay
        BY <1>1
      <3>2. Due(m_delay)' = Due(m_delay - 1)
        BY <1>9, <3>1
      <3> QED
        BY <1>5, <3>2, Zenon
    <2>2. Due(m_delay)' = IF Len(asked') = m_delay + 1 THEN asked'[m_delay + 1] ELSE NoAnswer
      <3>1. m_delay < Len(asked') <=> Len(asked') = m_delay + 1
        BY <1>1, <1>2, <1>6, <1>7
      <3> QED
        BY <3>1 DEF Due, NoAnswer, NoWord, Word
    <2> QED
      BY <2>1, <2>2 DEF AckedInTime, NoAnswer, NoWord, Word
  <1>12. m_fifo' \in [0 .. Ring - 1 -> Answer]
    BY <1>2, <1>3
  <1> QED
    BY <1>1, <1>3, <1>6, <1>7, <1>10, <1>11, <1>12 DEF MemInv, m_mask

\* What apply() stores is a word, and so is what it leaves in the memory.
LEMMA ApplyStep ==
  ASSUME MemInv, NEW stb \in BOOLEAN, NEW we \in BOOLEAN, NEW a \in Int, NEW w \in Word, NEW sel,
         apply(stb, we, a, w, sel)
  PROVE  MemInv'
  <1> DEFINE i   == a % (m_mask + 1)
             mem == IF stb /\ we THEN Merged(a, w, sel) ELSE memsim_mem
             new == IF stb THEN [ack |-> TRUE, data |-> mem[i]] ELSE NoAnswer
  <1>1. i \in 0 .. m_mask
    <2>1. m_mask + 1 \in Powers /\ (m_mask + 1) - 1 = m_mask
      BY Sizes DEF MemInv
    <2>2. i \in 0 .. (m_mask + 1) - 1
      BY <2>1, Masked, Zenon
    <2> QED
      BY <2>1, <2>2
  <1>2. Merged(a, w, sel) \in [0 .. m_mask -> Word]
    <2>1. memsim_mem \in [0 .. m_mask -> Word] /\ memsim_mem[i] \in Word
      BY <1>1 DEF MemInv
    <2> DEFINE u == [h \in {"hi", "lo"} |-> IF h \in sel THEN w[h] ELSE memsim_mem[i][h]]
    <2>2. u \in Word
      BY <2>1 DEF Word
    <2>3. Merged(a, w, sel) = [memsim_mem EXCEPT ![i] = u]
      BY <2>1 DEF Merged
    <2> HIDE DEF u, i
    <2> QED
      BY <1>1, <2>1, <2>2, <2>3
  <1>3. mem \in [0 .. m_mask -> Word]
    BY <1>2 DEF MemInv
  <1>4. new \in Answer
    <2>1. NoAnswer \in Answer /\ mem[i] \in Word
      BY <1>1, <1>3, Sizes DEF MemInv
    <2> HIDE DEF mem, i
    <2> QED
      BY <2>1 DEF Answer
  <1>5. /\ memsim_mem' = mem
        /\ m_fifo' = [m_fifo EXCEPT ![(m_head + 1) % Ring] = new]
        /\ m_head' = (m_head + 1) % Ring
        /\ o_ack' = m_fifo[(m_head + 1 - m_delay) % Ring].ack
        /\ o_data' = m_fifo[(m_head + 1 - m_delay) % Ring].data
        /\ asked' = SubSeq(<<new>> \o asked, 1, IF Len(asked) < m_delay + 1 THEN Len(asked) + 1 ELSE m_delay + 1)
        /\ m_delay' = m_delay
    BY DEF apply
  <1> HIDE DEF mem, new
  <1> QED
    BY <1>3, <1>4, <1>5, RingStep

\* The ring as the constructor leaves it.
LEMMA MemStarts ==
  ASSUME MemInit
  PROVE  MemInv
  <1>1. /\ m_delay \in Nat /\ m_delay >= 1 /\ Ring \in Nat /\ Ring >= m_delay /\ NoWord \in Word
        /\ NoAnswer \in Answer
    BY Sizes DEF MemInit
  <1>2. /\ m_head \in 0 .. Ring - 1 /\ memsim_mem \in [0 .. m_mask -> Word]
        /\ m_fifo \in [0 .. Ring - 1 -> Answer] /\ asked \in Seq(Answer)
        /\ Len(asked) = 0
    BY <1>1 DEF MemInit
  <1>3. \A k \in 0 .. m_delay - 1 : m_fifo[Slot(k)] = Due(k)
    <2> TAKE k \in 0 .. m_delay - 1
    <2>1. Slot(k) \in 0 .. Ring - 1
      BY <1>1, <1>2 DEF Slot
    <2> QED
      BY <1>1, <1>2, <2>1 DEF MemInit, Due
  <1>4. AckedInTime
    <2>1. Len(asked) # m_delay + 1
      BY <1>1, <1>2
    <2> QED
      BY <2>1, Zenon DEF MemInit, AckedInTime, NoAnswer
  <1> QED
    BY <1>1, <1>2, <1>3, <1>4 DEF MemInv, MemInit

\* apply() acknowledges a request just m_delay clocks after it was made, with the word of
\* that time, for every delay and every size of the memory.
THEOREM MemoryAnswersInTime == MemSpec => []AckedInTime
  <1>1. MemInit => MemInv
    BY MemStarts
  <1>2. MemInv /\ [MemNext]_memvars => MemInv'
    <2> SUFFICES ASSUME MemInv, [MemNext]_memvars
                 PROVE  MemInv'
      OBVIOUS
    <2> NoWord \in Word /\ 0 \in Int /\ \A a \in 0 .. NWords - 1 : a \in Int
      BY Sizes DEF MemInv
    <2>1. CASE apply(FALSE, FALSE, 0, NoWord, {})
      BY <2>1, ApplyStep, Zenon
    <2>2. ASSUME NEW a \in 0 .. NWords - 1, apply(TRUE, FALSE, a, NoWord, {})
          PROVE  MemInv'
      BY <2>2, ApplyStep, Zenon
    <2>3. ASSUME NEW a \in 0 .. NWords - 1, NEW w \in Word, NEW sel \in SUBSET {"hi", "lo"},
                 apply(TRUE, TRUE, a, w, sel)
          PROVE  MemInv'
      BY <2>3, ApplyStep, Zenon
    <2>4. CASE UNCHANGED memvars
      BY <2>4 DEF memvars, MemInv, AckedInTime, Slot, Due, Ring, m_mask, NoAnswer
    <2> QED
      BY <2>1, <2>2, <2>3, <2>4 DEF MemNext
  <1>3. MemInv => AckedInTime
    BY DEF MemInv
  <1> QED
    BY <1>1, <1>2, <1>3, PTL DEF MemSpec

-----------------------------------------------------------------------------
\* The registers that hold one bit.
BusBits ==
  /\ mem_valid \in BOOLEAN /\ cpu_reset \in BOOLEAN /\ r_reset \in BOOLEAN
  /\ last_valid \in BOOLEAN /\ a_cyc \in BOOLEAN /\ a_stb \in BOOLEAN
  /\ b_cyc \in BOOLEAN /\ b_stb \in BOOLEAN /\ b_failed \in BOOLEAN
  /\ r_a_owner \in BOOLEAN /\ o_dly_cyc \in BOOLEAN /\ o_dly_stb \in BOOLEAN
  /\ r_stb \in BOOLEAN /\ o_wb_ack \in BOOLEAN /\ o_wb_err \in BOOLEAN
  /\ wb_ack \in BOOLEAN /\ wb_many_ack \in BOOLEAN

\* The ones that hold a request, or an answer.
Carried == AllRequests \cup {NoReq}

BusWords ==
  /\ mem_req \in AllRequests /\ a_req \in AllRequests /\ b_req \in AllRequests
  /\ o_dly_req \in AllRequests /\ r_req \in AllRequests
  /\ o_wb_data \in Carried /\ wb_idata \in Carried /\ b_owed \in Seq(Carried)
  /\ r_wb_bus_select \in Slave
  /\ taken \in [Slave -> Carried]
  /\ acks \in [Slave -> Carried]

\* What is on its way, the oldest first: the answer before the master, the one before
\* the bus delay, what the slave of this bus cycle acknowledges and what it works on,
\* the request before the slaves and the one behind it.
One(b, x) == IF b THEN <<x>> ELSE <<>>
Answering == IF o_req.s \in Slave THEN acks[o_req.s] ELSE NoReq
Working   == IF o_req.s \in Slave THEN taken[o_req.s] ELSE NoReq

AtMaster == One(o_wb_ack, o_wb_data)
AtDelay  == One(wb_ack, wb_idata)
AtAck    == One(Answering # NoReq, Answering)
AtWork   == One(Working # NoReq, Working)
AtSlave  == One(o_dly_stb, o_dly_req)
Behind   == One(r_stb, r_req)

OnTheWay == AtDelay \o (AtAck \o (AtWork \o (AtSlave \o Behind)))
InFlight == AtMaster \o OnTheWay

\* The request that the bus delay takes from its master now.
Added == One(o_stb /\ ~r_stb, o_req)

\* What the owner of the bus waits for.
Owed == IF r_a_owner THEN One(a_cyc /\ ~a_stb, a_req) ELSE b_owed

\* No slave has anything to do or to say.
Quiet == ~wb_ack /\ \A s \in Slave : acks[s] = NoReq /\ taken[s] = NoReq

\* In a bus cycle that has not failed the owner waits for what is in flight; after an
\* error, and between two bus cycles, no slave is at work.
QueueInv ==
  /\ o_cyc /\ ~o_wb_err => InFlight = Owed
  /\ o_wb_err => Quiet /\ ~o_wb_ack /\ ~o_dly_stb /\ ~r_stb /\ ~o_dly_cyc
  /\ ~o_cyc => Quiet /\ (o_dly_stb => o_dly_req.s = "none")

\* Only the slave of this bus cycle is at work, and the decoder has selected it.
SlavesInv ==
  /\ \A s \in Slave : acks[s] # NoReq \/ taken[s] # NoReq
                        => s = o_req.s /\ s = r_wb_bus_select /\ o_dly_cyc
  /\ wb_ack => o_dly_cyc
  /\ ~wb_many_ack
  /\ taken["sio"] = NoReq

DelayInv ==
  /\ o_dly_stb => o_dly_cyc /\ (o_cyc => o_dly_req.s = o_req.s)
  /\ r_stb => o_dly_stb /\ (o_cyc => r_req.s = o_req.s)

\* A master without the bus waits for nothing; only addresses of no slave fail.
MastersInv ==
  /\ r_a_owner => b_owed = <<>>
  /\ ~r_a_owner /\ a_cyc => a_stb
  /\ ~r_a_owner /\ o_wb_err => b_cyc /\ b_req.s = "none"
  /\ b_cyc /\ b_failed => /\ ~r_a_owner /\ b_req.s = "none"
                          /\ ~o_dly_stb /\ ~o_wb_err /\ ~o_wb_ack

\* The processor is reset by a write to "sio": no request of its own that some other
\* slave works on is cut short.
ResetInv ==
  /\ cpu_reset /\ ~r_reset => o_cyc /\ o_dly_cyc /\ acks["sio"] # NoReq
  /\ r_reset /\ a_cyc => o_cyc /\ wb_ack

\* The inductive invariant.
BusInv ==
  BusBits /\ BusWords /\ QueueInv /\ SlavesInv /\ DelayInv /\ MastersInv /\ ResetInv

-----------------------------------------------------------------------------
\* The next values of the registers, one by one.
LEMMA DelayMoves ==
  ASSUME BusBits, NEW ready \in BOOLEAN, Clock(ready)
  PROVE  /\ o_dly_cyc' <=> o_cyc /\ ~o_wb_err /\ (~wb_err \/ ~o_dly_cyc)
         /\ o_dly_stb' <=> /\ o_cyc /\ ~o_wb_err /\ (~wb_err \/ ~o_dly_cyc)
                           /\ (~wb_stall \/ ~o_dly_stb => r_stb \/ o_stb)
         /\ r_stb' <=> /\ o_cyc /\ ~o_wb_err /\ (~wb_err \/ ~o_dly_cyc)
                       /\ wb_stall /\ o_dly_stb /\ (r_stb \/ o_stb)
         /\ o_dly_req' = IF wb_stall /\ o_dly_stb THEN o_dly_req ELSE IF r_stb THEN r_req ELSE o_req
         /\ r_req' = IF (~wb_stall \/ ~o_dly_stb) \/ ~r_stb THEN o_req ELSE r_req
         /\ o_wb_ack' <=> o_cyc /\ ~o_wb_err /\ wb_ack /\ o_dly_cyc /\ ~wb_err
         /\ o_wb_err' <=> o_cyc /\ wb_err /\ o_dly_cyc
         /\ o_wb_data' = wb_idata
  <1>1. DelayEdge(FALSE, o_cyc, o_stb, o_req, wb_stall, wb_ack, wb_err, wb_idata)
    BY DEF Clock
  <1>2. QED
    BY <1>1, Zenon DEF DelayEdge, NxtCyc, NxtStb, NxtReq, NxtReply, Flush, Free

LEMMA BitsStep ==
  ASSUME BusBits, NEW ready \in BOOLEAN, Clock(ready)
  PROVE  BusBits'
  <1>1. /\ o_dly_cyc' \in BOOLEAN /\ o_dly_stb' \in BOOLEAN /\ r_stb' \in BOOLEAN
        /\ o_wb_ack' \in BOOLEAN /\ o_wb_err' \in BOOLEAN
    BY Zenon DEF Clock, DelayEdge, NxtCyc, NxtStb, NxtReply
  <1>2. wb_ack' \in BOOLEAN /\ wb_many_ack' \in BOOLEAN /\ r_a_owner' \in BOOLEAN
    BY Zenon DEF Clock, NxtAck, NxtOwner
  <1>3. /\ mem_valid' \in BOOLEAN /\ cpu_reset' \in BOOLEAN /\ r_reset' \in BOOLEAN
        /\ last_valid' \in BOOLEAN /\ a_cyc' \in BOOLEAN /\ a_stb' \in BOOLEAN
    BY Zenon DEF Clock, CpuEdge, NxtCore, NxtReset, NxtCpuCyc, BusBits
  <1>4. b_cyc' \in BOOLEAN /\ b_stb' \in BOOLEAN /\ b_failed' \in BOOLEAN
    BY Zenon DEF Clock, DebugEdge, DebugStarts, DebugStartsAgain, DebugIdles, DebugEnds,
                 DebugStalls, DebugGoesOn, DebugFails, BusBits
  <1>5. QED
    BY <1>1, <1>2, <1>3, <1>4, Zenon DEF BusBits

\* Before the slaves nothing but the slave of the address is selected.
LEMMA SlaveTypes ==
  ASSUME BusWords, NEW ready \in BOOLEAN, Clock(ready)
  PROVE  /\ acks'["sio"] = Given("sio") /\ taken'["sio"] = taken["sio"]
         /\ acks'["bkram"] = (IF o_dly_cyc THEN taken["bkram"] ELSE NoReq)
         /\ taken'["bkram"] = Given("bkram")
         /\ acks'["uart"] = taken["uart"] /\ taken'["uart"] = Given("uart")
         /\ acks'["flash"] = (IF o_dly_cyc /\ ready THEN taken["flash"] ELSE NoReq)
         /\ taken'["flash"] = (IF ~o_dly_cyc \/ ready THEN NoReq
                               ELSE IF taken["flash"] = NoReq THEN Given("flash") ELSE taken["flash"])
         /\ taken' \in [Slave -> Carried]
         /\ acks' \in [Slave -> Carried]
  <1>1. \A s \in Slave : Given(s) \in Carried
    BY DEF Given, BusWords, Carried
  <1>2. SlaveEdge(ready)
    BY DEF Clock
  <1>3. QED
    BY <1>1, <1>2 DEF SlaveEdge, Slave, BusWords, Carried

LEMMA OwedSeq ==
  ASSUME BusWords, NEW ready \in BOOLEAN, Clock(ready)
  PROVE  b_owed' \in Seq(Carried)
  <1>1. (IF o_b_ack /\ b_owed # <<>> THEN Tail(b_owed) ELSE b_owed) \in Seq(Carried)
    BY SeqEnds DEF BusWords
  <1>2. (IF b_stb /\ ~o_b_stall THEN <<b_req>> ELSE <<>>) \in Seq(Carried)
    <2>1. b_req \in Carried
      BY DEF BusWords, Carried
    <2>2. QED
      BY <2>1
  <1>3. <<>> \in Seq(Carried)
    OBVIOUS
  <1>4. QED
    BY <1>1, <1>2, <1>3, SeqJoin, Zenon DEF Clock, DebugEdge, NxtOwed

LEMMA WordsStep ==
  ASSUME BusBits, BusWords, NEW ready \in BOOLEAN, Clock(ready)
  PROVE  BusWords'
  <1>1. mem_req' \in AllRequests /\ a_req' \in AllRequests
    BY DEF Clock, CpuEdge, NxtCore, AllRequests, BusWords
  <1>2. b_req' \in AllRequests
    BY DEF Clock, DebugEdge, DebugStarts, DebugStartsAgain, DebugIdles, DebugEnds,
           DebugStalls, DebugGoesOn, DebugFails, BusWords, AllRequests
  <1>3. o_dly_req' \in AllRequests /\ r_req' \in AllRequests
    <2>1. o_req \in AllRequests
      BY DEF o_req, BusWords
    <2>2. QED
      BY <2>1, DelayMoves, Zenon DEF BusWords
  <1>4. r_wb_bus_select' \in Slave
    <2>1. o_dly_req.s \in Slave \cup {"none"}
      BY DEF BusWords, AllRequests, Requests
    <2>2. QED
      BY <2>1 DEF Clock, NxtData, BusWords
  <1>5. wb_idata' \in Carried /\ o_wb_data' \in Carried
    BY DelayMoves DEF Clock, NxtData, BusWords
  <1>6. QED
    BY <1>1, <1>2, <1>3, <1>4, <1>5, SlaveTypes, OwedSeq DEF BusWords

\* A master in its bus cycle stays with the slave; the owner keeps the bus.
LEMMA OwnerStays ==
  ASSUME BusBits, NEW ready \in BOOLEAN, Clock(ready)
  PROVE  /\ r_a_owner /\ a_cyc => r_a_owner'
         /\ ~r_a_owner /\ b_cyc => ~r_a_owner'
         /\ ~r_a_owner /\ ~b_cyc => r_a_owner'
  BY Zenon DEF Clock, NxtOwner

LEMMA SlaveStays ==
  ASSUME BusBits, BusWords, ~Crossing, NEW ready \in BOOLEAN, Clock(ready)
  PROVE  o_cyc => r_a_owner' = r_a_owner /\ o_req'.s = o_req.s
  <1>1. a_cyc => a_req' = a_req
    BY DEF Clock, CpuEdge, BusBits
  <1>2. b_cyc => b_req'.s = b_req.s
    BY DEF Clock, DebugEdge, DebugStarts, DebugStartsAgain, DebugIdles, DebugEnds,
           DebugStalls, DebugGoesOn, DebugFails, BusBits
  <1>3. o_cyc => r_a_owner' = r_a_owner
    BY OwnerStays, BitsStep DEF o_cyc, BusBits
  <1>4. QED
    BY <1>1, <1>2, <1>3 DEF o_req, o_cyc

-----------------------------------------------------------------------------
\* Queues of answers and requests.
Grouped(a, b, c) == (a \o b) \o c = a \o (b \o c)

LEMMA Grouping ==
  ASSUME NEW a \in Seq(Carried), NEW b \in Seq(Carried), NEW c \in Seq(Carried)
  PROVE  a \o b \in Seq(Carried) /\ Grouped(a, b, c)
  <1>1. a \o b \in Seq(Carried)
    OBVIOUS
  <1>2. Grouped(a, b, c)
    BY SeqJoinThree DEF Grouped
  <1>3. QED
    BY <1>1, <1>2

Regrouped(b, c, d, e, f, n) ==
  (b \o (c \o (d \o (e \o f)))) \o n = b \o (c \o (d \o (e \o (f \o n))))

LEMMA RegroupFive ==
  ASSUME NEW b \in Seq(Carried), NEW c \in Seq(Carried), NEW d \in Seq(Carried),
         NEW e \in Seq(Carried), NEW f \in Seq(Carried), NEW n \in Seq(Carried)
  PROVE  Regrouped(b, c, d, e, f, n)
  <1> DEFINE ef == e \o f
             def == d \o ef
             cdef == c \o def
  <1>1. ef \in Seq(Carried) /\ Grouped(e, f, n)
    BY Grouping, Zenon
  <1> HIDE DEF ef
  <1>2. def \in Seq(Carried) /\ Grouped(d, ef, n)
    BY <1>1, Grouping, Zenon
  <1> HIDE DEF def
  <1>3. cdef \in Seq(Carried) /\ Grouped(c, def, n)
    BY <1>2, Grouping, Zenon
  <1> HIDE DEF cdef
  <1>4. Grouped(b, cdef, n)
    BY <1>3, Grouping, Zenon
  <1>5. QED
    BY <1>1, <1>2, <1>3, <1>4, Zenon DEF ef, def, cdef, Grouped, Regrouped

LEMMA NoneLeft ==
  ASSUME NEW a \in Seq(Carried)
  PROVE  <<>> \o a = a /\ a \o <<>> = a
  BY SeqJoinEmpty

LEMMA TailOfCarried ==
  ASSUME NEW x \in Carried, NEW t \in Seq(Carried)
  PROVE  <<x>> \o t # <<>> /\ Tail(<<x>> \o t) = t /\ Head(<<x>> \o t) = x
  <1>1. <<x>> \o t \in Seq(Carried) /\ Len(<<x>> \o t) = 1 + Len(t)
    BY SeqJoin
  <1>2. \A i \in 1 .. 1 + Len(t) : (<<x>> \o t)[i] = IF i <= 1 THEN x ELSE t[i - 1]
    BY SeqJoin
  <1>3. Len(t) \in Nat
    BY SeqEmpty
  <1>4. <<x>> \o t # <<>>
    BY <1>1, <1>3, SeqEmpty
  <1>5. Tail(<<x>> \o t) = t
    BY <1>1, <1>2, <1>3, <1>4, SeqEnds, SeqSame
  <1>6. Head(<<x>> \o t) = x
    BY <1>1, <1>2, <1>3
  <1>7. QED
    BY <1>4, <1>5, <1>6

LEMMA ConcatOne ==
  ASSUME NEW s \in Seq(Carried), NEW t \in Seq(Carried), NEW x
  PROVE  /\ s \o t = <<>> => s = <<>> /\ t = <<>>
         /\ s \o t = <<x>> /\ s # <<>> => s = <<x>> /\ t = <<>>
  <1>1. s \o t = <<>> => s = <<>> /\ t = <<>>
    BY SeqJoinNone
  <1>2. ASSUME s \o t = <<x>>, s # <<>> PROVE s = <<x>> /\ t = <<>>
    <2>1. Len(s) \in Nat \ {0} /\ Len(t) \in Nat
      BY <1>2, SeqEmpty
    <2>2. Len(s) + Len(t) = 1
      BY <1>2, SeqJoin
    <2>3. t = <<>>
      BY <2>1, <2>2, SeqEmpty
    <2>4. QED
      BY <1>2, <2>3, SeqJoinEmpty
  <1>3. QED
    BY <1>1, <1>2

-----------------------------------------------------------------------------
Stages ==
  /\ AtMaster \in Seq(Carried) /\ AtDelay \in Seq(Carried) /\ AtAck \in Seq(Carried)
  /\ AtWork \in Seq(Carried) /\ AtSlave \in Seq(Carried) /\ Behind \in Seq(Carried)
  /\ Added \in Seq(Carried) /\ OnTheWay \in Seq(Carried)

LEMMA StagesSeq == BusBits /\ BusWords => Stages
  <1> SUFFICES ASSUME BusBits, BusWords PROVE Stages
    OBVIOUS
  <1>1. /\ o_wb_data \in Carried /\ wb_idata \in Carried /\ Answering \in Carried /\ Working \in Carried
        /\ o_dly_req \in Carried /\ r_req \in Carried /\ o_req \in Carried
    BY DEF BusWords, Carried, Answering, Working, o_req
  <1>2. \A x \in Carried : <<x>> \in Seq(Carried)
    OBVIOUS
  <1>3. /\ AtMaster \in Seq(Carried) /\ AtDelay \in Seq(Carried) /\ AtAck \in Seq(Carried)
        /\ AtWork \in Seq(Carried) /\ AtSlave \in Seq(Carried) /\ Behind \in Seq(Carried)
        /\ Added \in Seq(Carried)
    BY <1>1, <1>2 DEF AtMaster, AtDelay, AtAck, AtWork, AtSlave, Behind, Added, One
  <1>4. AtSlave \o Behind \in Seq(Carried)
    BY <1>3, Grouping, Zenon
  <1>5. AtWork \o (AtSlave \o Behind) \in Seq(Carried)
    BY <1>3, <1>4, Grouping, Zenon
  <1>6. AtAck \o (AtWork \o (AtSlave \o Behind)) \in Seq(Carried)
    BY <1>3, <1>5, Grouping, Zenon
  <1>7. OnTheWay \in Seq(Carried)
    BY <1>3, <1>6, Grouping, Zenon DEF OnTheWay
  <1>8. QED
    BY <1>3, <1>7 DEF Stages

\* A clock of a bus cycle without an error.
Flows(ready) ==
  /\ BusInv /\ ~Crossing /\ ready \in BOOLEAN /\ Clock(ready)
  /\ o_cyc /\ ~o_wb_err /\ ~wb_none_sel

\* The bus delay passes the requests on.
LEMMA RequestsMove ==
  ASSUME NEW ready, Flows(ready)
  PROVE  /\ ~(wb_stall /\ o_dly_stb) => AtSlave' \o Behind' = Behind \o Added
         /\ wb_stall \/ ~o_dly_stb => AtSlave' \o Behind' = AtSlave \o (Behind \o Added)
  <1>1. /\ o_dly_stb' <=> (~wb_stall \/ ~o_dly_stb => r_stb \/ o_stb)
        /\ r_stb' <=> wb_stall /\ o_dly_stb /\ (r_stb \/ o_stb)
        /\ o_dly_req' = IF wb_stall /\ o_dly_stb THEN o_dly_req ELSE IF r_stb THEN r_req ELSE o_req
        /\ r_req' = IF (~wb_stall \/ ~o_dly_stb) \/ ~r_stb THEN o_req ELSE r_req
        /\ r_stb => o_dly_stb
    BY DelayMoves DEF Flows, BusInv, SlavesInv, DelayInv, wb_err
  <1>2. o_dly_req \in Carried /\ r_req \in Carried /\ o_req \in Carried
    BY DEF Flows, BusInv, BusWords, Carried, o_req
  <1>3. \A x \in Carried : <<x>> \in Seq(Carried)
    OBVIOUS
  <1>4. \A x \in Seq(Carried) : <<>> \o x = x /\ x \o <<>> = x
    BY NoneLeft
  <1>5. CASE wb_stall /\ o_dly_stb /\ r_stb
    BY <1>1, <1>2, <1>3, <1>4, <1>5 DEF AtSlave, Behind, Added, One
  <1>6. CASE wb_stall /\ o_dly_stb /\ ~r_stb
    BY <1>1, <1>2, <1>3, <1>4, <1>6 DEF AtSlave, Behind, Added, One
  <1>7. CASE ~wb_stall /\ o_dly_stb
    BY <1>1, <1>2, <1>3, <1>4, <1>7 DEF AtSlave, Behind, Added, One
  <1>8. CASE ~o_dly_stb
    BY <1>1, <1>2, <1>3, <1>4, <1>8 DEF AtSlave, Behind, Added, One
  <1>9. QED
    BY <1>5, <1>6, <1>7, <1>8

\* So do the slaves, each in its own time.
LEMMA SlavesMove ==
  ASSUME NEW ready, Flows(ready)
  PROVE  AtAck' \o (AtWork' \o (AtSlave' \o Behind')) = AtWork \o (AtSlave \o (Behind \o Added))
  <1> DEFINE d == o_req.s
  <1>1. BusInv /\ BusBits /\ BusWords /\ ready \in BOOLEAN /\ Clock(ready) /\ ~Crossing /\ o_cyc
    BY DEF Flows, BusInv
  <1>2. o_req'.s = d /\ d \in Slave \cup {"none"}
    BY <1>1, SlaveStays DEF BusWords, o_req, AllRequests, Requests
  <1>3. (o_dly_stb => o_dly_req.s = d /\ o_dly_cyc) /\ o_dly_req # NoReq
    BY <1>1, BusAssumption DEF BusInv, DelayInv, BusWords, AllRequests
  <1>4. d \in Slave => Given(d) = IF o_dly_stb THEN o_dly_req ELSE NoReq
    BY <1>3 DEF Given, Selected
  <1>5. d \in Slave => (taken[d] # NoReq => o_dly_cyc)
    BY <1>1 DEF BusInv, SlavesInv
  <1>6. BusBits' /\ BusWords'
    BY <1>1, BitsStep, WordsStep
  <1>7. \A x \in Seq(Carried) : <<>> \o x = x
    BY NoneLeft
  <1>8. /\ AtSlave \o (Behind \o Added) \in Seq(Carried)
        /\ AtSlave' \o Behind' \in Seq(Carried) /\ Behind \o Added \in Seq(Carried)
        /\ AtWork' \o (AtSlave' \o Behind') \in Seq(Carried)
    <2>1. /\ AtSlave \in Seq(Carried) /\ Behind \in Seq(Carried) /\ Added \in Seq(Carried)
          /\ AtSlave' \in Seq(Carried) /\ Behind' \in Seq(Carried) /\ AtWork' \in Seq(Carried)
      <3>1. (BusBits /\ BusWords)' => Stages'
        BY StagesSeq, PTL
      <3>2. QED
        BY <1>1, <1>6, <3>1, StagesSeq DEF Stages
    <2>2. \A x, y \in Seq(Carried) : x \o y \in Seq(Carried)
      BY SeqJoin
    <2>3. QED
      BY <2>1, <2>2
  <1>9. CASE d \in {"bkram", "uart"}
    <2>1. Answering' = Working /\ Working' = (IF o_dly_stb THEN o_dly_req ELSE NoReq)
      BY <1>1, <1>2, <1>4, <1>5, <1>9, SlaveTypes DEF Answering, Working, Slave
    <2>2. AtAck' = AtWork /\ AtWork' = AtSlave
      BY <1>3, <2>1 DEF AtAck, AtWork, AtSlave, One
    <2>3. ~(wb_stall /\ o_dly_stb)
      BY <1>3, <1>9 DEF wb_stall
    <2>4. QED
      BY <2>2, <2>3, RequestsMove
  <1>10. CASE d = "sio"
    <2>1. /\ Working = NoReq /\ Working' = NoReq
          /\ Answering' = (IF o_dly_stb THEN o_dly_req ELSE NoReq)
      BY <1>1, <1>2, <1>4, <1>10, SlaveTypes DEF Answering, Working, Slave, BusInv, SlavesInv
    <2>2. AtAck' = AtSlave /\ AtWork = <<>> /\ AtWork' = <<>>
      BY <1>3, <2>1 DEF AtAck, AtWork, AtSlave, One
    <2>3. ~(wb_stall /\ o_dly_stb)
      BY <1>3, <1>10 DEF wb_stall
    <2>4. AtSlave' \o Behind' = Behind \o Added
      BY <2>3, RequestsMove
    <2>5. QED
      BY <1>7, <1>8, <2>2, <2>4
  <1>11. CASE d = "flash" /\ taken["flash"] = NoReq
    <2>1. /\ Working = NoReq /\ Answering' = NoReq
          /\ Working' = (IF o_dly_stb THEN o_dly_req ELSE NoReq)
      BY <1>1, <1>2, <1>3, <1>4, <1>11, SlaveTypes DEF Answering, Working, Slave, Clock
    <2>2. AtAck' = <<>> /\ AtWork = <<>> /\ AtWork' = AtSlave
      BY <1>3, <2>1 DEF AtAck, AtWork, AtSlave, One
    <2>3. ~wb_stall
      BY <1>11 DEF wb_stall
    <2>4. AtSlave' \o Behind' = Behind \o Added
      BY <2>3, RequestsMove
    <2>5. QED
      BY <1>7, <1>8, <2>2, <2>4
  <1>12. CASE d = "flash" /\ taken["flash"] # NoReq
    <2>1. wb_stall \/ ~o_dly_stb
      BY <1>3, <1>12 DEF wb_stall
    <2>2. AtSlave' \o Behind' = AtSlave \o (Behind \o Added)
      BY <2>1, RequestsMove
    <2>3. Working = taken["flash"] /\ o_dly_cyc
      BY <1>5, <1>12 DEF Working, Slave
    <2>4. CASE ready
      <3>1. Answering' = Working /\ Working' = NoReq
        BY <1>1, <1>2, <1>12, <2>3, <2>4, SlaveTypes DEF Answering, Working, Slave
      <3>2. AtAck' = AtWork /\ AtWork' = <<>>
        BY <3>1 DEF AtAck, AtWork, One
      <3>3. QED
        BY <1>7, <1>8, <2>2, <3>2
    <2>5. CASE ~ready
      <3>1. Answering' = NoReq /\ Working' = Working
        BY <1>1, <1>2, <1>12, <2>3, <2>5, SlaveTypes DEF Answering, Working, Slave
      <3>2. AtAck' = <<>> /\ AtWork' = AtWork
        BY <3>1 DEF AtAck, AtWork, One
      <3>3. QED
        BY <1>7, <1>8, <2>2, <3>2
    <2>6. QED
      BY <2>4, <2>5
  <1>13. CASE d = "none"
    <2>1. ~o_dly_stb
      BY <1>3, <1>13 DEF Flows, wb_none_sel, Selected
    <2>2. Working = NoReq /\ Answering' = NoReq /\ Working' = NoReq
      BY <1>2, <1>13 DEF Answering, Working, Slave
    <2>3. AtAck' = <<>> /\ AtWork = <<>> /\ AtWork' = <<>> /\ AtSlave = <<>>
      BY <2>1, <2>2 DEF AtAck, AtWork, AtSlave, One
    <2>4. AtSlave' \o Behind' = Behind \o Added
      BY <2>1, RequestsMove
    <2>5. QED
      BY <1>7, <1>8, <2>3, <2>4
  <1>14. QED
    BY <1>2, <1>9, <1>10, <1>11, <1>12, <1>13 DEF Slave

\* Together: what was on its way, and what is added, is in flight afterwards.
LEMMA FlightMoves ==
  ASSUME NEW ready, Flows(ready)
  PROVE  /\ InFlight' = OnTheWay \o Added /\ AtMaster' = AtDelay
         /\ o_dly_cyc' /\ ~o_wb_err' /\ (wb_ack' <=> Answering # NoReq)
  <1>1. BusInv /\ BusBits /\ BusWords /\ ready \in BOOLEAN /\ Clock(ready) /\ o_cyc /\ ~o_wb_err
    BY DEF Flows, BusInv
  <1>2. ~wb_err
    BY <1>1 DEF Flows, BusInv, SlavesInv, wb_err
  <1>3. o_dly_cyc' /\ ~o_wb_err' /\ (o_wb_ack' <=> wb_ack) /\ o_wb_data' = wb_idata
    BY <1>1, <1>2, DelayMoves DEF BusInv, SlavesInv
  <1>4. AtMaster' = AtDelay
    BY <1>3 DEF AtMaster, AtDelay, One
  <1>5. AtDelay' = AtAck /\ (wb_ack' <=> Answering # NoReq)
    <2>1. wb_ack' <=> o_dly_cyc /\ \E s \in Slave : acks[s] # NoReq
      BY <1>1, Zenon DEF Clock, NxtAck
    <2>2. \A s \in Slave : acks[s] # NoReq => s = o_req.s /\ s = r_wb_bus_select /\ o_dly_cyc
      BY <1>1 DEF BusInv, SlavesInv
    <2>3. wb_ack' <=> Answering # NoReq
      BY <2>1, <2>2 DEF Answering
    <2>4. Answering # NoReq => wb_idata' = Answering
      BY <1>1, <2>2 DEF Answering, Clock, NxtData
    <2>5. QED
      BY <2>3, <2>4 DEF AtDelay, AtAck, One
  <1>6. OnTheWay \o Added = AtDelay \o (AtAck \o (AtWork \o (AtSlave \o (Behind \o Added))))
    <2>1. Regrouped(AtDelay, AtAck, AtWork, AtSlave, Behind, Added)
      BY <1>1, StagesSeq, RegroupFive, Zenon DEF Stages
    <2>2. QED
      BY <2>1, Zenon DEF OnTheWay, Regrouped
  <1>7. QED
    BY <1>3, <1>4, <1>5, <1>6, SlavesMove DEF InFlight, OnTheWay

-----------------------------------------------------------------------------
\* When nothing is on its way every stage is empty.
NoneOnTheWay ==
  OnTheWay = <<>> => ~wb_ack /\ Answering = NoReq /\ Working = NoReq /\ ~o_dly_stb /\ ~r_stb

LEMMA EmptyStages == BusBits /\ BusWords => NoneOnTheWay
  <1> SUFFICES ASSUME BusBits, BusWords, OnTheWay = <<>>
               PROVE  ~wb_ack /\ Answering = NoReq /\ Working = NoReq /\ ~o_dly_stb /\ ~r_stb
    BY DEF NoneOnTheWay
  <1>1. \A x, y \in Seq(Carried) : x \o y \in Seq(Carried) /\ (x \o y = <<>> => x = <<>> /\ y = <<>>)
    BY SeqJoin, ConcatOne
  <1>2. /\ AtDelay \in Seq(Carried) /\ AtAck \in Seq(Carried)
        /\ AtWork \in Seq(Carried) /\ AtSlave \in Seq(Carried) /\ Behind \in Seq(Carried)
    BY StagesSeq DEF Stages
  <1>3. AtDelay = <<>> /\ AtAck = <<>> /\ AtWork = <<>> /\ AtSlave = <<>> /\ Behind = <<>>
    BY <1>1, <1>2 DEF OnTheWay
  <1>4. QED
    BY <1>3 DEF AtDelay, AtAck, AtWork, AtSlave, Behind, One

\* What the debugging bus waits for follows what is in flight.
LEMMA DebugFollows ==
  ASSUME BusInv, NEW ready, Clock(ready), ~r_a_owner, b_cyc, ~o_wb_err
  PROVE  b_owed' = OnTheWay \o Added
  <1>1. /\ BusBits /\ BusWords /\ b_cyc /\ InFlight = b_owed /\ ~o_wb_err
        /\ Clock(ready) /\ OnTheWay \in Seq(Carried) /\ AtMaster \in Seq(Carried)
    BY StagesSeq DEF BusInv, QueueInv, Owed, o_cyc, Stages
  <1>2. b_owed' = (IF o_b_ack /\ b_owed # <<>> THEN Tail(b_owed) ELSE b_owed) \o Added
    BY <1>1 DEF Clock, DebugEdge, NxtOwed, o_b_err, o_b_stall, o_wb_stall, Added, One, o_stb, o_req
  <1>3. CASE o_wb_ack
    <2>1. o_wb_data \in Carried /\ b_owed = <<o_wb_data>> \o OnTheWay
      BY <1>1, <1>3 DEF InFlight, AtMaster, One, BusWords
    <2>2. b_owed # <<>> /\ Tail(b_owed) = OnTheWay
      BY <1>1, <2>1, TailOfCarried
    <2>3. QED
      BY <1>2, <1>3, <2>2 DEF o_b_ack
  <1>4. CASE ~o_wb_ack
    <2>1. b_owed = OnTheWay
      BY <1>1, <1>4, NoneLeft DEF InFlight, AtMaster, One
    <2>2. QED
      BY <1>2, <1>4, <2>1 DEF o_b_ack
  <1>5. QED
    BY <1>1, <1>3, <1>4 DEF BusBits

\* The processor has one request at most.
LEMMA CpuFollows ==
  ASSUME NEW ready, Flows(ready), r_a_owner
  PROVE  /\ a_cyc' => Owed' = OnTheWay \o Added
         /\ ~a_cyc' => OnTheWay' = <<>>
  <1>1. /\ BusBits /\ BusWords /\ a_cyc /\ InFlight = One(~a_stb, a_req) /\ ~o_wb_err
        /\ Clock(ready) /\ OnTheWay \in Seq(Carried) /\ AtMaster \in Seq(Carried)
        /\ ready \in BOOLEAN
    BY StagesSeq DEF Flows, BusInv, QueueInv, Owed, o_cyc, Stages, One
  <1>2. /\ a_cyc' <=> ~r_reset /\ ~o_wb_ack
        /\ a_stb' <=> ~r_reset /\ a_stb /\ r_stb
        /\ a_req' = a_req /\ r_a_owner'
    <2>1. /\ a_cyc' <=> ~r_reset /\ ~o_wb_ack
          /\ a_stb' <=> ~r_reset /\ a_stb /\ r_stb
      BY <1>1 DEF Clock, CpuEdge, NxtCpuCyc, o_a_ack, o_a_err, o_a_stall, o_wb_stall, BusBits
    <2>2. a_req' = a_req /\ r_a_owner'
      BY <1>1, OwnerStays DEF Clock, CpuEdge
    <2>3. QED
      BY <2>1, <2>2
  <1>3. Owed' = One(a_cyc' /\ ~a_stb', a_req)
    BY <1>2 DEF Owed
  <1>4. Stages'
    <2>1. (BusBits /\ BusWords)' => Stages'
      BY StagesSeq, PTL
    <2>2. QED
      BY <1>1, <2>1, BitsStep, WordsStep
  <1>5. /\ InFlight' = OnTheWay \o Added /\ InFlight' = AtMaster' \o OnTheWay'
        /\ AtMaster' = AtDelay /\ AtDelay \in Seq(Carried)
    BY <1>1, FlightMoves, StagesSeq DEF InFlight, Stages
  <1>6. CASE a_stb
    <2>1. AtMaster = <<>> /\ OnTheWay = <<>>
      BY <1>1, <1>6, ConcatOne DEF InFlight, One
    <2>2. ~wb_ack /\ ~r_stb /\ ~o_wb_ack
      BY <1>1, <2>1, EmptyStages DEF NoneOnTheWay, AtMaster, One
    <2>3. ~r_reset
      BY <1>1, <2>2 DEF Flows, BusInv, ResetInv
    <2>4. Added = <<a_req>> /\ <<a_req>> \in Seq(Carried)
      BY <1>1, <1>6, <2>2 DEF Added, One, o_stb, o_req, BusWords, Carried
    <2>5. OnTheWay \o Added = <<a_req>>
      BY <2>1, <2>4, NoneLeft
    <2>6. QED
      BY <1>2, <1>3, <2>2, <2>3, <2>5 DEF One
  <1>7. CASE ~a_stb
    <2>1. AtMaster \o OnTheWay = <<a_req>> /\ Added = <<>> /\ OnTheWay \o Added = OnTheWay
      BY <1>1, <1>7, NoneLeft DEF InFlight, Added, One, o_stb
    <2>2. CASE o_wb_ack
      <3>1. AtMaster # <<>>
        BY <2>2 DEF AtMaster, One
      <3>2. OnTheWay = <<>>
        BY <1>1, <2>1, <3>1, ConcatOne
      <3>3. OnTheWay' = <<>>
        BY <1>4, <1>5, <2>1, <3>2, ConcatOne DEF Stages
      <3>4. QED
        BY <1>2, <2>2, <3>3
    <2>3. CASE ~o_wb_ack
      <3>1. OnTheWay = <<a_req>>
        BY <1>1, <2>1, <2>3, NoneLeft DEF AtMaster, One
      <3>2. ASSUME r_reset PROVE OnTheWay' = <<>>
        <4>1. AtDelay # <<>>
          BY <1>1, <3>2 DEF Flows, BusInv, ResetInv, AtDelay, One
        <4>2. AtDelay \o OnTheWay' = <<a_req>> /\ OnTheWay' \in Seq(Carried) /\ AtDelay \in Seq(Carried)
          BY <1>4, <1>5, <2>1, <3>1 DEF Stages
        <4>3. QED
          BY <4>1, <4>2, ConcatOne
      <3>3. QED
        BY <1>2, <1>3, <1>7, <2>1, <2>3, <3>1, <3>2 DEF One
    <2>4. QED
      BY <1>1, <2>2, <2>3 DEF BusBits
  <1>8. QED
    BY <1>1, <1>6, <1>7 DEF BusBits

\* The parts of the invariant that say which slave is at work.
LEMMA FlowSlaves ==
  ASSUME NEW ready, Flows(ready)
  PROVE  SlavesInv' /\ DelayInv'
  <1> DEFINE d == o_req.s
  <1>1. BusInv /\ BusBits /\ BusWords /\ ready \in BOOLEAN /\ Clock(ready) /\ o_cyc /\ ~o_wb_err
    BY DEF Flows, BusInv
  <1>2. o_req'.s = d /\ o_dly_cyc' /\ (wb_ack' <=> Answering # NoReq)
    BY <1>1, SlaveStays, FlightMoves DEF Flows
  <1>3. /\ o_dly_stb => o_dly_req.s = d /\ o_dly_cyc
        /\ r_stb => o_dly_stb /\ r_req.s = d
        /\ \A s \in Slave : acks[s] # NoReq \/ taken[s] # NoReq => s = d /\ s = r_wb_bus_select
    BY <1>1 DEF BusInv, DelayInv, SlavesInv
  <1>4. ASSUME NEW s \in Slave, acks'[s] # NoReq \/ taken'[s] # NoReq
        PROVE  s = d /\ s = r_wb_bus_select'
    <2>1. \/ taken[s] # NoReq
          \/ Given(s) # NoReq /\ (s = "flash" => taken["flash"] = NoReq)
      BY <1>1, <1>4, SlaveTypes DEF Slave
    <2>2. r_wb_bus_select' = IF o_dly_stb /\ ~wb_stall /\ o_dly_req.s # "none"
                             THEN o_dly_req.s ELSE r_wb_bus_select
      BY <1>1 DEF Clock, NxtData
    <2>3. QED
      BY <1>3, <2>1, <2>2 DEF Given, Selected, wb_stall, Slave
  <1>5. ~wb_many_ack'
    <2>1. wb_many_ack' <=> o_dly_cyc /\ \E s, t \in Slave : s # t /\ acks[s] # NoReq /\ acks[t] # NoReq
      BY <1>1, Zenon DEF Clock, NxtAck
    <2>2. QED
      BY <1>3, <2>1
  <1>6. taken'["sio"] = NoReq
    BY <1>1, SlaveTypes DEF BusInv, SlavesInv
  <1>7. SlavesInv'
    BY <1>2, <1>4, <1>5, <1>6 DEF SlavesInv
  <1>8. DelayInv'
    BY <1>1, <1>2, <1>3, DelayMoves DEF DelayInv
  <1>9. QED
    BY <1>7, <1>8

\* The queue, while the bus cycle goes on or as it ends.
LEMMA FlowQueue ==
  ASSUME NEW ready, Flows(ready)
  PROVE  QueueInv'
  <1>1. /\ BusInv /\ BusBits /\ BusWords /\ ready \in BOOLEAN /\ Clock(ready) /\ o_cyc /\ ~o_wb_err
        /\ MastersInv /\ DelayInv
    BY DEF Flows, BusInv
  <1>2. /\ InFlight' = OnTheWay \o Added /\ ~o_wb_err'
        /\ r_a_owner' = r_a_owner /\ o_req'.s = o_req.s
    BY <1>1, FlightMoves, SlaveStays DEF Flows
  <1>3. BusBits' /\ BusWords' /\ SlavesInv' /\ DelayInv'
    BY <1>1, BitsStep, WordsStep, FlowSlaves
  <1>4. Stages' /\ NoneOnTheWay' /\ (SlavesInv' /\ OnTheWay' = <<>> => Quiet' /\ ~o_dly_stb')
    <2>1. (BusBits /\ BusWords => Stages /\ NoneOnTheWay)'
      BY StagesSeq, EmptyStages, PTL
    <2>2. (SlavesInv /\ NoneOnTheWay /\ OnTheWay = <<>> => Quiet /\ ~o_dly_stb)'
      BY DEF SlavesInv, NoneOnTheWay, Quiet, Answering, Working
    <2>3. QED
      BY <1>3, <2>1, <2>2
  <1>5. CASE r_a_owner
    <2>1. o_cyc' <=> a_cyc'
      BY <1>2, <1>5 DEF o_cyc
    <2>2. QED
      BY <1>2, <1>3, <1>4, <1>5, <2>1, CpuFollows DEF QueueInv
  <1>6. CASE ~r_a_owner
    <2>1. (o_cyc' <=> b_cyc') /\ Owed' = b_owed' /\ b_cyc /\ o_req = b_req
      BY <1>1, <1>2, <1>6 DEF o_cyc, Owed, o_req
    <2>2. InFlight' = b_owed'
      BY <1>1, <1>2, <1>6, <2>1, DebugFollows
    <2>3. ASSUME ~b_cyc' PROVE Quiet' /\ (o_dly_stb' => o_dly_req'.s = "none")
      <3>1. b_owed' = <<>> \/ b_failed
        BY <1>1, <1>6, <2>1, <2>3 DEF Clock, DebugEdge, DebugStarts, DebugStartsAgain, DebugIdles,
              DebugEnds, DebugStalls, DebugGoesOn, DebugFails, o_b_err
      <3>2. CASE b_owed' = <<>>
        <4>1. OnTheWay' = <<>>
          BY <1>4, <2>2, <3>2, ConcatOne DEF Stages, InFlight
        <4>2. QED
          BY <1>3, <1>4, <4>1
      <3>3. CASE b_failed
        <4>1. b_req.s = "none" /\ ~o_dly_stb /\ ~r_stb
          BY <1>1, <2>1, <3>3 DEF MastersInv, DelayInv
        <4>2. o_req'.s = "none" /\ Answering = NoReq
          BY <1>2, <2>1, <4>1 DEF Answering, Slave
        <4>3. Quiet'
          BY <1>3, <4>2, FlightMoves DEF SlavesInv, Quiet, Slave
        <4>4. o_dly_req' = b_req
          BY <1>1, <2>1, <4>1, DelayMoves
        <4>5. QED
          BY <4>1, <4>3, <4>4
      <3>4. QED
        BY <3>1, <3>2, <3>3
    <2>4. QED
      BY <1>2, <2>1, <2>2, <2>3 DEF QueueInv
  <1>7. QED
    BY <1>1, <1>5, <1>6 DEF BusBits

-----------------------------------------------------------------------------
\* The two masters, at any clock.
LEMMA MastersStep ==
  ASSUME BusInv, ~Crossing, NEW ready \in BOOLEAN, Clock(ready)
  PROVE  MastersInv' /\ (r_a_owner \/ ~b_cyc \/ o_wb_err => b_owed' = <<>>)
  <1>1. BusBits /\ BusWords /\ MastersInv /\ QueueInv /\ SlavesInv /\ DelayInv
    BY DEF BusInv
  <1>2. r_a_owner \/ ~b_cyc \/ o_wb_err => b_owed' = <<>>
    <2>1. ~b_cyc \/ o_b_err => b_owed' = <<>>
      BY Zenon DEF Clock, DebugEdge, NxtOwed
    <2>2. ASSUME r_a_owner, b_cyc PROVE b_owed' = <<>>
      <3>1. b_owed' = b_owed \o <<>> /\ b_owed = <<>>
        BY <1>1, <2>2 DEF Clock, DebugEdge, NxtOwed, o_b_err, o_b_ack, o_b_stall, MastersInv
      <3>2. QED
        BY <1>1, <3>1, NoneLeft DEF BusWords
    <2>3. QED
      BY <1>1, <2>1, <2>2 DEF BusBits, o_b_err
  <1>3. r_a_owner' => b_owed' = <<>>
    BY <1>1, <1>2, OwnerStays DEF BusBits
  <1>4. ~r_a_owner' /\ a_cyc' => a_stb'
    <2>1. /\ a_cyc' <=> ~r_reset /\ IF a_cyc THEN ~o_a_ack /\ ~o_a_err ELSE mem_valid /\ ~last_valid
          /\ a_stb' <=> ~r_reset /\ IF a_cyc THEN a_stb /\ o_a_stall ELSE mem_valid /\ ~last_valid
      BY Zenon DEF Clock, CpuEdge, NxtCpuCyc
    <2>2. QED
      BY <1>1, <2>1, OwnerStays DEF MastersInv, o_a_stall, BusBits
  <1>5. ~r_a_owner' /\ o_wb_err' => b_cyc' /\ b_req'.s = "none"
    <2>1. SUFFICES ASSUME ~r_a_owner', o_wb_err' PROVE b_cyc' /\ b_req'.s = "none"
      OBVIOUS
    <2>2. o_cyc /\ o_dly_cyc /\ wb_none_sel
      BY <1>1, <2>1, DelayMoves DEF wb_err, SlavesInv
    <2>3. ~r_a_owner /\ b_cyc /\ o_dly_stb /\ ~o_wb_err /\ b_req.s = "none" /\ b_req'.s = "none"
      BY <1>1, <2>1, <2>2, OwnerStays, SlaveStays
         DEF BusBits, o_cyc, o_req, wb_none_sel, Selected, QueueInv, DelayInv
    <2>4. b_owed' # <<>>
      <3>1. OnTheWay # <<>>
        BY <1>1, <2>3, EmptyStages DEF NoneOnTheWay
      <3>2. QED
        BY <1>1, <2>3, <3>1, DebugFollows, StagesSeq, ConcatOne DEF Stages
    <2>5. b_cyc'
      BY <1>1, <2>3, <2>4 DEF Clock, DebugEdge, DebugStarts, DebugStartsAgain, DebugIdles, DebugEnds,
            DebugStalls, DebugGoesOn, DebugFails, o_b_err, MastersInv
    <2>6. QED
      BY <2>3, <2>5
  <1>6. b_cyc' /\ b_failed' => /\ ~r_a_owner' /\ b_req'.s = "none"
                              /\ ~o_dly_stb' /\ ~o_wb_err' /\ ~o_wb_ack'
    <2>1. SUFFICES ASSUME b_cyc', b_failed'
                   PROVE  ~r_a_owner' /\ b_req'.s = "none" /\ ~o_dly_stb' /\ ~o_wb_err' /\ ~o_wb_ack'
      OBVIOUS
    <2>2. b_cyc /\ o_b_err
      BY <1>1, <2>1 DEF Clock, DebugEdge, DebugStarts, DebugStartsAgain, DebugIdles, DebugEnds,
            DebugStalls, DebugGoesOn, DebugFails, BusBits
    <2>3. ~r_a_owner /\ o_wb_err /\ b_req.s = "none" /\ ~o_dly_cyc
      BY <1>1, <2>2 DEF o_b_err, MastersInv, QueueInv
    <2>4. QED
      BY <1>1, <2>2, <2>3, OwnerStays, SlaveStays, DelayMoves DEF o_cyc, o_req
  <1>7. QED
    BY <1>2, <1>3, <1>4, <1>5, <1>6 DEF MastersInv

\* The processor's reset.
LEMMA ResetStep ==
  ASSUME BusInv, NEW ready \in BOOLEAN, Clock(ready),
         (o_dly_stb /\ o_dly_req.s = "sio") \/ acks["sio"] # NoReq => Flows(ready) /\ QueueInv'
  PROVE  ResetInv'
  <1>1. BusBits /\ BusWords /\ DelayInv /\ ResetInv
    BY DEF BusInv
  <1>2. /\ cpu_reset' # cpu_reset => o_dly_stb /\ o_dly_req.s = "sio"
        /\ r_reset' = cpu_reset /\ (a_cyc' => ~r_reset)
    BY DEF Clock, CpuEdge, NxtReset, NxtCpuCyc
  <1>3. ASSUME cpu_reset', ~r_reset' PROVE o_cyc' /\ o_dly_cyc' /\ acks'["sio"] # NoReq
    <2>1. o_dly_stb /\ o_dly_req.s = "sio"
      BY <1>1, <1>2, <1>3 DEF BusBits
    <2>2. acks'["sio"] = o_dly_req /\ o_dly_req # NoReq
      BY <1>1, <2>1, SlaveTypes, BusAssumption DEF Given, Selected, BusWords, AllRequests
    <2>3. o_dly_cyc' /\ QueueInv'
      BY <2>1, FlightMoves
    <2>4. QED
      BY <2>2, <2>3 DEF QueueInv, Quiet, Slave
  <1>4. ASSUME r_reset', a_cyc' PROVE o_cyc' /\ wb_ack'
    <2>1. o_dly_cyc /\ acks["sio"] # NoReq
      BY <1>1, <1>2, <1>4 DEF ResetInv, BusBits
    <2>2. wb_ack'
      BY <2>1 DEF Clock, NxtAck, Slave
    <2>3. QED
      BY <2>1, <2>2 DEF QueueInv, Quiet
  <1>5. QED
    BY <1>3, <1>4 DEF ResetInv

\* A clock at which everything in flight is given up: there is no bus cycle, or it has
\* failed, or it fails now.
LEMMA FlushStep ==
  ASSUME BusInv, ~Crossing, NEW ready \in BOOLEAN, Clock(ready),
         ~o_cyc \/ o_wb_err \/ wb_none_sel
  PROVE  BusInv'
  <1>1. BusBits /\ BusWords /\ QueueInv /\ SlavesInv /\ DelayInv /\ MastersInv /\ ResetInv
    BY DEF BusInv
  <1>2. /\ \A s \in Slave : acks[s] = NoReq /\ taken[s] = NoReq
        /\ o_dly_stb => o_dly_req.s = "none"
    BY <1>1 DEF QueueInv, Quiet, SlavesInv, DelayInv, wb_none_sel, Selected, Slave
  <1>3. ~o_dly_cyc' /\ ~o_dly_stb' /\ ~r_stb' /\ ~o_wb_ack'
    BY <1>1, DelayMoves DEF wb_err, wb_none_sel, Selected, DelayInv
  <1>4. Quiet' /\ ~wb_many_ack'
    <2>1. \A s \in Slave : acks'[s] = NoReq /\ taken'[s] = NoReq
      <3>1. \A s \in Slave : Given(s) = NoReq
        BY <1>2 DEF Given, Selected, Slave
      <3>2. QED
        BY <1>1, <1>2, <3>1, SlaveTypes DEF Slave
    <2>2. ~wb_ack' /\ ~wb_many_ack'
      BY <1>2 DEF Clock, NxtAck
    <2>3. QED
      BY <2>1, <2>2 DEF Quiet
  <1>5. BusBits' /\ BusWords' /\ MastersInv'
    BY <1>1, BitsStep, WordsStep, MastersStep
  <1>6. SlavesInv' /\ DelayInv'
    BY <1>3, <1>4 DEF SlavesInv, DelayInv, Quiet, Slave
  <1>7. ResetInv'
    BY <1>2, ResetStep DEF Slave
  <1>8. ASSUME o_cyc', ~o_wb_err' PROVE InFlight' = Owed'
    <2>1. InFlight' = <<>>
      <3>1. Answering' = NoReq /\ Working' = NoReq
        BY <1>4 DEF Answering, Working, Quiet
      <3>2. /\ AtMaster' = <<>> /\ AtDelay' = <<>> /\ AtAck' = <<>>
            /\ AtWork' = <<>> /\ AtSlave' = <<>> /\ Behind' = <<>>
        BY <1>3, <1>4, <3>1
           DEF AtMaster, AtDelay, AtAck, AtWork, AtSlave, Behind, One, Quiet
      <3>3. <<>> \o <<>> = <<>>
        BY NoneLeft
      <3>4. QED
        BY <3>2, <3>3 DEF InFlight, OnTheWay
    <2>2. ~o_cyc \/ o_wb_err
      BY <1>1, <1>8, DelayMoves DEF wb_err, wb_none_sel, Selected, DelayInv
    <2>3. CASE r_a_owner'
      <3>1. a_cyc' => a_stb'
        <4>1. /\ a_cyc' <=> ~r_reset /\ IF a_cyc THEN ~o_a_ack /\ ~o_a_err ELSE mem_valid /\ ~last_valid
              /\ a_stb' <=> ~r_reset /\ IF a_cyc THEN a_stb /\ o_a_stall ELSE mem_valid /\ ~last_valid
          BY Zenon DEF Clock, CpuEdge, NxtCpuCyc
        <4>2. QED
          BY <1>1, <2>2, <4>1 DEF MastersInv, o_cyc, o_a_err, o_a_stall, BusBits
      <3>2. QED
        BY <2>1, <2>3, <3>1 DEF Owed, One
    <2>4. CASE ~r_a_owner'
      BY <1>1, <2>1, <2>2, <2>4, MastersStep DEF Owed, o_cyc, BusBits
    <2>5. QED
      BY <2>3, <2>4
  <1>9. QueueInv'
    BY <1>3, <1>4, <1>8 DEF QueueInv
  <1>10. QED
    BY <1>5, <1>6, <1>7, <1>9 DEF BusInv

LEMMA BusStep ==
  ASSUME BusInv, ~Crossing, NEW ready \in BOOLEAN, Clock(ready)
  PROVE  BusInv'
  <1>1. CASE o_cyc /\ ~o_wb_err /\ ~wb_none_sel
    <2>1. Flows(ready)
      BY <1>1 DEF Flows
    <2>2. BusBits' /\ BusWords'
      BY BitsStep, WordsStep DEF BusInv
    <2>3. QueueInv'
      BY <2>1, FlowQueue
    <2>4. ResetInv'
      BY <2>1, <2>3, ResetStep
    <2>5. QED
      BY <2>1, <2>2, <2>3, <2>4, FlowSlaves, MastersStep DEF BusInv
  <1>2. CASE ~o_cyc \/ o_wb_err \/ wb_none_sel
    BY <1>2, FlushStep
  <1>3. QED
    BY <1>1, <1>2

LEMMA BusStarts == BusInit => BusInv
  <1> SUFFICES ASSUME BusInit PROVE BusInv
    OBVIOUS
  <1>1. Zero \in AllRequests
    BY BusAssumption DEF Zero, AllRequests, Requests
  <1>2. BusBits
    BY DEF BusInit, DelayInit, BusBits
  <1>3. BusWords
    BY <1>1 DEF BusInit, BusWords, Carried, Slave
  <1>4. Quiet /\ ~o_cyc /\ ~o_dly_stb /\ ~r_stb /\ ~o_wb_err /\ ~a_cyc /\ ~b_cyc /\ ~cpu_reset
    BY DEF BusInit, DelayInit, Quiet, o_cyc
  <1>5. QED
    BY <1>2, <1>3, <1>4 DEF BusInv, QueueInv, SlavesInv, DelayInv, MastersInv, ResetInv, BusInit,
       Quiet, Slave

LEMMA BusInvariant ==
  ASSUME ~Crossing
  PROVE  BusSpec => []BusInv
  <1>1. BusInv /\ [BusNext]_busvars => BusInv'
    <2>1. BusInv /\ BusNext => BusInv'
      BY BusStep DEF BusNext
    <2>2. BusInv /\ UNCHANGED busvars => BusInv'
      <3> SUFFICES ASSUME BusInv, UNCHANGED busvars PROVE BusInv'
        OBVIOUS
      <3>1. UNCHANGED <<cpu, debug, bus, taken, acks>>
        BY DEF busvars
      <3>2. BusBits' /\ BusWords' /\ SlavesInv' /\ DelayInv' /\ MastersInv' /\ ResetInv'
        <4>0. BusBits'
          BY <3>1 DEF BusInv, BusBits, cpu, debug, bus, delayvars
        <4>1. BusWords'
          <5>1. /\ UNCHANGED <<mem_req, a_req, b_req, o_dly_req, r_req, o_wb_data, wb_idata>>
                /\ UNCHANGED <<b_owed, r_wb_bus_select, taken, acks>>
            BY <3>1 DEF cpu, debug, bus, delayvars
          <5> QED
            BY <5>1 DEF BusInv, BusWords
        <4>2. SlavesInv' /\ DelayInv'
          BY <3>1 DEF BusInv, SlavesInv, DelayInv, o_cyc, o_req, cpu, debug, bus, delayvars
        <4>3. MastersInv' /\ ResetInv'
          BY <3>1 DEF BusInv, MastersInv, ResetInv, o_cyc, cpu, debug, bus, delayvars
        <4>4. QED
          BY <4>0, <4>1, <4>2, <4>3
      <3>3. InFlight' = InFlight /\ Owed' = Owed
        BY <3>1 DEF Owed, InFlight, OnTheWay, AtMaster, AtDelay, AtAck, AtWork, AtSlave, Behind, One,
                    Answering, Working, o_req, cpu, debug, bus, delayvars
      <3>4. QueueInv'
        BY <3>1, <3>3 DEF BusInv, QueueInv, Quiet, o_cyc, cpu, debug, bus, delayvars
      <3>5. QED
        BY <3>2, <3>4 DEF BusInv
    <2>3. QED
      BY <2>1, <2>2
  <1>2. QED
    BY <1>1, BusStarts, PTL DEF BusSpec

\* main.v, wbpriarbiter.v, busdelay.v: if no bus cycle runs into the addresses of another
\* slave, every acknowledgement answers the oldest request of the master it reaches, for
\* bursts of any length and whatever the two masters have done before.
THEOREM AnswersAreRight ==
  ASSUME ~Crossing
  PROVE  BusSpec => []AcksRight
  <1>1. BusInv => AcksRight
    <2> SUFFICES ASSUME BusInv PROVE AcksRight
      OBVIOUS
    <2>1. /\ BusBits /\ BusWords /\ QueueInv
          /\ OnTheWay \in Seq(Carried) /\ o_wb_data \in Carried
          /\ o_wb_ack => ~o_wb_err /\ InFlight = <<o_wb_data>> \o OnTheWay
      BY StagesSeq DEF BusInv, BusWords, Stages, QueueInv, InFlight, AtMaster, One
    <2>2. /\ <<o_wb_data>> \o OnTheWay # <<>>
          /\ Head(<<o_wb_data>> \o OnTheWay) = o_wb_data
      BY <2>1, TailOfCarried
    <2>3. DebugAnswered
      BY <2>1, <2>2 DEF DebugAnswered, o_b_ack, QueueInv, Owed, o_cyc
    <2>4. CpuAnswered
      <3>1. SUFFICES ASSUME a_cyc, o_a_ack PROVE ~a_stb /\ o_wb_data = a_req
        BY DEF CpuAnswered
      <3>2. <<o_wb_data>> \o OnTheWay = One(~a_stb, a_req)
        BY <2>1, <3>1 DEF o_a_ack, QueueInv, Owed, o_cyc, One
      <3>3. ~a_stb
        BY <2>2, <3>2 DEF One
      <3>4. Head(<<a_req>>) = a_req
        OBVIOUS
      <3>5. QED
        BY <2>2, <3>2, <3>3, <3>4 DEF One
    <2>5. QED
      BY <2>3, <2>4 DEF AcksRight
  <1>2. QED
    BY <1>1, BusInvariant, PTL

\* wb_idata in main.v, "the data we return is the data for which the ACK line is high":
\* under the same condition the decoder has selected the slave that acknowledges.
THEOREM DataIsOfAck ==
  ASSUME ~Crossing
  PROVE  BusSpec => []DataFollowsAck
  <1>1. BusInit => DataFollowsAck
    BY DEF BusInit, DataFollowsAck
  <1>2. BusInv /\ DataFollowsAck /\ [BusNext]_busvars => DataFollowsAck'
    <2>1. ASSUME BusInv, NEW ready \in BOOLEAN, Clock(ready), wb_ack' PROVE wb_idata' # NoReq
      <3>1. PICK s \in Slave : acks[s] # NoReq
        BY <2>1 DEF Clock, NxtAck
      <3>2. s = r_wb_bus_select
        BY <2>1, <3>1 DEF BusInv, SlavesInv
      <3>3. QED
        BY <2>1, <3>1, <3>2 DEF Clock, NxtData
    <2>2. UNCHANGED busvars => UNCHANGED <<wb_ack, wb_many_ack, wb_idata>>
      BY DEF busvars, bus
    <2>3. QED
      BY <2>1, <2>2 DEF BusNext, DataFollowsAck
  <1>3. QED
    BY <1>1, <1>2, BusInvariant, PTL DEF BusSpec

\* wbpriarbiter.v never takes the bus from a master that is using it.
THEOREM OwnerIsKept == BusSpec => OwnerKeepsBus
  <1>1. [BusNext]_busvars =>
          [/\ r_a_owner /\ a_cyc => r_a_owner'
           /\ ~r_a_owner /\ b_cyc => ~r_a_owner']_busvars
    BY Zenon DEF BusNext, Clock, NxtOwner
  <1>2. QED
    BY <1>1, PTL DEF BusSpec, OwnerKeepsBus
=============================================================================
