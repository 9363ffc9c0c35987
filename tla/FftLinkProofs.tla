---------------------------- MODULE FftLinkProofs ----------------------------
(***************************************************************************)
(* The FFT service returns the transform of the samples it was given, for  *)
(* transforms of any length, queues of any size and any number of packets  *)
(* lost, late or repeated.                                                 *)
(***************************************************************************)
EXTENDS FftLink, TLAPS

\* How far this call has come: no packet with its id is for a later position.
Bound == IF pc \in {"send", "read"} THEN N ELSE fpga_posn

\* The call that a transform id belongs to, as long as the program was not restarted.
CallOf(id) == id - FirstId + 1

\* The packets on their way to the board.
ToBoard ==
  {p \in AnyPacket :
     /\ p.pay \in Payloads
     /\ p.pay # None => p.posn < N
     /\ ~Restarted =>
          /\ p.id <= h_id
          /\ p.id = h_id => p.posn <= Bound
          /\ p.pay # None => p.pay = [call |-> CallOf(p.id), block |-> p.posn]}

\* The answers: a block of a result is the one of its position, of the samples of the
\* call that its id belongs to.
ToHost ==
  {p \in AnyPacket :
     /\ p.pay \in Results
     /\ ~Restarted =>
          /\ p.id <= h_id
          /\ p.id = h_id => p.posn <= Bound
          /\ p.pay # None => /\ p.posn >= N
                             /\ p.pay = [of |-> Own(CallOf(p.id)), block |-> p.posn - N]}

TypeInv ==
  /\ pc \in {"send", "read", "ask", "recv", "done", "stuck_posn", "stuck_id"}
  /\ call \in 1 .. MaxCalls /\ h_id \in 0 .. 2^16 - 1 /\ h_id <= FirstId + call - 1
  /\ fpga_posn \in 0 .. 2 * N /\ data \in [0 .. N - 1 -> Results]
  /\ fft_id \in Int /\ fft_posn \in 0 .. 2 * N /\ fft_state \in {"FFT_INPUT", "FFT_OUTPUT"}
  /\ samples_in \in Seq(Block) /\ mem \in Seq(Block)

NetInv ==
  /\ up \in Seq(ToBoard) /\ down \in Seq(ToHost)
  /\ netbtx \in ToHost \cup {None} /\ waiting_pkt \in ToHost \cup {None}
  /\ late \in {None} \cup ({"up"} \X ToBoard) \cup ({"down"} \X ToHost)

\* The samples in the peripheral are the first ones of the call, as many as the
\* processor counts, and the transform is of all of them.
BoardInv ==
  /\ fft_state = "FFT_INPUT" => \/ fft_posn < N /\ Len(samples_in) = fft_posn
                                \/ fft_posn = 2 * N
  /\ fft_state = "FFT_OUTPUT" => /\ fft_posn >= N /\ fft_posn < 2 * N
                                 /\ Len(samples_in) = N /\ mem = samples_in
  /\ ~Restarted =>
       /\ fft_id <= h_id
       /\ fft_id = h_id => fft_posn <= Bound
       /\ \A i \in 1 .. Len(samples_in) :
            samples_in[i] = [call |-> CallOf(fft_id), block |-> i - 1]

\* The blocks of the result that the host has are right, and so is the one that it may
\* still look at a second time.
HostInv ==
  /\ pc \in {"send", "read"} => fpga_posn < N
  /\ pc \in {"ask", "recv", "stuck_id"} => fpga_posn >= N /\ fpga_posn < 2 * N
  /\ nr \in Seq(Results) /\ Len(nr) <= 1
  /\ ~Restarted =>
       /\ pc # "stuck_posn"
       /\ pc = "done" => fpga_posn = 2 * N
       /\ pc \in {"ask", "recv"} /\ nr # <<>> =>
            fpga_posn = N /\ nr[1] \in {None, [of |-> Own(call), block |-> 0]}
       /\ pc \in {"ask", "recv", "done"} =>
            \A b \in 0 .. fpga_posn - N - 1 : data[b] = [of |-> Own(call), block |-> b]

\* The inductive invariant.
FftInv == TypeInv /\ NetInv /\ BoardInv /\ HostInv

-----------------------------------------------------------------------------
LEMMA Sizes == N \in Nat /\ N > 0 /\ MaxCalls \in Nat /\ MaxCalls > 0 /\ Room \in Nat
  BY FftAssumption

LEMMA Positions ==
  ASSUME TypeInv
  PROVE  /\ N \in Nat /\ N > 0 /\ fpga_posn \in 0 .. 2 * N /\ fft_posn \in 0 .. 2 * N
         /\ fft_id \in Int /\ h_id \in Int /\ call \in 1 .. MaxCalls /\ MaxCalls \in Nat
  BY Sizes DEF TypeInv

\* One more sample.
LEMMA OneMore ==
  ASSUME NEW q \in Seq(Block), NEW b \in Block
  PROVE  /\ Append(q, b) \in Seq(Block) /\ Len(q) \in Nat /\ Len(Append(q, b)) = Len(q) + 1
         /\ \A i \in 1 .. Len(q) : Append(q, b)[i] = q[i]
         /\ Append(q, b)[Len(q) + 1] = b
  OBVIOUS

\* None is no packet and no payload.
LEMMA NoneApart ==
  /\ None \notin Block /\ None \notin ToBoard /\ None \notin ToHost
  /\ \A p \in ToBoard \cup ToHost : None # <<"up", p>> /\ None # <<"down", p>>
  BY FftAssumption DEF ToBoard, ToHost

LEMMA PutKeeps ==
  ASSUME NEW S, NEW q \in Seq(S), NEW p \in S
  PROVE  Put(q, p) \in Seq(S)
  BY DEF Put

LEMMA RemoveKeeps ==
  ASSUME NEW S, NEW q \in Seq(S), NEW i \in 1 .. Len(q)
  PROVE  Without(q, i) \in Seq(S) /\ q[i] \in S
  BY DEF Without

LEMMA WiderQueue ==
  ASSUME NEW S, NEW T, S \subseteq T, NEW q \in Seq(S)
  PROVE  q \in Seq(T)
  OBVIOUS

\* A packet in flight stays what it is when the host goes on.
LEMMA PacketsStay ==
  ASSUME TypeInv, TypeInv',
         ~Restarted' => ~Restarted /\ h_id <= h_id' /\ (h_id' = h_id => Bound <= Bound')
  PROVE  ToBoard \subseteq ToBoard' /\ ToHost \subseteq ToHost'
  <1>1. Bound \in 0 .. 2 * N /\ Bound' \in 0 .. 2 * N
    <2>1. fpga_posn \in 0 .. 2 * N /\ fpga_posn' \in 0 .. 2 * N
      BY Zenon DEF TypeInv
    <2>2. N \in 0 .. 2 * N
      BY Sizes
    <2>3. QED
      BY <2>1, <2>2, Zenon DEF Bound
  <1>2. h_id \in Int /\ h_id' \in Int
    BY DEF TypeInv
  <1>3. ASSUME NEW p \in AnyPacket, ~Restarted', p.id <= h_id, p.id = h_id => p.posn <= Bound
        PROVE  p.id <= h_id' /\ (p.id = h_id' => p.posn <= Bound')
    <2>1. p.id \in Int /\ p.posn \in Int
      BY Sizes DEF AnyPacket
    <2>2. QED
      BY <1>1, <1>2, <1>3, <2>1
  <1>4. QED
    BY <1>3, Zenon DEF ToBoard, ToHost

\* The host does nothing.
LEMMA HostRests ==
  ASSUME UNCHANGED host
  PROVE  /\ ToBoard' = ToBoard /\ ToHost' = ToHost /\ Bound' = Bound /\ Restarted' = Restarted
         /\ HostInv => HostInv'
         /\ UNCHANGED <<pc, call, h_id, fpga_posn, nr, data>>
  <1>1. UNCHANGED <<pc, call, h_id, fpga_posn, nr, data>>
    BY DEF host
  <1>2. Bound' = Bound /\ Restarted' = Restarted
    BY <1>1 DEF Bound, Restarted
  <1>3. ToBoard' = ToBoard /\ ToHost' = ToHost
    BY <1>1, <1>2 DEF ToBoard, ToHost
  <1>4. QED
    BY <1>1, <1>2, <1>3 DEF HostInv

-----------------------------------------------------------------------------
\* What the board answers.
LEMMA AckIsRight ==
  ASSUME TypeInv, NEW n \in 0 .. 2 * N, NEW id \in Int,
         ~Restarted => id <= h_id /\ (id = h_id => n <= Bound)
  PROVE  Packet(id, n, None) \in ToHost
  BY DEF Packet, ToHost, AnyPacket, Results

LEMMA ResultIsRight ==
  ASSUME TypeInv, BoardInv, fft_state = "FFT_OUTPUT"
  PROVE  Packet(fft_id, fft_posn, Result(fft_posn)) \in ToHost
  <1>1. fft_posn % N = fft_posn - N
    BY Sizes DEF TypeInv, BoardInv
  <1>2. fft_posn - N \in 0 .. N - 1 /\ fft_posn \in 0 .. 2 * N /\ fft_posn >= N
    BY Sizes DEF TypeInv, BoardInv
  <1>3. Result(fft_posn) = [of |-> mem, block |-> fft_posn - N]
    BY <1>1 DEF Result
  <1>4. Result(fft_posn) \in Results /\ Packet(fft_id, fft_posn, Result(fft_posn)) \in AnyPacket
    BY <1>2, <1>3 DEF TypeInv, Results, AnyPacket, Packet
  <1>5. ~Restarted => mem = Own(CallOf(fft_id))
    <2>1. mem \in Seq(Block) /\ Len(mem) = N /\ mem = samples_in
      BY DEF TypeInv, BoardInv
    <2>2. ~Restarted => \A i \in 1 .. N : mem[i] = [call |-> CallOf(fft_id), block |-> i - 1]
      BY <2>1 DEF BoardInv
    <2>3. mem = [i \in 1 .. N |-> mem[i]]
      BY <2>1, Sizes
    <2>4. QED
      BY <2>2, <2>3 DEF Own
  <1>6. QED
    BY <1>2, <1>3, <1>4, <1>5 DEF ToHost, BoardInv, Packet

LEMMA TransmitKeeps ==
  ASSUME NetInv, NEW p \in ToHost, Transmit(p)
  PROVE  netbtx' \in ToHost \cup {None} /\ waiting_pkt' \in ToHost \cup {None}
  BY DEF NetInv, Transmit, TxBusy

\* The board's state after a packet or a timeout, and what it has to transmit.
BoardTypes ==
  /\ fft_id \in Int /\ fft_posn \in 0 .. 2 * N /\ fft_state \in {"FFT_INPUT", "FFT_OUTPUT"}
  /\ samples_in \in Seq(Block) /\ mem \in Seq(Block)
  /\ netbtx \in ToHost \cup {None} /\ waiting_pkt \in ToHost \cup {None}

LEMMA TakeKeeps ==
  ASSUME FftInv, NEW p \in ToBoard, Take(p), UNCHANGED host
  PROVE  BoardTypes' /\ BoardInv'
  <1>1. TypeInv /\ NetInv /\ BoardInv
    BY DEF FftInv
  <1>2. /\ p.id = fft_id /\ p.posn = fft_posn /\ fft_posn \in 0 .. 2 * N
        /\ p.pay \in Payloads /\ (p.pay # None => p.posn < N)
        /\ ~Restarted => /\ p.id = h_id => p.posn <= Bound
                         /\ p.pay # None => p.pay = [call |-> CallOf(p.id), block |-> p.posn]
    BY <1>1 DEF Take, ToBoard, TypeInv
  <1>3. CASE p.pay = None
    <2>1. /\ UNCHANGED <<fft_posn, samples_in, mem, fft_id>> /\ Transmit(Packet(fft_id, fft_posn, None))
          /\ fft_state = "FFT_INPUT"
          /\ fft_state' = IF fft_posn = N THEN "FFT_OUTPUT" ELSE fft_state
      BY <1>3 DEF Take
    <2>2. fft_posn # N
      BY <1>1, <2>1, Sizes DEF BoardInv
    <2>3. Packet(fft_id, fft_posn, None) \in ToHost
      BY <1>1, <1>2, AckIsRight DEF TypeInv, BoardInv
    <2>4. QED
      BY <1>1, <2>1, <2>2, <2>3, TransmitKeeps, HostRests DEF BoardTypes, BoardInv, TypeInv
  <1>4. CASE p.pay # None
    <2>1. /\ fft_posn' = fft_posn + 1 /\ fft_id' = fft_id /\ WriteFft(p.pay)
          /\ Transmit(Packet(fft_id, fft_posn + 1, None)) /\ fft_state = "FFT_INPUT"
          /\ fft_state' = IF fft_posn + 1 = N THEN "FFT_OUTPUT" ELSE fft_state
      BY <1>4 DEF Take
    <2>2. fft_posn < N /\ Len(samples_in) = fft_posn /\ p.pay \in Block
      BY <1>1, <1>2, <1>4, <2>1, Sizes DEF BoardInv, Payloads
    <2>3. samples_in' = Append(samples_in, p.pay) /\ samples_in' \in Seq(Block)
          /\ Len(samples_in') = fft_posn + 1
          /\ mem' = IF fft_posn + 1 = N THEN samples_in' ELSE mem
      <3>1. samples_in \in Seq(Block) /\ fft_posn \in Nat /\ N \in Nat
        BY <1>1, Positions DEF TypeInv
      <3>2. Len(samples_in) < N /\ (Len(samples_in) = N - 1 <=> fft_posn + 1 = N)
        BY <2>2, <3>1
      <3>3. /\ samples_in' = Append(samples_in, p.pay)
            /\ mem' = IF fft_posn + 1 = N THEN samples_in' ELSE mem
        BY <2>1, <3>2, Zenon DEF WriteFft
      <3>4. QED
        BY <2>2, <3>1, <3>3, OneMore, Zenon
    <2>4. ~Restarted => /\ fft_id <= h_id /\ (fft_id = h_id => fft_posn + 1 <= Bound)
      <3>1. ~Restarted /\ fft_id = h_id => Bound >= N
        BY <1>1, Sizes DEF Bound, HostInv, FftInv, TypeInv
      <3>2. QED
        BY <1>1, <1>2, <2>2, <3>1, Sizes DEF BoardInv, TypeInv, Bound
    <2>5. Packet(fft_id, fft_posn + 1, None) \in ToHost
      BY <1>1, <1>2, <2>2, <2>4, AckIsRight, Sizes DEF TypeInv
    <2>6. ~Restarted => \A i \in 1 .. Len(samples_in') :
                          samples_in'[i] = [call |-> CallOf(fft_id), block |-> i - 1]
      <3> SUFFICES ASSUME ~Restarted, NEW i \in 1 .. fft_posn + 1
                   PROVE  samples_in'[i] = [call |-> CallOf(fft_id), block |-> i - 1]
        BY <2>3, Zenon
      <3>1. samples_in \in Seq(Block) /\ fft_posn \in Nat
        BY <1>1, Positions DEF TypeInv
      <3>2. CASE i \in 1 .. fft_posn
        <4>1. samples_in'[i] = samples_in[i]
          BY <2>2, <2>3, <3>1, <3>2, OneMore, Zenon
        <4>2. QED
          BY <1>1, <2>2, <3>2, <4>1 DEF BoardInv
      <3>3. CASE i = fft_posn + 1
        <4>1. samples_in'[i] = p.pay
          BY <2>2, <2>3, <3>1, <3>3, OneMore, Zenon
        <4>2. i - 1 = fft_posn
          BY <3>1, <3>3
        <4>3. QED
          BY <1>2, <1>4, <4>1, <4>2, Zenon
      <3>4. QED
        BY <3>1, <3>2, <3>3
    <2>7. BoardTypes'
      BY <1>1, <1>2, <2>1, <2>2, <2>3, <2>5, TransmitKeeps, HostRests, Sizes DEF BoardTypes, TypeInv
    <2>8. QED
      BY <1>2, <2>1, <2>2, <2>3, <2>4, <2>6, <2>7, HostRests, Sizes DEF BoardInv
  <1>5. QED
    BY <1>3, <1>4

LEMMA AnswerKeeps ==
  ASSUME FftInv, NEW p \in ToBoard, Answer(p), UNCHANGED host
  PROVE  BoardTypes' /\ BoardInv'
  <1>1. TypeInv /\ NetInv /\ BoardInv
    BY DEF FftInv
  <1>2. /\ fft_state = "FFT_OUTPUT" /\ p.id = fft_id /\ fft_id' = fft_id
        /\ p.posn \in 0 .. 2 * N /\ (~Restarted /\ p.id = h_id => p.posn <= Bound)
        /\ fft_posn' = IF p.posn > fft_posn THEN p.posn ELSE fft_posn
    BY DEF Answer, ToBoard, AnyPacket
  <1>3. CASE p.posn >= 2 * N
    <2>1. /\ samples_in' = <<>> /\ mem' = mem /\ fft_state' = "FFT_INPUT"
          /\ UNCHANGED <<netbtx, waiting_pkt>>
      BY <1>3 DEF Answer, reset_fft
    <2>2. fft_posn' = 2 * N
      BY <1>1, <1>2, <1>3, Sizes DEF BoardInv, TypeInv
    <2>3. BoardTypes'
      BY <1>1, <1>2, <2>1, <2>2, HostRests, Sizes DEF BoardTypes, TypeInv, NetInv
    <2>4. QED
      BY <1>1, <1>2, <1>3, <2>1, <2>2, <2>3, HostRests, Sizes DEF BoardInv
  <1>4. CASE ~(p.posn >= 2 * N)
    <2>1. /\ UNCHANGED <<fft_state, samples_in, mem>>
          /\ Transmit(Packet(fft_id, fft_posn, IF p.posn = N THEN None ELSE Result(fft_posn)))
      BY <1>4 DEF Answer
    <2>2. Packet(fft_id, fft_posn, IF p.posn = N THEN None ELSE Result(fft_posn)) \in ToHost
      BY <1>1, <1>2, AckIsRight, ResultIsRight DEF TypeInv, BoardInv
    <2>3. BoardTypes'
      BY <1>1, <1>2, <2>1, <2>2, TransmitKeeps, HostRests, Sizes DEF BoardTypes, TypeInv
    <2>4. fft_posn' >= N /\ fft_posn' < 2 * N
      BY <1>1, <1>2, <1>4, Sizes DEF BoardInv, TypeInv
    <2>5. QED
      BY <1>1, <1>2, <2>1, <2>3, <2>4, HostRests DEF BoardInv
  <1>5. QED
    BY <1>3, <1>4

LEMMA PacketKeeps ==
  ASSUME FftInv, NEW p \in ToBoard, fftpacket(p), UNCHANGED host
  PROVE  BoardTypes' /\ BoardInv'
  <1>1. TypeInv /\ NetInv /\ BoardInv
    BY DEF FftInv
  <1>2. CASE Acknowledge(p)
    <2>1. UNCHANGED <<fft_id, fft_posn, fft_state, samples_in, mem>>
      BY <1>2 DEF Acknowledge, fpga
    <2>2. Packet(fft_id, fft_posn, None) \in ToHost
      BY <1>1, AckIsRight DEF TypeInv, BoardInv
    <2>3. BoardTypes'
      BY <1>1, <1>2, <2>1, <2>2, TransmitKeeps, HostRests DEF BoardTypes, TypeInv, Acknowledge
    <2>4. QED
      BY <1>1, <2>1, <2>3, HostRests DEF BoardInv
  <1>3. CASE p.id # fft_id /\ Adopt(p)
    <2>1. /\ samples_in' = <<>> /\ mem' = mem /\ fft_id' = p.id /\ fft_posn' = 0
          /\ fft_state' = "FFT_INPUT" /\ Transmit(Packet(p.id, 0, None))
      BY <1>3 DEF Adopt, reset_fft
    <2>2. /\ p.id \in Int
          /\ ~Restarted => p.id <= h_id /\ (p.id = h_id => 0 <= Bound)
      BY <1>1, Sizes DEF ToBoard, AnyPacket, Bound, TypeInv
    <2>3. Packet(p.id, 0, None) \in ToHost
      BY <1>1, <2>2, AckIsRight, Sizes
    <2>4. BoardTypes'
      BY <1>1, <2>1, <2>2, <2>3, TransmitKeeps, HostRests, Sizes DEF BoardTypes, TypeInv
    <2>5. QED
      BY <2>1, <2>2, <2>4, HostRests, Sizes DEF BoardInv
  <1>4. QED
    BY <1>2, <1>3, TakeKeeps, AnswerKeeps DEF fftpacket

-----------------------------------------------------------------------------
\* Steps of the board and of the network leave the host alone.
LEMMA OthersStep ==
  ASSUME FftInv, UNCHANGED host, BoardTypes', BoardInv',
         up' \in Seq(ToBoard), down' \in Seq(ToHost),
         late' \in {None} \cup ({"up"} \X ToBoard) \cup ({"down"} \X ToHost)
  PROVE  FftInv'
  <1>1. HostInv'
    BY HostRests DEF FftInv
  <1>2. TypeInv'
    BY HostRests DEF FftInv, TypeInv, BoardTypes
  <1>3. NetInv'
    BY HostRests DEF NetInv, BoardTypes
  <1>4. QED
    BY <1>1, <1>2, <1>3 DEF FftInv

\* The board's registers stay.
LEMMA BoardRests ==
  ASSUME FftInv, UNCHANGED <<host, fpga>>,
         netbtx' \in ToHost \cup {None}, waiting_pkt' \in ToHost \cup {None}
  PROVE  BoardTypes' /\ BoardInv'
  <1>1. UNCHANGED <<fft_id, fft_posn, fft_state, samples_in, mem>> /\ UNCHANGED host
    BY DEF fpga
  <1>2. QED
    BY <1>1, HostRests DEF FftInv, TypeInv, BoardTypes, BoardInv

LEMMA BoardStep ==
  ASSUME FftInv, Board \/ TxDone
  PROVE  FftInv'
  <1>1. TypeInv /\ NetInv /\ BoardInv
    BY DEF FftInv
  <1>2. CASE Poll
    BY <1>1, <1>2, BoardRests, OthersStep DEF Poll, tx, NetInv
  <1>3. CASE Tick
    <2>1. ffttimeout /\ UNCHANGED <<host, up, down, late>>
      BY <1>3 DEF Tick
    <2>2. UNCHANGED fpga /\ \E p \in ToHost : Transmit(p)
      BY <1>1, <2>1, AckIsRight, ResultIsRight DEF ffttimeout, TypeInv, BoardInv
    <2>3. netbtx' \in ToHost \cup {None} /\ waiting_pkt' \in ToHost \cup {None}
      BY <1>1, <2>2, TransmitKeeps
    <2>4. QED
      BY <1>1, <2>1, <2>2, <2>3, BoardRests, OthersStep DEF NetInv
  <1>4. CASE Receive /\ up = <<>>
    BY <1>1, <1>4, BoardRests, OthersStep DEF Receive, tx, NetInv
  <1>5. CASE Receive /\ up # <<>>
    <2>1. fftpacket(Head(up)) /\ up' = Tail(up) /\ UNCHANGED <<host, down, late>>
      BY <1>5 DEF Receive
    <2>2. Head(up) \in ToBoard /\ up' \in Seq(ToBoard)
      BY <1>1, <1>5, <2>1 DEF NetInv
    <2>3. QED
      BY <1>1, <2>1, <2>2, PacketKeeps, OthersStep DEF NetInv
  <1>6. CASE Retransmit
    <2>1. UNCHANGED <<host, fpga, up, down, late>>
      BY <1>6 DEF Retransmit
    <2>2. netbtx' \in ToHost \cup {None} /\ waiting_pkt' \in ToHost \cup {None}
      BY <1>1, <1>6 DEF Retransmit, tx, NetInv
    <2>3. QED
      BY <1>1, <2>1, <2>2, BoardRests, OthersStep DEF NetInv
  <1>7. CASE TxDone
    <2>1. /\ netbtx # None /\ down' = Put(down, netbtx) /\ netbtx' = None
          /\ UNCHANGED <<host, fpga, waiting_pkt, up, late>>
      BY <1>7 DEF TxDone, TxBusy
    <2>2. down' \in Seq(ToHost)
      BY <1>1, <2>1, PutKeeps DEF NetInv
    <2>3. QED
      BY <1>1, <2>1, <2>2, BoardRests, OthersStep DEF NetInv
  <1>8. QED
    BY <1>2, <1>3, <1>4, <1>5, <1>6, <1>7 DEF Board

\* What may go wrong on the network.
LEMMA FaultStep ==
  ASSUME FftInv, Lose \/ Stray \/ Arrive
  PROVE  FftInv'
  <1>1. TypeInv /\ NetInv /\ BoardInv
    BY DEF FftInv
  <1>2. UNCHANGED <<host, fpga, tx>>
    BY DEF Lose, Stray, Arrive
  <1>3. BoardTypes' /\ BoardInv'
    BY <1>1, <1>2, BoardRests DEF tx, NetInv
  <1>4. up \in Seq(ToBoard) /\ down \in Seq(ToHost)
    BY <1>1 DEF NetInv
  <1>5. CASE Lose
    <2>1. up' \in Seq(ToBoard) /\ down' \in Seq(ToHost) /\ late' = late
      BY <1>4, <1>5, RemoveKeeps DEF Lose
    <2>2. QED
      BY <1>1, <1>2, <1>3, <2>1, OthersStep DEF NetInv
  <1>6. CASE Stray
    <2>1. up' \in Seq(ToBoard) /\ down' \in Seq(ToHost)
      BY <1>4, <1>6, RemoveKeeps DEF Stray
    <2>2. late' \in ({"up"} \X ToBoard) \cup ({"down"} \X ToHost)
      BY <1>4, <1>6, RemoveKeeps DEF Stray
    <2>3. QED
      BY <1>1, <1>2, <1>3, <2>1, <2>2, OthersStep
  <1>7. CASE Arrive
    <2>1. late # None /\ late' = None
      BY <1>7 DEF Arrive
    <2>2. (late[1] = "up" => late[2] \in ToBoard) /\ (late[1] = "down" => late[2] \in ToHost)
      BY <1>1, <2>1 DEF NetInv
    <2>3. up' \in Seq(ToBoard) /\ down' \in Seq(ToHost)
      BY <1>4, <1>7, <2>2, PutKeeps DEF Arrive
    <2>4. QED
      BY <1>1, <1>2, <1>3, <2>1, <2>3, OthersStep
  <1>8. QED
    BY <1>5, <1>6, <1>7

-----------------------------------------------------------------------------
\* The host goes on, in this call or with the next.
Onward == ~Restarted' => ~Restarted /\ h_id <= h_id' /\ (h_id' = h_id => Bound <= Bound')

LEMMA HostStep ==
  ASSUME FftInv, TypeInv', HostInv', Onward,
         UNCHANGED <<fpga, netbtx, waiting_pkt, late>>,
         up' \in Seq(ToBoard'), down' \in Seq(ToHost)
  PROVE  FftInv'
  <1>1. TypeInv /\ NetInv /\ BoardInv
    BY DEF FftInv
  <1>2. ToBoard \subseteq ToBoard' /\ ToHost \subseteq ToHost'
    BY <1>1, PacketsStay DEF Onward
  <1>3. NetInv'
    <2>1. down' \in Seq(ToHost')
      BY <1>2, WiderQueue
    <2>2. netbtx' \in ToHost' \cup {None} /\ waiting_pkt' \in ToHost' \cup {None}
      BY <1>1, <1>2 DEF NetInv
    <2>3. late' \in {None} \cup ({"up"} \X ToBoard') \cup ({"down"} \X ToHost')
      BY <1>1, <1>2 DEF NetInv
    <2>4. QED
      BY <2>1, <2>2, <2>3 DEF NetInv
  <1>4. BoardInv'
    <2>1. UNCHANGED <<fft_id, fft_posn, fft_state, samples_in, mem>>
      BY DEF fpga
    <2>2. /\ fft_id \in Int /\ fft_posn \in Int /\ h_id \in Int /\ h_id' \in Int
          /\ Bound \in Int /\ Bound' \in Int
      BY <1>1, Sizes DEF TypeInv, Bound
    <2>3. ~Restarted' => fft_id <= h_id' /\ (fft_id = h_id' => fft_posn <= Bound')
      BY <1>1, <2>2 DEF BoardInv, Onward
    <2>4. QED
      BY <1>1, <2>1, <2>3 DEF BoardInv, Onward
  <1>5. QED
    BY <1>3, <1>4 DEF FftInv

LEMMA SendStep ==
  ASSUME FftInv, HostSends \/ HostAsks \/ HostHearsNothing
  PROVE  FftInv'
  <1>1. TypeInv /\ NetInv /\ HostInv
    BY DEF FftInv
  <1>2. /\ UNCHANGED <<call, h_id, fpga_posn, nr, data, fpga, tx, down, late>>
        /\ <<pc, pc'>> \in {<<"send", "read">>, <<"ask", "recv">>, <<"read", "send">>, <<"recv", "ask">>}
        /\ pc' = "ask" => nr = <<>>
    BY <1>1 DEF HostSends, HostAsks, HostHearsNothing, TypeInv
  <1>3. Restarted' = Restarted /\ Bound' = Bound
    BY <1>2 DEF Restarted, Bound
  <1>4. TypeInv' /\ HostInv'
    BY <1>1, <1>2, <1>3 DEF TypeInv, HostInv, fpga
  <1>5. Onward
    BY <1>1, <1>2, <1>3, Sizes DEF Onward, TypeInv, Bound
  <1>6. up \in Seq(ToBoard') /\ ToBoard' = ToBoard
    BY <1>1, <1>2, <1>3 DEF NetInv, ToBoard
  <1>7. up' \in Seq(ToBoard')
    <2>1. CASE HostSends
      <3>1. fpga_posn \in 0 .. N - 1 /\ pc = "send" /\ call \in 1 .. MaxCalls
        <4>1. pc = "send" /\ fpga_posn < N
          BY <1>1, <2>1 DEF HostSends, HostInv
        <4>2. N \in Nat /\ fpga_posn \in 0 .. 2 * N /\ call \in 1 .. MaxCalls
          BY <1>1, Positions
        <4>3. QED
          BY ONLY <4>1, <4>2
      <3>2. [call |-> call, block |-> fpga_posn] \in Block
        BY <3>1 DEF Block
      <3>3. ~Restarted => call = CallOf(h_id)
        BY <1>1, Sizes DEF TypeInv, Restarted, CallOf, FirstId
      <3>4. Packet(h_id, fpga_posn, [call |-> call, block |-> fpga_posn]) \in ToBoard
        BY <1>1, <3>1, <3>2, <3>3, Sizes DEF ToBoard, AnyPacket, Packet, Payloads, Bound, TypeInv
      <3>5. QED
        BY <1>6, <2>1, <3>4, PutKeeps DEF HostSends
    <2>2. CASE HostAsks
      <3>1. /\ h_id \in Int /\ fpga_posn \in 0 .. 2 * N /\ None \in Payloads
            /\ fpga_posn <= Bound /\ h_id <= h_id
        BY <1>1, <2>2, Positions DEF HostAsks, Bound, Payloads
      <3>2. Packet(h_id, fpga_posn, None) \in ToBoard
        BY <3>1 DEF ToBoard, AnyPacket, Packet
      <3>3. QED
        BY <1>6, <2>2, <3>2, PutKeeps DEF HostAsks
    <2>3. QED
      BY <1>6, <2>1, <2>2 DEF HostHearsNothing
  <1>8. QED
    BY <1>1, <1>2, <1>4, <1>5, <1>7, HostStep DEF tx, NetInv

LEMMA ReadStep ==
  ASSUME FftInv, HostReads
  PROVE  FftInv'
  <1>1. TypeInv /\ NetInv /\ HostInv
    BY DEF FftInv
  <1>q. down \in Seq(ToHost) /\ down # <<>>
    BY <1>1 DEF HostReads, NetInv
  <1>h. Head(down) \in ToHost /\ Tail(down) \in Seq(ToHost)
    BY <1>q
  <1>2. PICK p \in ToHost : /\ fpga_posn' = Advance(p) /\ nr' = <<p.pay>> /\ down' = Tail(down)
    BY <1>h, Zenon DEF HostReads
  <1>3. /\ pc = "read" /\ fpga_posn < N /\ down' \in Seq(ToHost)
        /\ pc' = (IF fpga_posn' < N THEN "send" ELSE IF fpga_posn' = N THEN "ask" ELSE "stuck_posn")
        /\ UNCHANGED <<call, h_id, data, fpga, tx, up, late>>
    <2>1. pc = "read" /\ down' \in Seq(ToHost)
      BY <1>2, <1>h DEF HostReads
    <2>2. fpga_posn < N
      BY <1>1, <2>1 DEF HostInv
    <2>3. QED
      BY <2>1, <2>2 DEF HostReads
  <1>4. /\ p.posn \in 0 .. 2 * N /\ p.pay \in Results /\ p.id \in Int
        /\ ~Restarted => /\ p.id = h_id => p.posn <= N
                         /\ p.pay # None => p.pay = [of |-> Own(CallOf(p.id)), block |-> p.posn - N]
    BY <1>3 DEF ToHost, AnyPacket, Bound
  <1>5. Restarted' = Restarted
    BY <1>3 DEF Restarted
  <1>p. fpga_posn' = IF p.id # h_id THEN 0 ELSE IF p.posn > fpga_posn THEN p.posn ELSE fpga_posn
    BY <1>2 DEF Advance
  <1>n. /\ N \in Nat /\ N > 0 /\ fpga_posn \in 0 .. 2 * N /\ fpga_posn < N /\ p.posn \in 0 .. 2 * N
        /\ ~Restarted => (p.id = h_id => p.posn <= N)
    BY <1>1, <1>3, <1>4, Positions
  <1>6. fpga_posn' \in 0 .. 2 * N /\ (~Restarted => fpga_posn' <= N)
    BY <1>p, <1>n
  <1>7. TypeInv'
    BY <1>1, <1>3, <1>6 DEF TypeInv, fpga
  <1>8. ~Restarted /\ fpga_posn' = N => p.id = h_id /\ p.posn = N /\ CallOf(p.id) = call
    <2>1. ~Restarted => CallOf(h_id) = call
      BY <1>1, Positions DEF CallOf, Restarted, FirstId
    <2>2. ~Restarted /\ fpga_posn' = N => p.id = h_id /\ p.posn = N
      BY <1>p, <1>n
    <2>3. QED
      BY <2>1, <2>2
  <1>9. HostInv'
    <2>1. nr' \in Seq(Results) /\ Len(nr') <= 1 /\ nr'[1] = p.pay
      <3>1. nr' = <<p.pay>> /\ p.pay \in Results
        BY <1>2, <1>4
      <3>2. \A r \in Results : <<r>> \in Seq(Results) /\ Len(<<r>>) <= 1 /\ <<r>>[1] = r
        OBVIOUS
      <3>3. QED
        BY <3>1, <3>2, Zenon
    <2>2. /\ pc' \in {"send", "read"} => fpga_posn' < N
          /\ pc' \in {"ask", "recv", "stuck_id"} => fpga_posn' >= N /\ fpga_posn' < 2 * N
          /\ pc' # "done" /\ (~Restarted => pc' # "stuck_posn") /\ (pc' = "ask" => fpga_posn' = N)
      BY <1>3, <1>6, Sizes
    <2>3. ~Restarted /\ fpga_posn' = N => p.pay \in {None, [of |-> Own(call), block |-> 0]}
      BY <1>4, <1>8, Sizes
    <2>4. \A b \in 0 .. N - N - 1 : FALSE
      BY Sizes
    <2>5. QED
      BY <1>3, <1>5, <2>1, <2>2, <2>3, <2>4 DEF HostInv, Own
  <1>10. Onward
    BY <1>1, <1>3, <1>5, <1>6, Sizes DEF Onward, Bound, TypeInv
  <1>11. up' \in Seq(ToBoard')
    BY <1>1, <1>3, <1>7, <1>10, PacketsStay, WiderQueue DEF NetInv, Onward
  <1>12. QED
    BY <1>1, <1>3, <1>7, <1>9, <1>10, <1>11, HostStep DEF tx

\* An answer in the second loop.
LEMMA RecvKeeps ==
  ASSUME FftInv, pc = "recv", NEW p \in AnyPacket, Recv(p), nr' = <<>>,
         p.pay \in Results, ~Restarted /\ p.id = h_id => p.posn <= fpga_posn,
         ~Restarted /\ p.id = h_id /\ p.pay # None /\ p.posn = fpga_posn =>
           p.pay = [of |-> Own(call), block |-> fpga_posn - N],
         UNCHANGED <<call, h_id, fpga>>
  PROVE  TypeInv' /\ HostInv' /\ Onward /\ up' \in Seq(ToBoard')
  <1>1. TypeInv /\ NetInv /\ HostInv
    BY DEF FftInv
  <1>2. fpga_posn \in N .. 2 * N - 1 /\ p.posn \in 0 .. 2 * N
    <2>1. p.posn \in 0 .. 2 * N
      BY DEF AnyPacket
    <2>2. fpga_posn >= N /\ fpga_posn < 2 * N
      BY <1>1 DEF HostInv
    <2>3. N \in Nat /\ fpga_posn \in 0 .. 2 * N
      BY <1>1, Positions
    <2>4. QED
      BY ONLY <2>1, <2>2, <2>3
  <1>3. Restarted' = Restarted
    BY DEF Restarted
  <1>n. N \in Nat /\ N > 0 /\ h_id \in Int
    BY <1>1, Positions
  <1>4. CASE p.id = h_id /\ p.pay # None /\ p.posn = fpga_posn
    <2>1. /\ data' = [data EXCEPT ![fpga_posn - N] = p.pay] /\ fpga_posn' = fpga_posn + 1
          /\ up' = Put(up, Packet(h_id, fpga_posn + 1, None))
          /\ pc' = IF fpga_posn + 1 < 2 * N THEN "ask" ELSE "done"
      BY <1>4 DEF Recv
    <2>p. /\ fpga_posn' = fpga_posn + 1 /\ pc' \in {"ask", "done"} /\ fpga_posn + 1 \in N .. 2 * N
          /\ pc' = "ask" => fpga_posn' < 2 * N
          /\ pc' = "done" => fpga_posn' = 2 * N
      <3>1. fpga_posn' = fpga_posn + 1 /\ pc' = IF fpga_posn + 1 < 2 * N THEN "ask" ELSE "done"
        BY <2>1
      <3>2. QED
        BY ONLY <1>2, <1>n, <3>1
    <2>2. TypeInv'
      <3>1. data' \in [0 .. N - 1 -> Results]
        BY <1>1, <2>1 DEF TypeInv
      <3>2. fpga_posn' \in 0 .. 2 * N
        BY <1>n, <2>p
      <3>3. QED
        BY <1>1, <2>p, <3>1, <3>2 DEF TypeInv, fpga
    <2>3. Onward
      <3>1. Bound = fpga_posn /\ Bound' = fpga_posn + 1 /\ h_id' = h_id
        BY <2>p DEF Bound
      <3>2. QED
        BY <1>2, <1>3, <1>n, <3>1 DEF Onward
    <2>4. up \in Seq(ToBoard')
      BY <1>1, <2>2, <2>3, PacketsStay, WiderQueue DEF NetInv, Onward
    <2>5. Packet(h_id, fpga_posn + 1, None) \in ToBoard'
      <3>1. Bound' = fpga_posn + 1 /\ h_id' = h_id /\ None \in Payloads
        BY <2>p DEF Bound, Payloads
      <3>2. fpga_posn + 1 \in 0 .. 2 * N /\ h_id <= h_id /\ fpga_posn + 1 <= fpga_posn + 1
        BY ONLY <1>2, <1>n
      <3>3. QED
        BY <1>n, <3>1, <3>2 DEF ToBoard, AnyPacket, Packet
    <2>6. up' \in Seq(ToBoard')
      BY <2>1, <2>4, <2>5, PutKeeps
    <2>7. ASSUME ~Restarted, NEW b \in 0 .. fpga_posn' - N - 1
          PROVE  data'[b] = [of |-> Own(call), block |-> b]
      <3>1. b \in 0 .. N - 1 /\ b \in 0 .. fpga_posn - N /\ fpga_posn - N \in 0 .. N - 1
        BY ONLY <1>2, <1>n, <2>p, <2>7
      <3>2. CASE b = fpga_posn - N
        BY <1>1, <1>4, <2>1, <2>7, <3>1, <3>2 DEF TypeInv
      <3>3. CASE b # fpga_posn - N
        <4>1. b \in 0 .. fpga_posn - N - 1
          BY ONLY <1>2, <1>n, <3>1, <3>3
        <4>2. data'[b] = data[b]
          BY <1>1, <2>1, <3>1, <3>3 DEF TypeInv
        <4>3. QED
          BY <1>1, <2>7, <4>1, <4>2 DEF HostInv
      <3>4. QED
        BY <3>2, <3>3
    <2>8. HostInv'
      <3>1. nr' \in Seq(Results) /\ Len(nr') <= 1
        OBVIOUS
      <3>2. /\ pc' \in {"ask", "done"} /\ fpga_posn' >= N
            /\ pc' = "ask" => fpga_posn' < 2 * N
            /\ pc' = "done" => fpga_posn' = 2 * N
        BY <1>n, <2>p
      <3>3. QED
        BY <1>3, <2>7, <3>1, <3>2 DEF HostInv, Own
    <2>9. QED
      BY <2>2, <2>3, <2>6, <2>8
  <1>5. CASE ~(p.id = h_id /\ p.pay # None /\ p.posn = fpga_posn)
    <2>1. /\ UNCHANGED <<data, fpga_posn, up>>
          /\ pc' = IF p.id # h_id THEN "stuck_id"
                   ELSE IF p.pay = None /\ p.posn = 2 * N THEN "done" ELSE "ask"
      BY <1>5 DEF Recv
    <2>2. TypeInv'
      BY <1>1, <2>1 DEF TypeInv, fpga
    <2>3. pc' = "done" => Restarted
      <3>1. pc' = "done" => p.id = h_id /\ p.posn = 2 * N
        BY <2>1
      <3>2. ~(2 * N <= fpga_posn)
        BY <1>2, <1>n
      <3>3. QED
        BY <3>1, <3>2
    <2>4. HostInv'
      <3>1. nr' \in Seq(Results) /\ Len(nr') <= 1
        OBVIOUS
      <3>2. pc' \in {"stuck_id", "ask", "done"}
        BY <2>1
      <3>3. QED
        BY <1>1, <1>2, <1>3, <2>1, <2>3, <3>1, <3>2, Sizes DEF HostInv, Own
    <2>5. Onward
      <3>1. pc' \in {"stuck_id", "ask", "done"} /\ fpga_posn' = fpga_posn
        BY <2>1
      <3>2. Bound = fpga_posn /\ Bound' = fpga_posn /\ h_id' = h_id
        BY <3>1 DEF Bound
      <3>3. QED
        BY <1>2, <1>3, <1>n, <3>2 DEF Onward
    <2>6. up' \in Seq(ToBoard')
      BY <1>1, <2>1, <2>2, <2>5, PacketsStay, WiderQueue DEF NetInv, Onward
    <2>7. QED
      BY <2>2, <2>4, <2>5, <2>6
  <1>6. QED
    BY <1>4, <1>5

LEMMA ReceiveStep ==
  ASSUME FftInv, HostReceives
  PROVE  FftInv'
  <1>1. TypeInv /\ NetInv /\ HostInv
    BY DEF FftInv
  <1>2. pc = "recv" /\ nr' = <<>> /\ UNCHANGED <<call, h_id, fpga, tx, late>>
    BY DEF HostReceives
  <1>3. fpga_posn \in N .. 2 * N - 1 /\ (~Restarted => call = CallOf(h_id))
    BY <1>1, <1>2, Sizes DEF HostInv, TypeInv, Restarted, CallOf, FirstId
  <1>4. CASE nr # <<>> /\ Recv(Packet(h_id, fpga_posn, nr[1])) /\ UNCHANGED down
    <2> DEFINE p == Packet(h_id, fpga_posn, nr[1])
    <2>1. nr[1] \in Results
      <3>1. nr \in Seq(Results) /\ nr # <<>>
        BY <1>1, <1>4, Zenon DEF HostInv
      <3>2. QED
        BY ONLY <3>1
    <2>2. p \in AnyPacket /\ p.pay = nr[1] /\ p.id = h_id /\ p.posn = fpga_posn
      BY <1>1, <2>1 DEF Packet, AnyPacket, TypeInv
    <2>3. ~Restarted /\ p.pay # None => p.pay = [of |-> Own(call), block |-> fpga_posn - N]
      <3>1. ~Restarted => fpga_posn = N /\ nr[1] \in {None, [of |-> Own(call), block |-> 0]}
        BY <1>1, <1>2, <1>4 DEF HostInv
      <3>2. N - N = 0
        BY Sizes
      <3>3. QED
        BY <2>2, <3>1, <3>2
    <2>4. Recv(p)
      BY <1>4
    <2> HIDE DEF p
    <2>n. p.posn <= fpga_posn /\ p.pay \in Results
      BY <1>3, <2>1, <2>2, Sizes
    <2>u. UNCHANGED <<call, h_id, fpga>>
      BY <1>2
    <2>5. TypeInv' /\ HostInv' /\ Onward /\ up' \in Seq(ToBoard')
      BY <1>2, <2>2, <2>3, <2>4, <2>n, <2>u, RecvKeeps, Zenon
    <2>6. QED
      BY <1>1, <1>2, <1>4, <2>5, HostStep DEF tx, NetInv
  <1>5. CASE nr = <<>> /\ down # <<>> /\ Recv(Head(down)) /\ down' = Tail(down)
    <2>1. PICK p \in ToHost : Recv(p)
      BY <1>1, <1>5 DEF NetInv
    <2>2. /\ p \in AnyPacket /\ p.pay \in Results /\ p.id \in Int
          /\ ~Restarted => /\ p.id = h_id => p.posn <= fpga_posn
                           /\ p.pay # None => p.pay = [of |-> Own(CallOf(p.id)), block |-> p.posn - N]
      BY <1>2, <2>1 DEF ToHost, AnyPacket, Bound
    <2>3. TypeInv' /\ HostInv' /\ Onward /\ up' \in Seq(ToBoard')
      BY <1>2, <1>3, <2>1, <2>2, RecvKeeps
    <2>4. down' \in Seq(ToHost)
      BY <1>1, <1>5 DEF NetInv
    <2>5. QED
      BY <1>1, <1>2, <2>3, <2>4, HostStep DEF tx
  <1>6. QED
    BY <1>4, <1>5 DEF HostReceives

\* The next call, or a new run of the program, which is restarted from then on.
LEMMA AgainStep ==
  ASSUME FftInv, HostCallsAgain \/ Kill
  PROVE  FftInv'
  <1>1. TypeInv /\ NetInv /\ HostInv
    BY DEF FftInv
  <1>2. /\ call' = call + 1 /\ call < MaxCalls /\ pc' = "send" /\ fpga_posn' = 0 /\ nr' = <<>>
        /\ data' = [b \in 0 .. N - 1 |-> None] /\ UNCHANGED <<fpga, tx, up, late>>
    BY DEF HostCallsAgain, Kill
  <1>3. down' \in Seq(ToHost)
    <2>1. down \in Seq(ToHost) /\ <<>> \in Seq(ToHost)
      BY <1>1 DEF NetInv
    <2>2. down' \in {down, <<>>}
      BY DEF HostCallsAgain, Kill
    <2>3. QED
      BY <2>1, <2>2
  <1>4. /\ h_id' \in 0 .. 2^16 - 1 /\ h_id' <= FirstId + call' - 1
        /\ ~Restarted' => ~Restarted /\ h_id' = h_id + 1
    <2>1. CASE HostCallsAgain
      <3>1. h_id' = (h_id + 1) % 2^16
        BY <2>1 DEF HostCallsAgain
      <3>2. \A h \in 0 .. 2^16 - 1 : (h + 1) % 2^16 \in 0 .. 2^16 - 1 /\ (h + 1) % 2^16 <= h + 1
        OBVIOUS
      <3>3. h_id \in 0 .. 2^16 - 1 /\ h_id \in Int
        BY <1>1 DEF TypeInv
      <3>4. h_id' \in 0 .. 2^16 - 1 /\ h_id' <= h_id + 1
        BY <3>1, <3>2, <3>3, Zenon
      <3>5. QED
        BY <1>1, <1>2, <3>3, <3>4, Sizes DEF TypeInv, Restarted, FirstId
    <2>2. CASE Kill
      <3>1. h_id' = FirstId /\ FirstId \in 0 .. 2^16 - 1
        BY <2>2 DEF Kill, FirstId
      <3>2. QED
        BY <1>1, <1>2, <3>1, Sizes DEF TypeInv, Restarted, FirstId
    <2>3. QED
      BY <2>1, <2>2
  <1>5. TypeInv'
    <2>1. data' \in [0 .. N - 1 -> Results]
      BY <1>2 DEF Results
    <2>2. call' \in 1 .. MaxCalls /\ 0 \in 0 .. 2 * N
      BY <1>1, <1>2, Positions
    <2>3. QED
      BY <1>1, <1>2, <1>4, <2>1, <2>2 DEF TypeInv, fpga
  <1>6. HostInv'
    BY <1>2, Sizes DEF HostInv
  <1>7. Onward
    BY <1>1, <1>4 DEF Onward, TypeInv
  <1>8. up' \in Seq(ToBoard')
    BY <1>1, <1>2, <1>5, <1>7, PacketsStay, WiderQueue DEF NetInv, Onward
  <1>9. QED
    BY <1>1, <1>2, <1>3, <1>5, <1>6, <1>7, <1>8, HostStep DEF tx

LEMMA FftStep == FftInv /\ [FftNext]_fftvars => FftInv'
  <1>1. FftInv /\ FftNext => FftInv'
    BY BoardStep, FaultStep, SendStep, ReadStep, ReceiveStep, AgainStep DEF FftNext, HostSteps
  <1>2. ASSUME FftInv, UNCHANGED fftvars PROVE FftInv'
    <2>1. UNCHANGED <<host, fpga, tx, up, down, late>>
      BY <1>2 DEF fftvars
    <2>2. BoardTypes' /\ BoardInv'
      BY <1>2, <2>1, BoardRests DEF FftInv, NetInv, tx
    <2>3. QED
      BY <1>2, <2>1, <2>2, OthersStep DEF FftInv, NetInv
  <1>3. QED
    BY <1>1, <1>2

LEMMA FftStarts == FftInit => FftInv
  <1> SUFFICES ASSUME FftInit PROVE FftInv
    OBVIOUS
  <1>1. TypeInv
    BY Sizes DEF FftInit, TypeInv, FirstId, Results
  <1>2. NetInv
    <2>1. up = <<>> /\ down = <<>> /\ netbtx = None /\ waiting_pkt = None /\ late = None
      BY Zenon DEF FftInit
    <2>2. QED
      BY <2>1 DEF NetInv
  <1>3. BoardInv
    BY Sizes DEF FftInit, BoardInv, FirstId, Bound
  <1>4. HostInv
    BY Sizes DEF FftInit, HostInv
  <1>5. QED
    BY <1>1, <1>2, <1>3, <1>4 DEF FftInv

LEMMA FftInvariant == FftSpec => []FftInv
  BY FftStarts, FftStep, PTL DEF FftSpec

\* testfft.cpp and fftmain.c: runfft_test returns the transform of exactly its samples,
\* for every length of the transform, whatever is lost, late or repeated and however
\* fast the two sides are, as long as the program has not been started again.
THEOREM TransformIsRight == FftSpec => []ResultRight
  <1>1. FftInv => ResultRight
    <2> SUFFICES ASSUME FftInv, pc = "done", ~Restarted
                 PROVE  data = [b \in 0 .. N - 1 |-> [of |-> Own(call), block |-> b]]
      BY DEF ResultRight
    <2>1. fpga_posn - N - 1 = N - 1 /\ data \in [0 .. N - 1 -> Results]
      <3>1. fpga_posn = 2 * N /\ data \in [0 .. N - 1 -> Results]
        BY DEF FftInv, HostInv, TypeInv
      <3>2. QED
        BY <3>1, Sizes
    <2>2. \A b \in 0 .. N - 1 : data[b] = [of |-> Own(call), block |-> b]
      BY <2>1 DEF FftInv, HostInv
    <2>3. QED
      BY <2>1, <2>2
  <1>2. QED
    BY <1>1, FftInvariant, PTL

\* fftmain.c and wbfft.v agree on the number of samples taken, and the assertion of
\* runfft_test on its position fails in no program that runs for the first time.
THEOREM PositionsAgree == FftSpec => []PositionRight
  <1>1. FftInv => PositionRight
    <2> SUFFICES ASSUME FftInv
                 PROVE  PositionAgrees /\ PosnFailsOnlyRestarted
      BY DEF PositionRight
    <2>1. ASSUME fft_state = "FFT_INPUT", fft_posn < 2 * N
          PROVE  Len(samples_in) = fft_posn
      <3>1. Len(samples_in) = fft_posn \/ fft_posn = 2 * N
        BY <2>1, Zenon DEF FftInv, BoardInv
      <3>2. N \in Nat
        BY Sizes
      <3>3. QED
        BY ONLY <2>1, <3>1, <3>2
    <2>2. fft_state = "FFT_OUTPUT" => Len(samples_in) = N /\ mem = samples_in
      BY Zenon DEF FftInv, BoardInv
    <2>3. PosnFailsOnlyRestarted
      BY Zenon DEF FftInv, HostInv, PosnFailsOnlyRestarted
    <2>4. QED
      BY <2>1, <2>2, <2>3, Zenon DEF PositionAgrees
  <1>2. QED
    BY <1>1, FftInvariant, PTL
=============================================================================
