------------------------------- MODULE FftLink -------------------------------
(***************************************************************************)
(* The FFT service: sw/host/testfft.cpp sends the samples of a transform   *)
(* block by block in UDP packets, sw/rv32/fftmain.c feeds them to the FFT  *)
(* peripheral (rtl/fft/wbfft.v) and returns the result block by block.     *)
(* Either side repeats itself after a timeout.                             *)
(*                                                                         *)
(* Positions count blocks of MAXLN words: 0..N for the samples, N..2N for  *)
(* the result.  A block of samples is named by the call of runfft_test     *)
(* that it belongs to and its index; a block of a result by the samples    *)
(* that the transform was taken of and its index.  There is one host, with *)
(* one address and port (udpsocket.cpp binds a fixed one).  A transform is *)
(* finished before the processor, which first sends an acknowledgement,    *)
(* can read it.                                                            *)
(*                                                                         *)
(* Definitions marked as a variant show a slip that a property catches; no *)
(* specification uses them.                                                *)
(***************************************************************************)
EXTENDS Integers, Sequences

CONSTANTS N,          \* FFT_SIZE / MAXLN, 8 in the code
          MaxCalls,   \* how often runfft_test is called
          Room,       \* packets that a direction holds; more are dropped
          Faults,     \* what may go wrong, of "lose", "late", "twice", "kill"
          MaxFaults,  \* how often
          Hasty,      \* the host or the timer may be faster than a pass of the
                      \* board's loop; if not, TIMEOUT is long against it
          None

VARIABLES
  pc, call, h_id, fpga_posn, nr, data,       \* the host, in runfft_test
  fft_id, fft_posn, fft_state,               \* the processor
  samples_in, mem,                           \* the FFT peripheral
  turn, pic, nettx, netbtx, waiting_pkt,     \* its main loop and transmitter
  up, down,                                  \* packets to and from the board
  faults, late                               \* the network

host == <<pc, call, h_id, fpga_posn, nr, data>>
fpga == <<fft_id, fft_posn, fft_state, samples_in, mem>>
tx   == <<nettx, netbtx, waiting_pkt>>
loop == <<turn, pic>>
fftvars == <<host, fpga, loop, tx, up, down, faults, late>>

FirstId == 8      \* "static unsigned fft_id = 7" is incremented first

Block == [call : 1 .. MaxCalls, block : 0 .. N - 1]
Packet(id, posn, pay) == [id |-> id, posn |-> posn, pay |-> pay]

\* What a packet carries, to the board and back, or None.
Payloads == {None} \cup Block
Results  == {None} \cup [of : Seq(Block), block : 0 .. N - 1]
AnyPacket == [id : Int, posn : 0 .. 2 * N, pay : Payloads \cup Results]

ASSUME FftAssumption ==
  /\ {N, MaxCalls, Room} \subseteq Nat \ {0} /\ MaxFaults \in Nat
  /\ Hasty \in BOOLEAN
  /\ Faults \subseteq {"lose", "late", "twice", "kill"}
  /\ None \notin Block /\ None \notin [of : Seq(Block), block : 0 .. N - 1]
  /\ None \notin AnyPacket /\ None \notin {"up", "down"} \X AnyPacket

FftInit ==
  /\ pc = "send" /\ call = 1 /\ h_id = FirstId /\ fpga_posn = 0 /\ nr = <<>>
  /\ data = [b \in 0 .. N - 1 |-> None]
  /\ fft_id = -1 /\ fft_posn = 0 /\ fft_state = "FFT_INPUT"
  /\ samples_in = <<>> /\ mem = <<>>
  /\ turn = "top" /\ pic = {}
  /\ nettx = TRUE /\ netbtx = None /\ waiting_pkt = None
  /\ up = <<>> /\ down = <<>>
  /\ faults = 0 /\ late = None

TxBusy == netbtx # None

\* The board is back at the top of its loop with nothing left to do.
Idle == turn = "top" /\ up = <<>> /\ waiting_pkt = None /\ ~TxBusy
Settled == Hasty \/ Idle

Put(q, p) == IF Len(q) < Room THEN Append(q, p) ELSE q
Without(q, i) == SubSeq(q, 1, i - 1) \o SubSeq(q, i + 1, Len(q))

-----------------------------------------------------------------------------
\* The host.  The first loop of runfft_test: "send" and "read"; the second: "ask"
\* and "recv".  "stuck" is a failed assertion.

HostSends ==
  /\ pc = "send"
  /\ up' = Put(up, Packet(h_id, fpga_posn, [call |-> call, block |-> fpga_posn]))
  /\ pc' = "read"
  /\ UNCHANGED <<call, h_id, fpga_posn, nr, data, fpga, loop, tx, down, faults, late>>

\* Variant: the position of any answer counts.
AdvanceAnyId(p) == IF p.posn > fpga_posn THEN p.posn ELSE fpga_posn

\* Where the samples are at, after an answer.
Advance(p) == IF p.id # h_id THEN 0
              ELSE IF p.posn > fpga_posn THEN p.posn ELSE fpga_posn

HostReads ==
  /\ pc = "read" /\ down # <<>> /\ Settled
  /\ LET p == Head(down) IN
       /\ fpga_posn' = Advance(p)
       /\ nr' = <<p.pay>>
       /\ pc' = IF fpga_posn' < N THEN "send"
                ELSE IF fpga_posn' = N THEN "ask" ELSE "stuck_posn"
  /\ down' = Tail(down)
  /\ UNCHANGED <<call, h_id, data, fpga, loop, tx, up, faults, late>>

\* poll() timed out.
HostHearsNothing ==
  /\ pc \in {"read", "recv"} /\ down = <<>> /\ (pc = "recv" => nr = <<>>)
  /\ Settled
  /\ pc' = IF pc = "read" THEN "send" ELSE "ask"
  /\ UNCHANGED <<call, h_id, fpga_posn, nr, data, fpga, loop, tx, up, down, faults, late>>

HostAsks ==
  /\ pc = "ask"
  /\ up' = Put(up, Packet(h_id, fpga_posn, None))
  /\ pc' = "recv"
  /\ UNCHANGED <<call, h_id, fpga_posn, nr, data, fpga, loop, tx, down, faults, late>>

\* Variant: a block of any position is taken for the one that was asked for.
RecvAnyPosn(p) ==
  IF p.id = h_id /\ p.pay # None
  THEN /\ data' = [data EXCEPT ![fpga_posn - N] = p.pay]
       /\ fpga_posn' = fpga_posn + 1
       /\ up' = Put(up, Packet(h_id, fpga_posn + 1, None))
       /\ pc' = IF fpga_posn + 1 < 2 * N THEN "ask" ELSE "done"
  ELSE /\ pc' = IF p.id # h_id THEN "stuck_id"
                ELSE IF p.posn = 2 * N THEN "done" ELSE "ask"
       /\ UNCHANGED <<data, fpga_posn, up>>

Recv(p) ==
  IF p.id = h_id /\ p.pay # None /\ p.posn = fpga_posn
  THEN /\ data' = [data EXCEPT ![fpga_posn - N] = p.pay]
       /\ fpga_posn' = fpga_posn + 1
       /\ up' = Put(up, Packet(h_id, fpga_posn + 1, None))
       /\ pc' = IF fpga_posn + 1 < 2 * N THEN "ask" ELSE "done"
  ELSE /\ pc' = IF p.id # h_id THEN "stuck_id"
                ELSE IF p.pay = None /\ p.posn = 2 * N THEN "done" ELSE "ask"
       /\ UNCHANGED <<data, fpga_posn, up>>

\* The answer that ended the first loop is looked at once more before anything is
\* read; its header has been overwritten with that of the request.
HostReceives ==
  /\ pc = "recv"
  /\ \/ nr # <<>> /\ Recv(Packet(h_id, fpga_posn, nr[1])) /\ UNCHANGED down
     \/ nr = <<>> /\ down # <<>> /\ Settled /\ Recv(Head(down)) /\ down' = Tail(down)
  /\ nr' = <<>>
  /\ UNCHANGED <<call, h_id, fpga, loop, tx, faults, late>>

\* main() goes on to its next test.
HostCallsAgain ==
  /\ pc = "done" /\ call < MaxCalls
  /\ call' = call + 1 /\ h_id' = (h_id + 1) % 2^16
  /\ pc' = "send" /\ fpga_posn' = 0 /\ nr' = <<>>
  /\ data' = [b \in 0 .. N - 1 |-> None]
  /\ UNCHANGED <<fpga, loop, tx, up, down, faults, late>>

-----------------------------------------------------------------------------
\* The board.

\* tx_pkt() and tx_busy(): a packet that finds the transmitter busy waits, and
\* replaces one that waited before it.
Transmit(p) ==
  IF TxBusy
  THEN waiting_pkt' = p /\ UNCHANGED netbtx
  ELSE netbtx' = p /\ UNCHANGED waiting_pkt

\* The interrupt controller remembers that the transmitter has been idle.
TxDone ==
  /\ TxBusy /\ down' = Put(down, netbtx)
  /\ netbtx' = None /\ nettx' = TRUE
  /\ UNCHANGED <<host, fpga, loop, waiting_pkt, up, faults, late>>

\* wbfft.v: samples are taken in the order they are written, whatever their
\* address, until there are enough of them.
WriteFft(b) ==
  /\ samples_in' = IF Len(samples_in) < N THEN Append(samples_in, b) ELSE samples_in
  /\ mem' = IF Len(samples_in) = N - 1 THEN samples_in' ELSE mem

reset_fft == samples_in' = <<>> /\ UNCHANGED mem

\* A block of the result.  The peripheral looks at the low bits of the address.
Result(posn) == [of |-> mem, block |-> posn % N]

\* Variant: the peripheral keeps the samples of the transform before.
AdoptNoReset(p) ==
  /\ UNCHANGED <<samples_in, mem>>
  /\ fft_id' = p.id /\ fft_posn' = 0 /\ fft_state' = "FFT_INPUT"
  /\ Transmit(Packet(p.id, 0, None))

\* A new transform.
Adopt(p) ==
  /\ reset_fft
  /\ fft_id' = p.id /\ fft_posn' = 0 /\ fft_state' = "FFT_INPUT"
  /\ Transmit(Packet(p.id, 0, None))

Take(p) ==
  /\ fft_state = "FFT_INPUT" /\ p.id = fft_id /\ p.posn = fft_posn
  /\ IF p.pay = None
     THEN UNCHANGED <<fft_posn, samples_in, mem>>
     ELSE fft_posn' = fft_posn + 1 /\ WriteFft(p.pay)
  /\ fft_state' = IF fft_posn' = N THEN "FFT_OUTPUT" ELSE fft_state
  /\ Transmit(Packet(fft_id, fft_posn', None))
  /\ UNCHANGED fft_id

Acknowledge(p) ==
  /\ fft_state = "FFT_INPUT" /\ p.id = fft_id /\ p.posn # fft_posn
  /\ Transmit(Packet(fft_id, fft_posn, None))
  /\ UNCHANGED fpga

\* Variant: every request is taken for the next one.
AnswerSteps(p) ==
  /\ fft_state = "FFT_OUTPUT" /\ p.id = fft_id
  /\ IF p.posn >= 2 * N
     THEN reset_fft /\ fft_state' = "FFT_INPUT" /\ UNCHANGED <<netbtx, waiting_pkt>>
     ELSE /\ Transmit(Packet(fft_id, fft_posn,
                             IF p.posn = N THEN None ELSE Result(fft_posn)))
          /\ UNCHANGED <<fft_state, samples_in, mem>>
  /\ fft_posn' = fft_posn + 1
  /\ UNCHANGED fft_id

\* The result.  The answer carries the old position, and no data to a request for
\* position N, since FFT_LENGTH - pkt_posn is zero there (and wraps beyond it).
Answer(p) ==
  /\ fft_state = "FFT_OUTPUT" /\ p.id = fft_id
  /\ IF p.posn >= 2 * N
     THEN reset_fft /\ fft_state' = "FFT_INPUT" /\ UNCHANGED <<netbtx, waiting_pkt>>
     ELSE /\ Transmit(Packet(fft_id, fft_posn,
                             IF p.posn = N THEN None ELSE Result(fft_posn)))
          /\ UNCHANGED <<fft_state, samples_in, mem>>
  /\ fft_posn' = IF p.posn > fft_posn THEN p.posn ELSE fft_posn
  /\ UNCHANGED fft_id

fftpacket(p) ==
  \/ Take(p) \/ Acknowledge(p) \/ Answer(p)
  \/ p.id # fft_id /\ Adopt(p)

\* Variant: nothing is repeated once the samples are in.
ffttimeoutInput ==
  /\ fft_state = "FFT_INPUT" /\ fft_posn > 0
  /\ Transmit(Packet(fft_id, fft_posn, None))
  /\ UNCHANGED fpga

ffttimeout ==
  /\ \/ /\ fft_state = "FFT_INPUT" /\ fft_posn > 0
        /\ Transmit(Packet(fft_id, fft_posn, None))
     \/ /\ fft_state = "FFT_OUTPUT" /\ fft_posn < 2 * N
        /\ Transmit(Packet(fft_id, fft_posn, Result(fft_posn)))
  /\ UNCHANGED fpga

\* main(): the pending interrupts are read once, at the top of the loop.
LoopTop ==
  /\ turn = "top"
  /\ pic' = {i \in {"rx", "tx"} : IF i = "rx" THEN up # <<>> ELSE nettx}
  /\ turn' = IF up # <<>> THEN "rx" ELSE "tx"

\* No timer interrupt, or none that has anything to do.
Poll == LoopTop /\ UNCHANGED <<host, fpga, tx, up, down, faults, late>>

\* Twice a second, unless a packet is waiting.
Tick ==
  /\ LoopTop /\ waiting_pkt = None /\ Settled /\ ffttimeout
  /\ UNCHANGED <<host, nettx, up, down, faults, late>>

Receive ==
  /\ turn = "rx" /\ turn' = "tx"
  /\ IF up = <<>> THEN UNCHANGED <<fpga, tx, up>>
     ELSE fftpacket(Head(up)) /\ up' = Tail(up) /\ UNCHANGED nettx
  /\ UNCHANGED <<host, pic, down, faults, late>>

\* The transmitter has been idle: the waiting packet is tried again.
Retransmit ==
  /\ turn = "tx" /\ turn' = "top"
  /\ IF "tx" \in pic /\ waiting_pkt # None
     THEN /\ IF TxBusy THEN UNCHANGED <<netbtx, waiting_pkt>>
             ELSE netbtx' = waiting_pkt /\ waiting_pkt' = None
          /\ nettx' = FALSE
     ELSE UNCHANGED tx
  /\ UNCHANGED <<host, fpga, pic, up, down, faults, late>>

Board == Poll \/ Tick \/ Receive \/ Retransmit

-----------------------------------------------------------------------------
\* What may go wrong.

Fault(kind) == kind \in Faults /\ faults < MaxFaults /\ faults' = faults + 1

Lose ==
  /\ Fault("lose")
  /\ \/ \E i \in 1 .. Len(up) : up' = Without(up, i) /\ UNCHANGED down
     \/ \E i \in 1 .. Len(down) : down' = Without(down, i) /\ UNCHANGED up
  /\ UNCHANGED <<host, fpga, loop, tx, late>>

\* A packet, or a copy of it, takes another way and arrives whenever it likes.
Stray ==
  /\ late = None
  /\ \/ /\ Fault("late")
        /\ \/ \E i \in 1 .. Len(up) :
                up' = Without(up, i) /\ late' = <<"up", up[i]>> /\ UNCHANGED down
           \/ \E i \in 1 .. Len(down) :
                down' = Without(down, i) /\ late' = <<"down", down[i]>> /\ UNCHANGED up
     \/ /\ Fault("twice")
        /\ \/ \E i \in 1 .. Len(up) : late' = <<"up", up[i]>>
           \/ \E i \in 1 .. Len(down) : late' = <<"down", down[i]>>
        /\ UNCHANGED <<up, down>>
  /\ UNCHANGED <<host, fpga, loop, tx>>

Arrive ==
  /\ late # None /\ late' = None
  /\ \/ late[1] = "up" /\ up' = Put(up, late[2]) /\ UNCHANGED down
     \/ late[1] = "down" /\ down' = Put(down, late[2]) /\ UNCHANGED up
  /\ UNCHANGED <<host, fpga, loop, tx, faults>>

\* The program is killed and started again, with a new socket.
Kill ==
  /\ Fault("kill") /\ call < MaxCalls
  /\ call' = call + 1 /\ h_id' = FirstId
  /\ pc' = "send" /\ fpga_posn' = 0 /\ nr' = <<>>
  /\ data' = [b \in 0 .. N - 1 |-> None]
  /\ down' = <<>>
  /\ UNCHANGED <<fpga, loop, tx, up, late>>

-----------------------------------------------------------------------------
HostSteps == HostSends \/ HostReads \/ HostHearsNothing \/ HostAsks
               \/ HostReceives \/ HostCallsAgain

FftNext == HostSteps \/ Board \/ TxDone
          \/ Lose \/ Stray \/ Arrive \/ Kill

FftSpec == FftInit /\ [][FftNext]_fftvars

\* Both programs run, the transmitter finishes and the timer ticks: the host polls
\* for 50 ms and the timer interrupts twice a second, so that neither keeps the
\* other from finding the board idle for ever.
FftFairness ==
  /\ SF_fftvars(HostSteps) /\ WF_fftvars(Board) /\ WF_fftvars(TxDone) /\ SF_fftvars(Tick)

FftLiveSpec == FftSpec /\ FftFairness

-----------------------------------------------------------------------------
Own(c) == [i \in 1 .. N |-> [call |-> c, block |-> i - 1]]

\* Every packet has the form that its receiver expects.
FftTypeOK ==
  /\ pc \in {"send", "read", "ask", "recv", "done", "stuck_posn", "stuck_id"}
  /\ call \in 1 .. MaxCalls /\ h_id \in 0 .. 2^16 - 1
  /\ fpga_posn \in 0 .. 2 * N /\ (nr = <<>> \/ nr[1] \in Results) /\ data \in [0 .. N - 1 -> Results]
  /\ fft_id \in -1 .. 2^16 - 1 /\ fft_posn \in 0 .. 2 * N
  /\ fft_state \in {"FFT_INPUT", "FFT_OUTPUT"}
  /\ turn \in {"top", "rx", "tx"} /\ pic \subseteq {"rx", "tx"}
  /\ nettx \in BOOLEAN /\ \A p \in {netbtx, waiting_pkt} \ {None} : p.pay \in Results
  /\ samples_in \in Seq(Block) /\ mem \in Seq(Block)
  /\ Len(samples_in) <= N /\ Len(mem) \in {0, N}
  /\ \A i \in 1 .. Len(up) : up[i].id >= 0 /\ up[i].pay \in Payloads
  /\ \A i \in 1 .. Len(down) : down[i].id >= 0 /\ down[i].pay \in Results

\* The program was killed and started again.
Restarted == h_id # FirstId + call - 1

\* What runfft_test returns is the transform of exactly the samples it was given,
\* every block in its place, whatever was lost, repeated or overtaken, as long as
\* no other run of the program has used the same transform id.
ResultRight ==
  pc = "done" /\ ~Restarted =>
    data = [b \in 0 .. N - 1 |-> [of |-> Own(call), block |-> b]]

\* The position that the processor keeps and the samples that the peripheral has
\* taken agree, so that no sample is skipped or entered twice.
PositionAgrees ==
  /\ fft_state = "FFT_INPUT" /\ fft_posn < 2 * N => Len(samples_in) = fft_posn
  /\ fft_state = "FFT_OUTPUT" => Len(samples_in) = N /\ mem = samples_in

\* assert(fpga_posn == FFT_SIZE) in runfft_test never fails.
PosnAssertion == pc # "stuck_posn"

\* It fails only in a program that was started again, whose transform has the id
\* of an earlier one.
PosnFailsOnlyRestarted == pc = "stuck_posn" => Restarted

\* Both: host, processor and peripheral agree on how far the transform is.
PositionRight == PositionAgrees /\ PosnFailsOnlyRestarted

\* if (pkt_id != fft_id) assert(0) in runfft_test never fails.
IdAssertion == pc # "stuck_id"

\* Every call returns.
Returns == pc # "done" ~> pc = "done"

=============================================================================
