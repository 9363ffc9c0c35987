------------------------------- MODULE WbuExec -------------------------------
(***************************************************************************)
(* rtl/wbubus/wbuexec.v: runs the bus transactions the debugging host asks *)
(* for, together with the bus watchdog of rtl/wbubus/wbuconsole.v.         *)
(*                                                                         *)
(* A step is one edge of i_clk.  Commands come from the input FIFO, which  *)
(* offers one only while o_busy is low.  On the bus side the component     *)
(* sees what BusDelayLink promises to a master: answers in order, only to  *)
(* requests of the present bus cycle, and none of them after an error.     *)
(* Data words are left out; a data codeword carries the address it is from.*)
(***************************************************************************)
EXTENDS Integers, Sequences

CONSTANTS AddrMod,   \* 2^32 in the code
          MaxLen,    \* the longest vector read (at most 2^10 - 1)
          AckMod,    \* 2^10, the range of r_acks_needed
          WdtMax,    \* 2^LGWATCHDOG - 1
          MaxOut     \* how many requests the bus takes before it stalls

ASSUME ExecAssumption ==
  /\ AddrMod \in Nat \ {0} /\ MaxLen \in Nat \ {0} /\ WdtMax \in Nat
  /\ AckMod \in Nat /\ MaxOut \in Nat /\ MaxOut < AckMod

VARIABLES wb_state, o_wb_cyc, o_wb_stb, o_wb_we, o_wb_addr, r_inc,
          o_stb, o_codword, r_new_addr, r_acks_needed, last_ack, zero_acks,
          r_len, single_read_request, last_read_request,
          r_wdt_timer, r_wdt_reset,
          outstanding,   \* addresses of the requests that the bus will answer
          fresh,         \* the transaction began with cyc low
          failed,        \* the bus has reported an error since
          due            \* data words the host still expects of its read

fsm  == <<wb_state, o_wb_cyc, o_wb_stb, o_wb_we, o_wb_addr, r_inc, o_stb,
          o_codword>>
execvars == <<fsm, r_new_addr, r_acks_needed, last_ack, zero_acks, r_len,
          single_read_request, last_read_request, r_wdt_timer, r_wdt_reset,
          outstanding, fresh, failed, due>>

Addr == 0 .. AddrMod - 1
Plus(a, n) == (a + n) % AddrMod

\* The commands, by bits 35 to 30 of the codeword.
Codeword ==
  [op : {"addr", "rel"}, a : Addr] \cup [op : {"write"}, inc : BOOLEAN]
    \cup [op : {"read"}, inc : BOOLEAN, len : 1 .. MaxLen]
    \cup [op : {"eow", "other"}]

\* The fields of a codeword are bits of it, whatever its kind.
Len10(c) == IF c.op = "read" THEN c.len ELSE 0
Inc(c)   == c.op \in {"read", "write"} /\ c.inc

\* What is sent back, with the address it is about.
Word(kind, a) == [kind |-> kind, a |-> a]

o_busy == wb_state \notin {"IDLE", "WAIT_ON_NEXT_WRITE", "FLUSH_WRITE_REQUESTS"}

w_new_err(i_stb, c) == i_stb /\ c.op \notin {"write", "eow"}

\* Registers that have no initial value are written by the idle state, long
\* before the first character of a command can arrive.
ExecInit ==
  /\ wb_state = "IDLE" /\ o_wb_cyc = FALSE /\ o_wb_stb = FALSE
  /\ o_wb_we = TRUE /\ o_wb_addr \in Addr /\ r_inc = FALSE
  /\ o_stb = FALSE /\ o_codword = Word("addr", o_wb_addr)
  /\ r_new_addr = TRUE /\ r_acks_needed = 0
  /\ last_ack = FALSE /\ zero_acks = TRUE /\ r_len = 0
  /\ single_read_request = FALSE /\ last_read_request = FALSE
  /\ r_wdt_timer = 0 /\ r_wdt_reset = FALSE
  /\ outstanding = <<>> /\ fresh = TRUE /\ failed = FALSE /\ due = 0

-----------------------------------------------------------------------------
\* The state machine, one operator for each of its states.

Reset ==
  /\ wb_state' = "IDLE" /\ o_wb_cyc' = FALSE /\ o_wb_stb' = FALSE
  /\ o_stb' = TRUE /\ o_codword' = Word("reset", 0)
  /\ UNCHANGED <<o_wb_we, o_wb_addr, r_inc>>

Idle(i_stb, c) ==
  LET start == i_stb /\ c.op \in {"read", "write"}
  IN  /\ o_wb_cyc' = start /\ o_wb_stb' = start
      /\ wb_state' = IF ~start THEN "IDLE"
                     ELSE IF c.op = "read" THEN "READ_REQUEST" ELSE "WRITE_REQUEST"
      /\ o_stb' = (start /\ c.op = "read" /\ r_new_addr)
      /\ o_codword' = Word("addr", o_wb_addr)
      /\ o_wb_we' = (c.op # "read")
      /\ r_inc' = Inc(c)
      /\ o_wb_addr' = CASE i_stb /\ c.op = "addr" -> c.a
                        [] i_stb /\ c.op = "rel"  -> Plus(o_wb_addr, c.a)
                        [] OTHER -> o_wb_addr

NxtAddr(stall) ==
  o_wb_addr' = IF r_inc /\ ~stall THEN Plus(o_wb_addr, 1) ELSE o_wb_addr

\* An error ends the read, unless the last request is accepted with it; cyc and
\* stb stay up for one clock more.
ReadRequest(stall, ack, err) ==
  LET last == ~stall /\ (single_read_request \/ last_read_request)
  IN  /\ wb_state' = IF last THEN "ACK" ELSE IF err THEN "IDLE" ELSE wb_state
      /\ o_wb_cyc' = TRUE /\ o_wb_stb' = ~last
      /\ o_stb' = (err \/ ack)
      /\ o_codword' = IF err THEN Word("err", 0)
                      ELSE IF ack THEN Word("data", Head(outstanding)) ELSE o_codword
      /\ NxtAddr(stall)
      /\ UNCHANGED <<o_wb_we, r_inc>>

WriteRequest(stall, err) ==
  /\ wb_state' = CASE err -> "FLUSH_WRITE_REQUESTS"
                   [] ~err /\ ~stall -> "WAIT_ON_NEXT_WRITE"
                   [] OTHER -> wb_state
  /\ o_wb_cyc' = ~err /\ o_wb_stb' = (~err /\ stall)
  /\ o_stb' = (err \/ ~stall)
  /\ o_codword' = IF err THEN Word("err", 0) ELSE Word("wrack", o_wb_addr)
  /\ NxtAddr(stall)
  /\ UNCHANGED <<o_wb_we, r_inc>>

\* Variants named for the slip they show; no specification uses them.
AckKeepsCyc(ack, err) ==
  LET done == (last_ack /\ ack) \/ zero_acks \/ err
  IN  /\ wb_state' = IF done THEN "IDLE" ELSE wb_state
      /\ o_wb_cyc' = TRUE /\ o_wb_stb' = FALSE
      /\ o_stb' = ((ack /\ ~o_wb_we) \/ err)
      /\ o_codword' = IF err THEN Word("err", 0)
                      ELSE IF ack THEN Word("data", Head(outstanding)) ELSE o_codword
      /\ UNCHANGED <<o_wb_we, o_wb_addr, r_inc>>

Ack(ack, err) ==
  LET done == (last_ack /\ ack) \/ zero_acks \/ err
  IN  /\ wb_state' = IF done THEN "IDLE" ELSE wb_state
      /\ o_wb_cyc' = ~done /\ o_wb_stb' = FALSE
      /\ o_stb' = ((ack /\ ~o_wb_we) \/ err)
      /\ o_codword' = IF err THEN Word("err", 0)
                      ELSE IF ack THEN Word("data", Head(outstanding)) ELSE o_codword
      /\ UNCHANGED <<o_wb_we, o_wb_addr, r_inc>>

WaitOnNextWrite(i_stb, c, err) ==
  LET new_err == w_new_err(i_stb, c)
      newwr   == ~new_err /\ ~err /\ i_stb /\ c.op = "write"
  IN  /\ wb_state' = CASE new_err -> "IDLE"
                       [] ~new_err /\ err -> "FLUSH_WRITE_REQUESTS"
                       [] newwr -> "WRITE_REQUEST"
                       [] ~new_err /\ ~err /\ i_stb /\ c.op = "eow" -> "ACK"
                       [] OTHER -> wb_state
      /\ o_wb_cyc' = (~new_err /\ ~err) /\ o_wb_stb' = newwr
      /\ o_stb' = (err \/ new_err) /\ o_codword' = Word("err", 0)
      /\ UNCHANGED <<o_wb_we, o_wb_addr, r_inc>>

FlushWriteRequests(i_stb, c) ==
  LET new_err == w_new_err(i_stb, c)
  IN  /\ wb_state' = IF new_err \/ (i_stb /\ c.op = "eow") THEN "IDLE" ELSE wb_state
      /\ o_wb_cyc' = FALSE /\ o_wb_stb' = FALSE
      /\ o_stb' = new_err /\ o_codword' = Word("err", 0)
      /\ UNCHANGED <<o_wb_we, o_wb_addr, r_inc>>

Fsm(i_stb, c, stall, ack, err) ==
  \/ r_wdt_reset /\ Reset
  \/ /\ ~r_wdt_reset
     /\ \/ wb_state = "IDLE" /\ Idle(i_stb, c)
        \/ wb_state = "READ_REQUEST" /\ ReadRequest(stall, ack, err)
        \/ wb_state = "WRITE_REQUEST" /\ WriteRequest(stall, err)
        \/ wb_state = "ACK" /\ Ack(ack, err)
        \/ wb_state = "WAIT_ON_NEXT_WRITE" /\ WaitOnNextWrite(i_stb, c, err)
        \/ wb_state = "FLUSH_WRITE_REQUESTS" /\ FlushWriteRequests(i_stb, c)

-----------------------------------------------------------------------------
\* The registers beside the state machine.

NxtNewAddr(i_stb, c) ==
  r_new_addr' = CASE r_wdt_reset -> TRUE
                  [] ~r_wdt_reset /\ ~o_wb_cyc /\ i_stb
                       /\ c.op \in {"addr", "rel", "write"} -> TRUE
                  [] ~r_wdt_reset /\ o_wb_cyc -> FALSE
                  [] OTHER -> r_new_addr

\* Variants named for the slip they show; no specification uses them.
NxtAcksNeededMissesAck(stall, ack) ==
  r_acks_needed' =
    CASE ~o_wb_cyc -> 0
      [] o_wb_cyc /\ o_wb_stb /\ ~stall -> (r_acks_needed + 1) % AckMod
      [] o_wb_cyc /\ (~o_wb_stb \/ stall) /\ ack -> (r_acks_needed - 1) % AckMod
      [] OTHER -> r_acks_needed

NxtAcksNeeded(stall, ack) ==
  r_acks_needed' =
    CASE ~o_wb_cyc -> 0
      [] o_wb_cyc /\ o_wb_stb /\ ~stall /\ ~ack -> (r_acks_needed + 1) % AckMod
      [] o_wb_cyc /\ (~o_wb_stb \/ stall) /\ ack -> (r_acks_needed - 1) % AckMod
      [] OTHER -> r_acks_needed

NxtLastAck ==
  /\ last_ack' = IF o_wb_stb THEN r_acks_needed = 0 ELSE r_acks_needed = 1
  /\ zero_acks' = (~o_wb_stb /\ r_acks_needed = 0)

NxtLen(c, stall) ==
  r_len' = CASE ~o_wb_stb -> Len10(c)
             [] o_wb_stb /\ ~stall /\ r_len # 0 -> r_len - 1
             [] OTHER -> r_len

NxtLastReadIgnoresStall(c, stall) ==
  /\ single_read_request' = (~o_wb_cyc /\ Len10(c) = 1)
  /\ last_read_request' = (o_wb_stb /\ r_len <= 2)

NxtLastRead(c, stall) ==
  /\ single_read_request' = (~o_wb_cyc /\ Len10(c) = 1)
  /\ last_read_request' = (o_wb_stb /\ (r_len <= 1 \/ (r_len = 2 /\ ~stall)))

NxtWatchdogIgnoresAck(ack) ==
  /\ r_wdt_reset' = (o_wb_cyc /\ r_wdt_timer = WdtMax)
  /\ r_wdt_timer' = IF ~o_wb_cyc \/ r_wdt_timer = WdtMax THEN 0 ELSE r_wdt_timer + 1

NxtWatchdogNeedsStrobe(ack) ==
  LET quiet == ~o_wb_stb \/ ack
  IN  /\ r_wdt_reset' = (~quiet /\ r_wdt_timer = WdtMax)
      /\ r_wdt_timer' = IF quiet \/ r_wdt_timer = WdtMax THEN 0 ELSE r_wdt_timer + 1

\* wbuconsole.v: the bus is given up when it has not answered for too long.
NxtWatchdog(ack) ==
  LET quiet == ~o_wb_cyc \/ ack
  IN  /\ r_wdt_reset' = (~quiet /\ r_wdt_timer = WdtMax)
      /\ r_wdt_timer' = IF quiet \/ r_wdt_timer = WdtMax THEN 0 ELSE r_wdt_timer + 1

-----------------------------------------------------------------------------
\* What the bus has accepted.  An error or a dropped cyc ends all of it.
NxtOutstanding(stall, ack, err) ==
  outstanding' = IF ~o_wb_cyc \/ err THEN <<>>
                 ELSE (IF ack THEN Tail(outstanding) ELSE outstanding)
                      \o IF o_wb_stb /\ ~stall THEN <<o_wb_addr>> ELSE <<>>

Starts == wb_state = "IDLE" /\ wb_state' \in {"READ_REQUEST", "WRITE_REQUEST"}

NxtOrigin(err) ==
  /\ fresh' = IF Starts THEN ~o_wb_cyc ELSE fresh
  /\ failed' = (~Starts /\ (failed \/ (o_wb_cyc /\ err)))

\* The host counts the words of its read.  An error or a reset ends the count.
NxtDue(c) ==
  due' = CASE Starts -> Len10(c)
           [] ~Starts /\ o_stb' /\ o_codword'.kind \in {"err", "reset"} -> 0
           [] ~Starts /\ o_stb' /\ o_codword'.kind = "data" -> due - 1
           [] OTHER -> due

\* The FIFO offers nothing while o_busy is high.  The bus answers in order what
\* it has accepted, stalls at will and when it is full, and fails at will.
Clock(i_stb, c, stall, ack, err) ==
  /\ i_stb => ~o_busy
  /\ ack \/ err => outstanding # <<>>
  /\ ~(ack /\ err)
  /\ Len(outstanding) >= MaxOut => stall
  /\ Fsm(i_stb, c, stall, ack, err)
  /\ NxtNewAddr(i_stb, c)
  /\ NxtAcksNeeded(stall, ack)
  /\ NxtLastAck
  /\ NxtLen(c, stall)
  /\ NxtLastRead(c, stall)
  /\ NxtWatchdog(ack)
  /\ NxtOutstanding(stall, ack, err)
  /\ NxtOrigin(err)
  /\ NxtDue(c)

ExecNext ==
  \E i_stb, stall, ack, err \in BOOLEAN, c \in Codeword :
    Clock(i_stb, c, stall, ack, err)

ExecSpec == ExecInit /\ [][ExecNext]_execvars

\* The clock does not stop.  Nothing is assumed of the bus or of the host.
ExecLiveSpec == ExecSpec /\ WF_execvars(ExecNext)

-----------------------------------------------------------------------------
\* Every register has a value of its width.
ExecTypeOK ==
  /\ wb_state \in {"IDLE", "READ_REQUEST", "WRITE_REQUEST", "ACK",
                   "WAIT_ON_NEXT_WRITE", "FLUSH_WRITE_REQUESTS"}
  /\ o_wb_cyc \in BOOLEAN /\ o_wb_stb \in BOOLEAN /\ o_wb_we \in BOOLEAN
  /\ o_wb_addr \in Addr /\ r_inc \in BOOLEAN /\ o_stb \in BOOLEAN
  /\ o_codword \in [kind : {"addr", "data", "wrack", "err", "reset"}, a : Addr]
  /\ r_new_addr \in BOOLEAN /\ r_acks_needed \in 0 .. AckMod - 1
  /\ last_ack \in BOOLEAN /\ zero_acks \in BOOLEAN /\ r_len \in 0 .. MaxLen
  /\ single_read_request \in BOOLEAN /\ last_read_request \in BOOLEAN
  /\ r_wdt_timer \in 0 .. WdtMax /\ r_wdt_reset \in BOOLEAN
  /\ outstanding \in Seq(Addr) /\ fresh \in BOOLEAN /\ failed \in BOOLEAN
  /\ due \in Int

\* No strobe without a bus cycle, and a bus cycle in every state that waits for
\* the bus; apart from the clock after a failed read, in no other.
CycleMatchesState ==
  /\ o_wb_stb => o_wb_cyc
  /\ wb_state \in {"READ_REQUEST", "WRITE_REQUEST"} => o_wb_stb
  /\ wb_state \in {"ACK", "WAIT_ON_NEXT_WRITE"} => o_wb_cyc /\ ~o_wb_stb
  /\ wb_state = "FLUSH_WRITE_REQUESTS" => ~o_wb_cyc
  /\ wb_state = "IDLE" /\ o_wb_cyc => failed

\* The acknowledgement counter agrees with the bus in a transaction that began
\* with cyc low, until the bus reports an error.
AcksCounted ==
  fresh /\ ~failed /\ o_wb_cyc => r_acks_needed = Len(outstanding)

\* A vector read that began with cyc low returns exactly as many words as were
\* asked for, or fewer and then one error or reset word, before the next command
\* is taken.
ExactRead == fresh => due >= 0 /\ (wb_state = "IDLE" => due = 0)

\* Why: in a read that began with cyc low, r_len is the number of requests still
\* to be made, and the two flags announce the last of them in time.  Each word
\* due is such a request or one the bus has accepted.  An error ends the count.
ReadProgress ==
  fresh =>
    /\ wb_state = "READ_REQUEST" =>
         /\ ~failed /\ ~o_wb_we /\ r_len >= 1
         /\ r_len = 1 <=> single_read_request \/ last_read_request
         /\ due = Len(outstanding) + r_len
    /\ wb_state \in {"WRITE_REQUEST", "WAIT_ON_NEXT_WRITE"} => o_wb_we /\ ~failed
    /\ wb_state = "ACK" /\ failed => outstanding = <<>>
    /\ wb_state = "ACK" /\ ~failed /\ ~o_wb_we => due = Len(outstanding)
    /\ wb_state # "READ_REQUEST" /\ (wb_state = "ACK" => failed \/ o_wb_we) => due = 0

\* The two registered tests of the counter are late, never early.
AckFlags ==
  fresh /\ ~failed /\ wb_state \in {"ACK", "WAIT_ON_NEXT_WRITE"} =>
    /\ last_ack => r_acks_needed <= 1
    /\ zero_acks => r_acks_needed = 0

\* The inductive invariant of the proofs.
ExecInv ==
  /\ ExecTypeOK
  /\ Len(outstanding) <= MaxOut
  /\ CycleMatchesState
  /\ AcksCounted
  /\ AckFlags
  /\ ReadProgress

\* The watchdog never interrupts a read to which the bus owes nothing: between
\* the last answer and the end of the bus cycle there are too few clocks for it.
WatchdogSparesReads ==
  [][r_wdt_reset' => \/ outstanding # <<>> \/ o_wb_stb
                     \/ o_wb_we \/ failed \/ ~fresh]_execvars

\* "We only need to finish processing the last one(s) by waiting for (and
\* recording?) their acks" (WB_ACK in wbuexec.v): if nothing is left that could be
\* acknowledged, the counter must know.
WaitsForSomething ==
  wb_state = "ACK" /\ outstanding = <<>> => r_acks_needed = 0

\* "Transactions are requested via codewords that come in, and the results
\* recorded on codewords that are sent out" (purpose of wbuexec.v): every read,
\* also one that waited in the FIFO behind another.
EveryReadExact == due >= 0 /\ (wb_state = "IDLE" => due = 0)

\* Whatever the bus does, the next command is eventually taken.
NeverWedged == o_busy ~> ~o_busy

=============================================================================
