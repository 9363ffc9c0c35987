-------------------------------- MODULE WbBus --------------------------------
(***************************************************************************)
(* The bus of rtl/main.v as a whole: the processor behind its wrapper      *)
(* (wb_picorv32.v) and the debugging bus share one set of slaves through   *)
(* the priority arbiter (wbpriarbiter.v), the bus delay (BusDelay) and the *)
(* address decoder of main.v.                                              *)
(*                                                                         *)
(* A step is one edge of i_clk.  A request names its master, the slave its *)
(* address selects and a number that tells requests apart.  The answer of  *)
(* a slave is the request that it answers; None is any other value of the  *)
(* data lines.  Four slaves stand for the eleven: "sio" answers after one  *)
(* clock, "bkram" after two, "uart" after two whether or not the bus cycle *)
(* lasts, and "flash" takes one request at a time and its own time.        *)
(***************************************************************************)
EXTENDS BusDelay, Integers, Sequences

CONSTANTS Ids,        \* tell requests to one slave apart
          MaxBurst,   \* the requests in one bus cycle of the debugging bus
          Crossing,   \* whether such a cycle may run into the next slave's addresses
          NoReq

Slave == {"sio", "bkram", "uart", "flash"}
Requests(m) == [m : {m}, s : Slave \cup {"none"}, n : Ids]

ASSUME BusAssumption ==
  /\ MaxBurst \in Nat \ {0} /\ Crossing \in BOOLEAN
  /\ Ids # {} /\ NoReq \notin Requests("A") \cup Requests("B")

\* Which follows which in the address map, by the kinds of the eleven slaves.
Follows == {<<"none", "flash">>, <<"flash", "bkram">>, <<"bkram", "uart">>,
            <<"uart", "bkram">>, <<"bkram", "sio">>, <<"sio", "flash">>,
            <<"sio", "bkram">>, <<"bkram", "none">>, <<"flash", "none">>}

\* Address zero, which no slave has: what the registers hold at power up.
Zero == [m |-> "A", s |-> "none", n |-> CHOOSE n \in Ids : TRUE]

VARIABLES
  mem_valid, mem_req,                  \* the processor core
  cpu_reset, r_reset, last_valid, a_cyc, a_stb, a_req,   \* its wrapper
  b_cyc, b_stb, b_req, b_left, b_owed, b_failed,         \* the debugging bus
  r_a_owner,                           \* the arbiter
  r_wb_bus_select, wb_ack, wb_many_ack, wb_idata,        \* the decoder
  taken,   \* what a slave took in the last clock, or is working on
  acks     \* what it acknowledges now

cpu   == <<mem_valid, mem_req, cpu_reset, r_reset, last_valid, a_cyc, a_stb, a_req>>
debug == <<b_cyc, b_stb, b_req, b_left, b_owed, b_failed>>
bus   == <<r_a_owner, delayvars, r_wb_bus_select, wb_ack, wb_many_ack, wb_idata>>
busvars  == <<cpu, debug, bus, taken, acks>>

BusInit ==
  /\ mem_valid = FALSE /\ mem_req = Zero
  /\ cpu_reset = FALSE /\ r_reset = TRUE /\ last_valid = FALSE
  /\ a_cyc = FALSE /\ a_stb = FALSE /\ a_req = Zero
  /\ b_cyc = FALSE /\ b_stb = FALSE /\ b_req = Zero /\ b_left = 0
  /\ b_owed = <<>> /\ b_failed = FALSE
  /\ r_a_owner = TRUE
  /\ DelayInit /\ o_dly_req = Zero /\ r_req = Zero /\ o_wb_data = Zero
  /\ r_wb_bus_select = "flash" /\ wb_ack = FALSE /\ wb_many_ack = FALSE
  /\ wb_idata = NoReq
  /\ taken = [s \in Slave |-> NoReq] /\ acks = [s \in Slave |-> NoReq]

-----------------------------------------------------------------------------
\* wbpriarbiter.v: the owner's lines go through; the other master is stalled.

o_cyc == IF r_a_owner THEN a_cyc ELSE b_cyc
o_stb == IF r_a_owner THEN a_stb ELSE b_stb
o_req == IF r_a_owner THEN a_req ELSE b_req

o_a_ack   == r_a_owner /\ o_wb_ack
o_a_err   == r_a_owner /\ o_wb_err
o_a_stall == r_a_owner => o_wb_stall
o_b_ack   == ~r_a_owner /\ o_wb_ack
o_b_err   == ~r_a_owner /\ o_wb_err
o_b_stall == ~r_a_owner => o_wb_stall

\* Variants named for the slip they show; no specification uses them.
NxtOwnerPreempts == r_a_owner' = (~b_cyc \/ a_cyc \/ (~b_stb /\ r_a_owner))

NxtOwner == r_a_owner' = (~b_cyc \/ (r_a_owner /\ (a_cyc \/ ~b_stb)))

-----------------------------------------------------------------------------
\* The processor.  The core (picorv32.v) holds a request until it is answered
\* and then lowers mem_valid for at least one clock.

mem_ready == o_a_ack \/ o_a_err

NxtCore ==
  /\ mem_valid' \in BOOLEAN
  /\ r_reset \/ (mem_valid /\ mem_ready) => ~mem_valid'
  /\ ~r_reset /\ mem_valid /\ ~mem_ready => mem_valid'
  /\ IF mem_valid' /\ ~mem_valid
     THEN mem_req' \in Requests("A") ELSE mem_req' = mem_req

\* cpu_reset is a bit of the GPIO register: a write to it may change the bit.
NxtReset ==
  /\ cpu_reset' \in BOOLEAN
  /\ cpu_reset' # cpu_reset => o_dly_stb /\ o_dly_req.s = "sio"
  /\ r_reset' = cpu_reset

NxtCpuKeepsCyc ==
  /\ a_cyc' = (~r_reset /\ IF a_cyc THEN ~o_a_ack ELSE mem_valid /\ ~last_valid)
  /\ a_stb' = (~r_reset /\ IF a_cyc THEN a_stb /\ o_a_stall
                           ELSE mem_valid /\ ~last_valid)

NxtCpuCyc ==
  /\ a_cyc' = (~r_reset /\ IF a_cyc THEN ~o_a_ack /\ ~o_a_err
                           ELSE mem_valid /\ ~last_valid)
  /\ a_stb' = (~r_reset /\ IF a_cyc THEN a_stb /\ o_a_stall
                           ELSE mem_valid /\ ~last_valid)

CpuEdge ==
  /\ NxtCore
  /\ NxtReset
  /\ NxtCpuCyc
  /\ last_valid' = (~r_reset /\ mem_valid /\ ~o_a_ack)
  /\ a_req' = IF a_cyc THEN a_req ELSE mem_req

-----------------------------------------------------------------------------
\* The debugging bus, as WbuExec drives it: bursts of requests, each held while
\* it is stalled.  The bus cycle ends when all is answered, at once or later (a
\* write burst waits for its next word until the watchdog ends it).  After an
\* error it ends at once (writes) or one clock later (reads), unless a read that
\* follows without a change of address is taken in that clock.

DebugStarts ==
  /\ ~b_cyc
  /\ b_cyc' = TRUE /\ b_stb' = TRUE /\ b_failed' = FALSE
  /\ b_req' \in Requests("B") /\ b_left' \in 0 .. MaxBurst - 1

DebugIdles == ~b_cyc /\ UNCHANGED <<b_cyc, b_stb, b_req, b_left, b_failed>>

DebugEnds ==
  /\ b_cyc /\ ~b_stb /\ b_owed' = <<>>
  /\ b_cyc' = FALSE
  /\ UNCHANGED <<b_stb, b_req, b_left, b_failed>>

DebugStalls ==
  /\ b_cyc /\ ~b_failed /\ ~o_b_err /\ b_stb /\ o_b_stall
  /\ UNCHANGED <<b_cyc, b_stb, b_req, b_left, b_failed>>

DebugGoesOnPastEnd ==
  /\ b_cyc /\ ~b_failed /\ ~o_b_err /\ (b_stb => ~o_b_stall)
  /\ \/ /\ b_stb' = TRUE /\ b_left' = b_left - 1
        /\ b_req' \in Requests("B")
        /\ \/ b_req'.s = b_req.s
           \/ Crossing /\ <<b_req.s, b_req'.s>> \in Follows
     \/ b_stb' = FALSE /\ UNCHANGED <<b_req, b_left>>
  /\ UNCHANGED <<b_cyc, b_failed>>

\* The next request, if there is one; a write burst may take its time.
DebugGoesOn ==
  /\ b_cyc /\ ~b_failed /\ ~o_b_err /\ (b_stb => ~o_b_stall)
  /\ \/ /\ b_left > 0
        /\ b_stb' = TRUE /\ b_left' = b_left - 1
        /\ b_req' \in Requests("B")
        /\ \/ b_req'.s = b_req.s
           \/ Crossing /\ <<b_req.s, b_req'.s>> \in Follows
     \/ b_stb' = FALSE /\ UNCHANGED <<b_req, b_left>>
  /\ UNCHANGED <<b_cyc, b_failed>>

DebugFails ==
  /\ b_cyc /\ (b_failed \/ o_b_err)
  /\ \/ b_cyc' = FALSE /\ b_stb' = FALSE /\ b_failed' = FALSE
     \/ ~b_failed /\ b_failed' = TRUE /\ UNCHANGED <<b_cyc, b_stb>>
     \/ ~b_failed /\ b_stb /\ ~o_b_stall    \* the last request, accepted with it
          /\ b_left = 0 /\ b_stb' = FALSE /\ UNCHANGED <<b_cyc, b_failed>>
  /\ UNCHANGED <<b_req, b_left>>

DebugStartsAgain ==
  /\ b_cyc /\ b_failed
  /\ b_stb' = TRUE /\ b_failed' = FALSE
  /\ b_req' \in Requests("B") /\ b_left' \in 0 .. MaxBurst - 1
  /\ b_req'.s = b_req.s
  /\ UNCHANGED b_cyc

\* What it waits for.
NxtOwed ==
  b_owed' = IF ~b_cyc \/ o_b_err THEN <<>>
            ELSE (IF o_b_ack /\ b_owed # <<>> THEN Tail(b_owed) ELSE b_owed)
                 \o IF b_stb /\ ~o_b_stall THEN <<b_req>> ELSE <<>>

DebugEdge ==
  /\ NxtOwed
  /\ \/ DebugStarts \/ DebugStartsAgain \/ DebugIdles \/ DebugEnds
     \/ DebugStalls \/ DebugGoesOn \/ DebugFails

-----------------------------------------------------------------------------
\* The decoder of main.v and the slaves.

Selected(s) == o_dly_stb /\ o_dly_req.s = s
wb_none_sel == Selected("none")
wb_err      == wb_none_sel \/ wb_many_ack
wb_stall    == o_dly_req.s = "flash" /\ taken["flash"] # NoReq

NxtAck ==
  /\ wb_ack' = (o_dly_cyc /\ \E s \in Slave : acks[s] # NoReq)
  /\ wb_many_ack' =
       (o_dly_cyc /\ \E s, t \in Slave : s # t /\ acks[s] # NoReq /\ acks[t] # NoReq)

NxtData ==
  /\ r_wb_bus_select' = IF o_dly_stb /\ ~wb_stall /\ o_dly_req.s # "none"
                        THEN o_dly_req.s ELSE r_wb_bus_select
  /\ wb_idata' = acks[r_wb_bus_select]

Given(s) == IF Selected(s) THEN o_dly_req ELSE NoReq

\* sio of main.v, memdev.v with EXTRACLOCK, wbconsole.v, and qflexpress.v seen
\* from the bus.
SlaveEdge(ready) ==
  /\ taken' = [taken EXCEPT
       !["bkram"] = Given("bkram"),
       !["uart"]  = Given("uart"),
       !["flash"] = IF ~o_dly_cyc \/ ready THEN NoReq
                    ELSE IF @ = NoReq THEN Given("flash") ELSE @]
  /\ acks' = [acks EXCEPT
       !["sio"]   = Given("sio"),
       !["bkram"] = IF o_dly_cyc THEN taken["bkram"] ELSE NoReq,
       !["uart"]  = taken["uart"],
       !["flash"] = IF o_dly_cyc /\ ready THEN taken["flash"] ELSE NoReq]

Clock(ready) ==
  /\ ready => taken["flash"] # NoReq
  /\ CpuEdge
  /\ DebugEdge
  /\ NxtOwner
  /\ DelayEdge(FALSE, o_cyc, o_stb, o_req, wb_stall, wb_ack, wb_err, wb_idata)
  /\ NxtAck
  /\ NxtData
  /\ SlaveEdge(ready)

BusNext == \E ready \in BOOLEAN : Clock(ready)

BusSpec == BusInit /\ [][BusNext]_busvars

\* The clock runs, the flash answers in the end, a write burst that stands still
\* is ended by the host or by the watchdog, and no reset lasts for ever.
BusLiveSpec ==
  /\ BusSpec
  /\ WF_busvars(BusNext)
  /\ SF_busvars(Clock(TRUE))
  /\ SF_busvars(BusNext /\ DebugEnds)
  /\ SF_busvars(BusNext /\ b_failed /\ ~b_cyc')

-----------------------------------------------------------------------------
AllRequests == Requests("A") \cup Requests("B")

\* Every register has a value of its kind.
BusTypeOK ==
  /\ {mem_valid, cpu_reset, r_reset, last_valid, a_cyc, a_stb, b_cyc, b_stb,
      b_failed, r_a_owner, o_dly_cyc, o_dly_stb, r_stb, o_wb_ack, o_wb_err,
      wb_ack, wb_many_ack} \subseteq BOOLEAN
  /\ {mem_req, a_req, b_req, o_dly_req, r_req} \subseteq AllRequests
  /\ {o_wb_data, wb_idata} \subseteq AllRequests \cup {NoReq}
  /\ b_left \in 0 .. MaxBurst - 1 /\ b_owed \in Seq(AllRequests)
  /\ r_wb_bus_select \in Slave
  /\ taken \in [Slave -> AllRequests \cup {NoReq}]
  /\ acks \in [Slave -> AllRequests \cup {NoReq}]

\* Whatever the debugging bus has done before, an acknowledgement that reaches
\* the processor answers the request the processor is waiting for.
CpuAnswered == a_cyc /\ o_a_ack => ~a_stb /\ o_wb_data = a_req

\* An acknowledgement that reaches the debugging bus answers its oldest request.
DebugAnswered == b_cyc /\ o_b_ack => b_owed # <<>> /\ o_wb_data = Head(b_owed)

\* Both.
AcksRight == CpuAnswered /\ DebugAnswered

\* "The data we return is the data for which the ACK line is high" (wb_idata in
\* main.v).
DataFollowsAck == wb_ack /\ ~wb_many_ack => wb_idata # NoReq

\* Only the owner of the arbiter has requests on the bus.
OneMaster ==
  /\ o_dly_stb => o_dly_req.m = (IF r_a_owner THEN "A" ELSE "B")
  /\ r_stb => r_req.m = (IF r_a_owner THEN "A" ELSE "B")

\* The arbiter never takes the bus from a master that is using it.
OwnerKeepsBus ==
  [][/\ r_a_owner /\ a_cyc => r_a_owner'
     /\ ~r_a_owner /\ b_cyc => ~r_a_owner']_busvars

\* Every request of the processor is answered, unless it is reset.
CpuServed == mem_valid ~> mem_ready \/ r_reset

\* The processor's priority does not shut out the debugging bus.
DebugServed == b_cyc /\ b_stb ~> ~r_a_owner

\* Both masters of the arbiter are served, whatever the other does.
Served == CpuServed /\ DebugServed
=============================================================================
