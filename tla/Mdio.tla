-------------------------------- MODULE Mdio --------------------------------
(***************************************************************************)
(* Management of the network PHY: readmdio.cpp (or wbregs, for a write)    *)
(* asks for a register, rtl/enetctrl.v sends the request bit by bit over   *)
(* MDIO, and, in simulation, enetctrlsim.cpp answers it.  A step is a clock*)
(* of the design, in which it takes the level that the simulated PHY left  *)
(* on the wire, after which the PHY sees its outputs.  Nothing in a frame  *)
(* is checked: the two must agree on every bit time.                       *)
(*                                                                         *)
(* On the wire, words are sequences of bits, the highest first.            *)
(***************************************************************************)
EXTENDS Integers, Sequences

CONSTANTS CLKS,        \* clocks in a period of MDC: 2^CLKBITS
          PHYADDR,     \* the PHY that enetctrl asks for
          PHY_ADDR,    \* the one that enetctrlsim answers for
          RESETPOS,    \* bit times after the reset, less one (63)
          MAXCLOCKS,   \* where m_consecutive_clocks stops (128)
          Values,      \* what is written into registers of the PHY
          Written,     \* and into which
          MaxWrites

VARIABLES ectrl,  \* the registers of enetctrl
          phy, m_mem,   \* the members of ENETCTRLSIM
          i_mdio,
          wb,     \* the master's side of the bus
          tool, writes

mdiovars == <<ectrl, phy, m_mem, i_mdio, wb, tool, writes>>

Ones(n)    == [i \in 1 .. n |-> 1]
Bin(v, n)  == [i \in 1 .. n |-> (v \div 2 ^ (n - i)) % 2]
Shift(s, b) == Append(Tail(s), b)
RegBit(v, k)  == v[16 - k]

BusIdle == [cyc |-> FALSE, stb |-> FALSE, we |-> FALSE, addr |-> 0, data |-> Ones(16)]
NoTool == [all |-> FALSE, todo |-> <<>>, again |-> FALSE, data |-> <<>>, shown |-> <<>>]

-----------------------------------------------------------------------------
\* enetctrl.v, after its reset.
EctrlReset ==
  [clk |-> 0, zclk |-> FALSE, zreg |-> FALSE, pos |-> RESETPOS, wr |-> Ones(16), rd |-> Ones(16),
   mdio |-> 1, mdwe |-> TRUE, idle |-> FALSE, stall |-> TRUE, ack |-> FALSE, read |-> FALSE,
   write |-> FALSE, addr |-> 0, data |-> Ones(16), pre |-> FALSE, state |-> "RESET"]

\* write_reg in ECTRL_IDLE: the first half of the frame.
FrameHeader(c) ==
  (IF c.write THEN <<0, 1, 0, 1>> ELSE IF c.read THEN <<0, 1, 1, 0>> ELSE <<1, 1, 1, 0>>)
    \o Bin(PHYADDR, 5) \o Bin(c.addr, 5) \o <<1, IF c.write THEN 0 ELSE 1>>

\* Variant: one bit less.
DataBitsShort == 15

\* The bits that follow the address.
DataBits == 16

NxtState(c) ==
  LET done == c.zclk /\ c.zreg
  IN  CASE c.state \in {"RESET", "READ", "WRITE"} -> IF done THEN "IDLE" ELSE c.state
        [] c.state = "IDLE"    -> IF c.zclk /\ (c.read \/ c.write) THEN "ADDRESS" ELSE "IDLE"
        [] c.state = "ADDRESS" -> IF ~done THEN "ADDRESS" ELSE IF c.read THEN "READ" ELSE "WRITE"

NxtPos(c) ==
  CASE c.state = "IDLE" -> 15
    [] c.state = "ADDRESS" /\ c.zclk /\ c.zreg -> DataBits
    [] OTHER -> IF c.zclk /\ ~c.zreg THEN (c.pos - 1) % 64 ELSE c.pos

NxtWriteReg(c) ==
  CASE c.state = "RESET" -> Ones(16)
    [] c.state = "IDLE"  -> IF c.zclk THEN FrameHeader(c) ELSE [FrameHeader(c) EXCEPT ![1] = 1]
    [] c.state = "ADDRESS" /\ c.zclk /\ c.zreg -> c.data
    [] OTHER -> IF c.zclk THEN Shift(c.wr, 1) ELSE c.wr

NxtStall(c) ==
  IF c.state # "IDLE" THEN TRUE
  ELSE ~c.ack /\ ((wb.stb /\ c.idle) \/ c.read \/ c.write)

\* r_addr and r_data also follow an idle bus, which has no effect.
enetctrl(c) ==
  LET take == wb.stb /\ ~c.stall
      last == c.state \in {"READ", "WRITE"}
  IN  [clk   |-> (c.clk + 1) % CLKS, zclk |-> c.clk = CLKS - 2,
       zreg  |-> c.pos = 0, pos |-> NxtPos(c), wr |-> NxtWriteReg(c),
       rd    |-> IF c.zclk /\ ~c.zreg THEN Shift(c.rd, i_mdio) ELSE c.rd,
       mdio  |-> IF c.zclk THEN c.wr[1] ELSE c.mdio,
       mdwe  |-> CASE c.state = "ADDRESS" -> IF c.zclk THEN c.write \/ c.pos > 1 ELSE c.mdwe
                   [] OTHER -> c.state # "READ",
       idle  |-> c.state = "IDLE", stall |-> NxtStall(c),
       ack   |-> last /\ c.zclk /\ c.zreg /\ c.pre /\ wb.cyc,
       read  |-> ~last /\ IF take THEN ~wb.we ELSE c.read,
       write |-> ~last /\ IF take THEN wb.we ELSE c.write,
       addr  |-> IF take THEN wb.addr ELSE c.addr,
       data  |-> IF take THEN wb.data ELSE c.data,
       pre   |-> wb.cyc /\ (take \/ (c.pre /\ ~c.ack)),
       state |-> NxtState(c)]

-----------------------------------------------------------------------------
\* enetctrlsim.cpp.  m_outreg is kept from the bit that is on the wire on; all
\* bits after the sixteenth are ones.
ENETCTRLSIM ==
  [cc |-> 0, synched |-> FALSE, clk |-> 0, tick |-> 0, tpc |-> 0, half |-> 0,
   datareg |-> Ones(32), outreg |-> Ones(16)]

\* The clock is checked, and counted while the wire is high.
Synched(s, posedge, bit) ==
  LET tick  == s.tick + 1
      even  == tick = s.tpc /\ s.tpc >= 4
      count == IF bit = 0 THEN 0 ELSE IF s.cc < MAXCLOCKS THEN s.cc + 1 ELSE s.cc
      t     == IF ~posedge THEN [s EXCEPT !.tick = tick]
               ELSE [s EXCEPT !.tick = 0, !.tpc = tick, !.cc = IF even THEN count ELSE 0,
                              !.synched = s.synched /\ even]
  IN  IF t.cc > 32 THEN [t EXCEPT !.synched = TRUE, !.half = 0, !.datareg = Ones(32)] ELSE t

\* The PHY and its memory after a rising edge: the first half of a frame, which asks
\* for a read, or the end of the second, which may write.
Number(bits) ==
  LET f[i \in 0 .. Len(bits)] == IF i = 0 THEN 0 ELSE 2 * f[i - 1] + bits[i] IN f[Len(bits)]

TakeBit(s, bit) ==
  LET d == Shift(s.datareg, bit)
      mine(at) == SubSeq(d, at + 4, at + 8) = Bin(PHY_ADDR, 5)
  IN  CASE s.half = 0 /\ d[17] = 0 ->
             [phy |-> [s EXCEPT !.datareg = d, !.half = 1,
                                !.outreg = IF SubSeq(d, 17, 20) = <<0, 1, 1, 0>> /\ mine(17)
                                           THEN Bin(m_mem[Number(SubSeq(d, 26, 30))], 16) ELSE @],
              m_mem |-> m_mem]
        [] s.half = 0 /\ d[17] = 1 -> [phy |-> [s EXCEPT !.datareg = d], m_mem |-> m_mem]
        [] s.half \in 1 .. 15 -> [phy |-> [s EXCEPT !.datareg = d, !.half = @ + 1], m_mem |-> m_mem]
        [] s.half = 16 ->
             [phy |-> [s EXCEPT !.datareg = Ones(32), !.half = 0],
              m_mem |-> IF SubSeq(d, 1, 4) = <<0, 1, 0, 1>> /\ mine(1)
                      THEN [m_mem EXCEPT ![Number(SubSeq(d, 10, 14))] = Number(SubSeq(d, 17, 32))] ELSE m_mem]

\* operator(), with the level of the wire that it leaves.
Phy(clk, bit) ==
  LET posedge == clk = 1 /\ phy.clk = 0
      negedge == clk = 0 /\ phy.clk = 1
      s == [Synched(phy, posedge, bit) EXCEPT !.clk = clk]
      n == CASE posedge /\ s.synched -> TakeBit(s, bit)
             [] negedge /\ ~posedge -> [phy |-> [s EXCEPT !.outreg = Shift(@, 1)], m_mem |-> m_mem]
             [] OTHER -> [phy |-> s, m_mem |-> m_mem]
  IN  /\ phy' = n.phy /\ m_mem' = n.m_mem
      /\ i_mdio' = bit * n.phy.outreg[1]

-----------------------------------------------------------------------------
\* readmdio.cpp: the registers it reads, and the values it has something to say of.
Registers(all) == IF all THEN [i \in 1 .. 11 |-> i - 1] ELSE <<0, 1, 2, 3, 6, 9>>

\* Control, status and identity of the PHY: what is unusual, and the status.
ShownBasic(reg, v) ==
  \/ reg = 0 /\ (RegBit(v, 12) = 0 \/ RegBit(v, 8) = 0
                  \/ \E k \in {15, 14, 11, 10, 7} : RegBit(v, k) = 1)   \* BMCR
  \/ reg = 1                                                           \* BMSR
  \/ reg = 2 /\ v # Bin(\h141, 16)                                     \* PHYIDR1
  \/ reg = 3 /\ SubSeq(v, 1, 12) # Bin(\h0dd, 12)         \* PHYIDR2, read a second time
\* Auto-negotiation: a fault in ANER.
ShownNegotiation(reg, v) == reg = 6 /\ RegBit(v, 4) = 1
\* 1000Base-T: GBECTRL.
ShownGbe(reg) == reg = 9

Shown(reg, v, all) == all \/ ShownBasic(reg, v) \/ ShownNegotiation(reg, v) \/ ShownGbe(reg)

readmdio ==
  /\ tool.todo = <<>> /\ ~wb.cyc
  /\ \E all \in BOOLEAN : tool' = [NoTool EXCEPT !.all = all, !.todo = Registers(all)]
  /\ UNCHANGED <<ectrl, phy, m_mem, i_mdio, wb, writes>>

WriteReg ==
  /\ tool.todo = <<>> /\ ~wb.cyc /\ writes < MaxWrites /\ writes' = writes + 1
  /\ \E r \in Written, v \in Values : tool' = [NoTool EXCEPT !.todo = <<r>>, !.data = v]
  /\ UNCHANGED <<ectrl, phy, m_mem, i_mdio, wb>>

\* readio() or writeio() has returned.
ToolGets(v) ==
  LET r     == Head(tool.todo)
      shown == tool.again \/ Shown(r, v, tool.all)
  IN  CASE tool.data # <<>> -> NoTool
        [] tool.data = <<>> /\ r = 3 /\ shown /\ ~tool.again -> [tool EXCEPT !.again = TRUE, !.shown = <<>>]
        [] OTHER -> [tool EXCEPT !.todo = Tail(@), !.again = FALSE,
                                 !.shown = IF shown THEN <<r, v>> ELSE <<>>]

\* The master of the bus: it holds a request while it is stalled, waits for the
\* answer, or gives up (a reset of the debug bus); the tool then ends.
BusMaster ==
  \/ /\ ~wb.cyc /\ tool.todo # <<>>
     /\ wb' = [cyc |-> TRUE, stb |-> TRUE, we |-> tool.data # <<>>, addr |-> Head(tool.todo),
               data |-> IF tool.data = <<>> THEN Ones(16) ELSE tool.data]
     /\ UNCHANGED tool
  \/ ~wb.cyc /\ UNCHANGED <<wb, tool>>
  \/ wb.cyc /\ ~ectrl.ack /\ wb' = [wb EXCEPT !.stb = @ /\ ectrl.stall] /\ UNCHANGED tool
  \/ wb.cyc /\ ectrl.ack /\ wb' = BusIdle /\ tool' = ToolGets(ectrl.rd)
  \/ wb.cyc /\ ~ectrl.ack /\ wb' = BusIdle /\ tool' = NoTool

MdioClock ==
  /\ ectrl' = enetctrl(ectrl) /\ BusMaster
  /\ Phy(IF ectrl'.clk >= CLKS \div 2 THEN 1 ELSE 0,
         IF ectrl'.mdwe /\ ectrl'.mdio = 0 THEN 0 ELSE 1)
  /\ UNCHANGED writes

MdioInit ==
  /\ \E b \in {0, 1} : ectrl = [EctrlReset EXCEPT !.mdio = b]
  /\ phy = ENETCTRLSIM /\ m_mem = [r \in 0 .. 10 |-> 0] /\ i_mdio = 1
  /\ wb = BusIdle /\ tool = NoTool /\ writes = 0

MdioNext == readmdio \/ WriteReg \/ MdioClock
MdioSpec == MdioInit /\ [][MdioNext]_mdiovars

-----------------------------------------------------------------------------
\* Whenever a request is made, and whatever became of the one before, its answer
\* comes when the register has been read or written, and is what the PHY holds;
\* no other register changes, and the assertion of enetctrlsim on bit 16 of a frame
\* that writes does not fail.
PhyRight ==
  [][ /\ ectrl.ack /\ wb.cyc => m_mem[wb.addr] = Number(IF wb.we THEN wb.data ELSE ectrl.rd)
      /\ m_mem' # m_mem =>
           /\ m_mem' = [m_mem EXCEPT ![ectrl.addr] = Number(ectrl.data)]
           /\ phy.datareg[17] = 0
      /\ tool'.shown # <<>> => Number(tool'.shown[2]) = m_mem[tool'.shown[1]] ]_mdiovars
=============================================================================
