------------------------------ MODULE FlashSim ------------------------------
(***************************************************************************)
(* sim/verilated/flashsim.cpp: the SPI flash as the simulation stands in   *)
(* for it, one step per byte on the wires.  A memory byte is \hff (erased) *)
(* or 0 (programmed), so that programming, which ands, takes the minimum.  *)
(* A device is a record: m_state, m_mode (SPI, DSPI, QSPI), the count of   *)
(* bytes since the chip was selected, the bits of m_sreg, m_addr,          *)
(* m_mode_byte, the page buffer m_pmem, the memory, and m_oreg, the byte   *)
(* the device shifts out next.  How long an operation takes is left open,  *)
(* and so are the block protection bits and the configuration register.    *)
(***************************************************************************)
EXTENDS Integers, SequencesExt

CONSTANTS PGLENB,      \* bytes in a page (2^8)
          SECTORSZB,   \* bytes in a sector (2^16)
          FLASHLEN     \* bytes in the device (2^24)

PAGEOF(a)   == a - (a % PGLENB)
SECTOROF(a) == a - (a % SECTORSZB)
Erased      == \hff
MinOf(a, b) == IF a < b THEN a ELSE b

FLASHSIM(image) ==
  [state |-> "IDLE", mode |-> "SPI", count |-> 0, wip |-> FALSE, wel |-> FALSE,
   dpd |-> FALSE, addr |-> 0, mode_byte |-> 0, oreg |-> 0,
   pmem |-> [i \in 0 .. PGLENB - 1 |-> Erased], mem |-> image]

\* The end of a program or an erase: m_write_count reaches zero.
WriteComplete(d) == [d EXCEPT !.wip = FALSE, !.wel = FALSE, !.dpd = FALSE]

Begin(d) == [d EXCEPT !.state = "IDLE", !.wel = FALSE, !.wip = TRUE]

\* Variant: the program replaces the page instead of clearing bits.
ProgramStores(d) ==
  [Begin(d) EXCEPT !.mode = "SPI",
     !.mem = [a \in DOMAIN d.mem |->
                IF PAGEOF(a) = PAGEOF(d.addr) THEN d.pmem[a % PGLENB] ELSE d.mem[a]]]

Program(d) ==
  [Begin(d) EXCEPT !.mode = "SPI",
     !.mem = [a \in DOMAIN d.mem |->
                IF PAGEOF(a) = PAGEOF(d.addr) THEN MinOf(d.mem[a], d.pmem[a % PGLENB])
                                              ELSE d.mem[a]]]

\* Variant: an erase reaches into the sector after the one that was named.
EraseRunsOn(d, from, n) ==
  [Begin(d) EXCEPT !.mem = [a \in DOMAIN d.mem |->
     IF a \in from .. from + n THEN Erased ELSE d.mem[a]]]

Erase(d, from, n) ==
  [Begin(d) EXCEPT !.mem = [a \in DOMAIN d.mem |->
     IF a \in from .. from + n - 1 THEN Erased ELSE d.mem[a]]]

EndRead(d, idle) ==
  IF d.mode_byte \div 16 = 10 THEN [d EXCEPT !.state = idle] ELSE [d EXCEPT !.mode = "SPI"]

\* csn high: what was asked for happens now.
Deselect(d) ==
  LET e == [d EXCEPT !.count = 0, !.oreg = \hfe]
  IN  CASE d.state \in {"PP", "QPP"} -> Program(e)
        [] d.state = "SECTOR_ERASE" -> Erase(e, SECTOROF(d.addr), SECTORSZB)
        [] d.state = "BULK_ERASE" -> Erase(e, 0, FLASHLEN)
        [] d.state = "WRSR" -> Begin(e)
        [] d.state = "CLSR" -> [e EXCEPT !.state = "IDLE", !.dpd = FALSE]
        [] d.state \in {"DEEP_POWER_DOWN", "RELEASE"} -> [e EXCEPT !.state = "IDLE"]
        [] d.state \in {"QUAD_READ_CMD", "QUAD_READ"} -> EndRead(e, "QUAD_READ_IDLE")
        [] d.state \in {"DUAL_READ_CMD", "DUAL_READ"} -> EndRead(e, "DUAL_READ_IDLE")
        [] OTHER -> e

\* The status register as the device shifts it out: bit 0 is WIP.
Sreg(d) == IF d.wip THEN 1 ELSE 0

\* The byte of the device's identity that follows n bytes on the wires.
DEVID(n) == \h40 + n

\* The state after the command byte b, the first after the chip is selected.
\* Writes and erases need WEL, and that no other is in progress.
CommandState(d, b) ==
  LET ok == d.wel /\ ~d.wip /\ ~d.dpd
      guarded(s) == IF ok THEN s ELSE "INVALID"
  IN  CASE b = \h01 -> guarded("WRSR")        [] b = \h02 -> guarded("PP")
        [] b = \h32 -> guarded("QPP")         [] b = \hc7 -> guarded("BULK_ERASE")
        [] b = \hd8 -> guarded("SECTOR_ERASE")
        [] b = \h03 -> "SLOW_READ"            [] b = \h0b -> "FAST_READ"
        [] b = \h05 -> "RDSR"                 [] b = \h35 -> "RDCR"
        [] b = \h30 -> "CLSR"                 [] b = \h9f -> "RDID"
        [] b = \hab -> "RELEASE"              [] b = \h81 -> d.state
        [] b = \hbb -> "DUAL_READ_CMD"        [] b = \heb -> "QUAD_READ_CMD"
        [] b = \hb9 -> IF d.wip THEN "INVALID" ELSE "IDLE"
        [] b \in {\h00, \h04, \h06, \h50, \h61, \h70, \hff} -> "IDLE"
        [] OTHER -> "UNRECOGNIZED"            \* an assertion fails

Command(d, b) ==
  IF d.dpd /\ b # \hab THEN [d EXCEPT !.oreg = \ha5]
  ELSE [d EXCEPT
    !.state = CommandState(d, b),
    !.mode  = CASE b = \hbb -> "DSPI" [] b = \heb -> "QSPI"
                [] b \in {\h00, \hff} -> "SPI" [] OTHER -> @,
    !.wel   = CASE b = \h04 -> FALSE [] b = \h06 -> TRUE [] OTHER -> @,
    !.dpd   = CASE b = \hab -> FALSE [] b = \hb9 -> @ \/ ~d.wip [] OTHER -> @,
    !.oreg  = CASE b = \h05 -> Sreg(d) [] b = \h9f -> DEVID(0)
                [] b \in {\h50, \h61, \h70, \h81} -> 0 [] OTHER -> \ha5]

\* The next byte of the memory, 0 while the device is busy.
ReadAlways(d) ==
  [d EXCEPT !.oreg = d.mem[d.addr % FLASHLEN], !.addr = (@ + 1) % FLASHLEN]
ReadOn(d) == IF d.wip THEN [d EXCEPT !.oreg = 0] ELSE ReadAlways(d)

\* One dummy byte is the mode byte (NDUMMY is 2); its end reads without a look
\* at the busy bit.
ReadFirst(d, b) == ReadAlways([d EXCEPT !.mode_byte = b])

SetAddr(d, b) == [d EXCEPT !.addr = b % FLASHLEN]

\* A byte of the page buffer; the address wraps inside its page.
Fill(d, b) ==
  IF d.count = 4 THEN [SetAddr(d, b) EXCEPT !.pmem = [i \in DOMAIN @ |-> Erased]]
  ELSE IF d.count < 4 THEN d
  ELSE [d EXCEPT !.pmem[d.addr % PGLENB] = b,
                 !.addr = PAGEOF(d.addr) + ((d.addr + 1) % PGLENB)]

\* A byte after the command; count includes it.
Data(d0, b) ==
  LET d == [d0 EXCEPT !.oreg = 0]
  IN  CASE d.state = "WRSR" /\ d.count = 2 -> [d EXCEPT !.wel = FALSE, !.dpd = FALSE]
        [] d.state = "WRSR" /\ d.count > 3 -> [d EXCEPT !.state = "UNRECOGNIZED"]
        [] d.state = "CLSR" -> [d EXCEPT !.state = "UNRECOGNIZED"]
        [] d.state = "RDID" -> [d EXCEPT !.oreg = DEVID(d.count - 1)]
        [] d.state = "RDSR" -> [d EXCEPT !.oreg = Sreg(d)]
        [] d.state = "SLOW_READ" /\ d.count = 4 -> ReadAlways(SetAddr(d, b))
        [] d.state = "FAST_READ" /\ d.count = 4 -> [SetAddr(d, b) EXCEPT !.oreg = \hc3]
        [] d.state \in {"QUAD_READ_CMD", "DUAL_READ_CMD"} /\ d.count = 4 -> SetAddr(d, b)
        [] d.state = "QUAD_READ_CMD" /\ d.count = 5 -> ReadFirst(d, b)
        [] d.state \in {"QUAD_READ", "DUAL_READ"} /\ d.count = 4 -> ReadFirst(d, b)
        [] d.state = "DUAL_READ_CMD" /\ d.count = 5 /\ ~d.wip -> ReadFirst(d, b)
        [] d.state \in {"SLOW_READ", "FAST_READ", "QUAD_READ_CMD", "QUAD_READ"}
             /\ d.count >= 5 -> ReadOn(d)
        [] d.state = "DUAL_READ_CMD" /\ d.count > 5 -> ReadOn(d)
        [] d.state = "DUAL_READ" -> ReadAlways(d)
        [] d.state = "PP" -> Fill(d, b)
        [] d.state = "QPP" -> [Fill(d, b) EXCEPT !.mode = IF d.count = 4 THEN "QSPI" ELSE @]
        [] d.state = "SECTOR_ERASE" /\ d.count = 4 -> SetAddr(d, b)
        [] d.state = "RELEASE" /\ d.count >= 4 -> [d EXCEPT !.oreg = \h14]
        [] OTHER -> d

\* Eight bits have arrived, at whatever width the device reads them.  No state
\* tells counts above CountCap apart.
CountCap == 6
Byte(d0, b) ==
  LET d == [d0 EXCEPT !.count = MinOf(@ + 1, CountCap)]
  IN  IF d.state \in {"QUAD_READ_IDLE", "DUAL_READ_IDLE"}
      THEN IF d.count # 3 THEN [d EXCEPT !.oreg = 0]
           ELSE [SetAddr(d, b) EXCEPT !.oreg = 0,
                   !.state = IF @ = "QUAD_READ_IDLE" THEN "QUAD_READ" ELSE "DUAL_READ"]
      ELSE IF d.count = 1 THEN Command(d, b) ELSE Data(d, b)

Bytes(d, s) == FoldLeft(Byte, d, s)
=============================================================================
