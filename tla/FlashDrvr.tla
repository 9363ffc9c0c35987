----------------------------- MODULE FlashDrvr ------------------------------
(***************************************************************************)
(* sw/host/flashdrvr.cpp: the host programs the flash, byte by byte through*)
(* the configuration port of rtl/qflexpress.v, and reads it back through   *)
(* the memory window.  Every access to the port is a step of its own: the  *)
(* host program may be killed between any two of them, and the next one    *)
(* finds the controller and the device as they were left.                  *)
(***************************************************************************)
EXTENDS FlashSim

CONSTANTS WORDB,        \* bytes in a bus word (4)
          FLASHBASE,    \* a multiple of the device's size
          ADDRMOD,      \* 2^32
          Garbage,      \* what the stack slot of write()'s inner len may hold
          Images,       \* the contents of the flash before the first program
          Requests,     \* what the programs may be asked to write
          MaxRuns       \* how many programs are run, one after the other

VARIABLES flash, cfg_mode,
          ops,      \* accesses to the port that the present routine still makes
          pc,       \* where the driver goes on after them
          rx,       \* the bytes flashid() reads from the port
          m_id,     \* is the identity known, and right?
          s, p, len,  \* the locals of write()
          req,      \* the arguments of write(): addr, len, and data as an image
          runs, mem0,
          hasty     \* a sector was compared while the device was busy

flashvars == <<flash, cfg_mode, ops, pc, rx, m_id, s, p, len, req, runs, mem0, hasty>>

End   == <<"end", 0>>      \* F_END
Exit  == <<"exit", 0>>     \* CFG_USER_CS_n: back to the memory window
Lo(b) == <<"lo", b>>       \* a byte at one bit a clock
Hi(b) == <<"hi", b>>       \* a byte at four bits a clock
Poll  == <<"poll", 0>>     \* F_EMPTY and a read of the port, until WIP is clear

-----------------------------------------------------------------------------
\* qflexpress.v, the configuration port.  A byte sent at one bit a clock takes
\* eight clocks: a device that reads four bits a clock sees four bytes, the
\* last of which is made of bits 1 and 0 of the byte and of the mode pattern
\* 4'ha that is behind it in data_pipe.
Bit(b, k) == (b \div 2 ^ k) % 2
LowBytes(mode, b) ==
  CASE mode = "SPI"  -> <<b>>
    [] mode = "DSPI" -> <<b, b>>
    [] mode = "QSPI" -> <<b, 16 * Bit(b, 5) + Bit(b, 4), 16 * Bit(b, 3) + Bit(b, 2),
                          \ha0 + 16 * Bit(b, 1) + Bit(b, 0)>>

\* Two clocks are not a byte to a device that reads one bit a clock.
QuadByte(d, b) ==
  IF d.mode = "QSPI" THEN Byte(d, b) ELSE [d EXCEPT !.state = "MISALIGNED"]

PortWrite(d, o) ==
  CASE o[1] \in {"end", "exit"} -> Deselect(d)
    [] o[1] \in {"lo", "poll"}  -> Bytes(d, LowBytes(d.mode, o[2]))
    [] o[1] = "hi"              -> QuadByte(d, o[2])

\* The start-up script, micron.hex, puts the device into quad read mode.
Startup(image) ==
  FoldLeft(PortWrite, FLASHSIM(image),
    <<Lo(\hff), End, Lo(\h06), End, Lo(\h81), Lo(\h23), End,
      Lo(\heb), Hi(0), Hi(0), Hi(0), Hi(\ha0), Hi(0), Hi(0), Hi(0), Hi(0), Hi(0), End>>)

\* A read of n bytes through the memory window: what may come back.  Outside
\* of quad read mode, or while the port is open, that is anything; while the
\* device is busy a byte may read as zero.
Online == flash.state = "QUAD_READ_IDLE" /\ ~cfg_mode
Window(a, n) ==
  {f \in [0 .. n - 1 -> {0, Erased}] :
     Online => \A i \in 0 .. n - 1 :
                 \/ f[i] = flash.mem[(a + i) % FLASHLEN]
                 \/ flash.wip /\ f[i] = 0}

-----------------------------------------------------------------------------
\* The routines, as the accesses they make.

\* Variant: the device is not reset out of quad read mode.
take_offline_no_reset == <<End, End>>

take_offline ==
  <<End, Lo(\hff), Lo(\hff), Lo(\hff), Lo(\hff), Lo(\hff), Lo(\hff), End>>

\* Variant: the mode byte does not ask for the next read without a command.
restore_quadio_once ==
  <<End, Lo(\heb), Hi(0), Hi(0), Hi(0), Hi(0), Hi(0), Lo(0), Exit>>

\* MICRON_FLASHID is not the identity of the simulated device.
restore_quadio ==
  <<End, Lo(\heb), Hi(0), Hi(0), Hi(0), Hi(\ha0), Hi(0), Lo(0), Exit>>

place_online == restore_quadio

flwait == <<End, Lo(\h05), Poll, End>>

\* F_MFRID and four bytes.
flashid == take_offline \o <<Lo(\h9f), Lo(0), Lo(0), Lo(0), Lo(0)>> \o place_online

\* A command with its three address bytes; the scaled device needs the last.
Addressed(cmd, a) == <<Lo(cmd), Lo(0), Lo(0), Lo(a % 256)>>

erase_sector(a) ==
  take_offline \o <<End, Lo(\h06), End>> \o Addressed(\hd8, a) \o <<End>>
    \o flwait \o place_online

\* The part of page_program that follows its assertions.
page_program(a, n) ==
  <<End, Lo(\h06), End>> \o Addressed(\h02, a)
    \o [i \in 1 .. n |-> Lo(req.data[(a + i - 1) % FLASHLEN])]
    \o <<End>> \o flwait \o place_online

-----------------------------------------------------------------------------
FlashInit ==
  /\ \E image \in Images : flash = Startup(image) /\ mem0 = image
  /\ cfg_mode = FALSE /\ ops = <<>> /\ rx = <<>> /\ pc = "start" /\ m_id = "unknown"
  /\ s = 0 /\ p = 0 /\ len \in Garbage /\ req \in Requests /\ runs = 1
  /\ hasty = FALSE

\* One access to the port; a poll is repeated while it reads WIP.
Access ==
  /\ ops # <<>>
  /\ LET o == Head(ops)
     IN  /\ flash' = PortWrite(flash, o)
         /\ cfg_mode' = (o[1] # "exit")
         /\ rx' = IF o[1] = "lo" /\ pc = "identified" THEN Append(rx, flash.oreg) ELSE rx
         /\ ops' = IF o[1] = "poll" /\ flash.oreg % 2 = 1 THEN ops ELSE Tail(ops)
  /\ UNCHANGED <<pc, m_id, s, p, len, req, runs, mem0, hasty>>

\* The device ends what it was doing.
Complete ==
  /\ flash.wip
  /\ flash' = WriteComplete(flash)
  /\ UNCHANGED <<cfg_mode, ops, pc, rx, m_id, s, p, len, req, runs, mem0, hasty>>

Go(next, accesses) == pc' = next /\ ops' = accesses /\ rx' = <<>>

\* write(): the identity first, asked for once in a program.
WriteBegin ==
  /\ pc = "start" /\ ops = <<>>
  /\ Go("identified", flashid)
  /\ s' = SECTOROF(req.addr)
  /\ UNCHANGED <<flash, cfg_mode, m_id, p, len, req, runs, mem0, hasty>>

Identified ==
  /\ pc = "identified" /\ ops = <<>>
  /\ m_id' = IF SubSeq(rx, 8, 11) = [i \in 1 .. 4 |-> DEVID(i - 1)] THEN "right" ELSE "wrong"
  /\ Go("sector", <<>>)
  /\ UNCHANGED <<flash, cfg_mode, s, p, len, req, runs, mem0, hasty>>

Base == IF req.addr > s THEN req.addr ELSE s
Ln   == MinOf(req.addr + req.len, s + SECTORSZB) - Base
Want(a) == req.data[a % FLASHLEN]
First(I) == CHOOSE i \in I : \A j \in I : i <= j

\* Compare the sector with what it is to hold; erase it if a bit must rise.
Sector ==
  /\ pc = "sector" /\ ops = <<>> /\ s < SECTOROF(req.addr + req.len + SECTORSZB - 1)
  /\ \E f \in Window(Base, Ln) :
       LET differs == {i \in DOMAIN f : f[i] # Want(Base + i)}
           rises   == {i \in DOMAIN f : MinOf(f[i], Want(Base + i)) # Want(Base + i)}
       IN  CASE rises # {} -> Go("erased", erase_sector(s)) /\ s' = s /\ p' = Base
             [] rises = {} /\ differs # {} ->
                  /\ Go("page", <<>>) /\ s' = s
                  /\ p' = Base + WORDB * (First(differs) \div WORDB)
             [] differs = {} -> Go("sector", <<>>) /\ s' = s + SECTORSZB /\ p' = p
  /\ hasty' = (hasty \/ flash.wip)
  /\ UNCHANGED <<flash, cfg_mode, m_id, len, req, runs, mem0>>

\* The erase is verified page by page.
Verified ==
  /\ pc = "erased" /\ ops = <<>>
  /\ \E f \in Window(s, SECTORSZB) :
       Go(IF \A i \in DOMAIN f : f[i] = Erased THEN "page" ELSE "failed", <<>>)
  /\ UNCHANGED <<flash, cfg_mode, m_id, s, p, len, req, runs, mem0, hasty>>

\* Variant: the length is not clipped to the page.
PageLenUnclipped(a, n) == (req.addr + req.len - a) % ADDRMOD

\* unsigned start = p, len = addr+len-start: the len on the right is the new
\* variable itself, whose stack slot still holds n.
PageLen(a, n) ==
  LET l == (req.addr + n - a) % ADDRMOD
  IN  IF PAGEOF((a + l - 1) % ADDRMOD) # PAGEOF(a) THEN PAGEOF(a + PGLENB) - a ELSE l

Page ==
  /\ pc = "page" /\ ops = <<>> /\ p < s + SECTORSZB /\ p < req.addr + req.len
  /\ len' = PageLen(p, len)
  /\ Go("asserts", take_offline)
  /\ UNCHANGED <<flash, cfg_mode, m_id, s, p, req, runs, mem0, hasty>>

\* page_program(): its assertions, and the page that needs no programming.
LenInPage == len > 0 /\ len <= PGLENB /\ PAGEOF(p) = PAGEOF(p + len - 1)

Asserts ==
  /\ pc = "asserts" /\ ops = <<>>
  /\ CASE ~LenInPage -> Go("aborted", <<>>)
       [] LenInPage /\ (\A a \in p .. p + len - 1 : Want(a) = Erased) ->
            Go("next", place_online)
       [] OTHER -> Go("programmed", page_program(p, len))
  /\ UNCHANGED <<flash, cfg_mode, m_id, s, p, len, req, runs, mem0, hasty>>

\* Whole words of the page are read back and compared.
Programmed ==
  /\ pc = "programmed" /\ ops = <<>>
  /\ \E f \in Window(p, WORDB * (len \div WORDB)) :
       Go(IF \A i \in DOMAIN f : f[i] = Want(p + i) THEN "next" ELSE "failed", <<>>)
  /\ UNCHANGED <<flash, cfg_mode, m_id, s, p, len, req, runs, mem0, hasty>>

NextPage ==
  /\ pc = "next" /\ ops = <<>>
  /\ p' = PAGEOF(p + PGLENB) /\ Go("page", <<>>)
  /\ UNCHANGED <<flash, cfg_mode, m_id, s, len, req, runs, mem0, hasty>>

NextSector ==
  /\ pc = "page" /\ ops = <<>> /\ ~(p < s + SECTORSZB /\ p < req.addr + req.len)
  /\ s' = s + SECTORSZB /\ Go("sector", <<>>)
  /\ UNCHANGED <<flash, cfg_mode, m_id, p, len, req, runs, mem0, hasty>>

WriteEnd ==
  /\ pc = "sector" /\ ops = <<>> /\ s >= SECTOROF(req.addr + req.len + SECTORSZB - 1)
  /\ Go("ok", take_offline \o <<Lo(\h04), End>> \o place_online)
  /\ UNCHANGED <<flash, cfg_mode, m_id, s, p, len, req, runs, mem0, hasty>>

\* A program ends, or is killed between two accesses; another one is started.
Restart ==
  /\ runs < MaxRuns
  /\ Go("start", <<>>) /\ runs' = runs + 1 /\ m_id' = "unknown"
  /\ s' = 0 /\ p' = 0 /\ len' \in Garbage /\ req' \in Requests /\ hasty' = FALSE
  /\ UNCHANGED <<flash, cfg_mode, mem0>>

FlashNext ==
  \/ Access \/ Complete \/ WriteBegin \/ Identified \/ Sector \/ Verified \/ Page
  \/ Asserts \/ Programmed \/ NextPage \/ NextSector \/ WriteEnd \/ Restart

FlashSpec == FlashInit /\ [][FlashNext]_flashvars

-----------------------------------------------------------------------------
Done == pc = "ok" /\ ops = <<>>

\* write() returns true only when the flash holds what it was asked to hold,
\* whatever the flash held before and wherever an earlier program was killed.
\* The one exception: write() does not look at WIP before it compares, so a
\* device still busy with what a killed program began reads as zeros, and a
\* zero that was to be written may be taken for one that is there.
FlashHolds ==
  Done => \A a \in req.addr .. req.addr + req.len - 1 :
            \/ flash.mem[a % FLASHLEN] = Want(a)
            \/ hasty /\ Want(a) = 0

\* Host and device keep in step: a command byte finds the device waiting for a
\* command, a byte at four bits a clock finds it reading four bits a clock, and
\* the identity is read right, even after an earlier program was killed in the
\* middle of a command.
InStep ==
  /\ flash.state \notin {"MISALIGNED", "UNRECOGNIZED"} /\ m_id # "wrong"
  /\ ops # <<>> =>
       LET o == Head(ops)
       IN  /\ o[1] = "lo" /\ flash.count = 0 /\ o[2] # \hff =>
                flash.mode = "SPI" /\ flash.state # "QUAD_READ_IDLE"
           /\ o[1] = "hi" => flash.mode = "QSPI"

\* When write() returns, the memory window reads the flash again.
BackOnline == Done => Online

\* As long as no program has been killed, an erase or a program stays inside the
\* sectors of the request: nothing else in the flash changes.
NeighboursKept ==
  runs = 1 =>
    \A a \in FLASHBASE .. FLASHBASE + FLASHLEN - 1 :
      \/ SECTOROF(a) \in {SECTOROF(b) : b \in req.addr .. req.addr + req.len - 1}
      \/ flash.mem[a % FLASHLEN] = mem0[a % FLASHLEN]

\* All of it: write() does what it says, keeps in step with the device, leaves the
\* rest of the flash alone and gives the window back.
FlashRight == FlashHolds /\ InStep /\ BackOnline /\ NeighboursKept

\* page_program() asserts that the length write() gives it is inside one page
\* and not zero.
PageAsserts == pc # "aborted"
=============================================================================
