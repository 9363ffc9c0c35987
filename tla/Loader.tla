------------------------------- MODULE Loader -------------------------------
(***************************************************************************)
(* From a program file to a running program: zipelf.cpp reads the file,    *)
(* zipload.cpp puts it into the board's memories (the simulation's         *)
(* loadelf() does so before the first clock), and the boot loader copies   *)
(* what belongs into RAM when the processor leaves its reset.              *)
(*                                                                         *)
(* Memory is counted in words, since the linker scripts align all sections *)
(* to words.  A word is <<value, order>>: "linked" when its bytes are in   *)
(* the order of the file, which is the processor's, "swapped" when they    *)
(* are reversed.  Host, file and processor are little-endian.              *)
(***************************************************************************)
EXTENDS Integers, FiniteSets, Sequences

CONSTANTS
  BKRAMBASE, BKRAMLEN, ROMBASE, ROMLEN,
  Programs,   \* programs: their segments, and the linker's symbols
  MaxLoads    \* programs that are loaded, one after the other

\* The two memories are apart, and programs are numbered.
ASSUME MapAssumption ==
  /\ {BKRAMBASE, BKRAMLEN, ROMBASE, ROMLEN} \subseteq Nat
  /\ BKRAMBASE + BKRAMLEN <= ROMBASE \/ ROMBASE + ROMLEN <= BKRAMBASE
  /\ DOMAIN Programs \subseteq Nat \ {0} /\ {ROMLEN, MaxLoads} \subseteq Nat \ {0}

RESET_ADDRESS == ROMBASE
Ram   == BKRAMBASE .. BKRAMBASE + BKRAMLEN - 1
Flash == ROMBASE .. ROMBASE + ROMLEN - 1
Blank == <<"ones", "linked">>
ZeroWord == <<"zero", "linked">>
Junk  == <<"junk", "linked">>

VARIABLES ram, rom,     \* the two memories
          cpu,          \* "reset", "boot", "main"
          prog, complete,  \* the program whose loading began last; was it completed?
          inrom,        \* the program in flash, where the processor starts
          lpc, secpp, sec, fbuf, startaddr, codelen, loads

board == <<ram, rom, cpu>>
tool  == <<lpc, secpp, sec, fbuf, startaddr, codelen>>
loadervars == <<board, prog, complete, inrom, tool, loads>>

-----------------------------------------------------------------------------
\* elfread(), of a file that it accepts (see ElfRefused): sections without data are
\* passed over, and share their place in the list with the one that follows (or with the
\* place after the last section); a section without length ends the list.
Real(phdrs) == {i \in 1 .. Len(phdrs) : phdrs[i].data # <<>>}
Header(phdrs, i) ==
  IF \E j \in Real(phdrs) : j >= i
  THEN CHOOSE j \in Real(phdrs) : j >= i /\ \A k \in Real(phdrs) : k >= i => j <= k
  ELSE Len(phdrs) + 1
Ends(phdrs, i) ==   \* the length is zero there
  \/ i = Len(phdrs) + 1 \/ Header(phdrs, i) = Len(phdrs) + 1
  \/ Header(phdrs, i) = Header(phdrs, Cardinality(Real(phdrs)) + 1)
elfread(phdrs) ==
  LET stop == CHOOSE i \in 1 .. Len(phdrs) + 1 : Ends(phdrs, i) /\ \A j \in 1 .. i - 1 : ~Ends(phdrs, j)
  IN  [i \in 1 .. stop - 1 |-> phdrs[Header(phdrs, i)]]

\* The simulation has a copy of elfread().
elfread_sim(phdrs) == elfread(phdrs)

\* byteswapbuf() reverses the bytes of every word.
byteswapbuf(data) ==
  [i \in 1 .. Len(data) |->
     <<data[i][1], IF data[i][2] = "linked" THEN "swapped" ELSE "linked">>]

\* The simulation's one has its own text.
byteswapbuf_sim(data) == byteswapbuf(data)

Within(s, base, len) == s.start >= base /\ s.start + Len(s.data) <= base + len
InRam(s)   == Within(s, BKRAMBASE, BKRAMLEN)
InFlash(s) == Within(s, ROMBASE, ROMLEN)

Put(m, start, data) ==
  [a \in DOMAIN m |-> IF a >= start /\ a < start + Len(data) THEN data[a - start + 1] ELSE m[a]]

LoaderInit ==
  /\ ram = [a \in Ram |-> Junk] /\ rom = [a \in Flash |-> Blank]
  /\ cpu = "reset" /\ prog = 0 /\ complete = FALSE /\ inrom = 0
  /\ lpc = "none" /\ secpp = <<>> /\ sec = 1 /\ loads = 0
  /\ fbuf = [a \in Flash |-> Blank] /\ startaddr = RESET_ADDRESS /\ codelen = 0

-----------------------------------------------------------------------------
\* zipload: the board answers, and its processor is halted; then the file is read.
Halt(p) ==
  /\ lpc = "none" /\ loads < MaxLoads /\ loads' = loads + 1
  /\ cpu' = "reset" /\ prog' = p /\ complete' = FALSE
  /\ secpp' = elfread(Programs[p].phdrs) /\ sec' = 1 /\ lpc' = "check"
  /\ fbuf' = [a \in Flash |-> Blank] /\ startaddr' = RESET_ADDRESS /\ codelen' = 0
  /\ UNCHANGED <<ram, rom, inrom>>

\* elfread() ends the tool when the file is not a 32-bit ELF file for the
\* processor, or cannot be read.  The processor has been halted by then.
ElfRefused ==
  /\ lpc = "none" /\ loads < MaxLoads /\ loads' = loads + 1
  /\ cpu' = "reset" /\ complete' = FALSE
  /\ UNCHANGED <<ram, rom, prog, inrom, tool>>

\* Every section must lie in a memory of the board.
CheckSections ==
  /\ lpc = "check"
  /\ lpc' = IF \A i \in 1 .. Len(secpp) : InRam(secpp[i]) \/ InFlash(secpp[i])
            THEN "load" ELSE "none"
  /\ UNCHANGED <<board, prog, complete, inrom, secpp, sec, fbuf, startaddr, codelen, loads>>

\* Sections for RAM are written at once, those for the flash collected.
LoadSection ==
  /\ lpc = "load" /\ sec <= Len(secpp) /\ sec' = sec + 1
  /\ LET s == secpp[sec] IN
     \/ /\ InRam(s) /\ ram' = Put(ram, s.start, byteswapbuf(s.data))
        /\ UNCHANGED <<fbuf, startaddr, codelen>>
     \/ /\ ~InRam(s) /\ fbuf' = Put(fbuf, s.start, s.data)
        /\ startaddr' = IF s.start < startaddr THEN s.start ELSE startaddr
        /\ LET len == IF s.start < startaddr THEN codelen + startaddr - s.start ELSE codelen
           IN  codelen' = IF s.start + Len(s.data) > startaddr' + len
                          THEN s.start + Len(s.data) - startaddr' ELSE len
        /\ UNCHANGED ram
  /\ UNCHANGED <<rom, cpu, prog, complete, inrom, lpc, secpp, loads>>

\* FLASHDRVR::write() writes all and returns true, or stops somewhere and does not.
\* Variant: what it returns is not looked at.
WriteFlashUnchecked ==
  /\ lpc = "load" /\ sec > Len(secpp) /\ lpc' = "start"
  /\ inrom' = IF codelen = 0 THEN inrom ELSE prog
  /\ \E n \in 0 .. codelen :
       rom' = [a \in Flash |-> IF a >= startaddr /\ a < startaddr + n THEN fbuf[a] ELSE rom[a]]
  /\ UNCHANGED <<ram, cpu, prog, complete, secpp, sec, fbuf, startaddr, codelen, loads>>

WriteFlash ==
  /\ lpc = "load" /\ sec > Len(secpp)
  /\ \E n \in 0 .. codelen :
       /\ rom' = [a \in Flash |-> IF a >= startaddr /\ a < startaddr + n THEN fbuf[a] ELSE rom[a]]
       /\ lpc' = IF n = codelen THEN "start" ELSE "none"
       /\ inrom' = IF codelen = 0 THEN inrom ELSE IF n = codelen THEN prog ELSE 0
  /\ UNCHANGED <<ram, cpu, prog, complete, secpp, sec, fbuf, startaddr, codelen, loads>>

StartCpu ==
  /\ lpc = "start" /\ cpu' = "boot" /\ lpc' = "none" /\ complete' = TRUE
  /\ UNCHANGED <<ram, rom, prog, inrom, secpp, sec, fbuf, startaddr, codelen, loads>>

\* A bus error ends the tool.
BusErr ==
  /\ lpc \in {"check", "load", "start"} /\ lpc' = "none"
  /\ UNCHANGED <<board, prog, complete, inrom, secpp, sec, fbuf, startaddr, codelen, loads>>

\* In the simulation all is loaded before the first clock, section by section.
loadelf(p) ==
  /\ loads = 0 /\ loads' = MaxLoads /\ prog' = p /\ complete' = FALSE
  /\ secpp' = elfread_sim(Programs[p].phdrs) /\ sec' = 1 /\ lpc' = "sim"
  /\ UNCHANGED <<board, inrom, fbuf, startaddr, codelen>>

\* load() finds the memory by the section's first address, and takes an offset in
\* bytes for an index of block_ram, an array of words.
load ==
  /\ lpc = "sim" /\ sec <= Len(secpp) /\ sec' = sec + 1
  /\ LET s == secpp[sec] IN
     /\ rom' = IF s.start \in Flash THEN Put(rom, s.start, s.data) ELSE rom
     /\ ram' = IF s.start \in Ram
               THEN Put(ram, BKRAMBASE + 4 * (s.start - BKRAMBASE), byteswapbuf_sim(s.data))
               ELSE ram
  /\ UNCHANGED <<cpu, prog, complete, inrom, lpc, secpp, fbuf, startaddr, codelen, loads>>

\* The clock starts.
SimStart ==
  /\ lpc = "sim" /\ sec > Len(secpp) /\ lpc' = "none" /\ complete' = TRUE /\ cpu' = "boot"
  /\ inrom' = IF \E i \in 1 .. Len(secpp) : secpp[i].start = RESET_ADDRESS THEN prog ELSE 0
  /\ UNCHANGED <<ram, rom, prog, secpp, sec, fbuf, startaddr, codelen, loads>>

-----------------------------------------------------------------------------
\* The boot loader, with the symbols of board.ld: no _kram, and a _rom.  (Its
\* branch for programs without a ROM is not reached: the PicoRV starts in flash.)
Sym == Programs[inrom]
Read(a) == IF a \in Ram THEN ram[a] ELSE rom[a]

\* Variant: the memory after the image is not cleared.
_bootloader_nobss ==
  [a \in Ram |-> IF a < Sym.ram_image_end THEN Read(Sym.kram_start + a - BKRAMBASE) ELSE ram[a]]

_bootloader ==
  [a \in Ram |->
     IF a < Sym.ram_image_end THEN Read(Sym.kram_start + a - BKRAMBASE)
     ELSE IF a < Sym.bss_image_end THEN ZeroWord ELSE ram[a]]

\* _start: the boot loader runs, then main().
Start ==
  /\ cpu = "boot" /\ inrom # 0 /\ cpu' = "main" /\ ram' = _bootloader
  /\ UNCHANGED <<rom, prog, complete, inrom, tool, loads>>

\* The program changes its memory, and is started again (the board's reset).
Runs ==
  /\ cpu = "main" /\ \E a \in Ram : ram' = [ram EXCEPT ![a] = Junk]
  /\ UNCHANGED <<rom, cpu, prog, complete, inrom, tool, loads>>
Reset ==
  /\ cpu = "main" /\ cpu' = "boot" /\ UNCHANGED <<ram, rom, prog, complete, inrom, tool, loads>>

LoaderNext ==
  \/ \E p \in DOMAIN Programs : Halt(p) \/ loadelf(p)
  \/ ElfRefused \/ CheckSections \/ LoadSection \/ WriteFlash \/ StartCpu \/ BusErr
  \/ load \/ SimStart \/ Start \/ Runs \/ Reset

LoaderSpec == LoaderInit /\ [][LoaderNext]_loadervars

-----------------------------------------------------------------------------
\* Programs as board.ld and bkram.ld lay them out: headers without data stand last; no
\* segment crosses the end of a memory, or another one; a program in RAM starts
\* where the RAM does; and one in flash has the image of its RAM there, at kram_start.
IsSeq(q) == q \in Seq({q[i] : i \in DOMAIN q})
WellLinked(p) ==
  LET h == p.phdrs
      R == Real(h) IN
  /\ IsSeq(h) /\ IsSeq(p.data) /\ \A i \in 1 .. Len(h) : IsSeq(h[i].data) /\ h[i].start \in Nat
  /\ \E m \in 0 .. Len(h) : R = 1 .. m
  /\ \A i \in R : h[i].start \in Ram => h[i].start = BKRAMBASE /\ InRam(h[i])
  /\ \A i \in R : h[i].start \in Flash => InFlash(h[i])
  /\ \A i, j \in R : \/ i = j \/ h[i].start + Len(h[i].data) <= h[j].start
                     \/ h[j].start + Len(h[j].data) <= h[i].start
  /\ {p.kram_start, p.ram_image_end, p.bss_image_end} \subseteq Nat
  /\ p.ram_image_end = BKRAMBASE + Len(p.data) /\ p.ram_image_end <= p.bss_image_end
  /\ p.bss_image_end <= BKRAMBASE + BKRAMLEN
  /\ (\E i \in R : h[i].start \in Flash) =>
       \A k \in 1 .. Len(p.data) : \E i \in R : \E j \in 1 .. Len(h[i].data) :
         /\ h[i].start \in Flash /\ h[i].start + j = p.kram_start + k /\ h[i].data[j] = p.data[k]
ProgramsLinked == \A p \in DOMAIN Programs : WellLinked(Programs[p])

\* The memory m holds the data of the file at a place; or holds it in some byte order.
Holds(m, start, data)    == \A i \in 1 .. Len(data) : m[start + i - 1] = data[i]
HoldsAll(m, start, data) == \A i \in 1 .. Len(data) : m[start + i - 1][1] = data[i][1]

\* The processor only ever leaves its reset with the whole of a program in the
\* memories, whatever fails on the way: a bus error, a section without memory, a
\* flash that does not take its data.  (For RAM, up to the order of bytes in a
\* word: see RamAsLinked.)
NeverHalfLoaded ==
  [][cpu = "reset" /\ cpu' = "boot" =>
       /\ complete'
       /\ \A i \in 1 .. Len(Programs[prog'].phdrs) :
            LET h == Programs[prog'].phdrs[i]
            IN  /\ h.start \in Ram => HoldsAll(ram', h.start, h.data)
                /\ h.start \in Flash => Holds(rom', h.start, h.data)]_loadervars

\* When main() begins, code and data are where they were linked and BSS is zero,
\* also after a reset of a program that has changed its memory, and after another
\* program has used it.
BootedRight ==
  [][cpu = "boot" /\ cpu' = "main" =>
       /\ Holds(ram', BKRAMBASE, Sym.data)
       /\ \A a \in Sym.ram_image_end .. Sym.bss_image_end - 1 : ram'[a] = ZeroWord]_loadervars

\* regdefs.h says LITTLEENDIAN_CPU, and the loaders swap bytes "to get it into the
\* memory": a section that is linked into RAM is there as it was linked, and as the
\* processor reads it, when that leaves its reset.
RamAsLinked ==
  [][cpu = "reset" /\ cpu' = "boot" =>
       \A i \in 1 .. Len(Programs[prog'].phdrs) :
         LET h == Programs[prog'].phdrs[i]
         IN  h.start \in Ram => Holds(ram', h.start, h.data)]_loadervars

\* "Only create non-zero sized sections": all segments that have data, and only
\* those, are in the list.
ElfComplete ==
  lpc = "check" => secpp = SelectSeq(Programs[prog].phdrs, LAMBDA h : h.data # <<>>)
=============================================================================
