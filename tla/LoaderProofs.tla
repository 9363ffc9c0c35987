---------------------------- MODULE LoaderProofs ----------------------------
(***************************************************************************)
(* For every set of programs that the linker scripts lay out, any size of  *)
(* the memories and any number of loads: the processor leaves its reset    *)
(* only with a whole program, and main() begins with its image in RAM.     *)
(***************************************************************************)
EXTENDS Loader, FiniteSetTheorems, TLAPS

-----------------------------------------------------------------------------
\* elfread(), of a file whose headers without data stand last: they are left out.
LEMMA HeaderPlace ==
  ASSUME NEW h, Len(h) \in Nat, NEW m \in 0 .. Len(h), Real(h) = 1 .. m, NEW i \in 1 .. Len(h) + 1
  PROVE  Header(h, i) = IF i <= m THEN i ELSE Len(h) + 1
  <1>1. CASE i <= m
    <2> DEFINE Fits(j) == j >= i /\ \A k \in 1 .. m : k >= i => j <= k
    <2>1. i \in 1 .. m /\ Fits(i)
      BY <1>1
    <2>2. \A j \in 1 .. m : Fits(j) => j = i
      BY <1>1
    <2>3. Header(h, i) = CHOOSE j \in 1 .. m : Fits(j)
      BY <2>1 DEF Header
    <2> HIDE DEF Fits
    <2>4. (CHOOSE j \in 1 .. m : Fits(j)) = i
      BY <2>1, <2>2
    <2> QED
      BY <1>1, <2>3, <2>4
  <1>2. CASE ~(i <= m)
    <2>1. ~ \E j \in 1 .. m : j >= i
      BY <1>2
    <2> QED
      BY <1>2, <2>1 DEF Header
  <1> QED
    BY <1>1, <1>2

LEMMA ElfRead ==
  ASSUME NEW h, Len(h) \in Nat, NEW m \in 0 .. Len(h), Real(h) = 1 .. m
  PROVE  elfread(h) = [i \in 1 .. m |-> h[i]]
  <1>1. Cardinality(Real(h)) = m
    <2>1. Cardinality(1 .. m) = m
      BY FS_Interval
    <2> QED
      BY <2>1
  <1>2. m + 1 \in 1 .. Len(h) + 1
    OBVIOUS
  <1>3. Header(h, m + 1) = Len(h) + 1
    BY <1>2, HeaderPlace
  <1>4. \A i \in 1 .. Len(h) + 1 : Ends(h, i) <=> i > m
    <2> TAKE i \in 1 .. Len(h) + 1
    <2>1. Header(h, i) = IF i <= m THEN i ELSE Len(h) + 1
      BY HeaderPlace
    <2>2. Ends(h, i) <=> i = Len(h) + 1 \/ Header(h, i) = Len(h) + 1
      BY <1>1, <1>3 DEF Ends
    <2> QED
      BY <2>1, <2>2
  <1> DEFINE Stops(i) == Ends(h, i) /\ \A j \in 1 .. i - 1 : ~Ends(h, j)
             stop == CHOOSE i \in 1 .. Len(h) + 1 : Stops(i)
  <1>5. Stops(m + 1)
    BY <1>2, <1>4
  <1>6. ASSUME NEW i \in 1 .. Len(h) + 1, Stops(i)
        PROVE  i = m + 1
    <2>1. i > m
      BY <1>4, <1>6
    <2>2. ~(m + 1 < i)
      BY <1>2, <1>4, <1>6
    <2> QED
      BY <2>1, <2>2
  <1>7. stop = m + 1
    <2> HIDE DEF Stops
    <2> QED
      BY <1>2, <1>5, <1>6
  <1>8. elfread(h) = [i \in 1 .. stop - 1 |-> h[Header(h, i)]]
    BY DEF elfread
  <1> HIDE DEF stop
  <1>9. stop - 1 = m
    BY <1>7
  <1>10. \A i \in 1 .. m : Header(h, i) = i
    BY HeaderPlace
  <1> QED
    BY <1>8, <1>9, <1>10

-----------------------------------------------------------------------------
\* Memories.
LEMMA SwapLength ==
  ASSUME NEW data, Len(data) \in Nat
  PROVE  /\ Len(byteswapbuf(data)) = Len(data)
         /\ \A i \in 1 .. Len(data) : byteswapbuf(data)[i][1] = data[i][1]
  BY DEF byteswapbuf

LEMMA PutWhole ==
  ASSUME NEW m, NEW start \in Int, NEW data, Len(data) \in Nat,
         \A i \in 1 .. Len(data) : start + i - 1 \in DOMAIN m
  PROVE  Holds(Put(m, start, data), start, data)
  <1> SUFFICES ASSUME NEW i \in 1 .. Len(data)
               PROVE  Put(m, start, data)[start + i - 1] = data[i]
    BY DEF Holds
  <1>1. start + i - 1 >= start /\ start + i - 1 < start + Len(data) /\ (start + i - 1) - start + 1 = i
    OBVIOUS
  <1> QED
    BY <1>1 DEF Put

LEMMA PutElsewhere ==
  ASSUME NEW m, NEW start \in Int, NEW data, Len(data) \in Nat,
         NEW a \in DOMAIN m, ~(a >= start /\ a < start + Len(data))
  PROVE  Put(m, start, data)[a] = m[a]
  BY DEF Put

-----------------------------------------------------------------------------
\* The segments of a program that is laid out as the linker scripts do it.
LEMMA Segments ==
  ASSUME ProgramsLinked, NEW p \in DOMAIN Programs, NEW i \in Real(Programs[p].phdrs)
  PROVE  LET s == Programs[p].phdrs[i] IN
         /\ s.start \in Nat /\ Len(s.data) \in Nat /\ Len(s.data) > 0
         /\ s.start \in Ram => s.start = BKRAMBASE
         /\ s.start \in Ram <=> InRam(s)
         /\ s.start \in Flash <=> InFlash(s)
         /\ ~(s.start \in Ram /\ s.start \in Flash)
         /\ s.start \in Ram => \A k \in 1 .. Len(s.data) : s.start + k - 1 \in Ram
         /\ s.start \in Flash => \A k \in 1 .. Len(s.data) : s.start + k - 1 \in Flash
  <1> DEFINE h == Programs[p].phdrs
             s == h[i]
  <1>1. WellLinked(Programs[p])
    BY DEF ProgramsLinked
  <1>2. i \in 1 .. Len(h) /\ s.data # <<>>
    BY DEF Real
  <1>3. IsSeq(s.data) /\ s.start \in Nat
    BY <1>1, <1>2 DEF WellLinked
  <1>4. /\ s.start \in Ram => s.start = BKRAMBASE /\ InRam(s)
        /\ s.start \in Flash => InFlash(s)
    BY <1>1 DEF WellLinked
  <1> HIDE DEF s, h
  <1>5. Len(s.data) \in Nat /\ Len(s.data) > 0
    BY <1>2, <1>3 DEF IsSeq
  <1>6. BKRAMBASE \in Nat /\ BKRAMLEN \in Nat /\ ROMBASE \in Nat /\ ROMLEN \in Nat
    BY MapAssumption
  <1> DEFINE n == Len(s.data)
             a == s.start
  <1>n. n \in Nat /\ n > 0 /\ a \in Nat
    BY <1>3, <1>5
  <1>7. InRam(s) => s.start \in Ram /\ \A k \in 1 .. Len(s.data) : s.start + k - 1 \in Ram
    <2>1. InRam(s) => a >= BKRAMBASE /\ a + n <= BKRAMBASE + BKRAMLEN
      BY DEF InRam, Within
    <2> HIDE DEF n, a
    <2>2. InRam(s) => a \in Ram /\ \A k \in 1 .. n : a + k - 1 \in Ram
      BY <1>6, <1>n, <2>1 DEF Ram
    <2> QED
      BY <2>2 DEF n, a
  <1>8. InFlash(s) => s.start \in Flash /\ \A k \in 1 .. Len(s.data) : s.start + k - 1 \in Flash
    <2>1. InFlash(s) => a >= ROMBASE /\ a + n <= ROMBASE + ROMLEN
      BY DEF InFlash, Within
    <2> HIDE DEF n, a
    <2>2. InFlash(s) => a \in Flash /\ \A k \in 1 .. n : a + k - 1 \in Flash
      BY <1>6, <1>n, <2>1 DEF Flash
    <2> QED
      BY <2>2 DEF n, a
  <1>9. ~(s.start \in Ram /\ s.start \in Flash)
    BY <1>3, <1>6, MapAssumption DEF Ram, Flash
  <1> QED
    BY <1>3, <1>4, <1>5, <1>7, <1>8, <1>9 DEF s, h

LEMMA Apart ==
  ASSUME ProgramsLinked, NEW p \in DOMAIN Programs,
         NEW i \in Real(Programs[p].phdrs), NEW j \in Real(Programs[p].phdrs), i # j
  PROVE  LET s == Programs[p].phdrs[i]
             t == Programs[p].phdrs[j]
         IN  s.start + Len(s.data) <= t.start \/ t.start + Len(t.data) <= s.start
  BY DEF ProgramsLinked, WellLinked

\* The list of sections is that of the segments with data.
LEMMA Sections ==
  ASSUME ProgramsLinked, NEW p \in DOMAIN Programs
  PROVE  LET h == Programs[p].phdrs IN
         /\ Len(elfread(h)) \in Nat /\ Real(h) = 1 .. Len(elfread(h)) /\ Len(h) \in Nat
         /\ \A i \in Real(h) : elfread(h)[i] = h[i]
  <1> DEFINE h == Programs[p].phdrs
  <1>1. Len(h) \in Nat /\ \E m \in 0 .. Len(h) : Real(h) = 1 .. m
    <2>1. IsSeq(h) /\ \E m \in 0 .. Len(h) : Real(h) = 1 .. m
      BY Zenon DEF ProgramsLinked, WellLinked
    <2> HIDE DEF h
    <2> QED
      BY <2>1 DEF IsSeq
  <1> HIDE DEF h
  <1>2. PICK m \in 0 .. Len(h) : Real(h) = 1 .. m
    BY <1>1
  <1>3. elfread(h) = [i \in 1 .. m |-> h[i]]
    BY <1>1, <1>2, ElfRead
  <1>4. Len(elfread(h)) = m
    BY <1>3
  <1>5. \A i \in 1 .. m : elfread(h)[i] = h[i]
    BY <1>3
  <1> QED
    BY <1>1, <1>2, <1>4, <1>5 DEF h

-----------------------------------------------------------------------------
\* Segment s of a program is in the memories; or in those of the simulation.
Headers == Programs[prog].phdrs
InPlace(s) ==
  /\ s.start \in Ram => HoldsAll(ram, s.start, s.data)
  /\ s.start \in Flash => Holds(rom, s.start, s.data)

\* It is in RAM, or in the buffer for the flash and counted in its length.
Collected(s) ==
  /\ s.start \in Ram => HoldsAll(ram, s.start, s.data)
  /\ s.start \in Flash => Holds(fbuf, s.start, s.data) /\ s.start + Len(s.data) <= ROMBASE + codelen

\* The flash holds program p, which starts there.
FlashHolds(p) ==
  /\ \A i \in Real(Programs[p].phdrs) :
       LET s == Programs[p].phdrs[i] IN s.start \in Flash => Holds(rom, s.start, s.data)
  /\ \E i \in Real(Programs[p].phdrs) : Programs[p].phdrs[i].start \in Flash

LoaderTypes ==
  /\ DOMAIN ram = Ram /\ DOMAIN rom = Flash /\ DOMAIN fbuf = Flash
  /\ inrom \in DOMAIN Programs \cup {0} /\ loads \in Nat
  /\ lpc \in {"none", "check", "load", "start", "sim"}

\* A loader at work, with the processor in reset.
Loading ==
  /\ cpu = "reset" /\ prog \in DOMAIN Programs /\ secpp = elfread(Headers) /\ sec \in Nat /\ sec >= 1
  /\ loads # 0
  /\ lpc = "check" => sec = 1 /\ startaddr = ROMBASE /\ codelen = 0
  /\ lpc \in {"load", "start"} =>
       /\ \A i \in Real(Headers) : Headers[i].start \in Ram \cup Flash
       /\ startaddr = ROMBASE /\ codelen \in 0 .. ROMLEN
       /\ \A i \in Real(Headers) : i < sec => Collected(Headers[i])
       /\ codelen # 0 => \E i \in Real(Headers) : Headers[i].start \in Flash
  /\ lpc = "start" => \A i \in Real(Headers) : InPlace(Headers[i])
  /\ lpc = "sim" => inrom = 0 /\ \A i \in Real(Headers) : i < sec => InPlace(Headers[i])

LoaderInv ==
  /\ LoaderTypes
  /\ loads = 0 => inrom = 0 /\ cpu = "reset"
  /\ lpc # "none" => Loading
  /\ inrom # 0 => FlashHolds(inrom)

\* The memories m and n agree on the words of a segment.
Agree(m, n, start, data) ==
  \A k \in 1 .. Len(data) : start + k - 1 \in DOMAIN m => n[start + k - 1] = m[start + k - 1]

\* Writing one segment leaves the others.
LEMMA PutSegment ==
  ASSUME ProgramsLinked, prog \in DOMAIN Programs, NEW i \in Real(Headers),
     NEW k \in Real(Headers), i # k,
         NEW m, NEW data, Len(data) = Len(Headers[k].data)
  PROVE  Agree(m, Put(m, Headers[k].start, data), Headers[i].start, Headers[i].data)
  <1> DEFINE s == Headers[i]
             t == Headers[k]
  <1>1. /\ s.start \in Nat /\ Len(s.data) \in Nat /\ t.start \in Nat /\ Len(t.data) \in Nat
        /\ s.start + Len(s.data) <= t.start \/ t.start + Len(t.data) <= s.start
    BY Segments, Apart DEF Headers
  <1>2. Len(data) = Len(t.data)
    OBVIOUS
  <1> HIDE DEF s, t
  <1>3. ASSUME NEW j \in 1 .. Len(s.data), s.start + j - 1 \in DOMAIN m
        PROVE  Put(m, t.start, data)[s.start + j - 1] = m[s.start + j - 1]
    <2> DEFINE a == s.start + j - 1
    <2>1. ~(a >= t.start /\ a < t.start + Len(data)) /\ a \in DOMAIN m
      BY <1>1, <1>2, <1>3
    <2>2. t.start \in Int /\ Len(data) \in Nat
      BY <1>1, <1>2
    <2> HIDE DEF a
    <2>3. Put(m, t.start, data)[a] = m[a]
      BY <2>1, <2>2, PutElsewhere
    <2> QED
      BY <2>3 DEF a
  <1>4. Agree(m, Put(m, t.start, data), s.start, s.data)
    BY <1>3 DEF Agree
  <1> QED
    BY <1>4 DEF s, t

\* A step that leaves the flash, and the program in it, as they are.
LEMMA FlashStays ==
  ASSUME LoaderInv, ProgramsLinked, \A a \in Flash : rom'[a] = rom[a], inrom' \in {0, inrom}
  PROVE  inrom' # 0 => FlashHolds(inrom)'
  <1> SUFFICES ASSUME inrom' # 0
               PROVE  FlashHolds(inrom)'
    OBVIOUS
  <1>1. inrom' = inrom /\ FlashHolds(inrom) /\ inrom \in DOMAIN Programs
    BY DEF LoaderInv, LoaderTypes
  <1>2. ASSUME NEW i \in Real(Programs[inrom].phdrs), Programs[inrom].phdrs[i].start \in Flash
        PROVE  Holds(rom', Programs[inrom].phdrs[i].start, Programs[inrom].phdrs[i].data)
    <2> DEFINE s == Programs[inrom].phdrs[i]
    <2>1. Holds(rom, s.start, s.data)
      BY <1>1, <1>2 DEF FlashHolds
    <2>2. \A k \in 1 .. Len(s.data) : s.start + k - 1 \in Flash
      BY <1>1, <1>2, Segments
    <2> HIDE DEF s
    <2>3. Holds(rom', s.start, s.data)
      BY <2>1, <2>2 DEF Holds
    <2> QED
      BY <2>3 DEF s
  <1> QED
    BY <1>1, <1>2 DEF FlashHolds

LEMMA LoaderStarts ==
  ASSUME LoaderInit
  PROVE  LoaderInv
  BY DEF LoaderInit, LoaderInv, LoaderTypes

LEMMA HaltStep ==
  ASSUME LoaderInv, NEW p \in DOMAIN Programs, Halt(p)
  PROVE  LoaderInv'
  <1>1. /\ loads' = loads + 1 /\ cpu' = "reset" /\ prog' = p /\ secpp' = elfread(Programs[p].phdrs)
        /\ sec' = 1 /\ lpc' = "check" /\ fbuf' = [a \in Flash |-> Blank]
        /\ startaddr' = ROMBASE /\ codelen' = 0 /\ UNCHANGED <<ram, rom, inrom>>
    BY DEF Halt, RESET_ADDRESS
  <1>2. LoaderTypes' /\ loads' # 0
    BY <1>1 DEF LoaderInv, LoaderTypes
  <1>3. Loading'
    BY <1>1, <1>2 DEF Loading, Headers
  <1>4. inrom' # 0 => FlashHolds(inrom)'
    BY <1>1 DEF LoaderInv, FlashHolds
  <1> QED
    BY <1>1, <1>2, <1>3, <1>4 DEF LoaderInv

LEMMA CheckStep ==
  ASSUME ProgramsLinked, LoaderInv, CheckSections
  PROVE  LoaderInv'
  <1>1. /\ lpc = "check"
        /\ UNCHANGED <<ram, rom, cpu, prog, inrom, secpp, sec, fbuf, startaddr, codelen, loads>>
        /\ lpc' \in {"load", "none"}
        /\ lpc' = "load" => \A i \in 1 .. Len(secpp) : InRam(secpp[i]) \/ InFlash(secpp[i])
    BY DEF CheckSections, board
  <1>2. Loading /\ LoaderTypes
    BY <1>1 DEF LoaderInv
  <1>3. prog \in DOMAIN Programs /\ secpp = elfread(Headers) /\ sec = 1 /\ startaddr = ROMBASE
           /\ codelen = 0
    BY <1>1, <1>2 DEF Loading
  <1>4. ASSUME lpc' = "load", NEW i \in Real(Headers)
        PROVE  Headers[i].start \in Ram \cup Flash
    <2>1. i \in 1 .. Len(secpp) /\ secpp[i] = Headers[i]
      BY <1>3, <1>4, Sections DEF Headers
    <2>2. InRam(Headers[i]) \/ InFlash(Headers[i])
      BY <1>1, <1>4, <2>1
    <2> QED
      BY <1>3, <1>4, <2>2, Segments DEF Headers
  <1>5. \A i \in Real(Headers) : i \in Nat /\ i >= 1
    BY <1>3, Sections DEF Headers
  <1>6. Headers' = Headers
    BY <1>1 DEF Headers
  <1>7. lpc' # "none" => Loading'
    BY <1>1, <1>2, <1>3, <1>4, <1>5, <1>6, MapAssumption DEF Loading
  <1>8. inrom' # 0 => FlashHolds(inrom)'
    BY <1>1 DEF LoaderInv, FlashHolds
  <1> QED
    BY <1>1, <1>2, <1>7, <1>8 DEF LoaderInv, LoaderTypes

LEMMA Longer ==
  ASSUME NEW e \in Nat, NEW r \in Nat, NEW c \in Nat, NEW d \in Nat, d >= c, e <= r + c
  PROVE  e <= r + d
  OBVIOUS

LEMMA LoadStep ==
  ASSUME ProgramsLinked, LoaderInv, LoadSection
  PROVE  LoaderInv'
  <1> PICK n : n = sec
    OBVIOUS
  <1> DEFINE s == Headers[n]
             d == Len(s.data)
  <1>1. /\ lpc = "load" /\ sec <= Len(secpp) /\ sec' = sec + 1
        /\ UNCHANGED <<rom, cpu, prog, inrom, lpc, secpp, loads>>
    BY DEF LoadSection
  <1>2. Loading /\ LoaderTypes
    BY <1>1 DEF LoaderInv
  <1>3. /\ cpu = "reset" /\ prog \in DOMAIN Programs /\ secpp = elfread(Headers)
        /\ sec \in Nat /\ sec >= 1
        /\ loads # 0
        /\ \A i \in Real(Headers) : Headers[i].start \in Ram \cup Flash
        /\ startaddr = ROMBASE /\ codelen \in 0 .. ROMLEN
        /\ \A i \in Real(Headers) : i < sec => Collected(Headers[i])
        /\ codelen # 0 => \E i \in Real(Headers) : Headers[i].start \in Flash
    BY <1>1, <1>2 DEF Loading
  <1>4. n = sec /\ n \in Real(Headers) /\ secpp[n] = s /\ \A i \in Real(Headers) : i \in Nat
    BY <1>1, <1>3, Sections DEF Headers
  <1>5. /\ s.start \in Nat /\ d \in Nat /\ d > 0 /\ s.start \in Ram \cup Flash
        /\ s.start \in Ram <=> InRam(s)
        /\ s.start \in Flash <=> InFlash(s)
        /\ ~(s.start \in Ram /\ s.start \in Flash)
        /\ s.start \in Ram => \A k \in 1 .. d : s.start + k - 1 \in Ram
        /\ s.start \in Flash => \A k \in 1 .. d : s.start + k - 1 \in Flash
    BY <1>3, <1>4, Segments DEF Headers
  <1>6. DOMAIN ram = Ram /\ DOMAIN fbuf = Flash /\ ROMBASE \in Nat /\ ROMLEN \in Nat
    BY <1>2, MapAssumption DEF LoaderTypes
  <1>7. Headers' = Headers
    BY <1>1 DEF Headers
  <1>8. /\ DOMAIN ram' = Ram /\ DOMAIN fbuf' = Flash
        /\ startaddr' = ROMBASE /\ codelen' \in 0 .. ROMLEN /\ codelen' >= codelen
        /\ codelen' # 0 => \E i \in Real(Headers) : Headers[i].start \in Flash
        /\ \A i \in Real(Headers) : i < sec => Collected(Headers[i])'
        /\ Collected(s)'
    <2>1. CASE InRam(s)
      <3>1. ram' = Put(ram, s.start, byteswapbuf(s.data)) /\ UNCHANGED <<fbuf, startaddr, codelen>>
        BY <1>4, <2>1 DEF LoadSection
      <3>2. DOMAIN ram' = Ram
        BY <1>6, <3>1 DEF Put
      <3>3. /\ Len(byteswapbuf(s.data)) = d
            /\ \A i \in 1 .. d : byteswapbuf(s.data)[i][1] = s.data[i][1]
        BY <1>5, SwapLength
      <3>4. Holds(ram', s.start, byteswapbuf(s.data))
        <4>1. \A i \in 1 .. Len(byteswapbuf(s.data)) : s.start + i - 1 \in DOMAIN ram
          BY <1>5, <1>6, <2>1, <3>3
        <4>2. s.start \in Int /\ Len(byteswapbuf(s.data)) \in Nat
          BY <1>5, <3>3
        <4> QED
          BY <3>1, <4>1, <4>2, PutWhole
      <3>5. HoldsAll(ram', s.start, s.data)
        BY <3>3, <3>4 DEF Holds, HoldsAll
      <3>6. Collected(s)'
        BY <1>1, <1>5, <2>1, <3>5 DEF Collected, Headers
      <3>7. ASSUME NEW i \in Real(Headers), i < sec
            PROVE  Collected(Headers[i])'
        <4> DEFINE u == Headers[i]
        <4>0. i # n
          BY <1>3, <1>4, <3>7
        <4>1. Collected(u)
          BY <1>3, <3>7
        <4>2. Agree(ram, ram', u.start, u.data)
          <5>1. Agree(ram, Put(ram, Headers[n].start, byteswapbuf(s.data)), Headers[i].start,
                   Headers[i].data)
            BY <1>3, <1>4, <3>3, <3>7, <4>0, PutSegment
          <5> QED
            BY <3>1, <5>1
        <4>2a. u.start \in Ram => \A k \in 1 .. Len(u.data) : u.start + k - 1 \in DOMAIN ram
          BY <1>3, <1>6, <3>7, Segments DEF Headers
        <4> HIDE DEF u
        <4>3. u.start \in Ram => HoldsAll(ram', u.start, u.data)
          BY <4>1, <4>2, <4>2a DEF Agree, Collected, HoldsAll
        <4>4. u.start \in Flash => Holds(fbuf', u.start, u.data)
                 /\ u.start + Len(u.data) <= ROMBASE + codelen'
          BY <3>1, <4>1 DEF Collected
        <4> QED
          BY <1>7, <4>3, <4>4 DEF Collected, u
      <3> QED
        BY <1>3, <1>6, <3>1, <3>2, <3>6, <3>7
    <2>2. CASE ~InRam(s)
      <3>1. s.start \in Flash /\ InFlash(s) /\ s.start >= ROMBASE /\ s.start + d <= ROMBASE + ROMLEN
        <4>1. s.start \in Flash /\ InFlash(s)
          BY <1>5, <2>2
        <4> QED
          BY <4>1 DEF InFlash, Within
      <3>2. /\ fbuf' = Put(fbuf, s.start, s.data) /\ ram' = ram
            /\ startaddr' = IF s.start < startaddr THEN s.start ELSE startaddr
            /\ LET len == IF s.start < startaddr THEN codelen + startaddr - s.start ELSE codelen
               IN  codelen' = IF s.start + d > startaddr' + len THEN s.start + d - startaddr' ELSE len
        BY <1>4, <2>2 DEF LoadSection
      <3>3. /\ startaddr' = ROMBASE
            /\ codelen' = IF s.start + d > ROMBASE + codelen THEN s.start + d - ROMBASE ELSE codelen
        <4>1. ~(s.start < startaddr)
          BY <1>3, <1>5, <1>6, <3>1
        <4> QED
          BY <1>3, <3>2, <4>1
      <3>4. codelen' \in 0 .. ROMLEN /\ codelen' >= codelen /\ s.start + d <= ROMBASE + codelen'
        <4> DEFINE e == s.start + d
        <4>1. e \in Nat /\ e >= ROMBASE /\ e <= ROMBASE + ROMLEN /\ codelen \in 0 .. ROMLEN
              /\ codelen' = IF e > ROMBASE + codelen THEN e - ROMBASE ELSE codelen
          <5>1. e \in Nat /\ e >= ROMBASE
            <6> DEFINE b == s.start
            <6>1. b \in Nat /\ d \in Nat /\ b >= ROMBASE /\ ROMBASE \in Nat
              BY <1>5, <1>6, <3>1
            <6> HIDE DEF b, d
            <6>2. b + d \in Nat /\ b + d >= ROMBASE
              BY ONLY <6>1
            <6> QED
              BY <6>2 DEF b
          <5>2. e <= ROMBASE + ROMLEN
            BY <3>1
          <5>3. codelen' = IF e > ROMBASE + codelen THEN e - ROMBASE ELSE codelen
            <6> DEFINE b == s.start
            <6>1. b \in Nat /\ d \in Nat
                  /\ codelen' = IF b + d > ROMBASE + codelen THEN b + (d - ROMBASE) ELSE codelen
              BY <1>5, <3>3
            <6> HIDE DEF b, d
            <6>2. (b + d) - ROMBASE = b + (d - ROMBASE)
              BY <1>6, <6>1
            <6>3. codelen' = IF b + d > ROMBASE + codelen THEN (b + d) - ROMBASE ELSE codelen
              BY <6>1, <6>2
            <6> QED
              BY <6>3 DEF b
          <5> HIDE DEF e
          <5> QED
            BY <1>3, <5>1, <5>2, <5>3
        <4> HIDE DEF e
        <4>2. codelen' \in 0 .. ROMLEN /\ codelen' >= codelen /\ e <= ROMBASE + codelen'
          BY <1>6, <4>1
        <4> QED
          BY <4>2 DEF e
      <3>5. DOMAIN fbuf' = Flash
        BY <1>6, <3>2 DEF Put
      <3>6. Holds(fbuf', s.start, s.data)
        <4>1. \A i \in 1 .. d : s.start + i - 1 \in DOMAIN fbuf
          BY <1>5, <1>6, <3>1
        <4>2. s.start \in Int /\ d \in Nat
          BY <1>5
        <4> QED
          BY <3>2, <4>1, <4>2, PutWhole
      <3>7. Collected(s)'
        BY <1>1, <1>5, <2>2, <3>4, <3>6 DEF Collected, Headers
      <3>8. ASSUME NEW i \in Real(Headers), i < sec
            PROVE  Collected(Headers[i])'
        <4> DEFINE u == Headers[i]
        <4>0. i # n
          BY <1>3, <1>4, <3>8
        <4>1. Collected(u)
          BY <1>3, <3>8
        <4>2. Agree(fbuf, fbuf', u.start, u.data)
          <5>1. Agree(fbuf, Put(fbuf, Headers[n].start, s.data), Headers[i].start, Headers[i].data)
            BY <1>3, <1>4, <3>8, <4>0, PutSegment
          <5> QED
            BY <3>2, <5>1
        <4>2a. /\ u.start \in Nat /\ Len(u.data) \in Nat
               /\ u.start \in Flash => \A k \in 1 .. Len(u.data) : u.start + k - 1 \in DOMAIN fbuf
          BY <1>3, <1>6, <3>8, Segments DEF Headers
        <4> HIDE DEF u
        <4>3. u.start \in Flash => Holds(fbuf', u.start, u.data)
          BY <4>1, <4>2, <4>2a DEF Agree, Collected, Holds
        <4>4. u.start \in Flash => u.start + Len(u.data) <= ROMBASE + codelen'
          <5> DEFINE e == u.start + Len(u.data)
          <5>1. e \in Nat /\ (u.start \in Flash => e <= ROMBASE + codelen)
            BY <4>1, <4>2a DEF Collected
          <5>2. codelen \in Nat /\ codelen' \in Nat /\ codelen' >= codelen /\ ROMBASE \in Nat
            BY <1>3, <1>6, <3>4
          <5> HIDE DEF e
          <5>3. e <= ROMBASE + codelen => e <= ROMBASE + codelen'
            BY <5>1, <5>2, Longer
          <5> QED
            BY <5>1, <5>3 DEF e
        <4>5. u.start \in Ram => HoldsAll(ram', u.start, u.data)
          BY <3>2, <4>1 DEF Collected
        <4> QED
          BY <1>7, <4>3, <4>4, <4>5 DEF Collected, u
      <3> QED
        BY <1>4, <1>6, <3>1, <3>2, <3>3, <3>4, <3>5, <3>7, <3>8
    <2> QED
      BY <2>1, <2>2
  <1>9. \A i \in Real(Headers) : i < sec' => Collected(Headers[i])'
    BY <1>1, <1>3, <1>4, <1>8
  <1>10. Loading'
    <2>1. lpc' = "load" /\ cpu' = "reset" /\ prog' \in DOMAIN Programs /\ loads' # 0
      BY <1>1, <1>3
    <2>2. secpp' = elfread(Headers') /\ sec' \in Nat /\ sec' >= 1
      BY <1>1, <1>3, <1>7
    <2>3. \A i \in Real(Headers') : i < sec' => Collected(Headers[i])'
      BY <1>7, <1>9
    <2>4. \A i \in Real(Headers') : Headers'[i].start \in Ram \cup Flash
      BY <1>3, <1>7
    <2>5. codelen' # 0 => \E i \in Real(Headers') : Headers'[i].start \in Flash
      BY <1>7, <1>8
    <2> QED
      BY <1>8, <2>1, <2>2, <2>3, <2>4, <2>5 DEF Loading
  <1>11. LoaderTypes'
    BY <1>1, <1>2, <1>8 DEF LoaderTypes
  <1>12. inrom' # 0 => FlashHolds(inrom)'
    BY <1>1, FlashStays
  <1> QED
    BY <1>1, <1>3, <1>10, <1>11, <1>12 DEF LoaderInv

LEMMA WriteStep ==
  ASSUME ProgramsLinked, LoaderInv, WriteFlash
  PROVE  LoaderInv'
  <1>1. PICK n \in 0 .. codelen :
          /\ rom' = [a \in Flash |-> IF a >= startaddr /\ a < startaddr + n THEN fbuf[a] ELSE rom[a]]
          /\ lpc' = IF n = codelen THEN "start" ELSE "none"
          /\ inrom' = IF codelen = 0 THEN inrom ELSE IF n = codelen THEN prog ELSE 0
    BY DEF WriteFlash
  <1>2. /\ lpc = "load" /\ sec > Len(secpp)
        /\ UNCHANGED <<ram, cpu, prog, secpp, sec, fbuf, startaddr, codelen, loads>>
    BY DEF WriteFlash
  <1>3. Loading /\ LoaderTypes
    BY <1>2 DEF LoaderInv
  <1>4. /\ cpu = "reset" /\ prog \in DOMAIN Programs /\ secpp = elfread(Headers)
        /\ sec \in Nat /\ sec >= 1
        /\ loads # 0
        /\ \A i \in Real(Headers) : Headers[i].start \in Ram \cup Flash
        /\ startaddr = ROMBASE /\ codelen \in 0 .. ROMLEN
        /\ \A i \in Real(Headers) : i < sec => Collected(Headers[i])
        /\ codelen # 0 => \E i \in Real(Headers) : Headers[i].start \in Flash
    BY <1>2, <1>3 DEF Loading
  <1>5. ASSUME NEW i \in Real(Headers)
        PROVE  i < sec /\ Collected(Headers[i])
    <2>1. i \in Nat /\ i <= Len(secpp) /\ Len(secpp) \in Nat
      BY <1>4, Sections DEF Headers
    <2>2. i < sec
      BY <1>2, <1>4, <2>1
    <2> QED
      BY <1>4, <2>2
  <1>6. Headers' = Headers
    BY <1>2 DEF Headers
  <1>7. LoaderTypes'
    BY <1>1, <1>2, <1>3, <1>4 DEF LoaderTypes
  <1>8. CASE n = codelen
    <2>1. ASSUME NEW i \in Real(Headers)
          PROVE  InPlace(Headers[i])'
      <3> DEFINE s == Headers[i]
      <3>1. /\ s.start \in Nat /\ Len(s.data) \in Nat
            /\ s.start \in Flash => \A k \in 1 .. Len(s.data) : s.start + k - 1 \in Flash
        BY <1>4, <2>1, Segments DEF Headers
      <3>2. Collected(s)
        BY <1>5, <2>1
      <3> HIDE DEF s
      <3>3. ASSUME s.start \in Flash
            PROVE  Holds(rom', s.start, s.data)
        <4>1. s.start + Len(s.data) <= ROMBASE + codelen /\ Holds(fbuf, s.start, s.data)
          BY <3>2, <3>3 DEF Collected
        <4>2. ASSUME NEW k \in 1 .. Len(s.data)
              PROVE  rom'[s.start + k - 1] = s.data[k]
          <5> DEFINE a == s.start + k - 1
          <5>1. a \in Flash /\ fbuf[a] = s.data[k]
            BY <3>1, <3>3, <4>1, <4>2 DEF Holds
          <5>2. a >= ROMBASE /\ a < ROMBASE + codelen
            <6> DEFINE b == s.start
                       l == Len(s.data)
            <6>1. b \in Nat /\ l \in Nat /\ k \in 1 .. l /\ b + l <= ROMBASE + codelen /\ b >= ROMBASE
              BY <3>1, <3>3, <4>1, <4>2, MapAssumption DEF Flash
            <6>2. ROMBASE \in Nat /\ codelen \in 0 .. ROMLEN /\ ROMLEN \in Nat
              BY <1>4, MapAssumption
            <6> HIDE DEF b, l
            <6>3. b + k - 1 >= ROMBASE /\ b + k - 1 < ROMBASE + codelen
              BY ONLY <6>1, <6>2
            <6> QED
              BY <6>3 DEF b
          <5> HIDE DEF a
          <5>3. rom'[a] = fbuf[a]
            BY <1>1, <1>4, <1>8, <5>1, <5>2
          <5> QED
            BY <5>1, <5>3 DEF a
        <4> QED
          BY <4>2 DEF Holds
      <3>4. s.start \in Ram => HoldsAll(ram', s.start, s.data)
        BY <1>2, <3>2 DEF Collected
      <3> QED
        BY <1>6, <3>3, <3>4 DEF InPlace, s
    <2>2. ASSUME NEW i \in Real(Headers)
          PROVE  Collected(Headers[i])'
      BY <1>2, <1>5, <1>6, <2>2 DEF Collected
    <2>3. lpc' = "start"
      BY <1>1, <1>8
    <2>4. Loading'
      BY <1>2, <1>4, <1>6, <2>1, <2>2, <2>3 DEF Loading
    <2>5. inrom' # 0 => FlashHolds(inrom)'
      <3>1. CASE codelen = 0
        <4>1. inrom' = inrom
          BY <1>1, <3>1
        <4>2. \A a \in Flash : rom'[a] = rom[a]
          <5>1. \A a \in Flash : ~(a >= startaddr /\ a < startaddr + n)
            <6>1. n = 0 /\ startaddr \in Nat /\ \A a \in Flash : a \in Int
              BY <1>4, <3>1, MapAssumption DEF Flash
            <6> QED
              BY <6>1
          <5> QED
            BY <1>1, <5>1
        <4> QED
          BY <4>1, <4>2, FlashStays
      <3>2. CASE codelen # 0
        <4>1. inrom' = prog
          BY <1>1, <1>8, <3>2
        <4>2. \A i \in Real(Headers) : Headers[i].start \in Flash
                 => Holds(rom', Headers[i].start, Headers[i].data)
          BY <1>6, <2>1 DEF InPlace
        <4>3. \E i \in Real(Headers) : Headers[i].start \in Flash
          BY <1>4, <3>2
        <4> QED
          BY <4>1, <4>2, <4>3 DEF FlashHolds, Headers
      <3> QED
        BY <3>1, <3>2
    <2> QED
      BY <1>2, <1>4, <1>7, <2>4, <2>5 DEF LoaderInv
  <1>9. CASE n # codelen
    <2>1. codelen # 0 /\ lpc' = "none" /\ inrom' = 0
      BY <1>1, <1>4, <1>9
    <2> QED
      BY <1>2, <1>4, <1>7, <2>1 DEF LoaderInv
  <1> QED
    BY <1>8, <1>9

\* loadelf() loads into the memories directly.
LEMMA SimStep ==
  ASSUME ProgramsLinked, LoaderInv, load
  PROVE  LoaderInv'
  <1> PICK n : n = sec
    OBVIOUS
  <1> DEFINE s == Headers[n]
             d == Len(s.data)
  <1>1. /\ lpc = "sim" /\ sec <= Len(secpp) /\ sec' = sec + 1
        /\ UNCHANGED <<cpu, prog, inrom, lpc, secpp, fbuf, startaddr, codelen, loads>>
    BY DEF load
  <1>2. Loading /\ LoaderTypes
    BY <1>1 DEF LoaderInv
  <1>3. /\ cpu = "reset" /\ prog \in DOMAIN Programs /\ secpp = elfread(Headers)
        /\ sec \in Nat /\ sec >= 1
        /\ loads # 0 /\ inrom = 0
        /\ \A i \in Real(Headers) : i < sec => InPlace(Headers[i])
    BY <1>1, <1>2 DEF Loading
  <1>4. n = sec /\ n \in Real(Headers) /\ secpp[n] = s /\ \A i \in Real(Headers) : i \in Nat
    <2>1. n \in 1 .. Len(secpp) /\ secpp = elfread(Programs[prog].phdrs)
      BY <1>1, <1>3, Sections DEF Headers
    <2> QED
      BY <1>3, <2>1, Sections DEF Headers
  <1>5. /\ s.start \in Nat /\ d \in Nat /\ d > 0
        /\ s.start \in Ram => s.start = BKRAMBASE
        /\ s.start \in Ram => \A k \in 1 .. d : s.start + k - 1 \in Ram
        /\ s.start \in Flash => \A k \in 1 .. d : s.start + k - 1 \in Flash
    BY <1>3, <1>4, Segments DEF Headers
  <1>6. DOMAIN ram = Ram /\ DOMAIN rom = Flash /\ BKRAMBASE \in Nat
    BY <1>2, MapAssumption DEF LoaderTypes
  <1>7. Headers' = Headers
    BY <1>1 DEF Headers
  <1>8. /\ rom' = IF s.start \in Flash THEN Put(rom, s.start, s.data) ELSE rom
        /\ ram' = IF s.start \in Ram THEN Put(ram, s.start, byteswapbuf(s.data)) ELSE ram
    <2>1. s.start \in Ram => BKRAMBASE + 4 * (s.start - BKRAMBASE) = s.start
      BY <1>5, <1>6
    <2> QED
      BY <1>4, <2>1 DEF load, byteswapbuf_sim
  <1>9. /\ Len(byteswapbuf(s.data)) = d
        /\ \A i \in 1 .. d : byteswapbuf(s.data)[i][1] = s.data[i][1]
    BY <1>5, SwapLength
  <1>10. DOMAIN ram' = Ram /\ DOMAIN rom' = Flash
    BY <1>6, <1>8 DEF Put
  <1>11. InPlace(s)'
    <2>1. ASSUME s.start \in Ram
          PROVE  HoldsAll(ram', s.start, s.data)
      <3>1. \A i \in 1 .. Len(byteswapbuf(s.data)) : s.start + i - 1 \in DOMAIN ram
        BY <1>5, <1>6, <1>9, <2>1
      <3>2. s.start \in Int /\ Len(byteswapbuf(s.data)) \in Nat
        BY <1>5, <1>9
      <3>3. Holds(ram', s.start, byteswapbuf(s.data))
        BY <1>8, <2>1, <3>1, <3>2, PutWhole
      <3> QED
        BY <1>9, <3>3 DEF Holds, HoldsAll
    <2>2. ASSUME s.start \in Flash
          PROVE  Holds(rom', s.start, s.data)
      <3>1. \A i \in 1 .. d : s.start + i - 1 \in DOMAIN rom
        BY <1>5, <1>6, <2>2
      <3>2. s.start \in Int /\ d \in Nat
        BY <1>5
      <3> QED
        BY <1>8, <2>2, <3>1, <3>2, PutWhole
    <2> QED
      BY <1>7, <2>1, <2>2 DEF InPlace
  <1>12. ASSUME NEW i \in Real(Headers), i < sec
         PROVE  InPlace(Headers[i])'
    <2> DEFINE u == Headers[i]
    <2>1. i # n
      BY <1>3, <1>4, <1>12
    <2>2. InPlace(u)
      BY <1>3, <1>12
    <2>3. /\ u.start \in Ram => \A k \in 1 .. Len(u.data) : u.start + k - 1 \in DOMAIN ram
          /\ u.start \in Flash => \A k \in 1 .. Len(u.data) : u.start + k - 1 \in DOMAIN rom
      BY <1>3, <1>6, <1>12, Segments DEF Headers
    <2>4. Agree(ram, Put(ram, Headers[n].start, byteswapbuf(s.data)), Headers[i].start, Headers[i].data)
      BY <1>3, <1>4, <1>9, <1>12, <2>1, PutSegment
    <2>5. Agree(rom, Put(rom, Headers[n].start, s.data), Headers[i].start, Headers[i].data)
      BY <1>3, <1>4, <1>12, <2>1, PutSegment
    <2>6. Agree(ram, ram', u.start, u.data) /\ Agree(rom, rom', u.start, u.data)
      <3>1. Agree(ram, ram, u.start, u.data) /\ Agree(rom, rom, u.start, u.data)
        BY DEF Agree
      <3> QED
        BY <1>8, <2>4, <2>5, <3>1
    <2> HIDE DEF u
    <2>7. u.start \in Ram => HoldsAll(ram', u.start, u.data)
      BY <2>2, <2>3, <2>6 DEF Agree, InPlace, HoldsAll
    <2>8. u.start \in Flash => Holds(rom', u.start, u.data)
      BY <2>2, <2>3, <2>6 DEF Agree, InPlace, Holds
    <2> QED
      BY <1>7, <2>7, <2>8 DEF InPlace, u
  <1>13. \A i \in Real(Headers) : i < sec' => InPlace(Headers[i])'
    BY <1>1, <1>3, <1>4, <1>11, <1>12
  <1>14. Loading'
    BY <1>1, <1>3, <1>7, <1>13 DEF Loading
  <1>15. LoaderTypes'
    BY <1>1, <1>2, <1>10 DEF LoaderTypes
  <1> QED
    BY <1>1, <1>3, <1>14, <1>15 DEF LoaderInv

LEMMA LoadelfStep ==
  ASSUME ProgramsLinked, LoaderInv, NEW p \in DOMAIN Programs, loadelf(p)
  PROVE  LoaderInv'
  <1>1. /\ loads = 0 /\ loads' = MaxLoads /\ prog' = p /\ secpp' = elfread(Programs[p].phdrs)
        /\ sec' = 1 /\ lpc' = "sim"
        /\ UNCHANGED <<ram, rom, cpu, inrom, fbuf, startaddr, codelen>>
    BY DEF loadelf, elfread_sim, board
  <1>2. inrom = 0 /\ cpu = "reset" /\ LoaderTypes
    BY <1>1 DEF LoaderInv
  <1>3. MaxLoads \in Nat /\ MaxLoads # 0
    BY MapAssumption
  <1>4. Headers' = Programs[p].phdrs
    BY <1>1 DEF Headers
  <1>5. \A i \in Real(Headers') : ~(i < 1)
    BY <1>4, Sections
  <1>6. Loading'
    <2>1. /\ lpc' = "sim" /\ cpu' = "reset" /\ prog' \in DOMAIN Programs /\ loads' # 0 /\ inrom' = 0
          /\ secpp' = elfread(Headers') /\ sec' = 1
      BY <1>1, <1>2, <1>3, <1>4
    <2>2. \A i \in Real(Headers') : i < sec' => InPlace(Headers[i])'
      BY <1>5, <2>1
    <2> QED
      BY <2>1, <2>2 DEF Loading
  <1>7. LoaderTypes'
    BY <1>1, <1>2, <1>3 DEF LoaderTypes
  <1> QED
    BY <1>1, <1>2, <1>3, <1>6, <1>7 DEF LoaderInv

\* All is loaded when the clock starts.
LEMMA SimStartStep ==
  ASSUME ProgramsLinked, LoaderInv, SimStart
  PROVE  LoaderInv' /\ \A i \in Real(Headers) : InPlace(Headers[i])
  <1>1. /\ lpc = "sim" /\ sec > Len(secpp) /\ lpc' = "none" /\ cpu' = "boot"
        /\ inrom' = IF \E i \in 1 .. Len(secpp) : secpp[i].start = RESET_ADDRESS THEN prog ELSE 0
        /\ UNCHANGED <<ram, rom, prog, secpp, sec, fbuf, startaddr, codelen, loads>>
    BY DEF SimStart
  <1>2. Loading /\ LoaderTypes
    BY <1>1 DEF LoaderInv
  <1>3. /\ prog \in DOMAIN Programs /\ secpp = elfread(Headers) /\ sec \in Nat /\ loads # 0
        /\ \A i \in Real(Headers) : i < sec => InPlace(Headers[i])
    BY <1>1, <1>2 DEF Loading
  <1>4. ASSUME NEW i \in Real(Headers)
        PROVE  InPlace(Headers[i])
    <2>1. i \in Nat /\ i <= Len(secpp) /\ Len(secpp) \in Nat
      BY <1>3, Sections DEF Headers
    <2>2. i < sec
      BY <1>1, <1>3, <2>1
    <2> QED
      BY <1>3, <2>2
  <1>5. LoaderTypes'
    <2>1. inrom' \in DOMAIN Programs \cup {0}
      BY <1>1, <1>3
    <2> QED
      BY <1>1, <1>2, <2>1 DEF LoaderTypes
  <1>6. ASSUME inrom' # 0
        PROVE  FlashHolds(inrom)'
    <2>1. PICK i \in 1 .. Len(secpp) : secpp[i].start = RESET_ADDRESS
      BY <1>1, <1>6
    <2>2. inrom' = prog
      BY <1>1, <1>6
    <2>3. i \in Real(Headers) /\ Headers[i].start = ROMBASE
      BY <1>3, <2>1, Sections DEF Headers, RESET_ADDRESS
    <2>4. ROMBASE \in Flash
      <3>1. ROMBASE \in Nat /\ ROMLEN \in Nat /\ ROMLEN # 0
        BY MapAssumption
      <3> QED
        BY ONLY <3>1 DEF Flash
    <2>5. \A k \in Real(Headers) : Headers[k].start \in Flash
             => Holds(rom', Headers[k].start, Headers[k].data)
      BY <1>1, <1>4 DEF InPlace
    <2> QED
      BY <2>2, <2>3, <2>4, <2>5 DEF FlashHolds, Headers
  <1> QED
    BY <1>1, <1>3, <1>4, <1>5, <1>6 DEF LoaderInv

\* Steps that end the tool, or are the processor's own, load nothing.
LEMMA OtherSteps ==
  ASSUME ProgramsLinked, LoaderInv,
         ElfRefused \/ StartCpu \/ BusErr \/ Start \/ Runs \/ Reset \/ UNCHANGED loadervars
  PROVE  LoaderInv'
  <1>1. rom' = rom /\ inrom' = inrom /\ fbuf' = fbuf /\ DOMAIN ram' = Ram
    BY DEF LoaderInv, LoaderTypes, ElfRefused, StartCpu, BusErr, Start, Runs, Reset, loadervars,
           board, tool, _bootloader
  <1>2. inrom' # 0 => FlashHolds(inrom)'
    BY <1>1, FlashStays
  <1>3. CASE ElfRefused
    <2>1. lpc' = "none" /\ cpu' = "reset" /\ loads < MaxLoads /\ loads' = loads + 1 /\ loads \in Nat
      BY <1>3 DEF LoaderInv, LoaderTypes, ElfRefused, tool
    <2>2. loads' \in Nat /\ loads' # 0
      BY ONLY <2>1
    <2> QED
      BY <1>1, <1>2, <2>1, <2>2 DEF LoaderInv, LoaderTypes
  <1>4. CASE StartCpu \/ BusErr
    <2>1. /\ lpc # "none" /\ lpc' = "none" /\ loads' = loads
      BY <1>4 DEF StartCpu, BusErr
    <2>2. loads # 0
      BY <2>1 DEF LoaderInv, Loading
    <2> QED
      BY <1>1, <1>2, <2>1, <2>2 DEF LoaderInv, LoaderTypes
  <1>5. CASE Start \/ Runs \/ Reset
    <2>1. cpu # "reset" /\ lpc' = lpc /\ loads' = loads
      BY <1>5 DEF Start, Runs, Reset, tool
    <2>2. lpc = "none" /\ loads # 0
      BY <2>1 DEF LoaderInv, Loading
    <2> QED
      BY <1>1, <1>2, <2>1, <2>2 DEF LoaderInv, LoaderTypes
  <1>6. CASE UNCHANGED loadervars
    BY <1>6 DEF loadervars, board, tool, LoaderInv, LoaderTypes, Loading, Headers, InPlace,
       Collected, FlashHolds
  <1> QED
    BY <1>3, <1>4, <1>5, <1>6

LEMMA LoaderStep ==
  ASSUME ProgramsLinked, LoaderInv, [LoaderNext]_loadervars
  PROVE  LoaderInv'
  BY HaltStep, CheckStep, LoadStep, WriteStep, LoadelfStep, SimStep, SimStartStep,
     OtherSteps DEF LoaderNext

\* Only the end of a loader lets the processor out of its reset.
LEMMA LeavesReset ==
  ASSUME ProgramsLinked, LoaderInv, [LoaderNext]_loadervars, cpu = "reset", cpu' = "boot"
  PROVE  /\ complete'
         /\ \A i \in 1 .. Len(Programs[prog'].phdrs) :
              LET h == Programs[prog'].phdrs[i]
              IN  /\ h.start \in Ram => HoldsAll(ram', h.start, h.data)
                  /\ h.start \in Flash => Holds(rom', h.start, h.data)
  <1>1. StartCpu \/ SimStart
    BY DEF LoaderNext, loadervars, board, Halt, loadelf, ElfRefused, CheckSections, LoadSection,
           WriteFlash, BusErr, load, Start, Runs, Reset
  <1>2. complete' /\ prog' = prog /\ ram' = ram /\ rom' = rom
    BY <1>1 DEF StartCpu, SimStart
  <1>3. \A i \in Real(Headers) : InPlace(Headers[i])
    <2>1. CASE StartCpu
      BY <2>1 DEF StartCpu, LoaderInv, Loading
    <2>2. CASE SimStart
      BY <2>2, SimStartStep
    <2> QED
      BY <1>1, <2>1, <2>2
  <1>4. ASSUME NEW i \in 1 .. Len(Headers)
        PROVE  /\ Headers[i].start \in Ram => HoldsAll(ram, Headers[i].start, Headers[i].data)
               /\ Headers[i].start \in Flash => Holds(rom, Headers[i].start, Headers[i].data)
    <2>1. CASE i \in Real(Headers)
      BY <1>3, <2>1 DEF InPlace
    <2>2. CASE i \notin Real(Headers)
      <3>1. Headers[i].data = <<>> /\ Len(<<>>) = 0
        BY <2>2 DEF Real
      <3>2. 1 .. Len(Headers[i].data) = {}
        BY <3>1
      <3> QED
        BY <3>2 DEF Holds, HoldsAll
    <2> QED
      BY <2>1, <2>2
  <1> QED
    BY <1>2, <1>4 DEF Headers

\* What the boot loader leaves in RAM.
LEMMA BootStep ==
  ASSUME ProgramsLinked, LoaderInv, [LoaderNext]_loadervars, cpu = "boot", cpu' = "main"
  PROVE  /\ Holds(ram', BKRAMBASE, Sym.data)
         /\ \A a \in Sym.ram_image_end .. Sym.bss_image_end - 1 : ram'[a] = ZeroWord
  <1>1. inrom # 0 /\ ram' = _bootloader
    BY DEF LoaderNext, loadervars, board, Halt, loadelf, ElfRefused, CheckSections, LoadSection,
           WriteFlash, StartCpu, SimStart, BusErr, load, Start, Runs, Reset
  <1>2. inrom \in DOMAIN Programs /\ FlashHolds(inrom) /\ WellLinked(Sym)
    BY <1>1 DEF LoaderInv, LoaderTypes, ProgramsLinked, Sym
  <1> DEFINE n == Len(Sym.data)
             e == Sym.ram_image_end
             z == Sym.bss_image_end
             f == Sym.kram_start
  <1>3. /\ e \in Nat /\ z \in Nat /\ f \in Nat /\ n \in Nat
        /\ e = BKRAMBASE + n /\ e <= z /\ z <= BKRAMBASE + BKRAMLEN
    <2>1. n \in Nat
      <3>1. IsSeq(Sym.data)
        BY <1>2 DEF WellLinked
      <3> QED
        BY <3>1 DEF IsSeq
    <2> QED
      BY <1>2, <2>1 DEF WellLinked
  <1>4. BKRAMBASE \in Nat /\ BKRAMLEN \in Nat
    BY MapAssumption
  <1>5. ram' = [a \in Ram |-> IF a < e THEN Read(f + a - BKRAMBASE) ELSE IF a < z THEN ZeroWord ELSE ram[a]]
    BY <1>1 DEF _bootloader
  <1>6. ASSUME NEW k \in 1 .. n
        PROVE  ram'[BKRAMBASE + k - 1] = Sym.data[k]
    <2>0. PICK i \in Real(Sym.phdrs) : \E j \in 1 .. Len(Sym.phdrs[i].data) :
            /\ Sym.phdrs[i].start \in Flash /\ Sym.phdrs[i].start + j = f + k
            /\ Sym.phdrs[i].data[j] = Sym.data[k]
      BY <1>2, <1>6 DEF WellLinked, FlashHolds, Sym
    <2>1. PICK j \in 1 .. Len(Sym.phdrs[i].data) :
            /\ Sym.phdrs[i].start \in Flash /\ Sym.phdrs[i].start + j = f + k
            /\ Sym.phdrs[i].data[j] = Sym.data[k]
      BY <2>0
    <2> DEFINE s == Sym.phdrs[i]
    <2>2. s.start \in Nat /\ Len(s.data) \in Nat /\ s.start + j - 1 \in Flash
      BY <1>2, <2>1, Segments DEF Sym
    <2>3. rom[s.start + j - 1] = Sym.data[k]
      BY <1>2, <2>1 DEF FlashHolds, Holds, Sym
    <2> HIDE DEF s, n, e, z, f
    <2>4. s.start + j - 1 = f + k - 1 /\ s.start + j = f + k
      <3> DEFINE b == s.start
      <3>1. b \in Nat /\ Len(s.data) \in Nat /\ j \in 1 .. Len(s.data) /\ b + j = f + k
        BY <2>1, <2>2 DEF s
      <3>2. f \in Nat /\ n \in Nat /\ k \in 1 .. n
        BY <1>3, <1>6
      <3> HIDE DEF b
      <3>3. b + (j - 1) = f + (k - 1) /\ b + j = f + k
        BY <3>1, <3>2
      <3> QED
        BY <3>3 DEF b
    <2>5. Read(f + k - 1) = Sym.data[k]
      <3>1. f + k - 1 \notin Ram
        <4> DEFINE a == f + k - 1
        <4>1. a \in Flash
          BY <2>2, <2>4
        <4> HIDE DEF a
        <4>2. a \notin Ram
          BY <4>1, MapAssumption DEF Flash, Ram
        <4> QED
          BY <4>2 DEF a
      <3> QED
        BY <2>3, <2>4, <3>1 DEF Read
    <2> DEFINE a == BKRAMBASE + k - 1
    <2>6. a \in Ram /\ a < e /\ f + a - BKRAMBASE = f + k - 1
      BY <1>3, <1>4, <1>6 DEF Ram
    <2> HIDE DEF a
    <2>7. ram'[a] = Read(f + a - BKRAMBASE)
      BY <1>5, <2>6
    <2> QED
      BY <2>5, <2>6, <2>7 DEF a
  <1>7. ASSUME NEW a \in e .. z - 1
        PROVE  ram'[a] = ZeroWord
    <2> HIDE DEF n, e, z, f
    <2>1. a \in Ram /\ ~(a < e) /\ a < z
      BY <1>3, <1>4, <1>7 DEF Ram
    <2> QED
      BY <1>5, <2>1
  <1> QED
    BY <1>6, <1>7 DEF Holds

\* The processor is only let out of its reset by zipload's or the simulation's last step,
\* and then all segments of the file are in their memories: for every set of programs that
\* is linked by board.ld or bkram.ld, and wherever a bus error or the flash stops a load.
THEOREM NothingHalfLoaded ==
  ASSUME ProgramsLinked
  PROVE  LoaderSpec => NeverHalfLoaded
  <1>1. LoaderInit => LoaderInv
    BY LoaderStarts
  <1>2. LoaderInv /\ [LoaderNext]_loadervars => LoaderInv'
    BY LoaderStep
  <1>3. LoaderInv /\ [LoaderNext]_loadervars =>
          [cpu = "reset" /\ cpu' = "boot" =>
             /\ complete'
             /\ \A i \in 1 .. Len(Programs[prog'].phdrs) :
                  LET h == Programs[prog'].phdrs[i]
                  IN  /\ h.start \in Ram => HoldsAll(ram', h.start, h.data)
                      /\ h.start \in Flash => Holds(rom', h.start, h.data)]_loadervars
    BY LeavesReset
  <1> QED
    BY <1>1, <1>2, <1>3, PTL DEF LoaderSpec, NeverHalfLoaded

\* When main() begins, the RAM holds the program's image and cleared BSS: for every set of
\* programs linked so, after any sequence of loads, runs and resets.
THEOREM BootsRight ==
  ASSUME ProgramsLinked
  PROVE  LoaderSpec => BootedRight
  <1>1. LoaderInit => LoaderInv
    BY LoaderStarts
  <1>2. LoaderInv /\ [LoaderNext]_loadervars => LoaderInv'
    BY LoaderStep
  <1>3. LoaderInv /\ [LoaderNext]_loadervars =>
          [cpu = "boot" /\ cpu' = "main" =>
             /\ Holds(ram', BKRAMBASE, Sym.data)
             /\ \A a \in Sym.ram_image_end .. Sym.bss_image_end - 1 : ram'[a] = ZeroWord]_loadervars
    BY BootStep
  <1> QED
    BY <1>1, <1>2, <1>3, PTL DEF LoaderSpec, BootedRight
=============================================================================
