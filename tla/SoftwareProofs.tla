--------------------------- MODULE SoftwareProofs ---------------------------
(***************************************************************************)
(* Of the programs around the board: wbregs touches no address but one     *)
(* that its argument stands for, for every table of registers, every map   *)
(* and every argument; the C library's console and heap keep what they     *)
(* promise, for FIFOs, strings and heaps of any size; and the simulator    *)
(* passes over no edge of its clocks, for any three periods.               *)
(***************************************************************************)
EXTENDS Wbregs, Console, SimClock, FiniteSetTheorems, WellFoundedInduction, TLAPS

-----------------------------------------------------------------------------
\* The clocks of the simulator.

\* One clock of the simulator: its half period, where it is in its period, and its wire.
ClockOK(inc, pos, wire) ==
  /\ inc \in Int /\ pos \in Int /\ wire \in {0, 1}
  /\ inc >= 4 /\ inc % 2 = 0
  /\ 0 <= pos /\ pos < 2 * inc
  /\ wire = 1 <=> pos < inc

\* The time to its next edge, and where it is, and its wire, after step ps.
ToEdge(inc, pos)        == IF inc > pos THEN inc - pos ELSE 2 * inc - pos
Moved(inc, pos, step)   == IF pos + step >= 2 * inc THEN pos + step - 2 * inc ELSE pos + step
WireAt(inc, pos, step)  == IF pos + step >= inc /\ pos + step < 2 * inc THEN 0 ELSE 1

\* Before the first tick() every clock is one ps past its falling edge; after it all
\* of them are at even times, so that two edges are either together or two ps apart.
SimInv ==
  /\ m_increment_ps \in [Clocks -> Int] /\ at \in [Clocks -> Int] /\ level \in [Clocks -> {0, 1}]
  /\ \A c \in Clocks : ClockOK(m_increment_ps[c], at[c], level[c])
  /\ \A c \in Clocks : IF loop = "reset" THEN at[c] = m_increment_ps[c] + 1 ELSE at[c] % 2 = 0
  /\ mintime > 1 /\ \A c \in Clocks : mintime < 4 * m_increment_ps[c]

\* What a clock does in a step to an edge that is not past its own next one: TBCLOCK's
\* advance() and time_to_edge() of tbclock.h.
LEMMA ClockStep ==
  ASSUME NEW inc \in Int, NEW pos \in Int, NEW wire \in {0, 1}, ClockOK(inc, pos, wire),
         NEW step \in Int, 0 < step, step <= ToEdge(inc, pos)
  PROVE  /\ ClockOK(inc, Moved(inc, pos, step), WireAt(inc, pos, step))
         /\ Moved(inc, pos, step) # pos
         /\ wire = 1 /\ WireAt(inc, pos, step) = 0 <=> Moved(inc, pos, step) = inc
         /\ step < 4 * inc
  <1>1. CASE pos + step >= 2 * inc
    BY <1>1 DEF ClockOK, ToEdge, Moved, WireAt
  <1>2. CASE pos + step < 2 * inc /\ pos + step >= inc
    BY <1>2 DEF ClockOK, ToEdge, Moved, WireAt
  <1>3. CASE pos + step < inc
    BY <1>3 DEF ClockOK, ToEdge, Moved, WireAt
  <1> QED
    BY <1>1, <1>2, <1>3

\* An edge is more than one ps away, and at an even time when the clock is.
LEMMA EdgeTime ==
  ASSUME NEW inc \in Int, NEW pos \in Int, inc >= 4, inc % 2 = 0, 0 <= pos, pos < 2 * inc,
         pos = inc + 1 \/ pos % 2 = 0
  PROVE  ToEdge(inc, pos) > 1 /\ ToEdge(inc, pos) % 2 = pos % 2
  <1>1. CASE pos = inc + 1
    BY <1>1 DEF ToEdge
  <1>2. CASE pos % 2 = 0
    BY <1>2 DEF ToEdge
  <1> QED
    BY <1>1, <1>2

\* So all clocks get to even times.
LEMMA EvenTime ==
  ASSUME NEW pos \in Int, NEW step \in Int, step % 2 = pos % 2, NEW inc \in Int
  PROVE  Moved(inc, pos, step) % 2 = 0
  <1>1. (pos + step) % 2 = 0
    OBVIOUS
  <1>2. (pos + step - 2 * inc) % 2 = 0
    BY <1>1
  <1> QED
    BY <1>1, <1>2 DEF Moved

\* A tick() keeps the invariant's clocks, and is a step EdgesKept allows.
LEMMA TickStep ==
  ASSUME SimInv, NEW r, tick(r), m_increment_ps' = m_increment_ps
  PROVE  /\ at' \in [Clocks -> Int] /\ level' \in [Clocks -> {0, 1}]
         /\ \A c \in Clocks : /\ ClockOK(m_increment_ps[c], at'[c], level'[c])
                              /\ at'[c] % 2 = 0 /\ mintime' < 4 * m_increment_ps[c]
                              /\ level[c] = 1 /\ level'[c] = 0 <=> c \in ticked'
         /\ mintime' > 1 /\ at' # at
  <1>1. PICK d \in Clocks :
          LET step == time_to_edge(d)
          IN  /\ \A c \in Clocks : step <= time_to_edge(c)
              /\ mintime' = step
              /\ at' = [c \in Clocks |-> advance(c, step).at]
              /\ level' = [c \in Clocks |-> advance(c, step).level]
              /\ ticked' = {c \in Clocks : advance(c, step).at = m_increment_ps[c]}
    BY DEF tick
  <1>2. ASSUME NEW c \in Clocks
        PROVE  /\ ClockOK(m_increment_ps[c], at[c], level[c])
               /\ m_increment_ps[c] \in Int /\ at[c] \in Int /\ level[c] \in {0, 1}
               /\ time_to_edge(c) \in Int /\ time_to_edge(c) > 0
    BY <1>2 DEF SimInv, ClockOK, time_to_edge
  <1> DEFINE step == time_to_edge(d)
  <1>3. step \in Int /\ step > 0
    BY <1>2
  <1>4. ASSUME NEW c \in Clocks
        PROVE  /\ ClockOK(m_increment_ps[c], at'[c], level'[c])
               /\ at'[c] % 2 = 0 /\ step < 4 * m_increment_ps[c] /\ step > 1
               /\ level[c] = 1 /\ level'[c] = 0 <=> at'[c] = m_increment_ps[c]
               /\ at'[c] # at[c]
    <2>1. /\ at'[c] = Moved(m_increment_ps[c], at[c], step)
          /\ level'[c] = WireAt(m_increment_ps[c], at[c], step)
      <3>1. at'[c] = advance(c, step).at /\ level'[c] = advance(c, step).level
        BY <1>1, <1>4
      <3> HIDE DEF step
      <3>2. at[c] \in Int /\ m_increment_ps[c] \in Int
        BY <1>2, <1>4
      <3>3. advance(c, step).at = Moved(m_increment_ps[c], at[c], step)
        BY ONLY <1>3, <3>2 DEF advance, Moved
      <3>4. advance(c, step).level = WireAt(m_increment_ps[c], at[c], step)
        BY ONLY <1>3, <3>2 DEF advance, WireAt
      <3> QED
        BY <3>1, <3>3, <3>4
    <2>2. step <= ToEdge(m_increment_ps[c], at[c]) /\ step = ToEdge(m_increment_ps[d], at[d])
      BY <1>1, <1>4, Zenon DEF time_to_edge, ToEdge
    <2>4. \/ at[c] = m_increment_ps[c] + 1 /\ at[d] = m_increment_ps[d] + 1
          \/ at[c] % 2 = 0 /\ at[d] % 2 = 0
      BY <1>4 DEF SimInv
    <2> HIDE DEF step
    <2>5. /\ ClockOK(m_increment_ps[c], at'[c], level'[c]) /\ at'[c] # at[c]
          /\ level[c] = 1 /\ level'[c] = 0 <=> at'[c] = m_increment_ps[c]
          /\ step < 4 * m_increment_ps[c]
      <3>1. /\ ClockOK(m_increment_ps[c], at[c], level[c])
            /\ m_increment_ps[c] \in Int /\ at[c] \in Int /\ level[c] \in {0, 1} /\ 0 < step
        BY <1>2, <1>3, <1>4
      <3> DEFINE now == Moved(m_increment_ps[c], at[c], step)
                 new == WireAt(m_increment_ps[c], at[c], step)
      <3>2. /\ ClockOK(m_increment_ps[c], now, new) /\ now # at[c]
            /\ level[c] = 1 /\ new = 0 <=> now = m_increment_ps[c]
            /\ step < 4 * m_increment_ps[c]
        BY <1>3, <2>2, <3>1, ClockStep
      <3>3. at'[c] = now /\ level'[c] = new
        BY <2>1, Zenon
      <3> HIDE DEF now, new
      <3> QED
        BY <3>2, <3>3, Zenon
    <2>6. step > 1 /\ at'[c] % 2 = 0
      <3>1. /\ m_increment_ps[c] \in Int /\ at[c] \in Int
            /\ m_increment_ps[c] >= 4 /\ m_increment_ps[c] % 2 = 0
            /\ m_increment_ps[d] \in Int /\ at[d] \in Int /\ 0 <= at[d] /\ at[d] < 2 * m_increment_ps[d]
            /\ m_increment_ps[d] >= 4 /\ m_increment_ps[d] % 2 = 0
        BY <1>2, <1>4 DEF ClockOK
      <3>2. /\ at[d] = m_increment_ps[d] + 1 \/ at[d] % 2 = 0
            /\ at[d] % 2 = at[c] % 2
        BY ONLY <2>4, <3>1
      <3>3. step > 1 /\ step % 2 = at[d] % 2
        BY <2>2, <3>1, <3>2, EdgeTime, Zenon
      <3>4. step % 2 = at[c] % 2
        BY <3>2, <3>3, Zenon
      <3>5. Moved(m_increment_ps[c], at[c], step) % 2 = 0
        BY <1>3, <3>1, <3>4, EvenTime, Zenon
      <3> QED
        BY <2>1, <3>3, <3>5
    <2> QED
      BY <2>5, <2>6
  <1>5. DOMAIN at' = Clocks /\ DOMAIN level' = Clocks /\ "clk" \in Clocks
    BY <1>1 DEF Clocks
  <1>6. at' \in [Clocks -> Int] /\ level' \in [Clocks -> {0, 1}]
    BY <1>1, <1>4, <1>5 DEF ClockOK
  <1>7. \A c \in Clocks : c \in ticked' <=> at'[c] = m_increment_ps[c]
    BY <1>1
  <1>8. mintime' = step
    BY <1>1
  <1>9. at' # at
    BY <1>4, <1>5
  <1> HIDE DEF step
  <1> QED
    BY <1>4, <1>5, <1>6, <1>7, <1>8, <1>9

\* One step of the simulation's main loop.
LEMMA SimStep ==
  ASSUME SimInv, [SimNext]_simvars
  PROVE  /\ SimInv'
         /\ simvars' = simvars \/
            (/\ mintime' > 1 /\ \A c \in Clocks : mintime' < 4 * m_increment_ps[c]
             /\ \A c \in Clocks : level[c] = 1 /\ level'[c] = 0 <=> c \in ticked' /\ at' # at)
  <1>1. ASSUME NEW r, tick(r), m_increment_ps' = m_increment_ps, loop' # "reset"
        PROVE  /\ SimInv'
               /\ mintime' > 1 /\ \A c \in Clocks : mintime' < 4 * m_increment_ps[c]
               /\ \A c \in Clocks : level[c] = 1 /\ level'[c] = 0 <=> c \in ticked' /\ at' # at
    <2>1. /\ at' \in [Clocks -> Int] /\ level' \in [Clocks -> {0, 1}]
          /\ \A c \in Clocks : /\ ClockOK(m_increment_ps[c], at'[c], level'[c])
                               /\ at'[c] % 2 = 0 /\ mintime' < 4 * m_increment_ps[c]
                               /\ level[c] = 1 /\ level'[c] = 0 <=> c \in ticked'
          /\ mintime' > 1 /\ at' # at
      BY <1>1, TickStep
    <2> QED
      BY <1>1, <2>1 DEF SimInv
  <1>2. ASSUME UNCHANGED <<m_increment_ps, at, level, mintime>>, loop' # "reset" \/ loop' = loop,
               loop # "reset" \/ loop' = loop
        PROVE  /\ SimInv'
               /\ mintime' > 1 /\ \A c \in Clocks : mintime' < 4 * m_increment_ps[c]
               /\ \A c \in Clocks : level[c] = 1 /\ level'[c] = 0 <=> c \in ticked' /\ at' # at
    <2>1. SimInv'
      BY <1>2 DEF SimInv
    <2>2. \A c \in Clocks : ~ (level[c] = 1 /\ level'[c] = 0)
      BY <1>2
    <2> QED
      BY <1>2, <2>1, <2>2 DEF SimInv
  <1>3. CASE reset
    BY <1>1, <1>3 DEF reset
  <1>4. CASE Core
    BY <1>2, <1>4 DEF Core
  <1>5. CASE main
    <2>1. CASE m_done
      BY <1>2, <1>5, <2>1 DEF main
    <2>2. CASE ~m_done
      BY <1>1, <1>5, <2>2 DEF main
    <2> QED
      BY <2>1, <2>2
  <1>6. CASE UNCHANGED simvars
    BY <1>2, <1>6 DEF simvars
  <1> QED
    BY <1>3, <1>4, <1>5, <1>6 DEF SimNext

\* The clocks as TBCLOCK::init() leaves them.
LEMMA SimStarts ==
  ASSUME SimInit
  PROVE  SimInv
  <1>1. PICK p \in [Clocks -> Intervals] :
          m_increment_ps = [c \in Clocks |-> set_interval_ps(p[c])]
    BY DEF SimInit
  <1>2. ASSUME NEW c \in Clocks
        PROVE  m_increment_ps[c] \in Int /\ m_increment_ps[c] >= 4 /\ m_increment_ps[c] % 2 = 0
    <2>1. p[c] \in Nat /\ p[c] >= 8
      BY <1>2, SimAssumption
    <2>2. m_increment_ps[c] = 2 * (p[c] \div 4)
      BY <1>1, <1>2 DEF set_interval_ps
    <2>3. p[c] \div 4 \in Int /\ p[c] \div 4 >= 2
      BY <2>1
    <2> QED
      BY <2>2, <2>3
  <1>3. m_increment_ps \in [Clocks -> Int]
    BY <1>1, <1>2
  <1> QED
    BY <1>2, <1>3 DEF SimInit, SimInv, ClockOK

\* tick() of testb.h goes to every edge of every clock, by a step that its asserts, and
\* those of advance(), allow, and runs a clock's handler in just the steps in which it falls.
THEOREM NoEdgePassedOver == SimSpec => EdgesKept
  <1>1. SimInit => SimInv
    BY SimStarts
  <1>2. SimInv /\ [SimNext]_simvars => SimInv'
    BY SimStep
  <1>3. SimInv /\ [SimNext]_simvars =>
          [/\ mintime' > 1 /\ \A c \in Clocks : mintime' < 4 * m_increment_ps[c]
           /\ \A c \in Clocks : level[c] = 1 /\ level'[c] = 0 <=> c \in ticked' /\ at' # at]_simvars
    BY SimStep
  <1> QED
    BY <1>1, <1>2, <1>3, PTL DEF SimSpec, EdgesKept

-----------------------------------------------------------------------------
\* wbregs.

\* The loops find the first entry that fits, if any does.
LEMMA FirstFits ==
  ASSUME NEW found, found \subseteq Nat, found # {}
  PROVE  FirstFit(found) \in found
  <1> DEFINE Less == OpToRel(<, Nat)
  <1>1. IsWellFoundedOn(Less, Nat)
    BY NatLessThanWellFounded, Zenon
  <1>2. \A i, j \in Nat : j < i => <<j, i>> \in Less
    BY DEF OpToRel
  <1> HIDE DEF Less
  <1>3. PICK i \in found : \A j \in found : ~(<<j, i>> \in Less)
    BY <1>1, WFMin
  <1>4. ASSUME NEW j \in found PROVE i <= j
    <2>1. i \in Nat /\ j \in Nat
      OBVIOUS
    <2>2. ~(j < i)
      BY <1>2, <1>3, <2>1, Zenon
    <2>3. QED
      BY <2>1, <2>2
  <1>5. QED
    BY <1>4 DEF FirstFit

\* The invariant: what is about to be accessed, and what has been, is meant.
RegInv ==
  /\ argument \in Arguments /\ map_file \in MapFiles \cup {NoMap}
  /\ wpc \in {"start", "exit"} => accessed = {}
  /\ wpc = "named" => accessed = {} /\ Meant(address)
  /\ AddressMeant
  /\ wpc \in {"start", "exit", "named", "done"}

\* What an argument means depends on argument and map alone.
LEMMA MeaningsKept ==
  ASSUME UNCHANGED <<argument, map_file>>
  PROVE  Meanings' = Meanings /\ Mistaken' = Mistaken
  <1>1. argument' = argument /\ map_file' = map_file
    OBVIOUS
  <1>2. Meanings' = Meanings
    BY <1>1, Zenon DEF Meanings, isvalue, strtoul, Usable
  <1>3. Mistaken' = Mistaken
    BY <1>1, Zenon DEF Mistaken, isvalue, strtoul, Usable
  <1>4. QED
    BY <1>2, <1>3

\* A name of the map leads to an address with that name, which getmap_name() then
\* finds a name for; a name that the map does not have leads to 0.
LEMMA MapAddress ==
  ASSUME NEW m \in MapFiles, m # NoMap, NEW v,
         getmap_name(m, getmap_address(m, v)) # NoName
  PROVE  \/ \E i \in DOMAIN m : /\ Usable(m[i]) /\ m[i].nstr = v.text
                                /\ getmap_address(m, v) = strtoul(m[i].astr)
         \/ /\ getmap_address(m, v) = 0
            /\ \E i \in DOMAIN m : Usable(m[i]) /\ strtoul(m[i].astr) = 0
  <1> DEFINE found == {i \in DOMAIN m : Usable(m[i]) /\ m[i].nstr = v.text}
  <1>1. found \subseteq Nat
    BY TablesAssumption
  <1>2. CASE found # {}
    <2>1. FirstFit(found) \in found
      BY <1>1, <1>2, FirstFits
    <2>2. getmap_address(m, v) = strtoul(m[FirstFit(found)].astr)
      BY <1>2 DEF getmap_address
    <2>3. QED
      BY <2>1, <2>2
  <1>3. CASE found = {}
    <2>1. getmap_address(m, v) = 0
      BY <1>3 DEF getmap_address
    <2>2. QED
      BY <2>1 DEF getmap_name
  <1>4. QED
    BY <1>2, <1>3

\* Without a name for the address, the argument is not a name of the map.
LEMMA MapUnknown ==
  ASSUME NEW m \in MapFiles, m # NoMap, NEW v,
         getmap_name(m, getmap_address(m, v)) = NoName
  PROVE  \A i \in DOMAIN m : ~(Usable(m[i]) /\ m[i].nstr = v.text)
  <1> DEFINE found == {i \in DOMAIN m : Usable(m[i]) /\ m[i].nstr = v.text}
             a == getmap_address(m, v)
             named == {i \in DOMAIN m : Usable(m[i]) /\ strtoul(m[i].astr) = a}
  <1>1. named = {}
    <2> SUFFICES ASSUME named # {} PROVE FALSE
      OBVIOUS
    <2>1. named \subseteq Nat
      BY TablesAssumption
    <2>2. FirstFit(named) \in named
      BY <2>1, FirstFits
    <2>3. getmap_name(m, a) = m[FirstFit(named)].nstr
      BY DEF getmap_name
    <2>4. QED
      BY <2>2, <2>3, TablesAssumption DEF NoName
  <1>2. found = {}
    <2> SUFFICES ASSUME found # {} PROVE FALSE
      OBVIOUS
    <2>1. found \subseteq Nat
      BY TablesAssumption
    <2>2. FirstFit(found) \in found
      BY <2>1, FirstFits
    <2>3. a = strtoul(m[FirstFit(found)].astr)
      BY DEF getmap_address
    <2>4. FirstFit(found) \in named
      BY <2>2, <2>3
    <2>5. QED
      BY <2>4, <1>1
  <1>3. QED
    BY <1>2

\* addrdecode() returns the address of a register of that name, or a value.
LEMMA DecodeMeant ==
  ASSUME RegInv, Decoded, UNCHANGED <<argument, map_file>>,
         map_file = NoMap \/ getmap_name(map_file, getmap_address(map_file, argument)) = NoName,
         ~isvalue(argument)
  PROVE  /\ wpc' \in {"exit", "named"}
         /\ wpc' = "named" => Meant(address)'
  <1> DEFINE found == {i \in DOMAIN RegNames : RegNames[i].m_name = argument.text}
  <1>1. CASE Unknown(argument)
    BY <1>1 DEF Decoded
  <1>2. CASE ~Unknown(argument)
    <2>1. wpc' = "named" /\ address' = addrdecode(argument)
      BY <1>2 DEF Decoded, Named
    <2>2. CASE isalpha(argument)
      <3>1. found # {} /\ found \subseteq Nat
        BY <1>2, <2>2, TablesAssumption DEF Unknown
      <3>2. FirstFit(found) \in found
        BY <3>1, FirstFits
      <3>3. address' = RegNames[FirstFit(found)].m_addr
        BY <2>1, <2>2 DEF addrdecode
      <3>4. address' \in {RegNames[i].m_addr : i \in found}
        BY <3>2, <3>3
      <3>5. argument.form \notin {"digit", "letter", "zero"}
        BY <2>2 DEF isalpha
      <3>6. address' \in Meanings
        BY <3>4, <3>5 DEF Meanings
      <3>7. Meanings' = Meanings
        BY MeaningsKept
      <3>8. QED
        BY <2>1, <2>2, <3>6, <3>7 DEF Meant
    <2>3. CASE ~isalpha(argument)
      <3>1. address' = argument.value
        BY <2>1, <2>3 DEF addrdecode, strtoul
      <3>2. CASE argument.form \in {"digit", "letter", "zero"}
        <4>1. address' \in Meanings'
          BY <3>1, <3>2 DEF Meanings
        <4>2. QED
          BY <2>1, <4>1 DEF Meant
      <3>3. CASE argument.form \notin {"digit", "letter", "zero"}
        <4>1. \A i \in DOMAIN RegNames : RegNames[i].m_name # argument.text
          BY <2>3, TablesAssumption DEF RegInv, isalpha
        <4>2. map_file # NoMap
                => \A i \in DOMAIN map_file :
                     ~(Usable(map_file[i]) /\ map_file[i].nstr = argument.text)
          BY MapUnknown DEF RegInv
        <4>3. Meanings = {}
          BY <3>3, <4>1, <4>2 DEF Meanings
        <4>4. Meanings' = {}
          BY <4>3, MeaningsKept
        <4>5. ~isalpha(argument')
          BY <2>3
        <4>6. QED
          BY <2>1, <4>4, <4>5 DEF Meant, isalpha
      <3>4. QED
        BY <3>2, <3>3
    <2>4. QED
      BY <2>2, <2>3
  <1>3. QED
    BY <1>1, <1>2

\* main() leaves an address that is meant, or ends.
LEMMA DecodeKeeps ==
  ASSUME RegInv, Decode
  PROVE  RegInv'
  <1>1. UNCHANGED <<argument, map_file>> /\ accessed = {} /\ accessed' = {}
    BY DEF RegInv, Decode
  <1>2. SUFFICES wpc' \in {"exit", "named"} /\ (wpc' = "named" => Meant(address)')
    BY <1>1 DEF RegInv, AddressMeant
  <1>3. CASE isvalue(argument)
    <2>1. wpc' = "named" /\ address' = argument.value
      BY <1>3 DEF Decode, Named, strtoul
    <2>2. argument'.form = "digit" /\ address' = argument'.value
      BY <1>1, <1>3, <2>1 DEF isvalue
    <2>3. address' \in Meanings'
      BY <2>2 DEF Meanings
    <2>4. QED
      BY <2>1, <2>3 DEF Meant
  <1>4. CASE ~isvalue(argument) /\ map_file = NoMap
    BY <1>1, <1>4, DecodeMeant DEF Decode
  <1>5. CASE ~isvalue(argument) /\ map_file # NoMap
    <2> DEFINE a == getmap_address(map_file, argument)
    <2>1. CASE getmap_name(map_file, a) = NoName
      BY <1>1, <1>5, <2>1, DecodeMeant DEF Decode
    <2>2. CASE getmap_name(map_file, a) # NoName
      <3>1. wpc' = "named" /\ address' = a
        BY <1>5, <2>2 DEF Decode, Named
      <3>2. map_file \in MapFiles
        BY <1>5 DEF RegInv
      <3>3. \/ \E i \in DOMAIN map_file : /\ Usable(map_file[i]) /\ map_file[i].nstr = argument.text
                                           /\ a = strtoul(map_file[i].astr)
            \/ /\ a = 0
               /\ \E i \in DOMAIN map_file : Usable(map_file[i]) /\ strtoul(map_file[i].astr) = 0
        BY <1>5, <2>2, <3>2, MapAddress
      <3>4. a \in Meanings \/ a \in Mistaken
        BY <1>5, <3>3 DEF Meanings, Mistaken
      <3>5. Meanings' = Meanings /\ Mistaken' = Mistaken
        BY <1>1, MeaningsKept
      <3>6. QED
        BY <3>1, <3>4, <3>5 DEF Meant
    <2>3. QED
      BY <2>1, <2>2
  <1>6. QED
    BY <1>3, <1>4, <1>5

\* For every table, map and argument, wbregs reads or writes only an address that its
\* argument stands for (main() of wbregs.cpp with addrdecode() and the map's lookups).
THEOREM AddressIsMeant == RegSpec => []AddressMeant
  <1>1. RegInit => RegInv
    BY DEF RegInit, RegInv, AddressMeant
  <1>2. RegInv /\ [RegNext]_regvars => RegInv'
    <2> SUFFICES ASSUME RegInv, [RegNext]_regvars PROVE RegInv'
      OBVIOUS
    <2>1. CASE Decode
      BY <2>1, DecodeKeeps
    <2>2. CASE AccessReg
      <3>1. UNCHANGED <<argument, map_file, address>> /\ accessed' = {address} /\ wpc' = "done"
        BY <2>2 DEF AccessReg
      <3>2. Meant(address)
        BY <2>2 DEF AccessReg, RegInv
      <3>3. Meant(address)'
        BY <3>1, <3>2, MeaningsKept DEF Meant, isalpha
      <3>4. AddressMeant'
        BY <3>1, <3>3 DEF AddressMeant, Meant
      <3>5. QED
        BY <3>1, <3>4 DEF RegInv
    <2>3. CASE UNCHANGED regvars
      <3>1. UNCHANGED <<argument, map_file, address, wpc, accessed>>
        BY <2>3 DEF regvars
      <3>2. Meanings' = Meanings /\ Mistaken' = Mistaken
        BY <3>1, MeaningsKept
      <3>3. QED
        BY <3>1, <3>2 DEF RegInv, AddressMeant, Meant, isalpha
    <2>4. QED
      BY <2>1, <2>2, <2>3 DEF RegNext
  <1>3. RegInv => AddressMeant
    BY DEF RegInv
  <1>4. QED
    BY <1>1, <1>2, <1>3, PTL DEF RegSpec

-----------------------------------------------------------------------------
\* The console.

\* All that is on its way, and all that was to be sent; _exit() sends two more.
Way == seen \o shift \o ps \o fifo \o out
Sent == printed \o (IF call = "exit" THEN <<"sp", "sp">> ELSE <<>>)

ConsoleTypes ==
  /\ seen \in Seq(Char) /\ shift \in Seq(Char) /\ ps \in Seq(Char) /\ fifo \in Seq(Char)
  /\ out \in Seq(Char) /\ printed \in Seq(Char) /\ str \in Seq(Char)
  /\ rxq \in Seq(Char) /\ typed \in Seq(Char) /\ input \in Seq(Char) /\ buf \in Seq(Char)
  /\ Len(shift) <= 1 /\ Len(ps) <= 1

OutputInv ==
  /\ Way = Sent
  /\ str # <<>> => call \in {"write", "txstr"}
  /\ halted => call = "exit"
  /\ ExitFlushes

InputInv ==
  /\ call # "read" => buf = <<>>
  /\ last_was_cr <=> typed # <<>> /\ typed[Len(typed)] = "cr"
  /\ ReadsTranslated

HeapInv ==
  /\ heap \in Nat /\ heap <= HeapSize
  /\ \A b \in blocks : b \in Nat \X Nat /\ b[1] <= b[2] /\ b[2] < heap
  /\ BlocksApart

ConsoleInv == ConsoleTypes /\ OutputInv /\ InputInv /\ HeapInv

\* A character goes from one queue to the next.
Further(x, s, t) == (x \o s) \o t = (x \o Append(s, Head(t))) \o Tail(t)

LEMMA OneFurther ==
  ASSUME NEW x \in Seq(Char), NEW s \in Seq(Char), NEW t \in Seq(Char), t # <<>>
  PROVE  /\ Further(x, s, t)
         /\ Append(s, Head(t)) \in Seq(Char) /\ Tail(t) \in Seq(Char)
  <1>1. Head(t) \in Char /\ Tail(t) \in Seq(Char)
    OBVIOUS
  <1>2. Append(s, Head(t)) \in Seq(Char)
    BY <1>1
  <1>3. Further(x, s, t)
    BY SMTT(30) DEF Further
  <1>4. QED
    BY <1>1, <1>2, <1>3

LEMMA NothingBetween ==
  ASSUME NEW x \in Seq(Char), NEW t \in Seq(Char)
  PROVE  x \o <<>> = x /\ <<>> \o x = x /\ x \o t \in Seq(Char)
  OBVIOUS

\* A flushed line starts with all that was printed.
LEMMA FlushedPrefix ==
  ASSUME NEW p \in Seq(Char), NEW s \in Seq(Char), NEW l \in Seq(Char), Len(l) <= 1,
         s \o l = p \o <<"sp", "sp">>
  PROVE  Len(p) <= Len(s) /\ SubSeq(s, 1, Len(p)) = p
  <1>1. Len(s) + Len(l) = Len(p) + 2 /\ Len(s) \in Nat /\ Len(l) \in Nat /\ Len(p) \in Nat
    OBVIOUS
  <1>2. Len(p) <= Len(s)
    BY <1>1
  <1>3. \A i \in 1 .. Len(p) : p[i] = s[i]
    <2>1. \A i \in 1 .. Len(p) : (p \o <<"sp", "sp">>)[i] = p[i]
      OBVIOUS
    <2>2. \A i \in 1 .. Len(s) : (s \o l)[i] = s[i]
      OBVIOUS
    <2>3. QED
      BY <1>1, <1>2, <2>1, <2>2
  <1>4. SubSeq(s, 1, Len(p)) = p
    BY <1>1, <1>2, <1>3
  <1>5. QED
    BY <1>2, <1>4

LEMMA CharsOf ==
  /\ <<"cr", "nl">> \in Seq(Char) /\ <<"sp", "sp">> \in Seq(Char)
  /\ <<"a", "cr", "nl">> \in Seq(Char) /\ \A c \in Char : <<c>> \in Seq(Char)
  BY DEF Char

\* Steps that send nothing.
LEMMA OutputRests ==
  ASSUME OutputInv, UNCHANGED <<port, out, printed, halted>>,
         str' # <<>> => call' \in {"write", "txstr"},
         call' = call \/ (~halted /\ call # "exit" /\ call' # "exit")
  PROVE  OutputInv'
  <1>1. UNCHANGED <<seen, shift, ps, fifo, out, printed, halted>>
    BY DEF port
  <1>2. Way' = Way /\ Sent' = Sent
    BY <1>1 DEF Way, Sent
  <1>3. QED
    BY <1>1, <1>2 DEF OutputInv, ExitFlushes

\* A step that has characters to send.
LEMMA PrintKeeps ==
  ASSUME ConsoleTypes, OutputInv, out = <<>>, UNCHANGED <<port, halted>>, ~halted,
         call # "exit", call' # "exit", NEW s \in Seq(Char), Sends(s),
         str' # <<>> => call' \in {"write", "txstr"}
  PROVE  OutputInv' /\ out' \in Seq(Char) /\ printed' \in Seq(Char)
  <1>1. UNCHANGED <<seen, shift, ps, fifo, halted>> /\ out' = s /\ printed' = printed \o s
    BY DEF port, Sends
  <1> DEFINE x == seen \o shift \o ps \o fifo
  <1>2. x \in Seq(Char) /\ printed \in Seq(Char) /\ <<>> \in Seq(Char)
    BY NothingBetween DEF ConsoleTypes
  <1>3. Way = x \o <<>> /\ Sent = printed \o <<>> /\ Way' = x \o s /\ Sent' = (printed \o s) \o <<>>
    BY <1>1 DEF Way, Sent
  <1> HIDE DEF x
  <1>4. x = printed
    BY <1>2, <1>3, NothingBetween DEF OutputInv
  <1>5. printed \o s \in Seq(Char) /\ (printed \o s) \o <<>> = printed \o s
    BY <1>2, NothingBetween
  <1>6. QED
    BY <1>1, <1>3, <1>4, <1>5 DEF OutputInv, ExitFlushes

LEMMA InputRests ==
  ASSUME InputInv, UNCHANGED <<typed, input, buf, last_was_cr>>, call' # "read" => buf = <<>>
  PROVE  InputInv'
  BY DEF InputInv, ReadsTranslated, Kept, Place

LEMMA HeapRests ==
  ASSUME HeapInv, UNCHANGED <<heap, blocks>>
  PROVE  HeapInv'
  BY DEF HeapInv, BlocksApart

\* The way out.
LEMMA HardwareKeeps ==
  ASSUME ConsoleInv, Hardware \/ Out
  PROVE  ConsoleInv'
  <1>1. ConsoleTypes /\ OutputInv /\ InputInv /\ HeapInv
    BY DEF ConsoleInv
  <1>2. UNCHANGED <<rxq, typed, call, str, last_was_cr, buf, input, printed, heap, blocks, halted>> /\ ~halted
    BY DEF Hardware, Out
  <1>3. InputInv' /\ HeapInv'
    BY <1>1, <1>2, InputRests, HeapRests DEF InputInv
  <1>4. Sent' = Sent
    BY <1>2 DEF Sent
  <1>5. SUFFICES ConsoleTypes' /\ Way' = Way
    BY <1>1, <1>2, <1>3, <1>4 DEF ConsoleInv, OutputInv, ExitFlushes
  <1>6. <<>> \in Seq(Char)
    OBVIOUS
  <1>7. CASE Out
    <2>1. /\ out # <<>> /\ fifo' = Append(fifo, Head(out)) /\ out' = Tail(out)
          /\ UNCHANGED <<ps, shift, seen>>
      BY <1>7 DEF Out
    <2> DEFINE x == seen \o shift \o ps
    <2>2. x \in Seq(Char)
      BY <1>1, NothingBetween DEF ConsoleTypes
    <2>3. Way = (x \o fifo) \o out /\ Way' = (x \o Append(fifo, Head(out))) \o Tail(out)
      BY <2>1 DEF Way
    <2> HIDE DEF x
    <2>4. /\ Further(x, fifo, out)
          /\ Append(fifo, Head(out)) \in Seq(Char) /\ Tail(out) \in Seq(Char)
      BY <1>1, <2>1, <2>2, OneFurther, Zenon DEF ConsoleTypes
    <2>5. Way' = Way
      BY <2>3, <2>4 DEF Further
    <2>6. QED
      BY <1>1, <1>2, <2>1, <2>4, <2>5 DEF ConsoleTypes
  <1>8. CASE Hardware /\ ToPs
    <2>1. /\ fifo # <<>> /\ ps = <<>> /\ ps' = <<Head(fifo)>> /\ fifo' = Tail(fifo)
          /\ UNCHANGED <<shift, seen, out>>
      BY <1>8 DEF ToPs, Hardware
    <2> DEFINE x == seen \o shift
    <2>2. x \in Seq(Char)
      BY <1>1, NothingBetween DEF ConsoleTypes
    <2>3. Way = ((x \o ps) \o fifo) \o out /\ Way' = ((x \o ps') \o Tail(fifo)) \o out
      BY <2>1 DEF Way
    <2> HIDE DEF x
    <2>4. ps' = Append(ps, Head(fifo)) /\ Len(ps') = 1
      BY <2>1
    <2>5. /\ Further(x, ps, fifo)
          /\ Append(ps, Head(fifo)) \in Seq(Char) /\ Tail(fifo) \in Seq(Char)
      <3>1. ps \in Seq(Char) /\ fifo \in Seq(Char) /\ fifo # <<>>
        BY <1>1, <2>1 DEF ConsoleTypes
      <3>2. QED
        BY <2>2, <3>1, OneFurther, Zenon
    <2>6. Way' = Way
      BY <2>3, <2>4, <2>5 DEF Further
    <2>7. QED
      BY <1>1, <1>2, <2>1, <2>4, <2>5, <2>6 DEF ConsoleTypes
  <1>9. CASE Hardware /\ ToShift
    <2>1. shift = <<>> /\ shift' = ps /\ ps' = <<>> /\ UNCHANGED <<fifo, seen, out>>
      BY <1>9 DEF ToShift, Hardware
    <2>2. (seen \o <<>>) \o ps = (seen \o ps) \o <<>>
      BY <1>1, NothingBetween DEF ConsoleTypes
    <2>3. Way' = Way
      BY <2>1, <2>2 DEF Way
    <2>4. QED
      BY <1>1, <1>2, <2>1, <2>3 DEF ConsoleTypes
  <1>10. CASE Hardware /\ ToLine
    <2>1. shift' = <<>> /\ seen' = seen \o shift /\ UNCHANGED <<fifo, ps, out>>
      BY <1>10 DEF ToLine, Hardware
    <2>2. (seen \o shift) \o <<>> = seen \o shift /\ seen' \in Seq(Char)
      BY <1>1, <2>1, NothingBetween DEF ConsoleTypes
    <2>3. Way' = Way
      BY <2>1, <2>2 DEF Way
    <2>4. QED
      BY <1>1, <1>2, <2>1, <2>2, <2>3 DEF ConsoleTypes
  <1>11. QED
    BY <1>7, <1>8, <1>9, <1>10 DEF Hardware

\* A call that prints nothing itself.
LEMMA CallKeeps ==
  ASSUME ConsoleInv, ~halted, call # "exit", call' # "exit",
         UNCHANGED <<port, out, printed, halted, typed, input, last_was_cr, rxq>>,
         str' \in Seq(Char), str' # <<>> => call' \in {"write", "txstr"},
         (call # "read" /\ buf' = <<>>) \/ (call' = call /\ buf' = buf),
         HeapInv'
  PROVE  ConsoleInv'
  <1>1. ConsoleTypes /\ OutputInv /\ InputInv
    BY DEF ConsoleInv
  <1>2. buf' = buf /\ (call' # "read" => buf = <<>>)
    BY <1>1 DEF InputInv
  <1>3. OutputInv' /\ InputInv'
    BY <1>1, <1>2, OutputRests, InputRests
  <1>4. ConsoleTypes'
    BY <1>1, <1>2 DEF ConsoleTypes, port
  <1>5. QED
    BY <1>3, <1>4 DEF ConsoleInv

LEMMA CallsStep ==
  ASSUME ConsoleInv,
         \/ _write_r \/ txstr \/ _read_r \/ _close_r \/ _execve_r \/ _fstat_r
         \/ _gettimeofday_r \/ _kill_r \/ _stat_r \/ _times \/ _wait
  PROVE  ConsoleInv'
  <1>1. ConsoleTypes /\ OutputInv /\ InputInv /\ HeapInv
    BY DEF ConsoleInv
  <1>2. /\ ~halted /\ call = "none" /\ call' \in {"none", "write", "txstr", "read"}
        /\ UNCHANGED <<port, out, printed, halted, typed, input, last_was_cr, rxq, heap, blocks>>
    BY DEF _write_r, txstr, _read_r, _close_r, _execve_r, _fstat_r, _gettimeofday_r, _kill_r,
           _stat_r, _times, _wait, Fails, SendsString, Calls
  <1>3. \/ str' = str
        \/ str' \in Strings /\ (str' # <<>> => call' \in {"write", "txstr"})
    BY DEF _write_r, txstr, _read_r, _close_r, _execve_r, _fstat_r, _gettimeofday_r, _kill_r,
           _stat_r, _times, _wait, Fails, SendsString, Calls
  <1>4. str' \in Seq(Char) /\ (str' # <<>> => call' \in {"write", "txstr"})
    <2>1. str = <<>>
      BY <1>1, <1>2 DEF OutputInv
    <2>2. QED
      BY <1>1, <1>3, <2>1, ConsoleAssumption DEF ConsoleTypes
  <1>5. buf' \in {buf, <<>>} /\ buf = <<>>
    BY <1>1, <1>2 DEF _write_r, txstr, _read_r, _close_r, _execve_r, _fstat_r, _gettimeofday_r, _kill_r,
           _stat_r, _times, _wait, Fails, InputInv
  <1>6. QED
    BY <1>1, <1>2, <1>4, <1>5, CallKeeps, HeapRests

LEMMA TypedStep ==
  ASSUME ConsoleInv, NEW c \in {"a", "cr", "nl"}, Typed(c)
  PROVE  ConsoleInv'
  <1>1. ConsoleTypes /\ OutputInv /\ InputInv /\ HeapInv
    BY DEF ConsoleInv
  <1>2. /\ rxq' = Append(rxq, c)
        /\ UNCHANGED <<port, typed, call, str, out, last_was_cr, buf, input, printed, heap, blocks, halted>>
    BY DEF Typed
  <1>3. OutputInv' /\ InputInv' /\ HeapInv'
    BY <1>1, <1>2, OutputRests, InputRests, HeapRests DEF OutputInv, InputInv
  <1>4. ConsoleTypes'
    BY <1>1, <1>2 DEF ConsoleTypes, port, Char
  <1>5. QED
    BY <1>3, <1>4 DEF ConsoleInv

LEMMA NextCharStep ==
  ASSUME ConsoleInv, NextChar
  PROVE  ConsoleInv'
  <1>1. ConsoleTypes /\ OutputInv /\ InputInv /\ HeapInv
    BY DEF ConsoleInv
  <1>2. /\ ~halted /\ str # <<>> /\ out = <<>> /\ str' = Tail(str)
        /\ call' = (IF str' = <<>> THEN "none" ELSE call)
        /\ UNCHANGED <<port, rxq, typed, last_was_cr, buf, input, heap, blocks, halted>>
        /\ \/ Sends(_outbyte(Head(str)))
           \/ Sends(txchr(tx_was_cr, Head(str)))
    BY DEF NextChar
  <1>3. Head(str) \in Char /\ str' \in Seq(Char) /\ call \in {"write", "txstr"}
    BY <1>1, <1>2 DEF ConsoleTypes, OutputInv
  <1>4. _outbyte(Head(str)) \in Seq(Char) /\ txchr(tx_was_cr, Head(str)) \in Seq(Char)
    BY <1>3, CharsOf DEF _outbyte, txchr
  <1>5. OutputInv' /\ out' \in Seq(Char) /\ printed' \in Seq(Char)
    BY <1>1, <1>2, <1>3, <1>4, PrintKeeps
  <1>6. InputInv' /\ HeapInv'
    BY <1>1, <1>2, <1>3, InputRests, HeapRests DEF InputInv
  <1>7. ConsoleTypes'
    BY <1>1, <1>2, <1>3, <1>5 DEF ConsoleTypes, port
  <1>8. QED
    BY <1>5, <1>6, <1>7 DEF ConsoleInv

\* Input: a character more is typed, and read unless it is the newline of "\r\n".
Translated(c) == IF c = "cr" THEN "nl" ELSE c

LEMMA KeptGrows ==
  ASSUME ConsoleTypes, InputInv, NEW c \in Char, typed' = Append(typed, c)
  PROVE  /\ Kept' = IF c = "nl" /\ last_was_cr THEN Kept ELSE Kept \cup {Len(typed) + 1}
         /\ Kept \subseteq 1 .. Len(typed)
         /\ \A i \in 1 .. Len(typed) : typed'[i] = typed[i]
         /\ typed'[Len(typed) + 1] = c /\ Len(typed') = Len(typed) + 1
  <1>1. /\ \A i \in 1 .. Len(typed) : typed'[i] = typed[i]
        /\ typed'[Len(typed) + 1] = c /\ Len(typed') = Len(typed) + 1 /\ Len(typed) \in Nat
    BY DEF ConsoleTypes
  <1>2. Kept \subseteq 1 .. Len(typed) /\ Kept' \subseteq 1 .. Len(typed) + 1
    BY <1>1 DEF Kept
  <1>3. \A i \in 1 .. Len(typed) : i \in Kept' <=> i \in Kept
    BY <1>1 DEF Kept
  <1>4. Len(typed) + 1 \in Kept' <=> ~(c = "nl" /\ last_was_cr)
    <2>1. last_was_cr <=> Len(typed) > 0 /\ typed[Len(typed)] = "cr"
      BY <1>1 DEF InputInv, ConsoleTypes
    <2>2. QED
      BY <1>1, <2>1 DEF Kept
  <1>5. \A i \in 1 .. Len(typed) + 1 : i \in 1 .. Len(typed) \/ i = Len(typed) + 1
    BY <1>1
  <1>6. CASE c = "nl" /\ last_was_cr
    <2>1. Kept' \subseteq Kept
      BY <1>2, <1>3, <1>4, <1>5, <1>6
    <2>2. Kept \subseteq Kept'
      BY <1>2, <1>3
    <2>3. QED
      BY <1>1, <1>2, <1>6, <2>1, <2>2
  <1>7. CASE ~(c = "nl" /\ last_was_cr)
    BY <1>1, <1>2, <1>3, <1>4, <1>5, <1>7
  <1>8. QED
    BY <1>6, <1>7

LEMMA KeptFinite ==
  ASSUME ConsoleTypes, Kept \subseteq 1 .. Len(typed)
  PROVE  /\ IsFiniteSet(Kept) /\ Cardinality(Kept) \in Nat
         /\ \A i \in Kept : Place(i) \in 1 .. Cardinality(Kept)
  <1>1. IsFiniteSet(Kept)
    <2>1. 1 \in Int /\ Len(typed) \in Int
      BY DEF ConsoleTypes
    <2>2. IsFiniteSet(1 .. Len(typed))
      BY <2>1, FS_Interval, Zenon
    <2>3. QED
      BY <2>2, FS_Subset, Zenon
  <1>2. Cardinality(Kept) \in Nat
    BY <1>1, FS_CardinalityType
  <1>3. ASSUME NEW i \in Kept PROVE Place(i) \in 1 .. Cardinality(Kept)
    <2> DEFINE below == {j \in Kept : j <= i}
    <2>1. below \in SUBSET Kept /\ i \in below
      BY <1>3
    <2> HIDE DEF below
    <2>2. IsFiniteSet(below) /\ Cardinality(below) <= Cardinality(Kept)
      BY <1>1, <2>1, FS_Subset
    <2>3. Cardinality(below) \in Nat /\ Cardinality(below) # 0
      BY <2>1, <2>2, FS_CardinalityType, FS_EmptySet
    <2>4. Place(i) = Cardinality(below)
      BY DEF Place, below
    <2>5. QED
      BY <1>2, <2>2, <2>3, <2>4
  <1>4. QED
    BY <1>1, <1>2, <1>3

LEMMA ReadMore ==
  ASSUME ConsoleTypes, InputInv, NEW c \in Char, typed' = Append(typed, c),
         (input \o buf)' = IF c = "nl" /\ last_was_cr THEN input \o buf
                            ELSE Append(input \o buf, Translated(c))
  PROVE  ReadsTranslated'
  <1> DEFINE read == input \o buf
  <1> PICK n \in Nat : n = Len(typed) + 1
    BY DEF ConsoleTypes
  <1>1. /\ \A i \in 1 .. Len(typed) : typed'[i] = typed[i]
        /\ typed'[n] = c /\ Kept \subseteq 1 .. Len(typed)
        /\ \A i \in Kept : i \in Int /\ i < n
    <2>1. /\ \A i \in 1 .. Len(typed) : typed'[i] = typed[i]
          /\ typed'[n] = c /\ Kept \subseteq 1 .. Len(typed)
      BY KeptGrows
    <2>2. \A i \in 1 .. Len(typed) : i \in Int /\ i < n
      OBVIOUS
    <2>3. QED
      BY <2>1, <2>2
  <1>2. /\ IsFiniteSet(Kept) /\ Cardinality(Kept) \in Nat
        /\ \A i \in Kept : Place(i) \in 1 .. Cardinality(Kept)
    BY <1>1, KeptFinite
  <1>3. /\ read \in Seq(Char) /\ Len(read) = Cardinality(Kept)
        /\ \A i \in Kept : read[Place(i)] = Translated(typed[i])
    <2>1. read \in Seq(Char)
      BY NothingBetween DEF ConsoleTypes
    <2>2. ReadsTranslated
      BY DEF InputInv
    <2>3. QED
      BY <2>1, <2>2 DEF ReadsTranslated, Translated
  <1> HIDE DEF read
  <1>4. CASE c = "nl" /\ last_was_cr
    <2>1. Kept' = Kept /\ read' = read
      BY <1>4, KeptGrows DEF read
    <2>2. \A i \in Kept : Place(i)' = Place(i) /\ typed'[i] = typed[i]
      BY <1>1, <2>1 DEF Place
    <2>3. QED
      BY <1>3, <2>1, <2>2 DEF ReadsTranslated, Translated, read
  <1>5. CASE ~(c = "nl" /\ last_was_cr)
    <2>1. Kept' = Kept \cup {n} /\ read' = Append(read, Translated(c)) /\ n \notin Kept
      BY <1>1, <1>5, KeptGrows DEF read
    <2>2. Cardinality(Kept') = Cardinality(Kept) + 1
      BY <1>2, <2>1, FS_AddElement
    <2>3. Translated(c) \in Char
      BY DEF Translated, Char
    <2>4. Len(read') = Cardinality(Kept')
      <3>1. Len(Append(read, Translated(c))) = Len(read) + 1
        BY <1>3, <2>3
      <3>2. QED
        BY <1>3, <2>1, <2>2, <3>1
    <2>5. ASSUME NEW i \in Kept PROVE read'[Place(i)'] = Translated(typed'[i])
      <3>1. {j \in Kept' : j <= i} = {j \in Kept : j <= i}
        BY <1>1, <2>1, <2>5
      <3>2. Place(i)' = Place(i)
        BY <3>1 DEF Place
      <3>3. Place(i) \in 1 .. Len(read)
        BY <1>2, <1>3, <2>5
      <3>4. read'[Place(i)] = read[Place(i)]
        BY <1>3, <2>1, <2>3, <3>3
      <3>5. QED
        BY <1>1, <1>3, <2>5, <3>2, <3>4
    <2>6. read'[Place(n)'] = Translated(typed'[n])
      <3>1. {j \in Kept' : j <= n} = Kept'
        <4>1. \A j \in Kept' : j <= n
          BY <1>1, <2>1
        <4>2. QED
          BY <4>1
      <3>2. Place(n)' = Len(read) + 1
        BY <1>3, <2>2, <3>1 DEF Place
      <3>3. QED
        BY <1>1, <1>3, <2>1, <2>3, <3>2
    <2>7. \A i \in Kept' : read'[Place(i)'] = Translated(typed'[i])
      BY <2>1, <2>5, <2>6
    <2>8. QED
      BY <2>4, <2>7 DEF ReadsTranslated, Translated, read
  <1>6. QED
    BY <1>4, <1>5

LEMMA AppendToConcat ==
  ASSUME NEW x \in Seq(Char), NEW s \in Seq(Char), NEW c \in Char
  PROVE  x \o Append(s, c) = Append(x \o s, c) /\ Append(s, c) \in Seq(Char)
  OBVIOUS

LEMMA Ends ==
  ASSUME NEW s \in Seq(Char)
  PROVE  /\ s # <<>> => Head(s) \in Char /\ Tail(s) \in Seq(Char)
         /\ \A c \in Char : /\ Append(s, c) \in Seq(Char) /\ Append(s, c) # <<>>
                            /\ Append(s, c)[Len(Append(s, c))] = c
  <1>1. s # <<>> => Head(s) \in Char /\ Tail(s) \in Seq(Char)
    OBVIOUS
  <1>2. ASSUME NEW c \in Char
        PROVE  /\ Append(s, c) \in Seq(Char) /\ Len(Append(s, c)) = Len(s) + 1
               /\ Append(s, c)[Len(s) + 1] = c
    OBVIOUS
  <1>3. ASSUME NEW c \in Char
        PROVE  Append(s, c) # <<>>
    BY <1>2
  <1>4. QED
    BY <1>1, <1>2, <1>3, Zenon

LEMMA InByteStep ==
  ASSUME ConsoleInv, InByte
  PROVE  ConsoleInv'
  <1>1. ConsoleTypes /\ OutputInv /\ InputInv /\ HeapInv
    BY DEF ConsoleInv
  <1>q. rxq \in Seq(Char) /\ rxq # <<>>
    BY <1>1 DEF ConsoleTypes, InByte
  <1>c. PICK c \in Char : c = Head(rxq)
    BY <1>q, Ends
  <1> DEFINE in == _inbyte(c)
             all == IF in.rv = "" THEN buf ELSE Append(buf, in.rv)
  <1>2. /\ ~halted /\ call = "read" /\ out = <<>> /\ rxq # <<>>
        /\ rxq' = Tail(rxq) /\ typed' = Append(typed, c) /\ last_was_cr' = in.cr
        /\ IF in.rv = "" THEN UNCHANGED <<out, printed>> ELSE Sends(_outbyte(in.rv))
        /\ \/ call' = "none" /\ input' = input \o all /\ buf' = <<>>
           \/ buf' = all /\ UNCHANGED <<call, input>>
        /\ UNCHANGED <<port, str, heap, blocks, halted>>
    BY <1>c DEF InByte
  <1>3. /\ in.rv = IF c = "nl" /\ last_was_cr THEN "" ELSE Translated(c)
        /\ in.cr <=> c = "cr"
        /\ Translated(c) \in Char /\ Translated(c) # ""
    BY DEF _inbyte, Translated, Char
  <1> HIDE DEF in
  <1>4. /\ all \in Seq(Char)
        /\ input \o all = IF c = "nl" /\ last_was_cr THEN input \o buf
                           ELSE Append(input \o buf, Translated(c))
    <2>1. input \in Seq(Char) /\ buf \in Seq(Char)
      BY <1>1 DEF ConsoleTypes
    <2>2. CASE c = "nl" /\ last_was_cr
      <3>1. in.rv = ""
        BY <1>3, <2>2
      <3>2. QED
        BY <2>1, <2>2, <3>1
    <2>3. CASE ~(c = "nl" /\ last_was_cr)
      <3>1. in.rv # "" /\ all = Append(buf, Translated(c))
        BY <1>3, <2>3
      <3>2. /\ input \o Append(buf, Translated(c)) = Append(input \o buf, Translated(c))
            /\ Append(buf, Translated(c)) \in Seq(Char)
        BY <1>3, <2>1, AppendToConcat
      <3>3. QED
        BY <2>3, <3>1, <3>2
    <2>4. QED
      BY <2>2, <2>3
  <1> HIDE DEF all
  <1>5. /\ input' \in Seq(Char) /\ buf' \in Seq(Char) /\ (input \o buf)' = input \o all
        /\ call' # "read" => buf' = <<>>
    <2>1. input \in Seq(Char) /\ <<>> \in Seq(Char)
      BY <1>1 DEF ConsoleTypes
    <2>2. input \o all \in Seq(Char) /\ (input \o all) \o <<>> = input \o all
      BY <1>4, <2>1, NothingBetween
    <2>3. QED
      BY <1>2, <1>4, <2>1, <2>2
  <1>6. typed' \in Seq(Char) /\ rxq' \in Seq(Char) /\ typed' # <<>> /\ typed'[Len(typed')] = c
    <2>1. typed \in Seq(Char)
      BY <1>1 DEF ConsoleTypes
    <2>2. QED
      BY <1>q, <1>2, <2>1, Ends
  <1>7. InputInv'
    <2>1. ReadsTranslated'
      BY <1>1, <1>2, <1>4, <1>5, ReadMore
    <2>2. QED
      BY <1>2, <1>3, <1>5, <1>6, <2>1 DEF InputInv
  <1>8. call' # "exit" /\ str = <<>>
    BY <1>1, <1>2 DEF OutputInv
  <1>9. OutputInv' /\ out' \in Seq(Char) /\ printed' \in Seq(Char)
    <2>1. CASE in.rv = ""
      BY <1>1, <1>2, <1>8, <2>1, OutputRests DEF ConsoleTypes
    <2>2. CASE in.rv # ""
      <3>1. in.rv \in Char /\ Sends(_outbyte(in.rv))
        BY <1>2, <1>3, <2>2
      <3>2. _outbyte(in.rv) \in Seq(Char)
        BY <3>1, CharsOf DEF _outbyte
      <3>3. QED
        BY <1>1, <1>2, <1>8, <3>1, <3>2, PrintKeeps
    <2>3. QED
      BY <2>1, <2>2
  <1>10. HeapInv' /\ ConsoleTypes'
    BY <1>1, <1>2, <1>5, <1>6, <1>9, HeapRests DEF ConsoleTypes, port
  <1>11. QED
    BY <1>7, <1>9, <1>10 DEF ConsoleInv

LEMMA InEmptyStep ==
  ASSUME ConsoleInv, InEmpty
  PROVE  ConsoleInv'
  <1>1. ConsoleTypes /\ OutputInv /\ InputInv /\ HeapInv
    BY DEF ConsoleInv
  <1>2. /\ ~halted /\ call = "read" /\ call' = "none" /\ input' = input \o buf /\ buf' = <<>>
        /\ UNCHANGED <<port, rxq, typed, str, out, last_was_cr, printed, heap, blocks, halted>>
    BY DEF InEmpty
  <1>3. input \o buf \in Seq(Char) /\ (input \o buf)' = input \o buf
    BY <1>1, <1>2, NothingBetween DEF ConsoleTypes
  <1>4. InputInv'
    BY <1>1, <1>2, <1>3 DEF InputInv, ReadsTranslated, Kept, Place
  <1>5. OutputInv' /\ HeapInv'
    BY <1>1, <1>2, OutputRests, HeapRests DEF OutputInv
  <1>6. ConsoleTypes'
    BY <1>1, <1>2, <1>3 DEF ConsoleTypes, port
  <1>7. QED
    BY <1>4, <1>5, <1>6 DEF ConsoleInv

\* _sbrk_r() takes whole words above all that is taken.
LEMMA BlockAbove ==
  ASSUME HeapInv, NEW sz \in {1, 4, 6}, heap + 4 * ((sz + 3) \div 4) <= HeapSize,
         heap' = heap + 4 * ((sz + 3) \div 4), blocks' = blocks \cup {<<heap, heap + sz - 1>>}
  PROVE  HeapInv'
  <1>1. heap \in Nat /\ HeapSize \in Nat
    BY ConsoleAssumption DEF HeapInv
  <1>2. sz <= 4 * ((sz + 3) \div 4) /\ sz >= 1 /\ 4 * ((sz + 3) \div 4) \in Nat
    BY SMT
  <1>3. heap' \in Nat /\ heap' <= HeapSize /\ heap <= heap + sz - 1 /\ heap + sz - 1 < heap'
    BY <1>1, <1>2
  <1>4. \A b \in blocks : b \in Nat \X Nat /\ b[1] <= b[2] /\ b[2] < heap
    BY DEF HeapInv
  <1>5. \A b \in blocks' : b \in Nat \X Nat /\ b[1] <= b[2] /\ b[2] < heap'
    BY <1>1, <1>3, <1>4
  <1>6. BlocksApart'
    <2> DEFINE new == <<heap, heap + sz - 1>>
    <2>1. \A b \in blocks : b[2] < new[1]
      BY <1>4
    <2>2. \A b \in blocks' : b[2] < HeapSize
      BY <1>1, <1>3, <1>5
    <2>3. \A b, c \in blocks' : b # c => b[2] < c[1] \/ c[2] < b[1]
      <3> HIDE DEF new
      <3>1. blocks' = blocks \cup {new}
        BY DEF new
      <3>2. \A b, c \in blocks : b # c => b[2] < c[1] \/ c[2] < b[1]
        BY DEF HeapInv, BlocksApart
      <3>3. QED
        BY <2>1, <3>1, <3>2, Zenon
    <2>4. QED
      BY <2>2, <2>3, ConsoleAssumption DEF BlocksApart
  <1>7. QED
    BY <1>3, <1>5, <1>6 DEF HeapInv

LEMMA SbrkStep ==
  ASSUME ConsoleInv, _sbrk_r
  PROVE  ConsoleInv'
  <1>1. ConsoleTypes /\ OutputInv /\ InputInv /\ HeapInv
    BY DEF ConsoleInv
  <1>2. /\ ~halted /\ call = "none" /\ call' = "none" /\ out = <<>>
        /\ UNCHANGED <<port, rxq, typed, str, last_was_cr, buf, input, halted>>
    BY DEF _sbrk_r, Calls
  <1>3. str = <<>>
    BY <1>1, <1>2 DEF OutputInv
  <1>4. InputInv'
    BY <1>1, <1>2, InputRests DEF InputInv
  <1>5. PICK sz \in {1, 4, 6} :
          IF heap + 4 * ((sz + 3) \div 4) > HeapSize
          THEN Sends(<<"a", "cr", "nl">>) /\ UNCHANGED <<heap, blocks>>
          ELSE /\ heap' = heap + 4 * ((sz + 3) \div 4)
               /\ blocks' = blocks \cup {<<heap, heap + sz - 1>>} /\ UNCHANGED <<out, printed>>
    BY DEF _sbrk_r
  <1>6. CASE heap + 4 * ((sz + 3) \div 4) > HeapSize
    <2>1. Sends(<<"a", "cr", "nl">>) /\ UNCHANGED <<heap, blocks>>
      BY <1>5, <1>6
    <2>2. OutputInv' /\ out' \in Seq(Char) /\ printed' \in Seq(Char)
      BY <1>1, <1>2, <1>3, <2>1, CharsOf, PrintKeeps
    <2>3. HeapInv'
      BY <1>1, <2>1, HeapRests
    <2>4. ConsoleTypes'
      BY <1>1, <1>2, <2>2 DEF ConsoleTypes, port
    <2>5. QED
      BY <1>4, <2>2, <2>3, <2>4 DEF ConsoleInv
  <1>7. CASE ~(heap + 4 * ((sz + 3) \div 4) > HeapSize)
    <2>1. /\ heap' = heap + 4 * ((sz + 3) \div 4)
          /\ blocks' = blocks \cup {<<heap, heap + sz - 1>>} /\ UNCHANGED <<out, printed>>
      BY <1>5, <1>7
    <2>2. heap + 4 * ((sz + 3) \div 4) <= HeapSize
      BY <1>1, <1>7, ConsoleAssumption DEF HeapInv
    <2>3. HeapInv'
      BY <1>1, <2>1, <2>2, BlockAbove
    <2>4. ConsoleTypes'
      BY <1>1, <1>2, <2>1 DEF ConsoleTypes, port
    <2>5. OutputInv'
      BY <1>1, <1>2, <1>3, <2>1, OutputRests
    <2>6. QED
      BY <1>4, <2>3, <2>4, <2>5 DEF ConsoleInv
  <1>8. QED
    BY <1>6, <1>7

LEMMA ExitStep ==
  ASSUME ConsoleInv, _exit
  PROVE  ConsoleInv'
  <1>1. ConsoleTypes /\ OutputInv /\ InputInv /\ HeapInv
    BY DEF ConsoleInv
  <1>2. /\ ~halted /\ call = "none" /\ call' = "exit" /\ out = <<>> /\ out' = <<"sp", "sp">>
        /\ UNCHANGED <<printed, port, rxq, typed, str, last_was_cr, buf, input, heap, blocks, halted>>
    BY DEF _exit, Calls
  <1>3. InputInv' /\ HeapInv'
    BY <1>1, <1>2, InputRests, HeapRests DEF InputInv
  <1>4. ConsoleTypes'
    BY <1>1, <1>2, CharsOf DEF ConsoleTypes, port
  <1>5. OutputInv'
    <2> DEFINE x == seen \o shift \o ps \o fifo
    <2>1. x \in Seq(Char) /\ printed \in Seq(Char) /\ x' = x
      BY <1>1, <1>2 DEF ConsoleTypes, port
    <2>2. x \o <<>> = printed \o <<>>
      BY <1>1, <1>2 DEF OutputInv, Way, Sent
    <2> HIDE DEF x
    <2>3. x = printed
      BY <2>1, <2>2, NothingBetween
    <2>4. Way' = x \o <<"sp", "sp">> /\ Sent' = printed \o <<"sp", "sp">>
      BY <1>2, <2>1 DEF Way, Sent, x
    <2>5. str = <<>>
      BY <1>1, <1>2 DEF OutputInv
    <2>6. QED
      BY <1>2, <2>3, <2>4, <2>5 DEF OutputInv, ExitFlushes
  <1>6. QED
    BY <1>3, <1>4, <1>5 DEF ConsoleInv

\* Two characters are behind the last one printed, and the serial port holds one.
LEMMA HaltStep ==
  ASSUME ConsoleInv, ExitHalts
  PROVE  ConsoleInv'
  <1>1. ConsoleTypes /\ OutputInv /\ InputInv /\ HeapInv
    BY DEF ConsoleInv
  <1>2. /\ call = "exit" /\ out = <<>> /\ fifo = <<>> /\ ps = <<>>
        /\ UNCHANGED <<port, rxq, typed, call, str, out, last_was_cr, buf, input, printed, heap, blocks>>
    BY DEF ExitHalts, TXBUSY
  <1>3. InputInv' /\ HeapInv'
    BY <1>1, <1>2, InputRests, HeapRests DEF InputInv
  <1>4. ConsoleTypes'
    BY <1>1, <1>2 DEF ConsoleTypes, port
  <1>5. UNCHANGED <<seen, shift, ps, fifo, out, printed, call, str>>
    BY <1>2 DEF port
  <1>6. seen \o shift = printed \o <<"sp", "sp">>
    <2>1. seen \o shift \in Seq(Char) /\ seen \in Seq(Char) /\ shift \in Seq(Char)
      BY <1>1 DEF ConsoleTypes
    <2>2. (((seen \o shift) \o <<>>) \o <<>>) \o <<>> = printed \o <<"sp", "sp">>
      BY <1>1, <1>2 DEF OutputInv, Way, Sent
    <2>3. QED
      BY <2>1, <2>2, NothingBetween
  <1>7. Len(printed) <= Len(seen) /\ SubSeq(seen, 1, Len(printed)) = printed
    BY <1>1, <1>6, FlushedPrefix DEF ConsoleTypes
  <1>8. Way' = Way /\ Sent' = Sent
    BY <1>5 DEF Way, Sent
  <1>9. OutputInv'
    <2>1. ExitFlushes'
      BY <1>5, <1>7 DEF ExitFlushes
    <2>2. QED
      BY <1>1, <1>2, <1>5, <1>8, <2>1 DEF OutputInv
  <1>10. QED
    BY <1>3, <1>4, <1>9 DEF ConsoleInv

LEMMA ConsoleStep ==
  ASSUME ConsoleInv, [ConsoleNext]_consolevars
  PROVE  ConsoleInv'
  <1>1. CASE UNCHANGED consolevars
    <2>1. UNCHANGED <<port, rxq, typed, call, str, out, last_was_cr, buf, input, printed, heap, blocks, halted>>
      BY <1>1 DEF consolevars
    <2>2. OutputInv' /\ InputInv' /\ HeapInv'
      BY <2>1, OutputRests, InputRests, HeapRests DEF ConsoleInv, OutputInv, InputInv
    <2>3. ConsoleTypes'
      BY <2>1 DEF ConsoleInv, ConsoleTypes, port
    <2>4. QED
      BY <2>2, <2>3 DEF ConsoleInv
  <1>2. CASE ConsoleNext
    BY <1>2, HardwareKeeps, TypedStep, CallsStep, NextCharStep, InByteStep, InEmptyStep, SbrkStep,
       ExitStep, HaltStep, Zenon DEF ConsoleNext
  <1>3. QED
    BY <1>1, <1>2

LEMMA ConsoleStarts ==
  ASSUME ConsoleInit
  PROVE  ConsoleInv
  <1>1. <<>> \in Seq(Char) /\ Len(<<>>) = 0
    OBVIOUS
  <1>i. /\ seen = <<>> /\ shift = <<>> /\ ps = <<>> /\ fifo = <<>> /\ out = <<>> /\ printed = <<>>
        /\ str = <<>> /\ rxq = <<>> /\ typed = <<>> /\ input = <<>> /\ buf = <<>>
        /\ call = "none" /\ heap = 0 /\ blocks = {} /\ ~last_was_cr /\ ~halted
    BY Zenon DEF ConsoleInit
  <1>2. ConsoleTypes
    BY <1>1, <1>i DEF ConsoleTypes
  <1>3. OutputInv
    BY <1>i DEF OutputInv, Way, Sent, ExitFlushes
  <1>4. HeapInv
    BY <1>i, ConsoleAssumption DEF HeapInv, BlocksApart
  <1>5. InputInv
    <2>1. Kept = {}
      BY <1>1, <1>i DEF Kept
    <2>2. Cardinality(Kept) = 0
      BY <2>1, FS_EmptySet
    <2>3. input \o buf = <<>>
      BY <1>i
    <2>4. QED
      BY <1>1, <1>i, <2>1, <2>2, <2>3 DEF InputInv, ReadsTranslated
  <1>6. QED
    BY <1>2, <1>3, <1>4, <1>5 DEF ConsoleInv

\* The C runtime keeps what it promises to a program, whatever the size of the FIFO
\* and the heap and whatever is printed: everything sent goes out whole and in order
\* and has left the port when _exit() halts; what is read is what was typed with its
\* line ends translated; and blocks of the heap are apart.
THEOREM RuntimeKeepsPromises == ConsoleSpec => []ConsoleRight
  <1>1. ConsoleInit => ConsoleInv
    BY ConsoleStarts
  <1>2. ConsoleInv /\ [ConsoleNext]_consolevars => ConsoleInv'
    BY ConsoleStep
  <1>3. ConsoleInv => ConsoleRight
    <2> SUFFICES ASSUME ConsoleInv PROVE ConsoleRight
      OBVIOUS
    <2>1. ExitFlushes /\ ReadsTranslated /\ BlocksApart
      BY DEF ConsoleInv, OutputInv, InputInv, HeapInv
    <2>2. NothingDropped
      <3> SUFFICES ASSUME call # "exit" PROVE seen \o shift \o ps \o fifo \o out = printed
        BY DEF NothingDropped
      <3>1. Way = printed \o <<>> /\ printed \in Seq(Char)
        BY DEF ConsoleInv, ConsoleTypes, OutputInv, Sent
      <3>2. QED
        BY <3>1, NothingBetween DEF Way
    <2>3. QED
      BY <2>1, <2>2 DEF ConsoleRight
  <1>4. QED
    BY <1>1, <1>2, <1>3, PTL DEF ConsoleSpec
=============================================================================
