------------------------------- MODULE Wbregs -------------------------------
(***************************************************************************)
(* Peeking and poking by name: sw/host/wbregs.cpp and the register names   *)
(* of regdefs.cpp.  An argument is a number or a name; a name may be one   *)
(* of a linker map's, or of a register's.  A text is what the code's tests *)
(* tell apart: its first letters, and what strtoul() makes of it.          *)
(***************************************************************************)
EXTENDS Integers, Sequences

CONSTANTS RegNames,   \* the registers: a sequence of [m_addr, m_name]
          MapFiles,   \* linker maps: sequences of [astr, nstr, extra]
          Arguments,  \* texts: see below
          NoMap

\* Tables are indexed by numbers; the names of registers (regdefs.cpp) start with a
\* letter; and a name is not the absence of one.
ASSUME TablesAssumption ==
  /\ DOMAIN RegNames \subseteq Nat
  /\ \A v \in Arguments : v.form # "alpha" => \A i \in DOMAIN RegNames : RegNames[i].m_name # v.text
  /\ \A m \in MapFiles \ {NoMap} : DOMAIN m \subseteq Nat /\ \A i \in DOMAIN m : m[i].nstr # "(null)"

VARIABLES argument, map_file, address, nm, wpc, accessed
regvars == <<argument, map_file, address, nm, wpc, accessed>>

\* A text: "digit" for a number whose first digit is decimal, "letter" for a
\* hexadecimal one that starts with a letter, "zero" for 0 itself, "alpha" and "other"
\* for names that do and that do not start with a letter.
NoName     == "(null)"
isvalue(v) == v.form = "digit"
isalpha(v) == v.form = "alpha"
strtoul(v) == v.value

-----------------------------------------------------------------------------
\* The loops through the names and the lines stop at the first that fits.
FirstFit(found) == CHOOSE i \in found : \A j \in found : i <= j

\* Lines of a linker map count if they have two words and the first is a value.
Usable(e) == isvalue(e.astr) /\ ~e.extra

getmap_address(m, name) ==
  LET found == {i \in DOMAIN m : Usable(m[i]) /\ m[i].nstr = name.text} IN
  IF found = {} THEN 0 ELSE strtoul(m[FirstFit(found)].astr)

getmap_name(m, val) ==
  LET found == {i \in DOMAIN m : Usable(m[i]) /\ strtoul(m[i].astr) = val} IN
  IF found = {} THEN NoName ELSE m[FirstFit(found)].nstr

addrname(v) ==
  LET found == {i \in DOMAIN RegNames : RegNames[i].m_addr = v} IN
  IF found = {} THEN NoName ELSE RegNames[FirstFit(found)].m_name

\* addrdecode() ends the program at a name that it does not know.
Unknown(v) == isalpha(v) /\ \A i \in DOMAIN RegNames : RegNames[i].m_name # v.text
addrdecode(v) ==
  IF ~isalpha(v) THEN strtoul(v)
  ELSE RegNames[FirstFit({i \in DOMAIN RegNames : RegNames[i].m_name = v.text})].m_addr

-----------------------------------------------------------------------------
RegInit ==
  /\ argument \in Arguments /\ map_file \in MapFiles \cup {NoMap}
  /\ address = 0 /\ nm = NoName /\ wpc = "start" /\ accessed = {}

Named(a, n) == address' = a /\ nm' = n /\ wpc' = "named"

Decoded ==
  IF Unknown(argument) THEN wpc' = "exit" /\ UNCHANGED <<address, nm>>
  ELSE Named(addrdecode(argument), addrname(addrdecode(argument)))

\* Variant: a name that the map does not have is not looked for elsewhere.
Decode_mapped ==
  /\ wpc = "start" /\ UNCHANGED <<argument, map_file, accessed>>
  /\ IF isvalue(argument) THEN Named(strtoul(argument), addrname(strtoul(argument)))
     ELSE IF map_file # NoMap
     THEN LET a == getmap_address(map_file, argument) IN Named(a, getmap_name(map_file, a))
     ELSE Decoded

\* main() finds the address, and a name for it.
Decode ==
  /\ wpc = "start" /\ UNCHANGED <<argument, map_file, accessed>>
  /\ \/ /\ isvalue(argument)
        /\ LET a == strtoul(argument)
               n == IF map_file = NoMap THEN NoName ELSE getmap_name(map_file, a)
           IN  Named(a, IF n = NoName THEN addrname(a) ELSE n)
     \/ /\ ~isvalue(argument) /\ map_file # NoMap
        /\ LET a == getmap_address(map_file, argument)
               n == getmap_name(map_file, a)
           IN  IF n = NoName THEN Decoded ELSE Named(a, n)
     \/ ~isvalue(argument) /\ map_file = NoMap /\ Decoded

\* The register is read or written.
AccessReg ==
  /\ wpc = "named" /\ wpc' = "done" /\ accessed' = {address}
  /\ UNCHANGED <<argument, map_file, address, nm>>

RegNext == Decode \/ AccessReg
RegSpec == RegInit /\ [][RegNext]_regvars

-----------------------------------------------------------------------------
\* What an argument may mean: "Address is either a 32-bit value with the syntax of
\* strtoul, or a register name", or a name of the map
\* (with a line of its own: assignments have more words).
Meanings ==
  (IF argument.form \in {"digit", "letter", "zero"} THEN {argument.value}
   ELSE {RegNames[i].m_addr : i \in {k \in DOMAIN RegNames : RegNames[k].m_name = argument.text}})
  \cup (IF map_file = NoMap \/ isvalue(argument) THEN {}
        ELSE {strtoul(map_file[i].astr) :
                i \in {k \in DOMAIN map_file : /\ Usable(map_file[k])
                                                /\ map_file[k].nstr = argument.text}})

\* getmap_address() returns 0 for a name it has not found, and main() takes that for
\* an address if the map has a name for 0.
Mistaken ==
  IF /\ map_file # NoMap /\ ~isvalue(argument)
     /\ \E i \in DOMAIN map_file : Usable(map_file[i]) /\ strtoul(map_file[i].astr) = 0
  THEN {0} ELSE {}

\* Address a is one that the argument may stand for.
Meant(a) ==
  /\ Meanings # {} => a \in Meanings \cup Mistaken
  /\ Meanings = {} /\ isalpha(argument) => a \in Mistaken

\* Through all of the ways to look a name up, an argument that means something never
\* touches another address, and one that starts with a letter and means nothing
\* touches none; but for address 0, if the map has a name for it.
AddressMeant == \A a \in accessed : Meant(a)

\* "Address is either a 32-bit value with the syntax of strtoul, or a register name":
\* the same, also for a map with a name for address 0.
AddressAlwaysMeant == Meanings # {} => accessed \subseteq Meanings
=============================================================================
