----------------------------- MODULE MCSoftware -----------------------------
(***************************************************************************)
(* The programs around the board, and what they rest on: the flash driver, *)
(* the loader, the C library's console, the scopes, the clocks of the      *)
(* simulator, the arithmetic, the register names and the packets.  They    *)
(* share no state: in a behaviour one of them runs.                        *)
(***************************************************************************)
EXTENDS MCFlash, MCLoader, Console, Scope, SimClock, Arith, Wbregs, Packets,
        ScopeWords, Scopc

\* What is printed.
MCStrings == {<<"a", "nl">>, <<"cr">>}

\* Numbers that strtoul() reads with and without a prefix, names of registers, of the
\* map and of neither; and maps with a name that stands twice, that is a register's,
\* that is on a line with more words, or that is for address 0.
Text(form, text, value) == [form |-> form, text |-> text, value |-> value]
MCArguments ==
  {Text("digit", "0x100", 8), Text("letter", "0xa00", 9), Text("zero", "0", 0),
   Text("digit", "4", 4), Text("alpha", "gpio", 0), Text("alpha", "ram", 0),
   Text("alpha", "main", 0), Text("alpha", "nothing", 0), Text("other", "_top", 0)}
MCRegNames ==
  <<[m_addr |-> 4, m_name |-> "gpio"], [m_addr |-> 4, m_name |-> "gpi"],
    [m_addr |-> 9, m_name |-> "ram"]>>
Line(form, value, nstr, extra) ==
  [astr |-> Text(form, "", value), nstr |-> nstr, extra |-> extra]
Lines == {Line("digit", 8, "main", FALSE), Line("digit", 9, "main", FALSE),
          Line("digit", 9, "_top", FALSE), Line("digit", 8, "ram", FALSE),
          Line("digit", 4, "_top", TRUE), Line("alpha", 0, "nothing", FALSE),
          Line("letter", 9, "main", FALSE), Line("digit", 0, "base", FALSE)}
MCMapFiles == {<<>>} \cup {<<a, b>> : a, b \in Lines}

ASSUME MCLinked == ProgramsLinked

VARIABLE part
progvars == <<part, flashvars, loadervars, consolevars, scopevars, simvars,
              arithvars, regvars, pktvars, wordvars, scopcvars>>

Parts == {"flash", "loader", "console", "scope", "clocks", "arithmetic",
          "registers", "packets", "words", "runs"}

ProgInit ==
  /\ part \in Parts
  /\ LoaderInit /\ ConsoleInit /\ ArithInit /\ PktInit
  /\ WordInit /\ (part # "words" => scopeprog = "flashscope")
  /\ FlashInit
  /\ part # "flash" =>
       mem0 = (CHOOSE i \in Images : TRUE) /\ req = CHOOSE r \in Requests : TRUE
  /\ ScopeInit /\ (part # "scope" => br_holdoff = 0)
  /\ ScopcInit /\ (part # "runs" => br.br_holdoff = 0)
  /\ SimInit
  /\ part # "clocks" =>
       ~willexit /\ \A k \in Clocks : m_increment_ps[k] = set_interval_ps(CHOOSE i \in Intervals : TRUE)
  /\ RegInit
  /\ part # "registers" => map_file = NoMap /\ argument = CHOOSE v \in Arguments : TRUE

\* Part p takes a step, and all else stays.
Still(vs) == UNCHANGED <<part, vs>>

Flashes  == part = "flash" /\ FlashNext
            /\ Still(<<loadervars, consolevars, scopevars, simvars, arithvars, regvars, pktvars, wordvars, scopcvars>>)
Loads    == part = "loader" /\ LoaderNext
            /\ Still(<<flashvars, consolevars, scopevars, simvars, arithvars, regvars, pktvars, wordvars, scopcvars>>)
Prints   == part = "console" /\ ConsoleNext
            /\ Still(<<flashvars, loadervars, scopevars, simvars, arithvars, regvars, pktvars, wordvars, scopcvars>>)
Scopes   == part = "scope" /\ ScopeNext
            /\ Still(<<flashvars, loadervars, consolevars, simvars, arithvars, regvars, pktvars, wordvars, scopcvars>>)
Ticks    == part = "clocks" /\ SimNext
            /\ Still(<<flashvars, loadervars, consolevars, scopevars, arithvars, regvars, pktvars, wordvars, scopcvars>>)
Computes == part = "arithmetic" /\ ArithNext
            /\ Still(<<flashvars, loadervars, consolevars, scopevars, simvars, regvars, pktvars, wordvars, scopcvars>>)
Names    == part = "registers" /\ RegNext
            /\ Still(<<flashvars, loadervars, consolevars, scopevars, simvars, arithvars, pktvars, wordvars, scopcvars>>)
Packs    == part = "packets" /\ PktNext
            /\ Still(<<flashvars, loadervars, consolevars, scopevars, simvars, arithvars, regvars, wordvars, scopcvars>>)
Decodes  == part = "words" /\ WordNext
            /\ Still(<<flashvars, loadervars, consolevars, scopevars, simvars, arithvars, regvars, pktvars, scopcvars>>)
Compacts == part = "runs" /\ ScopcNext
            /\ Still(<<flashvars, loadervars, consolevars, scopevars, simvars, arithvars, regvars, pktvars, wordvars>>)

ProgNext == Flashes \/ Loads \/ Prints \/ Scopes \/ Ticks \/ Computes \/ Names \/ Packs
            \/ Decodes \/ Compacts
ProgSpec == ProgInit /\ [][ProgNext]_progvars

\* What the scope programs tell is what happened: of the compressed scope too they mark
\* the item that triggered, and the wires that they name are the ones that were high.
TracesTold == RunMarked /\ SignalsNamed

\* What the libraries compute, and what the packets made from it look like.
LibraryRight == ArithmeticRight /\ PacketsRight
=============================================================================
