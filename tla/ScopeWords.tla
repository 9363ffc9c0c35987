----------------------------- MODULE ScopeWords -----------------------------
(***************************************************************************)
(* From wires to names: the words that the design gives to its scopes      *)
(* (o_debug of rtl/qflexpress.v and of rtl/enet/enetpackets.v) and what    *)
(* flashscope, erxscope and etxscope take them for, when they print a word *)
(* and when they write it into a VCD file.  Nothing but the order of the   *)
(* wires in the Verilog and the shifts in the C++ ties the one to the      *)
(* other.                                                                  *)
(*                                                                         *)
(* A word is the set of its bits that are set; high is the set of the wires*)
(* that are, bit k of wire w being <<w, k>>.                               *)
(***************************************************************************)
EXTENDS Integers, SequencesExt

CONSTANTS MaxHigh   \* wires that are high together

VARIABLES scopeprog, high, wordpc, word, told, traced
wordvars == <<scopeprog, high, wordpc, word, told, traced>>

\* A concatenation of wires, the leftmost uppermost: names and widths.  Each
\* is placed above the widths that follow it.
Ones1(names) == [i \in 1 .. Len(names) |-> <<names[i], 1>>]
Above(fields, i) == FoldLeft(LAMBDA n, f : n + f[2], 0, SubSeq(fields, i + 1, Len(fields)))
Placed(fields) == {<<fields[i][1], fields[i][2], Above(fields, i)>> : i \in 1 .. Len(fields)}
WireBits(placed) == UNION {{<<f[1], k>> : k \in 0 .. f[2] - 1} : f \in placed}

\* What a reader takes for set in a word, given the fields it looks at.
Seen(placed) == UNION {{<<f[1], k>> : k \in {j \in 0 .. f[2] - 1 : f[3] + j \in word}} : f \in placed}

-----------------------------------------------------------------------------
\* The wires.  Of flash_debug the scope gets the lower 31; its trigger is the 32nd.
flash_debug ==
  Ones1(<<"i_wb_cyc", "i_cfg_stb", "i_wb_stb", "o_wb_ack", "o_wb_stall", "o_qspi_cs_n", "o_qspi_sck">>)
    \o << <<"o_qspi_dat", 4>>, <<"o_qspi_mod", 2>>, <<"i_qspi_dat", 4>> >>
    \o Ones1(<<"cfg_mode", "cfg_cs", "cfg_speed", "cfg_dir", "actual_sck", "i_wb_we">>)
    \o << <<"wb_data", 8>> >>

\* RXSCOPE is set: the wires of the receiver.
net1_debug ==
  Ones1(<<"rx_trigger", "n_eop", "w_macerr", "w_broadcast", "n_rx_clear", "n_rx_miss",
          "n_rx_net_err", "n_rx_valid", "n_rx_busy", "w_rxwr", "w_npre", "w_rxmin", "w_rxcrc">>)
    \o << <<"w_rxcrcd", 8>> >> \o Ones1(<<"w_rxcrcerr", "w_rxmac", "i_net_rx_dv">>)
    \o << <<"i_net_rxd", 8>> >>

Wires == IF scopeprog = "flashscope" THEN flash_debug ELSE net1_debug

-----------------------------------------------------------------------------
\* flashscope.cpp: decode() prints the fields of the configuration port only while
\* that is in use, and does not print actual_sck.
flash_fields ==
  {<<"i_wb_cyc", 1, 30>>, <<"i_cfg_stb", 1, 29>>, <<"i_wb_stb", 1, 28>>, <<"o_wb_ack", 1, 27>>,
   <<"o_wb_stall", 1, 26>>, <<"o_qspi_cs_n", 1, 25>>, <<"o_qspi_sck", 1, 24>>,
   <<"o_qspi_dat", 4, 20>>, <<"o_qspi_mod", 2, 18>>, <<"i_qspi_dat", 4, 14>>, <<"cfg_mode", 1, 13>>,
   <<"cfg_cs", 1, 12>>, <<"cfg_speed", 1, 11>>, <<"cfg_dir", 1, 10>>, <<"i_wb_we", 1, 8>>,
   <<"wb_data", 8, 0>>}
decode_flash ==
  LET seen == Seen(flash_fields)
  IN  IF <<"cfg_mode", 0>> \in seen THEN seen
      ELSE {b \in seen : b[1] \notin {"cfg_cs", "cfg_speed", "cfg_dir"}}

define_traces_flash == flash_fields \cup {<<"actual_sck", 1, 9>>}

\* erxscope.cpp: decode() prints a byte only when the stage has one.
erx_fields ==
  {<<"rx_trigger", 1, 31>>, <<"n_eop", 1, 30>>, <<"w_macerr", 1, 29>>, <<"w_broadcast", 1, 28>>,
   <<"n_rx_clear", 1, 27>>, <<"n_rx_miss", 1, 26>>, <<"n_rx_net_err", 1, 25>>,
   <<"n_rx_valid", 1, 24>>, <<"n_rx_busy", 1, 23>>, <<"w_rxwr", 1, 22>>, <<"w_npre", 1, 21>>,
   <<"w_rxmin", 1, 20>>, <<"w_rxcrc", 1, 19>>, <<"w_rxcrcd", 8, 11>>, <<"w_rxcrcerr", 1, 10>>,
   <<"w_rxmac", 1, 9>>, <<"i_net_rx_dv", 1, 8>>, <<"i_net_rxd", 8, 0>>}
decode_erx ==
  LET seen == Seen(erx_fields)
  IN  {b \in seen : /\ b[1] = "w_rxcrcd" => <<"w_rxcrc", 0>> \in seen
                    /\ b[1] = "i_net_rxd" => <<"i_net_rx_dv", 0>> \in seen}

define_traces_erx == {f \in erx_fields : f[1] # "rx_trigger"}

\* etxscope.cpp holds the text of erxscope.cpp.
decode_etx == decode_erx
define_traces_etx == define_traces_erx

-----------------------------------------------------------------------------
WordInit ==
  /\ scopeprog \in {"flashscope", "erxscope", "etxscope"}
  /\ high = {} /\ wordpc = "wires" /\ word = {} /\ told = {} /\ traced = {}

\* The wires change.
Wire ==
  /\ wordpc = "wires" /\ Cardinality(high) < MaxHigh
  /\ \E b \in WireBits(Placed(Wires)) \ high : high' = high \cup {b}
  /\ UNCHANGED <<scopeprog, wordpc, word, told, traced>>

\* A word is recorded, and read.
Record ==
  /\ wordpc = "wires" /\ wordpc' = "print"
  /\ word' = {f[3] + k : <<f, k>> \in {<<g, j>> \in Placed(Wires) \X (0 .. 7) : <<g[1], j>> \in high}}
  /\ UNCHANGED <<scopeprog, high, told, traced>>

\* print() calls decode().
PrintWord ==
  /\ wordpc = "print" /\ wordpc' = "trace"
  /\ told' = CASE scopeprog = "flashscope" -> decode_flash
                [] scopeprog = "erxscope"   -> decode_erx
                [] scopeprog = "etxscope"   -> decode_etx
  /\ UNCHANGED <<scopeprog, high, word, traced>>

\* writevcd() writes every trace with write_binary_trace().
write_binary_trace ==
  /\ wordpc = "trace" /\ wordpc' = "done"
  /\ traced' = Seen(CASE scopeprog = "flashscope" -> define_traces_flash
                      [] scopeprog = "erxscope"   -> define_traces_erx
                      [] scopeprog = "etxscope"   -> define_traces_etx)
  /\ UNCHANGED <<scopeprog, high, word, told>>

WordNext == Wire \/ Record \/ PrintWord \/ write_binary_trace
WordSpec == WordInit /\ [][WordNext]_wordvars

-----------------------------------------------------------------------------
\* Both programs call every wire by its name: nothing is told of a wire that was
\* low, and the VCD file has exactly the wires that were high (the trigger has a trace
\* of its own).
SignalsNamed ==
  wordpc = "done" => told \subseteq high /\ traced = high \ {<<"rx_trigger", 0>>}
=============================================================================
