---------------------------- MODULE MCDebugLink -----------------------------
(***************************************************************************)
(* The way of the debugger to the board, stage by stage: the words of the  *)
(* debugging bus, the bridge from the network, the serial line and the bus *)
(* that the debugger shares with the processor.  The stages are modelled   *)
(* apart and share no state: in a behaviour one of them runs.              *)
(***************************************************************************)
EXTENDS MCTtyBus, Bridge, Serial, WbBus

\* Bytes the board sends, and clients that connect, on each channel.
MCBytes == [cmd |-> 2, con |-> 1]
MCConns == [cmd |-> 2, con |-> 1]

VARIABLE part
stagevars == <<part, ttyvars, bridgevars, serialvars, busvars>>

StageInit ==
  /\ part \in {"words", "bridge", "serial", "bus"}
  /\ TtyInit /\ BusInit
  /\ BridgeInit /\ (part # "bridge" => impl = "netuart")
  /\ SerialInit /\ (part # "serial" => dir = "down")

Words  == part = "words" /\ TtyNext /\ UNCHANGED <<part, bridgevars, serialvars, busvars>>
Bytes  == part = "bridge" /\ BridgeNext /\ UNCHANGED <<part, ttyvars, serialvars, busvars>>
Line   == part = "serial" /\ SerialNext /\ UNCHANGED <<part, ttyvars, bridgevars, busvars>>
OnBus  == part = "bus" /\ BusNext /\ UNCHANGED <<part, ttyvars, bridgevars, serialvars>>

StageSpec == StageInit /\ [][Words \/ Bytes \/ Line \/ OnBus]_stagevars
=============================================================================
