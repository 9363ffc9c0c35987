------------------------------ MODULE MCFftPhy ------------------------------
(***************************************************************************)
(* The network port of the board, as testfft and readmdio use it, the      *)
(* latter with the simulated PHY; and the other simulated device that the  *)
(* bus waits for, the memory.  In a behaviour one of them runs.            *)
(***************************************************************************)
EXTENDS FftLink, Mdio, MemSim

MCValues == {Bin(\h0dd5, 16)}

VARIABLE part
portvars == <<part, fftvars, mdiovars, memvars>>

\* The many bits of the PHY's part are left out of behaviours in which it rests.
NoPhy ==
  /\ ectrl = [ack |-> FALSE] /\ phy = None /\ m_mem = None /\ i_mdio = 1
  /\ wb = [cyc |-> FALSE] /\ tool = [shown |-> <<>>] /\ writes = 0

PortInit ==
  /\ part \in {"fft", "phy", "memory"} /\ FftInit
  /\ IF part = "phy" THEN MdioInit ELSE NoPhy
  /\ MemInit /\ (part # "memory" => m_delay = CHOOSE d \in Delays : TRUE)

Transforms == part = "fft" /\ FftNext /\ UNCHANGED <<part, mdiovars, memvars>>
Manages    == part = "phy" /\ MdioNext /\ UNCHANGED <<part, fftvars, memvars>>
Stores     == part = "memory" /\ MemNext /\ UNCHANGED <<part, fftvars, mdiovars>>

PortSpec == PortInit /\ [][Transforms \/ Manages \/ Stores]_portvars
=============================================================================
