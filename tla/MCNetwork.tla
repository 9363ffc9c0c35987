----------------------------- MODULE MCNetwork ------------------------------
(***************************************************************************)
(* The network software of the board's two processors: the main loop and   *)
(* the ARP table of the one (sw/rv32), the two tasks of the other's        *)
(* (sw/board).  They share no state: in a behaviour one of them runs.      *)
(***************************************************************************)
EXTENDS NetStack, ArpTable, BoardPing

VARIABLE part
softvars == <<part, netvars, arpvars, pingvars>>

SoftInit ==
  /\ part \in {"loop", "table", "ping"}
  /\ NetInit /\ ArpInit
  /\ PingInit /\ (part # "ping" => lastpps = 1)

InLoop  == part = "loop" /\ NetNext /\ UNCHANGED <<part, arpvars, pingvars>>
InTable == part = "table" /\ ArpNext /\ UNCHANGED <<part, netvars, pingvars>>
InTasks == part = "ping" /\ PingNext /\ UNCHANGED <<part, netvars, arpvars>>

SoftSpec == SoftInit /\ [][InLoop \/ InTable \/ InTasks]_softvars
=============================================================================
