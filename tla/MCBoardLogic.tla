---------------------------- MODULE MCBoardLogic ----------------------------
(***************************************************************************)
(* The circuits that the proofs are about, for TLC: the FIFO, the transfer *)
(* of a value between clocks, the bus delay and the executor of the        *)
(* debugging bus.  They share no state.  In a behaviour one of them runs,  *)
(* and the others stay as they were reset.                                 *)
(***************************************************************************)
EXTENDS WbuFifo, TfrValue, BusDelayLink, WbuExec

VARIABLE part
logicvars == <<part, fifovars, tfrvars, linkvars, execvars>>

LogicInit ==
  /\ part \in {"fifo", "tfr", "link", "exec"}
  /\ FifoInit /\ (part # "fifo" => \A a \in FifoAddr : fifo[a] = o_data /\ o_data = CHOOSE d \in Data : TRUE)
  /\ TfrInit /\ (part # "tfr" => i_value = Zero)
  /\ LinkInit
  /\ part # "link" => /\ {o_dly_req, r_req, o_wb_data, i_wb_req} = {CHOOSE r \in Req : TRUE}
                      /\ ~i_dly_stall
  /\ ExecInit /\ (part # "exec" => o_wb_addr = 0)

Fifo == part = "fifo" /\ FifoNext /\ UNCHANGED <<part, tfrvars, linkvars, execvars>>
Tfr(A) == part = "tfr" /\ A /\ UNCHANGED <<part, fifovars, linkvars, execvars>>
Link == part = "link" /\ LinkNext /\ UNCHANGED <<part, fifovars, tfrvars, execvars>>
Exec == part = "exec" /\ ExecNext /\ UNCHANGED <<part, fifovars, tfrvars, linkvars>>

LogicNext == Fifo \/ Tfr(TfrNext) \/ Link \/ Exec

\* The fairness is that of TfrLiveSpec and of ExecLiveSpec.
LogicSpec ==
  /\ LogicInit /\ [][LogicNext]_logicvars
  /\ WF_logicvars(Tfr(AClk \/ ABClk)) /\ WF_logicvars(Tfr(BClk \/ ABClk))
  /\ WF_logicvars(Exec)
=============================================================================
