------------------------------ MODULE BusDelay ------------------------------
(***************************************************************************)
(* rtl/cpu/busdelay.v with DELAY_STALL = 1, as main.v instantiates it: a   *)
(* pipelined Wishbone bus is passed on one clock later.  A second register *)
(* (r_stb, r_req) catches the request that arrives while the first one is  *)
(* stalled, so that the stall line needs no logic: o_wb_stall is r_stb.    *)
(*                                                                         *)
(* A request stands for the we, addr, data and sel lines.  The answer to a *)
(* request is identified with the request it answers.                      *)
(***************************************************************************)
CONSTANT Req

VARIABLES o_dly_cyc, o_dly_stb, o_dly_req,  \* the delayed bus
          r_stb, r_req,                     \* the request behind it
          o_wb_ack, o_wb_err, o_wb_data     \* what returns to the master

delayvars == <<o_dly_cyc, o_dly_stb, o_dly_req, r_stb, r_req, o_wb_ack,
               o_wb_err, o_wb_data>>

o_wb_stall == r_stb

DelayInit ==
  /\ o_dly_cyc = FALSE /\ o_dly_stb = FALSE /\ r_stb = FALSE
  /\ o_wb_ack = FALSE /\ o_wb_err = FALSE
  /\ o_dly_req \in Req /\ r_req \in Req /\ o_wb_data \in Req

\* The delayed request may be replaced: there is none, or it is accepted now.
Free(i_dly_stall) == ~i_dly_stall \/ ~o_dly_stb

\* Everything in flight is given up.
Flush(i_reset, i_wb_cyc, i_dly_err) ==
  i_reset \/ ~i_wb_cyc \/ (i_dly_err /\ o_dly_cyc) \/ o_wb_err

\* Variants named for the slip they show; no specification uses them.
NxtCycResumes(i_reset, i_wb_cyc, i_dly_err) ==
  o_dly_cyc' = (i_wb_cyc /\ ~i_reset /\ (~i_dly_err \/ ~o_dly_cyc))

NxtCyc(i_reset, i_wb_cyc, i_dly_err) ==
  o_dly_cyc' = (i_wb_cyc /\ ~i_reset /\ ~o_wb_err /\ (~i_dly_err \/ ~o_dly_cyc))

NxtStbForgetsSkid(i_reset, i_wb_cyc, i_wb_stb, i_dly_stall, i_dly_err) ==
  /\ o_dly_stb' = (~Flush(i_reset, i_wb_cyc, i_dly_err) /\
                     (Free(i_dly_stall) => i_wb_stb))
  /\ r_stb' = (~Flush(i_reset, i_wb_cyc, i_dly_err) /\
                 ~Free(i_dly_stall) /\ (r_stb \/ i_wb_stb))

NxtStb(i_reset, i_wb_cyc, i_wb_stb, i_dly_stall, i_dly_err) ==
  /\ o_dly_stb' = (~Flush(i_reset, i_wb_cyc, i_dly_err) /\
                     (Free(i_dly_stall) => r_stb \/ i_wb_stb))
  /\ r_stb' = (~Flush(i_reset, i_wb_cyc, i_dly_err) /\
                 ~Free(i_dly_stall) /\ (r_stb \/ i_wb_stb))

NxtReqOverwrites(i_wb_req, i_dly_stall) ==
  /\ o_dly_req' = IF r_stb THEN r_req ELSE i_wb_req
  /\ r_req' = IF Free(i_dly_stall) \/ ~r_stb THEN i_wb_req ELSE r_req

NxtReq(i_wb_req, i_dly_stall) ==
  /\ o_dly_req' = IF ~Free(i_dly_stall) THEN o_dly_req
                  ELSE IF r_stb THEN r_req ELSE i_wb_req
  /\ r_req' = IF Free(i_dly_stall) \/ ~r_stb THEN i_wb_req ELSE r_req

NxtReplyUngated(i_reset, i_wb_cyc, i_dly_ack, i_dly_err, i_dly_data) ==
  /\ o_wb_ack' = (~i_reset /\ i_wb_cyc /\ ~o_wb_err /\ i_dly_ack /\ ~i_dly_err)
  /\ o_wb_err' = (~i_reset /\ i_wb_cyc /\ i_dly_err /\ o_dly_cyc)
  /\ o_wb_data' = i_dly_data

NxtReply(i_reset, i_wb_cyc, i_dly_ack, i_dly_err, i_dly_data) ==
  /\ o_wb_ack' = (~i_reset /\ i_wb_cyc /\ ~o_wb_err
                    /\ i_dly_ack /\ o_dly_cyc /\ ~i_dly_err)
  /\ o_wb_err' = (~i_reset /\ i_wb_cyc /\ i_dly_err /\ o_dly_cyc)
  /\ o_wb_data' = i_dly_data

\* One edge of i_clk, given the lines the component sees before it: those of the
\* master, then those of the slave.
DelayEdge(i_reset, cyc, stb, req, stall, ack, err, data) ==
  /\ NxtCyc(i_reset, cyc, err)
  /\ NxtStb(i_reset, cyc, stb, stall, err)
  /\ NxtReq(req, stall)
  /\ NxtReply(i_reset, cyc, ack, err, data)

=============================================================================
