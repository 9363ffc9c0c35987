---------------------------- MODULE BusDelayLink ----------------------------
(***************************************************************************)
(* The bus delay between a master and a slave that both follow the         *)
(* pipelined Wishbone protocol and are otherwise arbitrary.  The state is  *)
(* that of all lines during one clock period; a step is the edge that ends *)
(* it.  Two queues record what each side may believe: `owed' the requests  *)
(* of this bus cycle that the master saw accepted and not yet answered,    *)
(* `accepted' those the slave took and did not answer.                     *)
(***************************************************************************)
EXTENDS BusDelay, Naturals, Sequences

CONSTANT MaxOwed    \* how many requests the master keeps in flight

ASSUME ReqAssumption == Req # {} /\ MaxOwed \in Nat

VARIABLES i_reset, i_wb_cyc, i_wb_stb, i_wb_req,  \* driven by the master
          i_dly_stall, i_dly_ack, i_dly_err,      \* driven by the slave
          owed, accepted

lines  == <<i_reset, i_wb_cyc, i_wb_stb, i_wb_req,
            i_dly_stall, i_dly_ack, i_dly_err>>
linkvars   == <<delayvars, lines, owed, accepted>>

\* toplevel.v asserts reset up to the first edge, before any bus cycle.
LinkInit ==
  /\ DelayInit
  /\ i_reset = TRUE
  /\ i_wb_cyc = FALSE /\ i_wb_stb = FALSE /\ i_wb_req \in Req
  /\ i_dly_stall \in BOOLEAN /\ i_dly_ack = FALSE /\ i_dly_err = FALSE
  /\ owed = <<>> /\ accepted = <<>>

\* The data lines of the slave answer the oldest request it has.
i_dly_data(d) == IF accepted # <<>> THEN d = Head(accepted) ELSE d \in Req

If(cond, s) == IF cond THEN s ELSE <<>>

\* What the master counts.  An error, or dropping cyc, ends all requests.
Account ==
  owed' = IF ~i_wb_cyc \/ o_wb_err THEN <<>>
          ELSE (IF o_wb_ack /\ owed # <<>> THEN Tail(owed) ELSE owed)
               \o If(i_wb_stb /\ ~o_wb_stall, <<i_wb_req>>)

\* What the slave holds.  It forgets everything while cyc is low.
SlaveTakes ==
  accepted' = IF ~o_dly_cyc THEN <<>>
              ELSE (IF i_dly_ack THEN Tail(accepted) ELSE accepted)
                   \o If(o_dly_stb /\ ~i_dly_stall, <<o_dly_req>>)

\* A master may drop cyc at any time.  As long as it does not, it holds a
\* stalled request; stb is never raised without cyc.
MasterMoves ==
  /\ i_reset' = FALSE
  /\ i_wb_cyc' \in BOOLEAN /\ i_wb_stb' \in BOOLEAN /\ i_wb_req' \in Req
  /\ i_wb_stb' => i_wb_cyc'
  /\ i_wb_stb /\ o_wb_stall /\ i_wb_cyc' => i_wb_stb' /\ i_wb_req' = i_wb_req
  /\ i_wb_stb' => Len(owed') < MaxOwed

\* A slave acknowledges only what it has taken, perhaps with cyc already low.
\* An error may already accompany the request that causes it, or come later.
SlaveMoves ==
  /\ i_dly_stall' \in BOOLEAN /\ i_dly_ack' \in BOOLEAN /\ i_dly_err' \in BOOLEAN
  /\ i_dly_ack' => accepted' # <<>>
  /\ i_dly_err' => accepted' # <<>> \/ o_dly_stb'

LinkNext ==
  /\ \E d \in Req :
       /\ i_dly_data(d)
       /\ DelayEdge(i_reset, i_wb_cyc, i_wb_stb, i_wb_req,
                    i_dly_stall, i_dly_ack, i_dly_err, d)
  /\ Account
  /\ SlaveTakes
  /\ MasterMoves
  /\ SlaveMoves

LinkSpec == LinkInit /\ [][LinkNext]_linkvars

-----------------------------------------------------------------------------
\* Every line has a value of its kind.
LinkTypeOK ==
  /\ o_dly_cyc \in BOOLEAN /\ o_dly_stb \in BOOLEAN /\ r_stb \in BOOLEAN
  /\ o_wb_ack \in BOOLEAN /\ o_wb_err \in BOOLEAN
  /\ o_dly_req \in Req /\ r_req \in Req /\ o_wb_data \in Req
  /\ i_reset \in BOOLEAN
  /\ i_wb_cyc \in BOOLEAN /\ i_wb_stb \in BOOLEAN /\ i_wb_req \in Req
  /\ i_dly_stall \in BOOLEAN /\ i_dly_ack \in BOOLEAN /\ i_dly_err \in BOOLEAN
  /\ owed \in Seq(Req) /\ accepted \in Seq(Req)

\* The requests between the master and the slave, in order.
Pending == If(o_dly_stb, <<o_dly_req>>) \o If(r_stb, <<r_req>>)

\* Inside a bus cycle, what the master waits for is what is on its way back,
\* then what the slave holds, then what is on its way there: no request is lost,
\* repeated or overtaken, and no answer of an abandoned bus cycle arrives in the
\* next one, even if cyc was low for a single clock.
Conservation ==
  i_wb_cyc /\ ~o_wb_err =>
    owed = If(o_wb_ack, <<o_wb_data>>) \o If(o_dly_cyc, accepted) \o Pending

\* The delayed bus never strobes outside of a bus cycle, and the second register
\* is used only behind the first.
StrobesInCycle ==
  /\ o_dly_stb => o_dly_cyc
  /\ r_stb => o_dly_stb

\* What the two sides promise in every clock period.
Protocol ==
  /\ i_reset => ~i_wb_cyc
  /\ i_wb_stb => i_wb_cyc
  /\ i_dly_ack => accepted # <<>>

\* The inductive invariant of the proofs.
LinkInv == LinkTypeOK /\ Protocol /\ StrobesInCycle /\ Conservation

\* The master is answered only while it waits for something, and an answer is
\* the answer to its oldest request.
AnswersOldest ==
  o_wb_ack /\ i_wb_cyc /\ ~o_wb_err => owed # <<>> /\ o_wb_data = Head(owed)

\* The delayed bus follows the protocol its slaves rely on: a request that is
\* stalled stays as it is for as long as the bus cycle lasts.
HoldsStalled ==
  [][o_dly_stb /\ i_dly_stall /\ o_dly_cyc'
       => o_dly_stb' /\ o_dly_req' = o_dly_req]_linkvars

\* An error ends the delayed bus cycle at once and keeps it ended until the
\* master has seen the error, whatever the master is doing meanwhile.
ErrorEndsCycle == [][(o_dly_cyc /\ i_dly_err) \/ o_wb_err => ~o_dly_cyc']_linkvars

=============================================================================
