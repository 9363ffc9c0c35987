------------------------------ MODULE TfrValue ------------------------------
(***************************************************************************)
(* rtl/tfrvalue.v: a multi-bit value crosses from clock domain A to clock  *)
(* domain B under a four-phase handshake.  enetpackets uses it for the     *)
(* transmit speed and for the link status of the PHY.                      *)
(*                                                                         *)
(* A step is an edge of i_aclk, an edge of i_bclk, or both at once.  In    *)
(* the last case each side samples what the other held before the edge,   *)
(* which together with the two single steps covers every way in which a    *)
(* synchroniser flip-flop may resolve.                                     *)
(***************************************************************************)
EXTENDS Naturals

CONSTANTS Value,   \* the values that are transferred
          Zero     \* the value of the registers after configuration

ASSUME ZeroAssumption == Zero \in Value

VARIABLES i_value,                       \* input, changes with i_aclk
          r_aval, r_atfr, q_ack, r_aack, \* registers clocked by i_aclk
          q_tfr, r_btfr, r_back, r_value \* registers clocked by i_bclk

avars == <<r_aval, r_atfr, q_ack, r_aack>>
bvars == <<q_tfr, r_btfr, r_back, r_value>>
tfrvars  == <<i_value, r_aval, r_atfr, q_ack, r_aack, q_tfr, r_btfr, r_back,
           r_value>>

TfrInit ==
  /\ i_value \in Value
  /\ r_aval = Zero
  /\ r_value = Zero
  /\ r_atfr = FALSE /\ q_ack = FALSE /\ r_aack = FALSE
  /\ q_tfr = FALSE /\ r_btfr = FALSE /\ r_back = FALSE

\* Two slips: not waiting for the acknowledgement to be withdrawn, and following
\* the input while a transfer is under way.
LaunchWithoutReturn ==
  IF ~r_atfr
  THEN /\ r_aval' = i_value
       /\ r_atfr' = (i_value # r_aval)
  ELSE /\ r_aval' = r_aval
       /\ r_atfr' = (r_atfr /\ ~r_aack)

LaunchTracksInput ==
  /\ r_aval' = i_value
  /\ r_atfr' = IF ~r_atfr /\ ~r_aack THEN i_value # r_aval
               ELSE r_atfr /\ ~r_aack

\* Between transfers the input is sampled on every edge; a change starts one.
Launch ==
  IF ~r_atfr /\ ~r_aack
  THEN /\ r_aval' = i_value
       /\ r_atfr' = (i_value # r_aval)
  ELSE /\ r_aval' = r_aval
       /\ r_atfr' = (r_atfr /\ ~r_aack)

Capture ==
  IF r_btfr /\ ~r_back
  THEN r_value' = r_aval /\ r_back' = TRUE
  ELSE r_value' = r_value /\ r_back' = (r_back /\ r_btfr)

AEdge ==
  /\ Launch
  /\ q_ack' = r_back
  /\ r_aack' = q_ack

BEdge ==
  /\ q_tfr' = r_atfr
  /\ r_btfr' = q_tfr
  /\ Capture

AClk  == AEdge /\ UNCHANGED bvars /\ UNCHANGED i_value
BClk  == BEdge /\ UNCHANGED avars /\ UNCHANGED i_value
ABClk == AEdge /\ BEdge /\ UNCHANGED i_value

\* Logic clocked by i_aclk may change the input between two of its edges.
ChangeInput == i_value' \in Value /\ UNCHANGED avars /\ UNCHANGED bvars

TfrNext == AClk \/ BClk \/ ABClk \/ ChangeInput

TfrSpec == TfrInit /\ [][TfrNext]_tfrvars

\* Both clocks keep running.  Nothing is assumed of their rates, and nothing of
\* the input, which may settle or never do.
TfrFairness == WF_tfrvars(AClk \/ ABClk) /\ WF_tfrvars(BClk \/ ABClk)

TfrLiveSpec == TfrSpec /\ TfrFairness

-----------------------------------------------------------------------------
\* Every register has a value of its kind.
TfrTypeOK ==
  /\ i_value \in Value /\ r_aval \in Value /\ r_value \in Value
  /\ r_atfr \in BOOLEAN /\ q_ack \in BOOLEAN /\ r_aack \in BOOLEAN
  /\ q_tfr \in BOOLEAN /\ r_btfr \in BOOLEAN /\ r_back \in BOOLEAN

\* A transfer goes round the ring of request and acknowledge flip-flops as one
\* rising edge followed by one falling edge: the induction assertions of the
\* module's own FORMAL section (lines 168-197), for clocks of any rates.
Handshake ==
  /\ ~r_atfr /\ ~r_aack => ~q_tfr /\ ~r_btfr /\ ~q_ack /\ ~r_back
  /\ r_atfr /\ r_aack => q_tfr /\ r_btfr /\ q_ack /\ r_back
  /\ ~(q_tfr /\ ~r_btfr /\ ~r_atfr) /\ ~(~q_tfr /\ r_btfr /\ r_atfr)
  /\ ~(q_ack /\ ~r_aack /\ ~r_back) /\ ~(~q_ack /\ r_aack /\ r_back)
  /\ r_atfr /\ ~(r_btfr /\ q_tfr) => ~r_aack /\ ~q_ack /\ ~r_back
  /\ r_back /\ ~(r_aack /\ q_ack) => r_btfr /\ q_tfr /\ r_atfr

\* Whenever no request is pending, or it has been answered, domain B holds the
\* very value domain A launched last: a transfer is never given up half way.
Agreement == ~r_atfr \/ r_back => r_value = r_aval

\* The six flip-flops form a ring that is inverted where it closes, and hold at
\* most one boundary between ones and zeros.  Handshake follows from it but is
\* not inductive by itself.
OneBoundary ==
  /\ r_atfr => /\ r_btfr => q_tfr
               /\ r_back => r_btfr
               /\ q_ack  => r_back
               /\ r_aack => q_ack
  /\ ~r_atfr => /\ q_tfr  => r_btfr
                /\ r_btfr => r_back
                /\ r_back => q_ack
                /\ q_ack  => r_aack

\* The inductive invariant of the proofs.
TfrInv == TfrTypeOK /\ OneBoundary /\ Agreement

\* The multi-bit value is only captured while its source holds still, even when
\* the two clocks tick together, so that no torn value is ever seen (the
\* FORMAL contract of lines 128-141).
NeverTorn == [][r_value' # r_value => r_value' = r_aval /\ r_aval' = r_aval]_tfrvars

\* The source register changes only in between transfers, with all four
\* synchroniser stages at rest.
LaunchesWhenIdle ==
  [][r_aval' # r_aval => ~q_tfr /\ ~r_btfr /\ ~q_ack /\ ~r_aack]_tfrvars

\* If the input settles, the output settles to the same value, however many
\* times the input changed before and however often it did so mid-transfer.
Delivered == \A v \in Value : <>[](i_value = v) => <>[](r_value = v)

=============================================================================
