------------------------------- MODULE Scopc --------------------------------
(***************************************************************************)
(* The compressed logic analyser rtl/wbscopc.v, which records the flash    *)
(* controller (main.v has one clock for both sides, SYNCHRONOUS, and       *)
(* samples in every clock), and the branches of sw/host/scopecls.cpp that  *)
(* flashscope takes to read it.                                            *)
(*                                                                         *)
(* A word is a sample, or says how often the sample before it is repeated: *)
(* run + 1 times.  fired marks the sample that the scope triggered on; the *)
(* hardware has no such bit.  The host's accesses are far apart; a program *)
(* that is interrupted while it reads is in module Scope.                  *)
(***************************************************************************)
EXTENDS Integers, Sequences, FiniteSets

CONSTANTS LGWORDS,      \* LGMEM of wbscopc.v
          STEP_BITS,
          Delayed,      \* values of the holdoff
          MaxChanges,   \* how often the recorded wires change
          MaxStarts     \* how often the scope is started again

Steps == 2 ^ STEP_BITS

\* A run may be counted.
ASSUME ScopcAssumption == Steps \in Nat \ {0, 1}

VARIABLES br,           \* the control register: br_config and br_holdoff
          c,            \* the registers that a reset reaches
          wr,           \* those that it does not reach: the way to the memory
          raddrc,       \* raddr of wbscopc.v
          due,          \* the samples that are on their way to the memory
          viewer,       \* the program on the host
          changes, starts
scopcvars == <<br, c, wr, raddrc, due, viewer, changes, starts>>

MAX_STEP == Steps - 1
Depth    == 2 ^ LGWORDS
DLYSTOP  == 5
Sample(v, f) == [adr |-> FALSE, val |-> v, fired |-> f]
Run(n)       == [adr |-> TRUE, val |-> n, fired |-> FALSE]
Closed == [at |-> "none", m_scoplen |-> 0, m_holdoff |-> 0, m_data |-> <<>>, marked |-> {}]
NoneDue == [q |-> <<>>, last |-> -1]

\* What a reset gives to the registers that it reaches.
Cleared ==
  [fires |-> FALSE, dr_triggered |-> FALSE, dr_stopped |-> FALSE, holdoff_counter |-> 0,
   dr_stop_pipe |-> [i \in 1 .. DLYSTOP |-> FALSE],
   dr_force_write |-> TRUE, dr_force_inhibit |-> FALSE, ck_addr |-> 0,
   dr_run_timeout |-> TRUE, new_data |-> TRUE, imm |-> Run(0), lst |-> Run(0),
   waddr |-> 0, dr_primed |-> FALSE]

\* Before the first reset ends, which br_config starts with.
ScopcInit ==
  /\ \E h \in Delayed :
       br = [reset |-> TRUE, manual |-> FALSE, disable |-> FALSE, br_holdoff |-> h]
  /\ c = Cleared /\ raddrc = 0
  /\ wr = [qd_data |-> 0, record_ce |-> FALSE, r_data |-> Run(0),
           mem |-> [a \in 0 .. Depth - 1 |-> Run(0)]]
  /\ due = NoneDue /\ viewer = Closed /\ changes = 0 /\ starts = 0

-----------------------------------------------------------------------------
\* One edge of the clock.

dw_triggerc(i_trigger) == c.dr_primed /\ ((i_trigger /\ ~br.disable) \/ br.manual)

\* A sample becomes a word of its own, or lengthens the run.
Writes == c.new_data \/ c.dr_force_write \/ c.dr_stopped

\* Of the words of a run only the last is recorded.
Keeps == ~c.lst.adr \/ ~c.imm.adr

\* Variant: a run is ended one clock late.
RunEnds_late == c.ck_addr >= MAX_STEP

RunEnds == c.ck_addr >= MAX_STEP - 1

\* Variant: the sample that triggers is not forced into a word of its own.
Forces_run(i_trigger) ==
  (c.dr_run_timeout /\ ~c.dr_force_write /\ ~c.dr_force_inhibit) \/ ~c.dr_primed

Forces(i_trigger) ==
  \/ c.dr_run_timeout /\ ~c.dr_force_write /\ ~c.dr_force_inhibit
  \/ dw_triggerc(i_trigger) /\ ~c.dr_triggered
  \/ ~c.dr_primed

Recorded(i_trigger, i_data) ==
  [fires |-> ~c.dr_triggered /\ dw_triggerc(i_trigger),
   dr_triggered |-> c.dr_triggered \/ dw_triggerc(i_trigger),
   dr_stopped |-> c.dr_triggered /\ (c.dr_stopped \/ c.holdoff_counter >= br.br_holdoff),
   holdoff_counter |-> IF c.dr_triggered /\ ~c.dr_stopped THEN c.holdoff_counter + 1
                       ELSE c.holdoff_counter,
   dr_stop_pipe |-> [i \in 1 .. DLYSTOP |-> IF i = 1 THEN c.dr_stopped ELSE c.dr_stop_pipe[i - 1]],
   dr_force_write |-> Forces(i_trigger),
   dr_force_inhibit |-> c.dr_force_write,
   ck_addr |-> IF Writes THEN 0 ELSE (c.ck_addr + 1) % Steps,
   dr_run_timeout |-> RunEnds,
   new_data |-> i_data # wr.qd_data,
   imm |-> IF Writes THEN Sample(wr.qd_data, c.fires) ELSE Run(c.ck_addr),
   lst |-> c.imm,
   waddr |-> IF wr.record_ce THEN (c.waddr + 1) % Depth ELSE c.waddr,
   dr_primed |-> c.dr_primed \/ (wr.record_ce /\ c.waddr = Depth - 1)]

\* The part that no reset reaches.  The memory is kept without the samples' values.
Unreset(i_data) ==
  [qd_data |-> i_data,
   record_ce |-> Keeps /\ ~c.dr_stop_pipe[3],
   r_data |-> IF Keeps THEN c.lst ELSE Sample(wr.qd_data, FALSE),
   mem |-> IF ~wr.record_ce THEN wr.mem
           ELSE [wr.mem EXCEPT ![c.waddr] = IF wr.r_data.adr THEN wr.r_data
                                            ELSE Sample(0, wr.r_data.fired)]]

-----------------------------------------------------------------------------
\* The samples that a word stands for.
Stands(w) == IF w.adr THEN w.val + 1 ELSE 1

\* The word in r_data goes into the memory, and takes its samples from those due.
\* After a reset a word of before it comes first, and then a run of nothing.
Stale == due.q = <<>> \/ (wr.r_data.adr /\ due.last = -1)
Settle ==
  LET w == wr.r_data
  IN  IF ~wr.record_ce \/ Stale THEN due
      ELSE [q    |-> SubSeq(due.q, Stands(w) + 1, Len(due.q)),
            last |-> IF w.adr THEN due.last ELSE w.val]

Clock(i_trigger, i_data) ==
  /\ br' = [br EXCEPT !.reset = FALSE]
  /\ raddrc' = IF br.reset THEN 0 ELSE raddrc
  /\ c' = IF br.reset THEN Cleared ELSE Recorded(i_trigger, i_data)
  /\ wr' = Unreset(i_data)
  /\ due' = IF br.reset \/ c.dr_stop_pipe[3] THEN NoneDue
            ELSE [q |-> Append(Settle.q, wr.qd_data), last |-> Settle.last]
  /\ changes' = IF i_data = wr.qd_data THEN changes ELSE changes + 1
  /\ changes' <= MaxChanges
  /\ UNCHANGED <<viewer, starts>>

\* wbregs writes the control register: another recording begins.
WriteControlc ==
  /\ viewer = Closed /\ ~br.reset /\ starts < MaxStarts /\ starts' = starts + 1
  /\ \E m, d \in BOOLEAN, h \in Delayed :
       br' = [reset |-> TRUE, manual |-> m, disable |-> d, br_holdoff |-> h]
  /\ UNCHANGED <<c, wr, raddrc, due, viewer, changes>>

-----------------------------------------------------------------------------
\* flashscope.  A scope that is not ready ends the program.  While it runs nobody
\* writes the control register.
readyc ==
  /\ viewer = Closed /\ ~br.reset /\ c.dr_stop_pipe[DLYSTOP] /\ c.dr_triggered
  /\ viewer' = [Closed EXCEPT !.at = "rawread", !.m_scoplen = Depth, !.m_holdoff = br.br_holdoff]
  /\ UNCHANGED <<br, c, wr, raddrc, due, changes, starts>>

rawreadc ==
  /\ viewer.at = "rawread" /\ viewer.m_scoplen > 4
  /\ viewer' = [viewer EXCEPT !.m_data = Append(@, wr.mem[(raddrc + c.waddr) % Depth]),
                  !.at = IF Len(viewer.m_data) + 1 = viewer.m_scoplen THEN "print" ELSE @]
  /\ raddrc' = (raddrc + 1) % Depth
  /\ UNCHANGED <<br, c, wr, due, changes, starts>>

\* The items before item i, counted by f.
Before(f(_), i) == LET n[j \in 0 .. i - 1] == IF j = 0 THEN 0 ELSE n[j - 1] + f(j) IN n[i - 1]

\* getaddresslen(): the first word counts for one.
getaddresslenc ==
  viewer.m_scoplen + Before(LAMBDA j : IF j > 1 /\ viewer.m_data[j].adr THEN viewer.m_data[j].val
                                       ELSE 0, viewer.m_scoplen + 1)
offsetc == getaddresslenc - viewer.m_holdoff - 1

Samples == {i \in 1 .. Len(viewer.m_data) : ~viewer.m_data[i].adr}

\* Variant: addrv is compared before it is incremented.
printc_early ==
  /\ viewer.at = "print"
  /\ viewer' = [viewer EXCEPT !.at = "writevcd", !.marked =
                  {i \in Samples : Before(LAMBDA j : Stands(viewer.m_data[j]), i) = offsetc}]
  /\ UNCHANGED <<br, c, wr, raddrc, due, changes, starts>>

\* print(): addrv is incremented before it is compared; a run counts whole, also the
\* first.
printc ==
  /\ viewer.at = "print"
  /\ viewer' = [viewer EXCEPT !.at = "writevcd", !.marked =
                  {i \in Samples : Before(LAMBDA j : Stands(viewer.m_data[j]), i) + 1 = offsetc}]
  /\ UNCHANGED <<br, c, wr, raddrc, due, changes, starts>>

\* writevcd(): a run that comes first counts for nothing; alen is subtracted.
writevcdc ==
  /\ viewer.at = "writevcd"
  /\ LET addrv(i) == Before(LAMBDA j : IF j = 1 /\ viewer.m_data[1].adr THEN 0
                                       ELSE Stands(viewer.m_data[j]), i)
     IN  viewer' = [viewer EXCEPT !.at = "done",
                      !.marked = {i \in Samples : addrv(i) - getaddresslenc = offsetc}]
  /\ UNCHANGED <<br, c, wr, raddrc, due, changes, starts>>

\* The program ends.
closeupc ==
  /\ viewer.at = "done" /\ viewer' = Closed /\ UNCHANGED <<br, c, wr, raddrc, due, changes, starts>>

ScopcNext ==
  \/ (\E i_trigger \in BOOLEAN, i_data \in {0, 1} : Clock(i_trigger, i_data)) \/ WriteControlc
  \/ readyc \/ rawreadc \/ printc \/ writevcdc \/ closeupc

ScopcSpec == ScopcInit /\ [][ScopcNext]_scopcvars

-----------------------------------------------------------------------------
\* "the other 31 bits tell you how many times to repeat the last value" (wbscopc.v,
\* which leaves out that it is once more): every word that is recorded stands for
\* exactly the samples that follow those of the word before.  None is lost or
\* repeated where runs end, at the longest run and its timeout, at the trigger and
\* where the recording stops.
RunsExact ==
  wr.record_ce /\ ~br.reset /\ ~Stale =>
    /\ Stands(wr.r_data) <= Len(due.q)
    /\ \A i \in 1 .. Stands(wr.r_data) :
         due.q[i] = IF wr.r_data.adr THEN due.last ELSE wr.r_data.val

Fired == {i \in 1 .. Len(viewer.m_data) : viewer.m_data[i].fired}
LeadingRun == viewer.m_data[1].adr /\ viewer.m_data[1].val > 0

\* The sample that triggered has a word of its own, and that is the item that print()
\* marks, unless the memory begins with a run.
RunMarked ==
  viewer.at = "writevcd" => Cardinality(Fired) = 1 /\ (~LeadingRun => viewer.marked = Fired)

\* "If the holdoff is zero, the triggered item is the very last one" (print()): also
\* when the memory begins with a run.
PrintMarks == viewer.at = "writevcd" => viewer.marked = Fired

\* "so we can see when our trigger took place" (write_trace_header()): the VCD file
\* shows the trigger.
VcdMarks == viewer.at = "done" /\ ~LeadingRun => viewer.marked # {}
=============================================================================
