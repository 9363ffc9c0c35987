------------------------------- MODULE Scope --------------------------------
(***************************************************************************)
(* The logic analyser: rtl/wbscope.v between the clock of the signals that *)
(* it records and the clock of the bus, and the host's class SCOPE (sw/host*)
(* /scopecls.cpp), as erxscope, etxscope and wbregs use them.              *)
(*                                                                         *)
(* A sample is TRUE when the scope triggered on it, FALSE otherwise.  The  *)
(* two clocks run independently.  The host's accesses come over the serial *)
(* port: thousands of clocks lie between two of them.                      *)
(***************************************************************************)
EXTENDS Integers, Sequences

CONSTANTS LGMEM, Holdoffs, MaxWrites

Slots == 2 ^ LGMEM

\* The memory has some words, and a holdoff may be longer than the memory.
ASSUME ScopeAssumption == Slots \in Nat \ {0} /\ Holdoffs \subseteq Nat

VARIABLES br_config, br_holdoff,            \* the control register
          q_iflags, r_iflags, r_reset_complete, q_reset_complete, qq_reset_complete,
          dr_triggered, dr_primed, dr_stopped, counter, waddr, mem, data_pipe,
          q_oflags, r_oflags, raddr, busy,
          hpc, m_scoplen, m_holdoff, m_data, trigger_at,   \* the program on the host
          whole,                            \* the reads began with the oldest sample
          writes

config == <<br_config, br_holdoff>>
data   == <<q_iflags, r_iflags, r_reset_complete, dr_triggered, dr_primed, dr_stopped, counter,
            waddr, mem, data_pipe>>
bus    == <<q_reset_complete, qq_reset_complete, q_oflags, r_oflags>>
host   == <<hpc, m_scoplen, m_holdoff, m_data, trigger_at, whole>>
scopevars == <<config, data, bus, raddr, busy, host, writes>>

None == [reset |-> FALSE, manual |-> FALSE, disable |-> FALSE]
NoFlags == [stopped |-> FALSE, triggered |-> FALSE]

ScopeInit ==
  /\ br_config = [reset |-> TRUE, manual |-> FALSE, disable |-> FALSE] /\ br_holdoff \in Holdoffs
  /\ q_iflags = None /\ r_iflags = None
  /\ r_reset_complete = FALSE /\ q_reset_complete = FALSE /\ qq_reset_complete = FALSE
  /\ dr_triggered = FALSE /\ dr_primed = FALSE /\ dr_stopped = FALSE /\ counter = 0 /\ waddr = 0
  /\ mem = [a \in 0 .. Slots - 1 |-> FALSE] /\ data_pipe = FALSE
  /\ q_oflags = NoFlags /\ r_oflags = NoFlags /\ raddr = 0 /\ busy = FALSE
  /\ hpc = "none" /\ m_scoplen = 0 /\ m_holdoff = 0 /\ m_data = <<>> /\ trigger_at = 0
  /\ whole = TRUE /\ writes = 0

-----------------------------------------------------------------------------
\* One edge of i_data_clk.
dw_trigger(i_trigger) == dr_primed /\ ((i_trigger /\ ~r_iflags.disable) \/ r_iflags.manual)

\* Variant: the last sample is taken one clock early.
Stops_early == counter + 1 >= br_holdoff

Stops == counter >= br_holdoff

DataClock(i_trigger) ==
  LET reset == r_iflags.reset
      fires == ~reset /\ ~dr_triggered /\ dw_trigger(i_trigger)
  IN  /\ q_iflags' = br_config /\ r_iflags' = q_iflags /\ r_reset_complete' = reset
      /\ dr_triggered' = (~reset /\ (dr_triggered \/ dw_trigger(i_trigger)))
      /\ counter' = IF reset THEN 0
                    ELSE IF dr_triggered /\ ~dr_stopped THEN counter + 1 ELSE counter
      /\ dr_stopped' = (dr_triggered /\ ~reset /\ Stops)
      /\ waddr' = IF reset THEN 0 ELSE IF dr_stopped THEN waddr ELSE (waddr + 1) % Slots
      /\ dr_primed' = (~reset /\ (dr_primed \/ (~dr_stopped /\ waddr = Slots - 1)))
      /\ data_pipe' = fires
      /\ mem' = IF dr_stopped THEN mem ELSE [mem EXCEPT ![waddr] = data_pipe]
      /\ UNCHANGED <<config, bus, raddr, busy, host, writes>>

\* One edge of the bus clock without an access.
\* Variant: a reset does not clear the flags.
BusClock_stale ==
  /\ q_reset_complete' = r_reset_complete /\ qq_reset_complete' = q_reset_complete
  /\ br_config' = [br_config EXCEPT !.reset = @ /\ ~qq_reset_complete]
  /\ q_oflags' = [stopped |-> dr_stopped, triggered |-> dr_triggered] /\ r_oflags' = q_oflags
  /\ raddr' = IF br_config.reset THEN 0 ELSE raddr
  /\ busy' = FALSE /\ UNCHANGED <<br_holdoff, data, host, writes>>

BusClock ==
  /\ q_reset_complete' = r_reset_complete /\ qq_reset_complete' = q_reset_complete
  /\ br_config' = [br_config EXCEPT !.reset = @ /\ ~qq_reset_complete]
  /\ IF br_config.reset
     THEN q_oflags' = NoFlags /\ r_oflags' = NoFlags /\ raddr' = 0
     ELSE /\ q_oflags' = [stopped |-> dr_stopped, triggered |-> dr_triggered]
          /\ r_oflags' = q_oflags /\ UNCHANGED raddr
  /\ busy' = FALSE /\ UNCHANGED <<br_holdoff, data, host, writes>>

-----------------------------------------------------------------------------
\* wbregs writes the control register and so starts the scope again.  An earlier
\* reset is over on both sides by then.
Settled == ~(br_config.reset \/ q_iflags.reset \/ r_iflags.reset \/ r_reset_complete
             \/ q_reset_complete \/ qq_reset_complete)
WriteControl ==
  /\ hpc = "none" /\ ~busy /\ Settled /\ writes < MaxWrites /\ writes' = writes + 1
  /\ br_holdoff' \in Holdoffs /\ raddr' = 0 /\ busy' = TRUE
  /\ \E m, d \in BOOLEAN : br_config' = [reset |-> TRUE, manual |-> m, disable |-> d]
  /\ UNCHANGED <<data, bus, host>>

\* A new SCOPE: ready() reads the control register, the first time also for the
\* length of the memory and the holdoff.
ready ==
  /\ hpc = "none" /\ ~busy
  /\ m_scoplen' = Slots /\ m_holdoff' = br_holdoff /\ m_data' = <<>> /\ whole' = (raddr = 0)
  /\ r_oflags.stopped /\ r_oflags.triggered /\ hpc' = "rawread"
  /\ UNCHANGED <<config, data, bus, raddr, busy, trigger_at, writes>>

\* ... or it is not ready, and decode_control() shows why.
NotReady ==
  /\ hpc = "none" /\ ~busy /\ ~(r_oflags.stopped /\ r_oflags.triggered)
  /\ m_scoplen' = Slots /\ m_holdoff' = br_holdoff
  /\ UNCHANGED <<config, data, bus, raddr, busy, hpc, m_data, trigger_at, whole, writes>>

scoplen == m_scoplen

\* rawread(): one word of the memory, the oldest one first.
rawread ==
  /\ hpc = "rawread" /\ scoplen > 4 /\ ~busy /\ busy' = TRUE
  /\ m_data' = Append(m_data, IF r_oflags.stopped THEN mem[(raddr + waddr) % Slots] ELSE data_pipe)
  /\ raddr' = IF r_oflags.stopped THEN (raddr + 1) % Slots ELSE raddr
  /\ hpc' = IF Len(m_data) + 1 = m_scoplen THEN "print" ELSE "rawread"
  /\ UNCHANGED <<config, data, bus, m_scoplen, m_holdoff, trigger_at, whole, writes>>

\* The item, from 0, that print() and writevcd() mark.
getaddresslen == m_scoplen
\* Variant: it counts from the length of the memory.
offset_late == getaddresslen - m_holdoff

offset == getaddresslen - m_holdoff - 1

\* print() leaves out an item that repeats the one before, and its mark with it.
NoMark == -1
print ==
  /\ hpc = "print" /\ trigger_at' \in {offset, NoMark} /\ hpc' = "writevcd"
  /\ UNCHANGED <<config, data, bus, raddr, busy, m_scoplen, m_holdoff, m_data, whole, writes>>

writevcd ==
  /\ hpc = "writevcd" /\ trigger_at' = offset /\ hpc' = "done"
  /\ UNCHANGED <<config, data, bus, raddr, busy, m_scoplen, m_holdoff, m_data, whole, writes>>

\* The program ends, or is interrupted (closeup()).
closeup ==
  /\ hpc # "none" /\ hpc' = "none" /\ m_scoplen' = 0 /\ m_holdoff' = 0 /\ m_data' = <<>>
  /\ trigger_at' = 0 /\ whole' = TRUE
  /\ UNCHANGED <<config, data, bus, raddr, busy, writes>>

ScopeNext ==
  \/ (\E i_trigger \in BOOLEAN : DataClock(i_trigger)) \/ BusClock \/ WriteControl
  \/ ready \/ NotReady \/ rawread \/ print \/ writevcd \/ closeup

ScopeSpec == ScopeInit /\ [][ScopeNext]_scopevars

-----------------------------------------------------------------------------
\* "If the holdoff is zero, the triggered item is the very last one": the item that
\* print() and writevcd() mark is the sample that fired the trigger, and no other is
\* it, whatever the clocks' order and however soon after a reset the program comes,
\* unless an interrupted program has left the scope's read address in the middle.
TriggerMarked ==
  hpc \in {"writevcd", "done"} /\ whole /\ trigger_at # NoMark =>
    \A i \in 1 .. Len(m_data) : m_data[i] <=> i - 1 = trigger_at
=============================================================================
