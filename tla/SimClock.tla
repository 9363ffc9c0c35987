------------------------------ MODULE SimClock ------------------------------
(***************************************************************************)
(* The main loop of the simulation: the three clocks of sim/verilated/     *)
(* tbclock.h, TESTB::tick() (testb.h), which goes from one edge to the     *)
(* next, the handlers of main_tb.cpp for each falling edge, and main() of  *)
(* automaster_tb.cpp.                                                      *)
(*                                                                         *)
(* A clock is kept relative to its last rising edge: at = m_now_ps -       *)
(* m_last_posedge_ps.                                                      *)
(***************************************************************************)
EXTENDS Integers

CONSTANTS Intervals   \* the periods, in ps, that clocks may have

\* A half period is an even number of ps, and a first step of more than one ps, as tick()
\* asserts, takes two of them.
ASSUME SimAssumption == Intervals \subseteq Nat /\ \A p \in Intervals : p >= 8

VARIABLES m_increment_ps, at, level,   \* per clock; level: the wire of the core
          i_reset, loop, willexit, m_done, o_gpio_halt,
          mintime,                     \* the last step taken
          ticked,                      \* the clocks whose handler ran in it
          wasreset                     \* i_clk has risen with i_reset set

Clocks == {"clk", "clk_125mhz", "net1_rx_clk"}
simvars == <<m_increment_ps, at, level, i_reset, loop, willexit, m_done, o_gpio_halt, mintime,
             ticked, wasreset>>

\* Variant: half of the period, odd or even.
set_interval_ps_half(interval_ps) == interval_ps \div 2

set_interval_ps(interval_ps) == 2 * (interval_ps \div 4)

\* TBCLOCK::init(): the clocks are low, and wait for a rising edge.
SimInit ==
  /\ \E p \in [Clocks -> Intervals] : m_increment_ps = [c \in Clocks |-> set_interval_ps(p[c])]
  /\ at = [c \in Clocks |-> m_increment_ps[c] + 1] /\ level = [c \in Clocks |-> 0]
  /\ i_reset = TRUE /\ loop = "reset" /\ willexit \in BOOLEAN /\ m_done = FALSE
  /\ o_gpio_halt = FALSE /\ mintime = 2 /\ ticked = {} /\ wasreset = FALSE

time_to_edge(c) ==
  IF m_increment_ps[c] > at[c] THEN m_increment_ps[c] - at[c] ELSE 2 * m_increment_ps[c] - at[c]

\* TBCLOCK::advance(): the clock and the wire after itime.
advance(c, itime) ==
  LET now == at[c] + itime
      inc == m_increment_ps[c]
  IN  [at    |-> IF now >= 2 * inc THEN now - 2 * inc ELSE now,
       level |-> IF now >= inc /\ now < 2 * inc THEN 0 ELSE 1]

rising_edge(c)  == at[c] = 0
falling_edge(c) == at[c] = m_increment_ps[c]

\* The handler of main_tb.cpp for i_clk, after a step in which the clocks low fell: the
\* reset ends, and the simulation does when the program has asked for it.
sim_clk_tick(low, reset) ==
  [reset |-> reset /\ "clk" \notin low, done |-> m_done \/ (o_gpio_halt /\ "clk" \in low)]

\* TESTB::tick(), with the handlers of the clocks that fall: time goes on to the
\* nearest edge.
tick(reset) ==
  \E step \in {time_to_edge(c) : c \in Clocks} :
    LET new == [c \in Clocks |-> advance(c, step)]
        low == {c \in Clocks : new[c].at = m_increment_ps[c]}
    IN  /\ \A c \in Clocks : step <= time_to_edge(c)
        /\ mintime' = step
        /\ at' = [c \in Clocks |-> new[c].at] /\ level' = [c \in Clocks |-> new[c].level]
        /\ wasreset' = (wasreset \/ (reset /\ new["clk"].at = 0))
        /\ ticked' = low
        /\ m_done' = sim_clk_tick(low, reset).done

\* MAINTB::reset(): one tick with i_reset set, and i_reset is set again after it.
\* Variant: it is not.
reset_once ==
  /\ loop = "reset" /\ loop' = "run" /\ tick(TRUE) /\ i_reset' = FALSE
  /\ UNCHANGED <<m_increment_ps, willexit, o_gpio_halt>>

reset ==
  /\ loop = "reset" /\ loop' = "run" /\ tick(TRUE) /\ i_reset' = TRUE
  /\ UNCHANGED <<m_increment_ps, willexit, o_gpio_halt>>

\* The core runs on the rising edge of i_clk.
Core ==
  /\ loop = "run" /\ wasreset /\ ~i_reset /\ rising_edge("clk") /\ ~o_gpio_halt /\ o_gpio_halt' = TRUE
  /\ UNCHANGED <<m_increment_ps, at, level, i_reset, loop, willexit, m_done, mintime, ticked, wasreset>>

\* main(): tick after tick.  With a program the loop ends when it is done; without one
\* it goes on, and MAINTB::tick() does nothing any more.
main ==
  /\ loop = "run"
  /\ IF m_done
     THEN /\ willexit /\ loop' = "exit"
          /\ UNCHANGED <<at, level, i_reset, m_done, mintime, ticked, wasreset>>
     ELSE tick(i_reset) /\ i_reset' = sim_clk_tick(ticked', i_reset).reset /\ UNCHANGED loop
  /\ UNCHANGED <<m_increment_ps, willexit, o_gpio_halt>>

SimNext == reset \/ Core \/ main

SimSpec == SimInit /\ [][SimNext]_simvars

-----------------------------------------------------------------------------
\* The asserts of tick() and advance(), for any three periods, and no edge of any
\* clock is passed over: its handler runs in exactly the steps in which its wire
\* falls.
EdgesKept ==
  [][/\ mintime' > 1 /\ \A c \in Clocks : mintime' < 4 * m_increment_ps[c]
     /\ \A c \in Clocks : level[c] = 1 /\ level'[c] = 0 <=> c \in ticked' /\ at' # at]_simvars

\* "SIM.CLRRESET": the core is reset by the first rising edge of its clock, although
\* the first tick() is seldom one.
ResetFirst == rising_edge("clk") => wasreset
=============================================================================
