------------------------------- MODULE MemSim -------------------------------
(***************************************************************************)
(* The simulated memory of sim/verilated/memsim.cpp: apply() is called     *)
(* once per clock with the bus's request and answers `delay' clocks later, *)
(* through a ring of answers whose length is a power of two.               *)
(*                                                                         *)
(* A word is a pair of halves, each with its own bit of wb_sel.            *)
(***************************************************************************)
EXTENDS Integers, Sequences

CONSTANTS NWords, Delays, Half

\* The powers of two that a size is rounded up to, and the largest.
Powers  == {1, 2, 4, 8, 16, 32, 64, 128, 256, 512, 1024}
MaxSize == 1024

\* A delay of 0 is one of 1 in the code.
ASSUME MemAssumption == NWords \in 1 .. MaxSize /\ Delays \subseteq 1 .. MaxSize /\ Half # {}

VARIABLES m_delay, memsim_mem, m_fifo, m_head, o_ack, o_data,
          asked   \* the answers due, the latest one first

memvars == <<m_delay, memsim_mem, m_fifo, m_head, o_ack, o_data, asked>>

\* The least power of two that is not less than n.
Pow2(n) == CHOOSE p \in Powers : p >= n /\ (p = 1 \/ p < 2 * n)
Word   == [{"hi", "lo"} -> Half]
NoWord == CHOOSE w \in Word : TRUE
m_mask == Pow2(NWords) - 1
Ring   == Pow2(m_delay)
NoAnswer == [ack |-> FALSE, data |-> NoWord]

MemInit ==
  /\ m_delay \in Delays /\ memsim_mem = [a \in 0 .. m_mask |-> NoWord]
  /\ m_fifo = [i \in 0 .. Ring - 1 |-> NoAnswer] /\ m_head = 0
  /\ o_ack = FALSE /\ o_data = NoWord /\ asked = <<>>

Merged(wb_addr, wb_data, wb_sel) ==
  [memsim_mem EXCEPT ![wb_addr % (m_mask + 1)] =
     [h \in {"hi", "lo"} |-> IF h \in wb_sel THEN wb_data[h] ELSE @[h]]]

\* Variant: the ring's old answer is read after the new one is stored.
apply_late(wb_stb, wb_we, wb_addr, wb_data, wb_sel) ==
  LET head == (m_head + 1) % Ring
      tail == (m_head + 1 - m_delay) % Ring
      mem  == IF wb_stb /\ wb_we THEN Merged(wb_addr, wb_data, wb_sel) ELSE memsim_mem
      new  == IF wb_stb THEN [ack |-> TRUE, data |-> mem[wb_addr % (m_mask + 1)]] ELSE NoAnswer
      fifo == [m_fifo EXCEPT ![head] = new]
  IN  /\ memsim_mem' = mem /\ m_fifo' = fifo /\ m_head' = head
      /\ o_ack' = fifo[tail].ack /\ o_data' = fifo[tail].data
      /\ asked' = SubSeq(<<new>> \o asked, 1, IF Len(asked) < m_delay + 1 THEN Len(asked) + 1 ELSE m_delay + 1)
      /\ UNCHANGED m_delay

apply(wb_stb, wb_we, wb_addr, wb_data, wb_sel) ==
  LET head == (m_head + 1) % Ring
      tail == (m_head + 1 - m_delay) % Ring
      mem  == IF wb_stb /\ wb_we THEN Merged(wb_addr, wb_data, wb_sel) ELSE memsim_mem
      new  == IF wb_stb THEN [ack |-> TRUE, data |-> mem[wb_addr % (m_mask + 1)]] ELSE NoAnswer
  IN  /\ memsim_mem' = mem /\ m_fifo' = [m_fifo EXCEPT ![head] = new] /\ m_head' = head
      /\ o_ack' = m_fifo[tail].ack /\ o_data' = m_fifo[tail].data
      /\ asked' = SubSeq(<<new>> \o asked, 1, IF Len(asked) < m_delay + 1 THEN Len(asked) + 1 ELSE m_delay + 1)
      /\ UNCHANGED m_delay

MemNext ==
  \/ apply(FALSE, FALSE, 0, NoWord, {})
  \/ \E a \in 0 .. NWords - 1 :
       \/ apply(TRUE, FALSE, a, NoWord, {})
       \/ \E w \in Word, sel \in SUBSET {"hi", "lo"} : apply(TRUE, TRUE, a, w, sel)

MemSpec == MemInit /\ [][MemNext]_memvars

-----------------------------------------------------------------------------
\* A request is acknowledged once, exactly m_delay clocks after it was made, with the
\* word as it was then, also when the ring is just as long as the delay.
AckedInTime ==
  LET due == IF Len(asked) = m_delay + 1 THEN asked[m_delay + 1] ELSE NoAnswer
  IN  o_ack = due.ack /\ (o_ack => o_data = due.data)
=============================================================================
