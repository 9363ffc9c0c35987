------------------------------ MODULE WbuFifo ------------------------------
(***************************************************************************)
(* rtl/wbubus/wbufifo.v: the synchronous FIFO used twice in the debug bus, *)
(* once for commands arriving from the host and once for the answers going *)
(* back.  It is a memory of FLEN words with a prefetch register (o_data,   *)
(* o_empty_n) behind it, so that it really holds FLEN + 1 words.           *)
(*                                                                         *)
(* One step of this module is one rising edge of i_clk.  Each operator     *)
(* named Nxt... is the next value of the register one always block drives. *)
(***************************************************************************)
EXTENDS Integers, Sequences

CONSTANTS Data,  \* the words that are queued
          FLEN   \* 2^LGFLEN, the words of memory

\* Both instances in wbuconsole have LGFLEN of 6 or more.  Below four words
\* will_overflow is computed from a read pointer one prefetch too old.
ASSUME FLENAssumption == FLEN \in Nat /\ FLEN >= 4
ASSUME DataAssumption == Data # {}

VARIABLES fifo,           \* the memory
          r_wrptr,        \* write pointer, one bit wider than an address
          r_rdptr,        \* read pointer, likewise
          will_overflow,  \* the memory is full
          will_underflow, \* the memory is empty
          r_empty_n,      \* the memory is not empty, kept separately
          o_data,         \* the prefetched word
          o_empty_n       \* the prefetched word is valid

fifovars == <<fifo, r_wrptr, r_rdptr, will_overflow, will_underflow, r_empty_n,
          o_data, o_empty_n>>

Ptr  == 0 .. (2*FLEN - 1)
FifoAddr == 0 .. (FLEN - 1)

\* The LGFLEN+1 bit increment, the address bits and the top bit of a pointer.
IncrUnwrapped(p) == p + 1
Incr(p) == IF p = 2*FLEN - 1 THEN 0 ELSE p + 1
Low(p)  == IF p >= FLEN THEN p - FLEN ELSE p
Msb(p)  == p >= FLEN

w_writeUnguarded(i_wr, i_rd) == i_wr
w_write(i_wr, i_rd) == i_wr /\ (~will_overflow \/ i_rd)
w_read(i_rd)        == (i_rd \/ ~o_empty_n) /\ ~will_underflow

\* Variants named for the slip they show are defined before the operator they
\* vary; no specification uses them.
NxtWillOverflowReadClears(i_wr, i_rd) ==
  IF i_rd THEN FALSE
  ELSE IF w_write(i_wr, i_rd)
       THEN Low(Incr(r_wrptr)) = Low(r_rdptr)
              /\ Msb(Incr(r_wrptr)) # Msb(r_rdptr)
       ELSE will_overflow

NxtWillOverflow(i_wr, i_rd) ==
  IF i_rd THEN will_overflow /\ i_wr
  ELSE IF w_write(i_wr, i_rd)
       THEN Low(Incr(r_wrptr)) = Low(r_rdptr)
              /\ Msb(Incr(r_wrptr)) # Msb(r_rdptr)
       ELSE will_overflow

NxtWillUnderflowReadFirst(i_wr, i_rd) ==
  IF w_read(i_rd) THEN Incr(r_rdptr) = r_wrptr
  ELSE IF i_wr THEN FALSE ELSE will_underflow

NxtWillUnderflow(i_wr, i_rd) ==
  IF i_wr THEN FALSE
  ELSE IF w_read(i_rd)
       THEN will_underflow \/ Incr(r_rdptr) = r_wrptr
       ELSE will_underflow

NxtREmptyNReadWins(i_wr, i_rd) ==
  CASE w_read(i_rd) -> r_wrptr # Incr(r_rdptr)
    [] w_write(i_wr, i_rd) /\ ~w_read(i_rd) -> TRUE
    [] OTHER -> r_empty_n

NxtREmptyN(i_wr, i_rd) ==
  CASE w_write(i_wr, i_rd) /\ ~w_read(i_rd) -> TRUE
    [] ~w_write(i_wr, i_rd) /\ w_read(i_rd) -> r_wrptr # Incr(r_rdptr)
    [] OTHER -> r_empty_n

NxtOEmptyN(i_rd) == IF ~o_empty_n \/ i_rd THEN r_empty_n ELSE o_empty_n

\* The memory and the prefetch register are not reset.
StoreWord(i_wr, i_data, i_rd) ==
  fifo' = IF w_write(i_wr, i_rd)
          THEN [fifo EXCEPT ![Low(r_wrptr)] = i_data]
          ELSE fifo

LoadOutput(i_rd) ==
  o_data' = IF w_read(i_rd) /\ r_empty_n THEN fifo[Low(r_rdptr)] ELSE o_data

\* The memory and o_data hold whatever the fabric powered up with.
FifoInit ==
  /\ fifo \in [FifoAddr -> Data]
  /\ o_data \in Data
  /\ r_wrptr = 0
  /\ r_rdptr = 0
  /\ will_overflow = FALSE
  /\ will_underflow = TRUE
  /\ r_empty_n = FALSE
  /\ o_empty_n = FALSE

\* A clock edge with i_reset low.
FifoClock(i_wr, i_data, i_rd) ==
  /\ StoreWord(i_wr, i_data, i_rd)
  /\ LoadOutput(i_rd)
  /\ r_wrptr' = IF w_write(i_wr, i_rd) THEN Incr(r_wrptr) ELSE r_wrptr
  /\ r_rdptr' = IF w_read(i_rd) /\ r_empty_n THEN Incr(r_rdptr) ELSE r_rdptr
  /\ will_overflow' = NxtWillOverflow(i_wr, i_rd)
  /\ will_underflow' = NxtWillUnderflow(i_wr, i_rd)
  /\ r_empty_n' = NxtREmptyN(i_wr, i_rd)
  /\ o_empty_n' = NxtOEmptyN(i_rd)

\* A clock edge with i_reset high: pointers and flags return to their initial
\* values while the memory port still obeys its own enables.
FifoReset(i_wr, i_data, i_rd) ==
  /\ StoreWord(i_wr, i_data, i_rd)
  /\ LoadOutput(i_rd)
  /\ r_wrptr' = 0
  /\ r_rdptr' = 0
  /\ will_overflow' = FALSE
  /\ will_underflow' = TRUE
  /\ r_empty_n' = FALSE
  /\ o_empty_n' = FALSE

FifoNext ==
  \E i_wr, i_rd \in BOOLEAN, i_data \in Data :
    \/ FifoClock(i_wr, i_data, i_rd)
    \/ FifoReset(i_wr, i_data, i_rd)

FifoSpec == FifoInit /\ [][FifoNext]_fifovars

-----------------------------------------------------------------------------
(***************************************************************************)
(* The queue the registers stand for.                                      *)
(***************************************************************************)
\* Words in memory, from the two pointers modulo 2*FLEN.
Fill == IF r_wrptr >= r_rdptr THEN r_wrptr - r_rdptr
        ELSE r_wrptr - r_rdptr + 2*FLEN

\* The pointer k places after p, for k no more than 2*FLEN.
Advance(p, k) == IF p + k >= 2*FLEN THEN p + k - 2*FLEN ELSE p + k

\* The words held and the k-th oldest of them: the prefetched word, then memory.
Prefetched == IF o_empty_n THEN 1 ELSE 0
Held       == Fill + Prefetched
FifoWord(k)    == IF k <= Prefetched THEN o_data
              ELSE fifo[Low(Advance(r_rdptr, k - 1 - Prefetched))]
Contents   == [k \in 1 .. Held |-> FifoWord(k)]

Queue == INSTANCE FifoQueue WITH Capacity <- FLEN + 1, q <- Contents

-----------------------------------------------------------------------------
\* Every register has a value of its width.
FifoTypeOK ==
  /\ fifo \in [FifoAddr -> Data]
  /\ o_data \in Data
  /\ r_wrptr \in Ptr
  /\ r_rdptr \in Ptr
  /\ will_overflow \in BOOLEAN
  /\ will_underflow \in BOOLEAN
  /\ r_empty_n \in BOOLEAN
  /\ o_empty_n \in BOOLEAN

\* The registered full flag, updated from the previous pointers, is never
\* early and never late: it is set in exactly the cycles in which the memory
\* holds FLEN words, so that a word is refused only when there is no room and
\* never overwrites one that is still queued.
FullFlagExact == will_overflow <=> Fill = FLEN

\* The two redundant empty flags (will_underflow, updated on i_wr even when the
\* write is refused, and r_empty_n, updated on accepted writes) always agree
\* with each other and with the pointers.
EmptyFlagsExact ==
  /\ will_underflow <=> Fill = 0
  /\ r_empty_n <=> Fill # 0

\* While the prefetch register is empty the memory holds at most one word: a
\* second one can only arrive in the cycle that fetches the first, so a word
\* never waits in memory behind an idle output.
PrefetchKeepsUp == ~o_empty_n => Fill <= 1

\* The pointers never run more than FLEN apart: no queued word is overwritten.
NeverOverrun == Fill <= FLEN

\* What the provers need: the type invariant and the four facts above together
\* are inductive.
FifoInv ==
  /\ FifoTypeOK
  /\ NeverOverrun
  /\ FullFlagExact
  /\ EmptyFlagsExact
  /\ PrefetchKeepsUp

\* The FIFO implements a bounded first-in first-out queue of FLEN + 1 words:
\* whatever the sequence of writes, reads and resets, accepted words leave in
\* the order they came, each exactly once.
ImplementsQueue == Queue!Spec

=============================================================================
