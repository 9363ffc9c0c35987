---------------------------- MODULE BufferProofs ----------------------------
(***************************************************************************)
(* The debug bus, and the clock crossing.  wbufifo.v: the flags are exact  *)
(* for every memory size FLEN >= 4, and the registers implement a first-in *)
(* first-out queue of FLEN + 1 words.  tfrvalue.v: the clock crossing is   *)
(* safe for any set of values and any pair of clocks.  wbuexec.v: for      *)
(* every length of a read, every width of the counters and any number of   *)
(* requests the bus may hold, the executor counts its acknowledgements and *)
(* returns the words that were asked for.                                  *)
(***************************************************************************)
EXTENDS WbuFifo, WbuExec, TfrValue, TLAPS

-----------------------------------------------------------------------------
\* The FIFO.

\* The initial registers satisfy the inductive invariant.
LEMMA InitFifoInv == FifoInit => FifoInv
  <1> SUFFICES ASSUME FifoInit PROVE FifoInv
    OBVIOUS
  <1>1. Fill = 0
    BY DEF FifoInit, Fill
  <1>2. FifoTypeOK
    <2>1. 0 \in Ptr
      BY FLENAssumption DEF Ptr
    <2>2. QED
      BY <2>1, Zenon DEF FifoInit, FifoTypeOK
  <1>3. NeverOverrun /\ FullFlagExact /\ PrefetchKeepsUp
    BY <1>1, FLENAssumption
       DEF FifoInit, NeverOverrun, FullFlagExact, PrefetchKeepsUp
  <1>4. EmptyFlagsExact
    BY <1>1 DEF FifoInit, EmptyFlagsExact
  <1>5. QED
    BY <1>2, <1>3, <1>4 DEF FifoInv

\* A memory access keeps the memory and the output register well typed.
LEMMA MemoryTyped ==
  ASSUME FifoInv,
         NEW i_wr \in BOOLEAN, NEW i_rd \in BOOLEAN, NEW i_data \in Data,
         StoreWord(i_wr, i_data, i_rd), LoadOutput(i_rd)
  PROVE  fifo' \in [FifoAddr -> Data] /\ o_data' \in Data
  <1>1. Low(r_wrptr) \in FifoAddr /\ Low(r_rdptr) \in FifoAddr
    BY FLENAssumption DEF FifoInv, FifoTypeOK, Ptr, FifoAddr, Low
  <1>2. fifo' \in [FifoAddr -> Data]
    BY <1>1 DEF FifoInv, FifoTypeOK, StoreWord
  <1>3. o_data' \in Data
    BY <1>1 DEF FifoInv, FifoTypeOK, LoadOutput
  <1>4. QED
    BY <1>2, <1>3

\* The memory is read exactly when it is asked to be and holds a word, and a
\* clock edge changes the fill by what enters and what leaves.
LEMMA FillStep ==
  ASSUME FifoInv,
         NEW i_wr \in BOOLEAN, NEW i_rd \in BOOLEAN, NEW i_data \in Data,
         FifoClock(i_wr, i_data, i_rd)
  PROVE  /\ w_read(i_rd) <=> (i_rd \/ ~o_empty_n) /\ Fill # 0
         /\ w_read(i_rd) => r_empty_n
         /\ w_write(i_wr, i_rd) <=> i_wr /\ (Fill # FLEN \/ i_rd)
         /\ Fill' = Fill + (IF w_write(i_wr, i_rd) THEN 1 ELSE 0)
                         - (IF w_read(i_rd) THEN 1 ELSE 0)
         /\ Fill \in 0 .. FLEN
         /\ r_wrptr' \in Ptr /\ r_rdptr' \in Ptr
  <1>1. /\ w_read(i_rd) <=> (i_rd \/ ~o_empty_n) /\ Fill # 0
        /\ w_read(i_rd) => r_empty_n
    BY DEF FifoInv, EmptyFlagsExact, w_read
  <1>2. w_write(i_wr, i_rd) <=> i_wr /\ (Fill # FLEN \/ i_rd)
    BY DEF FifoInv, FullFlagExact, w_write
  <1>3. Fill \in 0 .. FLEN
    BY FLENAssumption DEF FifoInv, FifoTypeOK, NeverOverrun, Fill, Ptr
  <1>4. Fill = FLEN => o_empty_n
    BY FLENAssumption DEF FifoInv, PrefetchKeepsUp
  <1>5. /\ r_wrptr' = IF w_write(i_wr, i_rd) THEN Incr(r_wrptr) ELSE r_wrptr
        /\ r_rdptr' = IF w_read(i_rd) THEN Incr(r_rdptr) ELSE r_rdptr
    BY <1>1 DEF FifoClock
  <1>6. /\ r_wrptr' \in Ptr /\ r_rdptr' \in Ptr
        /\ Fill' = Fill + (IF w_write(i_wr, i_rd) THEN 1 ELSE 0)
                        - (IF w_read(i_rd) THEN 1 ELSE 0)
    <2>1. w_write(i_wr, i_rd) /\ ~w_read(i_rd) => Fill < FLEN
      BY <1>1, <1>2, <1>3, <1>4, FLENAssumption
    <2>2. r_wrptr \in Ptr /\ r_rdptr \in Ptr
      BY DEF FifoInv, FifoTypeOK
    <2>3. QED
      BY <2>1, <2>2, <1>1, <1>3, <1>5, FLENAssumption DEF Fill, Ptr, Incr
  <1>7. QED
    BY <1>1, <1>2, <1>3, <1>6

\* A clock edge with reset low preserves the invariant.
LEMMA ClockKeepsInv ==
  ASSUME FifoInv,
         NEW i_wr \in BOOLEAN, NEW i_rd \in BOOLEAN, NEW i_data \in Data,
         FifoClock(i_wr, i_data, i_rd)
  PROVE  FifoInv'
  <1>0. /\ w_read(i_rd) <=> (i_rd \/ ~o_empty_n) /\ Fill # 0
        /\ w_write(i_wr, i_rd) <=> i_wr /\ (Fill # FLEN \/ i_rd)
        /\ Fill' = Fill + (IF w_write(i_wr, i_rd) THEN 1 ELSE 0)
                        - (IF w_read(i_rd) THEN 1 ELSE 0)
        /\ Fill \in 0 .. FLEN
        /\ r_wrptr' \in Ptr /\ r_rdptr' \in Ptr
    BY FillStep
  <1>1. FifoTypeOK'
    <2>1. fifo' \in [FifoAddr -> Data] /\ o_data' \in Data
      BY MemoryTyped DEF FifoClock
    <2>2. r_wrptr' \in Ptr /\ r_rdptr' \in Ptr
      BY <1>0
    <2>3. will_overflow' \in BOOLEAN /\ will_underflow' \in BOOLEAN
      BY DEF FifoInv, FifoTypeOK, FifoClock, NxtWillOverflow, NxtWillUnderflow
    <2>4. r_empty_n' \in BOOLEAN /\ o_empty_n' \in BOOLEAN
      BY DEF FifoInv, FifoTypeOK, FifoClock, NxtREmptyN, NxtOEmptyN
    <2>5. QED
      BY <2>1, <2>2, <2>3, <2>4 DEF FifoTypeOK
  <1>2. PrefetchKeepsUp'
    BY <1>0 DEF FifoInv, FifoTypeOK, PrefetchKeepsUp, EmptyFlagsExact, FifoClock,
                    NxtOEmptyN
  <1>3. NeverOverrun'
    BY <1>0, FLENAssumption DEF FifoInv, NeverOverrun, PrefetchKeepsUp
  <1>4. FullFlagExact'
    <2>1. CASE i_rd
      <3>1. will_overflow' <=> will_overflow /\ i_wr
        BY <2>1, Zenon DEF FifoClock, NxtWillOverflow
      <3>2. w_read(i_rd) <=> Fill # 0
        BY <2>1, <1>0, Zenon
      <3>3. w_write(i_wr, i_rd) <=> i_wr
        BY <2>1, <1>0, Zenon
      <3>4. Fill' = FLEN <=> Fill = FLEN /\ i_wr
        BY <3>2, <3>3, <1>0, FLENAssumption
      <3>5. QED
        BY <3>1, <3>4 DEF FifoInv, FullFlagExact
    <2>2. CASE ~i_rd /\ w_write(i_wr, i_rd)
      <3>1. will_overflow' <=> Fill + 1 = FLEN
        BY <2>2, <1>0, FLENAssumption
           DEF FifoInv, FifoTypeOK, FifoClock, NxtWillOverflow, Fill, Low, Msb, Incr,
               Ptr
      <3>2. Fill + 1 = FLEN => ~w_read(i_rd)
        BY <2>2, <1>0, FLENAssumption DEF FifoInv, PrefetchKeepsUp
      <3>3. QED
        BY <3>1, <3>2, <2>2, <1>0, FLENAssumption DEF FullFlagExact
    <2>3. CASE ~i_rd /\ ~w_write(i_wr, i_rd)
      BY <2>3, <1>0, FLENAssumption
         DEF FifoInv, FifoTypeOK, FullFlagExact, FifoClock, NxtWillOverflow,
             PrefetchKeepsUp
    <2>4. QED
      BY <2>1, <2>2, <2>3
  <1>5. EmptyFlagsExact'
    <2>1. w_read(i_rd) => (Incr(r_rdptr) = r_wrptr <=> Fill = 1)
      BY <1>0, FLENAssumption DEF FifoInv, FifoTypeOK, Fill, Incr, Ptr
    <2>2. will_underflow' <=> Fill' = 0
      <3>1. CASE i_wr
        <4>1. ~will_underflow'
          BY <3>1, Zenon DEF FifoClock, NxtWillUnderflow
        <4>2. w_write(i_wr, i_rd) \/ (Fill = FLEN /\ (w_read(i_rd) => ~o_empty_n))
          BY <3>1, <1>0, Zenon
        <4>3. w_read(i_rd) => Fill # 0
          BY <1>0, Zenon
        <4>4. ~o_empty_n => Fill <= 1
          BY DEF FifoInv, PrefetchKeepsUp
        <4>5. Fill' # 0
          BY <4>2, <4>3, <4>4, <1>0, FLENAssumption
        <4>6. QED
          BY <4>1, <4>5
      <3>2. CASE ~i_wr /\ w_read(i_rd)
        <4>1. will_underflow' <=> will_underflow \/ Incr(r_rdptr) = r_wrptr
          BY <3>2, Zenon DEF FifoClock, NxtWillUnderflow
        <4>2. Fill' = Fill - 1 /\ Fill # 0
          BY <3>2, <1>0
        <4>3. QED
          BY <3>2, <4>1, <4>2, <2>1, <1>0 DEF FifoInv, EmptyFlagsExact
      <3>3. CASE ~i_wr /\ ~w_read(i_rd)
        <4>1. will_underflow' <=> will_underflow
          BY <3>3, Zenon DEF FifoClock, NxtWillUnderflow
        <4>2. Fill' = Fill
          BY <3>3, <1>0
        <4>3. QED
          BY <4>1, <4>2 DEF FifoInv, EmptyFlagsExact
      <3>4. QED
        BY <3>1, <3>2, <3>3
    <2>3. r_empty_n' <=> Fill' # 0
      <3>1. CASE w_write(i_wr, i_rd) /\ ~w_read(i_rd)
        <4>1. r_empty_n'
          BY <3>1, Zenon DEF FifoClock, NxtREmptyN
        <4>2. Fill' # 0
          BY <3>1, <1>0, FLENAssumption
        <4>3. QED
          BY <4>1, <4>2
      <3>2. CASE ~w_write(i_wr, i_rd) /\ w_read(i_rd)
        <4>1. r_empty_n' <=> r_wrptr # Incr(r_rdptr)
          BY <3>2, Zenon DEF FifoClock, NxtREmptyN
        <4>2. Fill' = Fill - 1
          BY <3>2, <1>0
        <4>3. QED
          BY <3>2, <4>1, <4>2, <2>1, <1>0
      <3>3. CASE w_write(i_wr, i_rd) <=> w_read(i_rd)
        <4>1. r_empty_n' <=> r_empty_n
          BY <3>3, Zenon DEF FifoClock, NxtREmptyN
        <4>2. Fill' = Fill
          BY <3>3, <1>0
        <4>3. QED
          BY <4>1, <4>2 DEF FifoInv, EmptyFlagsExact
      <3>4. QED
        BY <3>1, <3>2, <3>3
    <2>4. QED
      BY <2>2, <2>3 DEF EmptyFlagsExact
  <1>6. QED
    BY <1>1, <1>2, <1>3, <1>4, <1>5 DEF FifoInv

\* So does a clock edge with reset high.
LEMMA ResetKeepsInv ==
  ASSUME FifoInv,
         NEW i_wr \in BOOLEAN, NEW i_rd \in BOOLEAN, NEW i_data \in Data,
         FifoReset(i_wr, i_data, i_rd)
  PROVE  FifoInv'
  <1>1. Fill' = 0
    BY DEF FifoReset, Fill
  <1>2. FifoTypeOK'
    <2>1. 0 \in Ptr
      BY FLENAssumption DEF Ptr
    <2>2. fifo' \in [FifoAddr -> Data] /\ o_data' \in Data
      BY MemoryTyped DEF FifoReset
    <2>3. QED
      BY <2>1, <2>2, Zenon DEF FifoReset, FifoTypeOK
  <1>3. NeverOverrun' /\ FullFlagExact' /\ PrefetchKeepsUp'
    BY <1>1, FLENAssumption
       DEF FifoReset, NeverOverrun, FullFlagExact, PrefetchKeepsUp
  <1>4. EmptyFlagsExact'
    BY <1>1 DEF FifoReset, EmptyFlagsExact
  <1>5. QED
    BY <1>2, <1>3, <1>4 DEF FifoInv

\* Every step of the FIFO preserves the invariant.
LEMMA FifoStep == FifoInv /\ [FifoNext]_fifovars => FifoInv'
  <1> SUFFICES ASSUME FifoInv, [FifoNext]_fifovars PROVE FifoInv'
    OBVIOUS
  <1>1. CASE FifoNext
    BY <1>1, ClockKeepsInv, ResetKeepsInv DEF FifoNext
  <1>2. CASE UNCHANGED fifovars
    BY <1>2 DEF fifovars, FifoInv, FifoTypeOK, NeverOverrun, FullFlagExact,
                EmptyFlagsExact, PrefetchKeepsUp, Fill
  <1>3. QED
    BY <1>1, <1>2

\* The full and the empty flags of wbufifo.v are exact in every reachable
\* state, for every memory size.
THEOREM FifoInvariance == FifoSpec => []FifoInv
  <1>1. QED
    BY InitFifoInv, FifoStep, PTL DEF FifoSpec

\* A word is refused exactly when the memory is full.
THEOREM FifoFullFlag == FifoSpec => []FullFlagExact
  <1>1. FifoInv => FullFlagExact
    BY DEF FifoInv
  <1>2. QED
    BY <1>1, FifoInvariance, PTL

-----------------------------------------------------------------------------
(***************************************************************************)
(* Refinement: every clock edge is a step of the abstract queue, or leaves *)
(* it unchanged.                                                           *)
(***************************************************************************)
\* The contents are a sequence of words, of the length Held.
ContentsOK ==
  /\ Held \in 0 .. (FLEN + 1)
  /\ Contents \in Seq(Data)
  /\ Len(Contents) = Held
  /\ \A k \in 1 .. Held : Contents[k] = FifoWord(k)

\* That holds wherever the invariant does.
LEMMA ContentsSeq == FifoInv => ContentsOK
  <1> SUFFICES ASSUME FifoInv PROVE ContentsOK
    OBVIOUS
  <1>1. Fill \in 0 .. FLEN /\ Prefetched \in {0, 1}
    BY FLENAssumption
       DEF FifoInv, FifoTypeOK, NeverOverrun, Fill, Ptr, Prefetched
  <1>2. Held \in 0 .. (FLEN + 1)
    BY <1>1, FLENAssumption DEF Held
  <1>3. \A k \in 1 .. Held : FifoWord(k) \in Data
    <2> SUFFICES ASSUME NEW k \in 1 .. Held, ~(k <= Prefetched)
                 PROVE  fifo[Low(Advance(r_rdptr, k - 1 - Prefetched))] \in Data
      BY DEF FifoWord, FifoInv, FifoTypeOK
    <2>1. k - 1 - Prefetched \in 0 .. (FLEN - 1)
      BY <1>1, FLENAssumption DEF Held
    <2>2. Low(Advance(r_rdptr, k - 1 - Prefetched)) \in FifoAddr
      <3> DEFINE a == k - 1 - Prefetched
      <3>1. r_rdptr \in Ptr
        BY DEF FifoInv, FifoTypeOK
      <3>2. a \in 0 .. (FLEN - 1)
        BY <2>1
      <3> HIDE DEF a
      <3>3. Low(Advance(r_rdptr, a)) \in FifoAddr
        BY ONLY <3>1, <3>2, FLENAssumption DEF Ptr, FifoAddr, Low, Advance
      <3> QED
        BY <3>3 DEF a
    <2>3. QED
      BY <2>2 DEF FifoInv, FifoTypeOK
  <1>4. Contents \in [1 .. Held -> Data]
    BY <1>3 DEF Contents
  <1>5. Contents \in Seq(Data)
    BY <1>2, <1>4, FLENAssumption
  <1>6. Len(Contents) = Held
    BY <1>2, <1>4, <1>5, FLENAssumption
  <1>7. QED
    BY <1>2, <1>5, <1>6 DEF Contents, ContentsOK

\* The memory slot of a word that is not the prefetched one.
LEMMA SlotInMemory ==
  ASSUME NEW fill \in Int, NEW pre \in Int, NEW k \in Int,
         ~(k <= pre), k <= fill + pre
  PROVE  /\ k - 1 - pre \in 0 .. (fill - 1)
         /\ k - 1 - pre = fill - 1 <=> k = fill + pre
  OBVIOUS

LEMMA WordInMemory ==
  ASSUME NEW k \in Int, ~(k <= Prefetched)
  PROVE  FifoWord(k) = fifo[Low(Advance(r_rdptr, k - 1 - Prefetched))]
  BY Zenon DEF FifoWord

\* One clock edge appends at most one word and removes at most one: the words
\* that stay keep their order and their values.
LEMMA ContentsStep ==
  ASSUME FifoInv, FifoInv',
         NEW i_wr \in BOOLEAN, NEW i_rd \in BOOLEAN, NEW i_data \in Data,
         FifoClock(i_wr, i_data, i_rd),
         NEW push, push = IF w_write(i_wr, i_rd) THEN 1 ELSE 0,
         NEW take, take = IF i_rd /\ o_empty_n THEN 1 ELSE 0
  PROVE  /\ Held' = Held + push - take
         /\ \A k \in 1 .. Held' :
              FifoWord(k)' = IF push = 1 /\ k = Held' THEN i_data
                         ELSE FifoWord(k + take)
  <1> DEFINE load == IF w_read(i_rd) THEN 1 ELSE 0
  <1>1. /\ w_read(i_rd) <=> (i_rd \/ ~o_empty_n) /\ Fill # 0
        /\ w_read(i_rd) => r_empty_n
        /\ w_write(i_wr, i_rd) <=> i_wr /\ (Fill # FLEN \/ i_rd)
        /\ Fill' = Fill + push - load
        /\ Fill \in 0 .. FLEN
        /\ r_wrptr' \in Ptr /\ r_rdptr' \in Ptr
    BY FillStep
  <1>2. Fill' \in 0 .. FLEN
    BY <1>1, FLENAssumption DEF FifoInv, NeverOverrun
  <1>3. Prefetched' = IF ~o_empty_n \/ i_rd THEN load ELSE 1
    <2>1. o_empty_n' <=> IF ~o_empty_n \/ i_rd THEN Fill # 0 ELSE TRUE
      BY Zenon DEF FifoClock, NxtOEmptyN, FifoInv, EmptyFlagsExact
    <2>2. ~o_empty_n \/ i_rd => (w_read(i_rd) <=> Fill # 0)
      BY <1>1, Zenon
    <2>3. QED
      BY <2>1, <2>2 DEF Prefetched
  <1>4. Prefetched' = Prefetched + load - take
    <2>1. CASE ~o_empty_n
      <3>1. take = 0 /\ Prefetched = 0 /\ Prefetched' = load /\ load \in {0, 1}
        BY <2>1, <1>3 DEF Prefetched
      <3>2. QED
        BY <3>1
    <2>2. CASE o_empty_n /\ i_rd
      <3>1. take = 1 /\ Prefetched = 1 /\ Prefetched' = load /\ load \in {0, 1}
        BY <2>2, <1>3 DEF Prefetched
      <3>2. QED
        BY <3>1
    <2>3. CASE o_empty_n /\ ~i_rd
      <3>1. load = 0
        BY <2>3, <1>1
      <3>2. QED
        BY <2>3, <3>1, <1>3 DEF Prefetched
    <2>4. QED
      BY <2>1, <2>2, <2>3
  <1>5. Held' = Held + push - take
    BY <1>1, <1>4, FLENAssumption DEF Held, Prefetched
  <1>6. o_data' = IF load = 1 THEN fifo[Low(r_rdptr)] ELSE o_data
    BY <1>1 DEF FifoClock, LoadOutput
  <1>7. r_rdptr' = Advance(r_rdptr, load)
    BY <1>1, FLENAssumption
       DEF FifoClock, FifoInv, FifoTypeOK, Ptr, Advance, Incr
  <1>8. \A j \in 0 .. (Fill' - 1) :
          fifo'[Low(Advance(r_rdptr', j))]
            = IF push = 1 /\ j = Fill' - 1 THEN i_data
              ELSE fifo[Low(Advance(r_rdptr, j + load))]
    <2> SUFFICES ASSUME NEW j \in 0 .. (Fill' - 1)
                 PROVE  fifo'[Low(Advance(r_rdptr', j))]
                          = IF push = 1 /\ j = Fill' - 1 THEN i_data
                            ELSE fifo[Low(Advance(r_rdptr, j + load))]
      OBVIOUS
    <2>1. Advance(r_rdptr', j) = Advance(r_rdptr, j + load)
      BY <1>1, <1>2, <1>7, FLENAssumption
         DEF FifoInv, FifoTypeOK, Ptr, Advance
    <2>2. Low(Advance(r_rdptr, j + load)) \in FifoAddr /\ Low(r_wrptr) \in FifoAddr
      BY <1>1, <1>2, FLENAssumption
         DEF FifoInv, FifoTypeOK, Ptr, FifoAddr, Low, Advance
    <2>3. push = 1 => (Low(Advance(r_rdptr, j + load)) = Low(r_wrptr)
                         <=> j = Fill' - 1)
      <3>1. load \in {0, 1} /\ push \in {0, 1}
        OBVIOUS
      <3>2. r_rdptr \in Ptr /\ r_wrptr \in Ptr
        BY DEF FifoInv, FifoTypeOK
      <3>3. ASSUME push = 1
            PROVE  j + load < Fill => Low(Advance(r_rdptr, j + load)) # Low(r_wrptr)
        BY <1>1, <1>2, <3>1, <3>2, <3>3, FLENAssumption
           DEF Ptr, Low, Advance, Fill
      <3>4. ASSUME push = 1
            PROVE  j + load = Fill => Low(Advance(r_rdptr, j + load)) = Low(r_wrptr)
        BY <1>1, <1>2, <3>1, <3>2, <3>4, FLENAssumption
           DEF Ptr, Low, Advance, Fill
      <3>5. QED
        BY <1>1, <1>2, <3>1, <3>3, <3>4, FLENAssumption
    <2>4. fifo' = IF push = 1 THEN [fifo EXCEPT ![Low(r_wrptr)] = i_data]
                  ELSE fifo
      BY DEF FifoClock, StoreWord
    <2>5. fifo \in [FifoAddr -> Data]
      BY DEF FifoInv, FifoTypeOK
    <2>6. QED
      BY <2>1, <2>2, <2>3, <2>4, <2>5
  <1>9. ASSUME NEW k \in Int, k \in 1 .. Held'
        PROVE  FifoWord(k)' = IF push = 1 /\ k = Held' THEN i_data
                          ELSE FifoWord(k + take)
    <2>0. Held' \in Int /\ k >= 1 /\ k <= Held'
      <3>1. Held' \in Int
        BY <1>2 DEF Held, Prefetched
      <3>2. QED
        BY <1>9, <3>1
    <2>1. Prefetched \in {0, 1} /\ Prefetched' \in {0, 1} /\ load \in {0, 1}
          /\ push \in {0, 1} /\ take \in {0, 1}
      BY DEF Prefetched
    <2>2. Held' = Fill' + Prefetched' /\ Held = Fill + Prefetched
      BY DEF Held
    <2>3. CASE k <= Prefetched'
      <3>1. k = 1 /\ Prefetched' = 1
        BY <2>1, <2>3, <2>0
      <3>2. FifoWord(k)' = IF load = 1 THEN fifo[Low(r_rdptr)] ELSE o_data
        BY <2>3, <1>6 DEF FifoWord
      <3>3. CASE load = 1
        <4>1. Prefetched = take /\ Fill # 0
          BY <3>1, <3>3, <1>1, <1>4, <2>1
        <4>2. ~(push = 1 /\ k = Held')
          BY <4>1, <3>1, <3>3, <2>1, <2>2, <1>1, <1>2, FLENAssumption
        <4>3. FifoWord(k + take) = fifo[Low(Advance(r_rdptr, 0))]
          BY <4>1, <3>1, <2>1 DEF FifoWord
        <4>4. Advance(r_rdptr, 0) = r_rdptr
          BY FLENAssumption DEF FifoInv, FifoTypeOK, Ptr, Advance
        <4>5. QED
          BY <3>2, <3>3, <4>2, <4>3, <4>4
      <3>4. CASE load = 0
        <4>1. Prefetched = 1 /\ take = 0
          BY <3>1, <3>4, <1>4, <2>1
        <4>2. ~(push = 1 /\ k = Held')
          BY <4>1, <3>1, <3>4, <2>1, <2>2, <1>1, <1>2, FLENAssumption
        <4>3. FifoWord(k + take) = o_data
          BY <4>1, <3>1 DEF FifoWord
        <4>4. QED
          BY <3>2, <3>4, <4>2, <4>3
      <3>5. QED
        BY <3>3, <3>4, <2>1
    <2>4. CASE ~(k <= Prefetched')
      <3> DEFINE j == k - 1 - Prefetched'
      <3>0. Fill' \in Int /\ Prefetched' \in Int /\ load \in Int
        BY <2>1, <1>2, FLENAssumption
      <3>1. j \in 0 .. (Fill' - 1) /\ (j = Fill' - 1 <=> k = Held')
        BY <3>0, <2>0, <2>2, <2>4, SlotInMemory
      <3>2. FifoWord(k)' = fifo'[Low(Advance(r_rdptr', j))]
        BY <2>4 DEF FifoWord
      <3>3. k + take > Prefetched
        BY <3>0, <2>1, <2>4, <1>4
      <3>4. k + take - 1 - Prefetched = j + load
        BY <3>0, <2>1, <2>4, <1>4
      <3>5. ~(k + take <= Prefetched)
        BY <3>3, <2>1
      <3>6. FifoWord(k + take) = fifo[Low(Advance(r_rdptr, k + take - 1 - Prefetched))]
        BY <3>5, <3>0, <2>1, WordInMemory
      <3>7. QED
        BY <3>1, <3>2, <3>4, <3>6, <1>8
    <2>5. QED
      BY <2>3, <2>4
  <1>10. 1 .. Held' \subseteq Int
    OBVIOUS
  <1>11. QED
    BY <1>5, <1>9, <1>10

\* Sequence r is q with its head taken (take = 1) and d appended (push = 1).
Shifted(q, r, d, push, take) ==
  /\ take = 1 => Len(q) > 0
  /\ Len(r) = Len(q) + push - take
  /\ \A k \in 1 .. Len(r) :
       r[k] = IF push = 1 /\ k = Len(r) THEN d ELSE q[k + take]

\* A sequence is determined by its length and its elements: what a clock edge
\* does to the contents is a queue operation.
LEMMA QueueOperation ==
  ASSUME NEW q \in Seq(Data), NEW r \in Seq(Data), NEW d \in Data,
         NEW push \in {0, 1}, NEW take \in {0, 1},
         Shifted(q, r, d, push, take)
  PROVE  \/ push = 0 /\ take = 0 /\ r = q
         \/ push = 1 /\ take = 0 /\ r = Append(q, d)
         \/ push = 0 /\ take = 1 /\ q # << >> /\ r = Tail(q)
         \/ push = 1 /\ take = 1 /\ q # << >> /\ r = Append(Tail(q), d)
  <1> USE DEF Shifted
  <1>1. CASE push = 0 /\ take = 0
    BY <1>1
  <1>2. CASE push = 1 /\ take = 0
    <2>1. /\ Append(q, d) \in Seq(Data) /\ Len(Append(q, d)) = Len(q) + 1
          /\ \A k \in 1 .. Len(q) : Append(q, d)[k] = q[k]
          /\ Append(q, d)[Len(q) + 1] = d
      OBVIOUS
    <2>2. r = Append(q, d)
      BY <1>2, <2>1
    <2>3. QED
      BY <1>2, <2>2
  <1>3. CASE push = 0 /\ take = 1
    <2>1. q # << >>
      BY <1>3
    <2>2. r = Tail(q)
      BY <1>3, <2>1
    <2>3. QED
      BY <1>3, <2>1, <2>2
  <1>4. CASE push = 1 /\ take = 1
    <2>1. q # << >>
      BY <1>4
    <2>2. /\ Tail(q) \in Seq(Data) /\ Len(Tail(q)) = Len(q) - 1
          /\ \A k \in 1 .. Len(Tail(q)) : Tail(q)[k] = q[k + 1]
      BY <2>1
    <2> DEFINE t == Tail(q)
    <2>3. /\ Append(t, d) \in Seq(Data) /\ Len(Append(t, d)) = Len(t) + 1
          /\ \A k \in 1 .. Len(t) : Append(t, d)[k] = t[k]
          /\ Append(t, d)[Len(t) + 1] = d
      <3>1. t \in Seq(Data)
        BY <2>2
      <3> HIDE DEF t
      <3>2. QED
        BY <3>1
    <2>4. r = Append(Tail(q), d)
      BY <1>4, <2>2, <2>3
    <2>5. QED
      BY <1>4, <2>1, <2>4
  <1>5. QED
    BY <1>1, <1>2, <1>3, <1>4

\* A clock edge is a step of the abstract queue or leaves it unchanged.
LEMMA ClockIsQueueStep ==
  ASSUME FifoInv, FifoInv',
         NEW i_wr \in BOOLEAN, NEW i_rd \in BOOLEAN, NEW i_data \in Data,
         FifoClock(i_wr, i_data, i_rd)
  PROVE  [Queue!Next]_Contents
  <1> DEFINE push == IF w_write(i_wr, i_rd) THEN 1 ELSE 0
             take == IF i_rd /\ o_empty_n THEN 1 ELSE 0
  <1>1. /\ Held' = Held + push - take
        /\ \A k \in 1 .. Held' :
             FifoWord(k)' = IF push = 1 /\ k = Held' THEN i_data ELSE FifoWord(k + take)
    BY ContentsStep
  <1>2. ContentsOK /\ ContentsOK'
    BY ContentsSeq, PTL
  <1>3. push \in {0, 1} /\ take \in {0, 1}
    OBVIOUS
  <1>4. take = 1 => Held > 0
    BY <1>2, FLENAssumption
       DEF ContentsOK, Held, Prefetched, Fill, FifoInv, FifoTypeOK, Ptr
  <1>5. push = 1 /\ take = 0 => Held < FLEN + 1
    BY <1>1, <1>2, <1>3, FLENAssumption DEF ContentsOK
  <1> HIDE DEF push, take
  <1>6. \A k \in 1 .. Held' : Contents'[k] =
          IF push = 1 /\ k = Held' THEN i_data ELSE Contents[k + take]
    <2> SUFFICES ASSUME NEW k \in Int, k \in 1 .. Held'
                 PROVE  Contents'[k] = IF push = 1 /\ k = Held' THEN i_data
                                       ELSE Contents[k + take]
      OBVIOUS
    <2>1. Contents'[k] = FifoWord(k)'
      BY <1>2 DEF ContentsOK
    <2>2. ~(push = 1 /\ k = Held') => k + take \in 1 .. Held
      BY <1>1, <1>2, <1>3 DEF ContentsOK
    <2>3. ~(push = 1 /\ k = Held') => Contents[k + take] = FifoWord(k + take)
      BY <2>2, <1>2 DEF ContentsOK
    <2>4. QED
      BY <2>1, <2>3, <1>1
  <1>7. \/ push = 0 /\ take = 0 /\ Contents' = Contents
        \/ push = 1 /\ take = 0 /\ Contents' = Append(Contents, i_data)
        \/ push = 0 /\ take = 1 /\ Contents # << >> /\ Contents' = Tail(Contents)
        \/ push = 1 /\ take = 1 /\ Contents # << >>
             /\ Contents' = Append(Tail(Contents), i_data)
    <2>1. Len(Contents) = Held /\ Len(Contents') = Held'
      BY <1>2 DEF ContentsOK
    <2>2. Contents \in Seq(Data) /\ Contents' \in Seq(Data)
      BY <1>2 DEF ContentsOK
    <2>3. Len(Contents') = Len(Contents) + push - take
      BY <1>1, <2>1
    <2>4. \A k \in 1 .. Len(Contents') : Contents'[k] =
            IF push = 1 /\ k = Len(Contents') THEN i_data
            ELSE Contents[k + take]
      BY <1>6, <2>1
    <2>5. take = 1 => Len(Contents) > 0
      BY <1>4, <2>1
    <2>6. Shifted(Contents, Contents', i_data, push, take)
      BY <2>3, <2>4, <2>5 DEF Shifted
    <2>7. QED
      BY <2>2, <2>6, <1>3, QueueOperation
  <1>8. push = 1 /\ take = 0 => Len(Contents) < FLEN + 1
    BY <1>2, <1>5 DEF ContentsOK
  <1>9. QED
    BY <1>7, <1>8 DEF Queue!Next, Queue!Push, Queue!Pop, Queue!PopPush

\* The clocked registers of wbufifo.v implement the bounded queue.
THEOREM FifoImplementsQueue == FifoSpec => ImplementsQueue
  <1>1. FifoInit => Queue!Init
    <2> SUFFICES ASSUME FifoInit PROVE Contents = << >>
      BY DEF Queue!Init
    <2>1. Held = 0
      BY DEF FifoInit, Held, Prefetched, Fill
    <2>2. FifoInv
      BY InitFifoInv
    <2>3. QED
      BY <2>1, <2>2, ContentsSeq DEF ContentsOK
  <1>2. FifoInv /\ FifoInv' /\ [FifoNext]_fifovars => [Queue!Next]_Contents
    <2> SUFFICES ASSUME FifoInv, FifoInv', [FifoNext]_fifovars
                 PROVE  [Queue!Next]_Contents
      OBVIOUS
    <2>1. ASSUME NEW i_wr \in BOOLEAN, NEW i_rd \in BOOLEAN,
                 NEW i_data \in Data, FifoClock(i_wr, i_data, i_rd)
          PROVE  [Queue!Next]_Contents
      BY <2>1, ClockIsQueueStep
    <2>2. ASSUME NEW i_wr \in BOOLEAN, NEW i_rd \in BOOLEAN,
                 NEW i_data \in Data, FifoReset(i_wr, i_data, i_rd)
          PROVE  [Queue!Next]_Contents
      <3>1. Held' = 0
        BY <2>2 DEF FifoReset, Held, Prefetched, Fill
      <3>2. ContentsOK'
        BY ContentsSeq, PTL
      <3>3. Contents' = << >>
        BY <3>1, <3>2 DEF ContentsOK
      <3>4. QED
        BY <3>3 DEF Queue!Next, Queue!Reset
    <2>3. CASE UNCHANGED fifovars
      <3>1. Contents' = Contents
        BY <2>3 DEF fifovars, Contents, Held, FifoWord, Prefetched, Fill
      <3>2. QED
        BY <3>1
    <2>4. QED
      BY <2>1, <2>2, <2>3 DEF FifoNext
  <1>3. QED
    BY <1>1, <1>2, FifoInvariance, PTL DEF FifoSpec, ImplementsQueue, Queue!Spec

-----------------------------------------------------------------------------
\* The clock crossing.

\* The registers as configured satisfy the invariant.
LEMMA InitTfrInv == TfrInit => TfrInv
  BY ZeroAssumption DEF TfrInit, TfrInv, TfrTypeOK, OneBoundary, Agreement

\* What an edge does to the flip-flops of its own domain.
LEMMA ABits ==
  ASSUME TfrTypeOK, AEdge
  PROVE  /\ q_ack' <=> r_back
         /\ r_aack' <=> q_ack
         /\ ~r_atfr /\ ~r_aack => (r_atfr' <=> i_value # r_aval)
         /\ r_atfr \/ r_aack => (r_atfr' <=> r_atfr /\ ~r_aack)
         /\ r_aval' = IF ~r_atfr /\ ~r_aack THEN i_value ELSE r_aval
  BY Zenon DEF AEdge, Launch, TfrTypeOK

LEMMA BBits ==
  ASSUME TfrTypeOK, BEdge
  PROVE  /\ q_tfr' <=> r_atfr
         /\ r_btfr' <=> q_tfr
         /\ r_back' <=> r_btfr
         /\ r_value' = IF r_btfr /\ ~r_back THEN r_aval ELSE r_value
  BY Zenon DEF BEdge, Capture, TfrTypeOK

\* One edge of either clock, or of both, preserves the type invariant.
LEMMA TfrTypes == TfrTypeOK /\ [TfrNext]_tfrvars => TfrTypeOK'
  <1> SUFFICES ASSUME TfrTypeOK, [TfrNext]_tfrvars PROVE TfrTypeOK'
    OBVIOUS
  <1>1. AEdge => /\ r_aval' \in Value
                 /\ r_atfr' \in BOOLEAN /\ q_ack' \in BOOLEAN
                 /\ r_aack' \in BOOLEAN
    BY DEF AEdge, Launch, TfrTypeOK
  <1>2. BEdge => /\ q_tfr' \in BOOLEAN /\ r_btfr' \in BOOLEAN
                 /\ r_back' \in BOOLEAN /\ r_value' \in Value
    BY DEF BEdge, Capture, TfrTypeOK
  <1>3. QED
    BY <1>1, <1>2
       DEF TfrNext, AClk, BClk, ABClk, ChangeInput, TfrTypeOK, tfrvars, avars, bvars

\* One edge of either clock, or of both, preserves the invariant.
LEMMA TfrStep == TfrInv /\ [TfrNext]_tfrvars => TfrInv'
  <1> SUFFICES ASSUME TfrInv, [TfrNext]_tfrvars PROVE TfrInv'
    OBVIOUS
  <1>0. TfrTypeOK /\ TfrTypeOK'
    BY TfrTypes DEF TfrInv
  <1>1. CASE AClk
    <2>1. UNCHANGED bvars
      BY <1>1 DEF AClk
    <2>2. /\ q_ack' <=> r_back
          /\ r_aack' <=> q_ack
          /\ ~r_atfr /\ ~r_aack => (r_atfr' <=> i_value # r_aval)
          /\ r_atfr \/ r_aack => (r_atfr' <=> r_atfr /\ ~r_aack)
          /\ r_aval' = IF ~r_atfr /\ ~r_aack THEN i_value ELSE r_aval
      BY <1>0, <1>1, ABits DEF AClk
    <2>3. /\ q_tfr' <=> q_tfr
          /\ r_btfr' <=> r_btfr
          /\ r_back' <=> r_back
          /\ r_value' = r_value
      BY <2>1, Zenon DEF bvars
    <2>4. OneBoundary'
      BY <2>2, <2>3 DEF TfrInv, OneBoundary
    <2>5. Agreement'
      BY <2>2, <2>3 DEF TfrInv, OneBoundary, Agreement
    <2>6. QED
      BY <1>0, <2>4, <2>5 DEF TfrInv
  <1>2. CASE BClk
    <2>1. UNCHANGED avars
      BY <1>2 DEF BClk
    <2>2. /\ q_tfr' <=> r_atfr
          /\ r_btfr' <=> q_tfr
          /\ r_back' <=> r_btfr
          /\ r_value' = IF r_btfr /\ ~r_back THEN r_aval ELSE r_value
      BY <1>0, <1>2, BBits DEF BClk
    <2>3. /\ q_ack' <=> q_ack
          /\ r_aack' <=> r_aack
          /\ r_atfr' <=> r_atfr
          /\ r_aval' = r_aval
      BY <2>1, Zenon DEF avars
    <2>4. OneBoundary'
      BY <2>2, <2>3 DEF TfrInv, OneBoundary
    <2>5. Agreement'
      BY <2>2, <2>3 DEF TfrInv, OneBoundary, Agreement
    <2>6. QED
      BY <1>0, <2>4, <2>5 DEF TfrInv
  <1>3. CASE ABClk
    <2>1. /\ q_ack' <=> r_back
          /\ r_aack' <=> q_ack
          /\ ~r_atfr /\ ~r_aack => (r_atfr' <=> i_value # r_aval)
          /\ r_atfr \/ r_aack => (r_atfr' <=> r_atfr /\ ~r_aack)
          /\ r_aval' = IF ~r_atfr /\ ~r_aack THEN i_value ELSE r_aval
      BY <1>0, <1>3, ABits DEF ABClk
    <2>2. /\ q_tfr' <=> r_atfr
          /\ r_btfr' <=> q_tfr
          /\ r_back' <=> r_btfr
          /\ r_value' = IF r_btfr /\ ~r_back THEN r_aval ELSE r_value
      BY <1>0, <1>3, BBits DEF ABClk
    <2>3. OneBoundary'
      BY <2>1, <2>2 DEF TfrInv, OneBoundary
    <2>4. Agreement'
      BY <2>1, <2>2 DEF TfrInv, OneBoundary, Agreement
    <2>5. QED
      BY <1>0, <2>3, <2>4 DEF TfrInv
  <1>4. CASE ChangeInput \/ UNCHANGED tfrvars
    BY <1>0, <1>4
       DEF ChangeInput, tfrvars, avars, bvars, TfrInv, OneBoundary, Agreement
  <1>5. QED
    BY <1>1, <1>2, <1>3, <1>4 DEF TfrNext

\* The handshake invariants hold in every reachable state.
THEOREM TfrInvariance == TfrSpec => []TfrInv
  <1>1. QED
    BY InitTfrInv, TfrStep, PTL DEF TfrSpec

\* The assertions of the module's FORMAL section hold.
THEOREM TfrHandshake == TfrSpec => []Handshake
  <1>1. TfrInv => Handshake
    BY DEF TfrInv, OneBoundary, Handshake
  <1>2. QED
    BY <1>1, TfrInvariance, PTL

\* Whenever the crossing is at rest both domains hold the same value.
THEOREM TfrAgreement == TfrSpec => []Agreement
  <1>1. TfrInv => Agreement
    BY DEF TfrInv
  <1>2. QED
    BY <1>1, TfrInvariance, PTL

\* No torn value is ever captured.
THEOREM TfrNeverTorn == TfrSpec => NeverTorn
  <1>1. TfrInv /\ [TfrNext]_tfrvars
          => [r_value' # r_value => r_value' = r_aval /\ r_aval' = r_aval]_tfrvars
    <2> SUFFICES ASSUME TfrInv, TfrNext, r_value' # r_value
                 PROVE  r_value' = r_aval /\ r_aval' = r_aval
      BY DEF tfrvars
    <2>1. BEdge /\ r_btfr /\ ~r_back /\ r_value' = r_aval
      BY DEF TfrNext, AClk, BClk, ABClk, ChangeInput, BEdge, Capture, bvars
    <2>2. r_atfr \/ r_aack
      BY <2>1 DEF TfrInv, OneBoundary
    <2>3. QED
      BY <2>1, <2>2 DEF TfrNext, AClk, BClk, ABClk, ChangeInput, AEdge, Launch, avars
  <1>2. QED
    BY <1>1, TfrInvariance, PTL DEF TfrSpec, NeverTorn

\* The source register changes only with every synchroniser stage at rest.
THEOREM TfrLaunchesWhenIdle == TfrSpec => LaunchesWhenIdle
  <1>1. TfrInv /\ [TfrNext]_tfrvars
          => [r_aval' # r_aval => ~q_tfr /\ ~r_btfr /\ ~q_ack /\ ~r_aack]_tfrvars
    <2> SUFFICES ASSUME TfrInv, TfrNext, r_aval' # r_aval
                 PROVE  ~q_tfr /\ ~r_btfr /\ ~q_ack /\ ~r_aack
      BY DEF tfrvars
    <2>1. ~r_atfr /\ ~r_aack
      BY DEF TfrNext, AClk, BClk, ABClk, ChangeInput, AEdge, Launch, avars
    <2>2. QED
      BY <2>1 DEF TfrInv, OneBoundary
  <1>2. QED
    BY <1>1, TfrInvariance, PTL DEF TfrSpec, LaunchesWhenIdle

-----------------------------------------------------------------------------
\* The executor of bus commands.

\* Two sequences, one after the other.
LEMMA Joined ==
  ASSUME NEW S, NEW s \in Seq(S), NEW t \in Seq(S)
  PROVE  s \o t \in Seq(S) /\ Len(s \o t) = Len(s) + Len(t)
  OBVIOUS

\* A remainder is below its modulus, and a number below it is its own remainder.
LEMMA Remainder ==
  ASSUME NEW a \in Int, NEW n \in Nat \ {0}
  PROVE  /\ a % n \in 0 .. n - 1
         /\ a \in 0 .. n - 1 => a % n = a
  OBVIOUS

\* How many requests the bus has accepted and not answered after a clock.
LEMMA OutstandingLength ==
  ASSUME ExecTypeOK,
         NEW i_stb \in BOOLEAN, NEW stall \in BOOLEAN, NEW ack \in BOOLEAN,
         NEW err \in BOOLEAN, NEW c \in Codeword,
         Clock(i_stb, c, stall, ack, err)
  PROVE  /\ outstanding' \in Seq(Addr)
         /\ outstanding' = <<>> <=> Len(outstanding') = 0
         /\ ack \/ err => Len(outstanding) >= 1
         /\ Len(outstanding') =
              IF ~o_wb_cyc \/ err THEN 0
              ELSE Len(outstanding) - (IF ack THEN 1 ELSE 0)
                     + (IF o_wb_stb /\ ~stall THEN 1 ELSE 0)
  <1> DEFINE left == IF ack THEN Tail(outstanding) ELSE outstanding
             new  == IF o_wb_stb /\ ~stall THEN <<o_wb_addr>> ELSE <<>>
  <1>1. outstanding \in Seq(Addr) /\ o_wb_addr \in Addr
    BY DEF ExecTypeOK
  <1>2. ack \/ err => outstanding # <<>>
    BY DEF Clock
  <1>3. /\ left \in Seq(Addr)
        /\ Len(left) = Len(outstanding) - (IF ack THEN 1 ELSE 0)
        /\ ack \/ err => Len(outstanding) >= 1
    BY <1>1, <1>2
  <1>4. /\ new \in Seq(Addr)
        /\ Len(new) = IF o_wb_stb /\ ~stall THEN 1 ELSE 0
    BY <1>1
  <1>5. outstanding' = IF ~o_wb_cyc \/ err THEN <<>> ELSE left \o new
    BY Zenon DEF Clock, NxtOutstanding
  <1> HIDE DEF left, new
  <1>6. left \o new \in Seq(Addr) /\ Len(left \o new) = Len(left) + Len(new)
    BY <1>3, <1>4, Joined
  <1>7. <<>> \in Seq(Addr) /\ Len(<<>>) = 0
    OBVIOUS
  <1>8. outstanding' \in Seq(Addr)
    BY <1>5, <1>6, <1>7, Zenon
  <1>9. outstanding' = <<>> <=> Len(outstanding') = 0
    BY <1>8
  <1>10. QED
    BY <1>3, <1>4, <1>5, <1>6, <1>7, <1>8, <1>9

-----------------------------------------------------------------------------
LEMMA InitExecInv == ExecInit => ExecInv
  <1> SUFFICES ASSUME ExecInit PROVE ExecInv
    OBVIOUS
  <1>1. <<>> \in Seq(Addr) /\ Len(<<>>) = 0
    OBVIOUS
  <1>2. /\ 0 \in 0 .. AckMod - 1 /\ 0 \in 0 .. MaxLen /\ 0 \in 0 .. WdtMax
        /\ 0 \in Int /\ 0 <= MaxOut
    BY ExecAssumption
  <1>3. ExecTypeOK
    BY <1>1, <1>2, Zenon DEF ExecInit, ExecTypeOK, Word
  <1>4. QED
    BY <1>1, <1>2, <1>3 DEF ExecInit, ExecInv, CycleMatchesState, AcksCounted, AckFlags,
                            ReadProgress

\* What a codeword's fields are.
LEMMA Fields ==
  ASSUME NEW c \in Codeword
  PROVE  /\ Len10(c) \in 0 .. MaxLen
         /\ c.op = "read" => Len10(c) >= 1
         /\ c.op # "read" => Len10(c) = 0
         /\ Inc(c) \in BOOLEAN
         /\ c.op \in {"addr", "rel"} => c.a \in Addr
  BY ExecAssumption DEF Codeword, Len10, Inc

LEMMA AddressStays ==
  ASSUME NEW a \in Addr, NEW n \in Addr \cup {1}
  PROVE  Plus(a, n) \in Addr
  BY ExecAssumption, Remainder DEF Addr, Plus

LEMMA ExecTypes ==
  ASSUME ExecInv,
         NEW i_stb \in BOOLEAN, NEW stall \in BOOLEAN, NEW ack \in BOOLEAN,
         NEW err \in BOOLEAN, NEW c \in Codeword,
         Clock(i_stb, c, stall, ack, err)
  PROVE  ExecTypeOK'
  <1>1. Fsm(i_stb, c, stall, ack, err)
    BY DEF Clock
  <1>2. wb_state' \in {"IDLE", "READ_REQUEST", "WRITE_REQUEST", "ACK",
                       "WAIT_ON_NEXT_WRITE", "FLUSH_WRITE_REQUESTS"}
    BY <1>1 DEF Fsm, Reset, Idle, ReadRequest, WriteRequest, Ack, WaitOnNextWrite,
                FlushWriteRequests, ExecInv, ExecTypeOK
  <1>3. /\ o_wb_cyc' \in BOOLEAN /\ o_wb_stb' \in BOOLEAN /\ o_wb_we' \in BOOLEAN
        /\ r_inc' \in BOOLEAN /\ o_stb' \in BOOLEAN
    <2>1. /\ Inc(c) \in BOOLEAN
          /\ o_wb_we \in BOOLEAN /\ r_inc \in BOOLEAN /\ r_new_addr \in BOOLEAN
      BY Fields, Zenon DEF ExecInv, ExecTypeOK
    <2>2. CASE Reset
      BY <2>1, <2>2, Zenon DEF Reset
    <2>3. CASE Idle(i_stb, c)
      BY <2>1, <2>3, Zenon DEF Idle
    <2>4. CASE ReadRequest(stall, ack, err)
      BY <2>1, <2>4, Zenon DEF ReadRequest
    <2>5. CASE WriteRequest(stall, err)
      BY <2>1, <2>5, Zenon DEF WriteRequest
    <2>6. CASE Ack(ack, err)
      BY <2>1, <2>6, Zenon DEF Ack
    <2>7. CASE WaitOnNextWrite(i_stb, c, err)
      BY <2>1, <2>7, Zenon DEF WaitOnNextWrite, w_new_err
    <2>8. CASE FlushWriteRequests(i_stb, c)
      BY <2>1, <2>8, Zenon DEF FlushWriteRequests, w_new_err
    <2>9. QED
      BY <1>1, <2>2, <2>3, <2>4, <2>5, <2>6, <2>7, <2>8, Zenon DEF Fsm
  <1>4. 0 \in Addr /\ Plus(o_wb_addr, 1) \in Addr
    <2>1. 0 \in Addr
      BY ExecAssumption DEF Addr
    <2>2. QED
      BY <2>1, AddressStays DEF ExecInv, ExecTypeOK
  <1>5. o_wb_addr' \in Addr
    BY <1>1, <1>4, Fields, AddressStays
       DEF Fsm, Reset, Idle, ReadRequest, NxtAddr, WriteRequest, Ack,
           WaitOnNextWrite, FlushWriteRequests, ExecInv, ExecTypeOK
  <1>6. o_codword' \in [kind : {"addr", "data", "wrack", "err", "reset"}, a : Addr]
    <2>1. ack => Head(outstanding) \in Addr
      BY DEF Clock, ExecInv, ExecTypeOK
    <2>2. QED
      BY <1>1, <1>4, <2>1 DEF Fsm, Reset, Idle, ReadRequest, WriteRequest, Ack,
           WaitOnNextWrite, FlushWriteRequests, Word, ExecInv, ExecTypeOK
  <1>7. /\ r_new_addr' \in BOOLEAN /\ last_ack' \in BOOLEAN /\ zero_acks' \in BOOLEAN
        /\ single_read_request' \in BOOLEAN /\ last_read_request' \in BOOLEAN
        /\ r_wdt_reset' \in BOOLEAN /\ fresh' \in BOOLEAN /\ failed' \in BOOLEAN
    BY Zenon DEF Clock, NxtNewAddr, NxtLastAck, NxtLastRead, NxtWatchdog, NxtOrigin,
                 ExecInv, ExecTypeOK
  <1>8. r_acks_needed' \in 0 .. AckMod - 1
    <2>1. /\ r_acks_needed \in 0 .. AckMod - 1 /\ 0 \in 0 .. AckMod - 1
          /\ AckMod \in Nat \ {0}
          /\ r_acks_needed + 1 \in Int /\ r_acks_needed - 1 \in Int
      BY ExecAssumption DEF ExecInv, ExecTypeOK
    <2>2. /\ (r_acks_needed + 1) % AckMod \in 0 .. AckMod - 1
          /\ (r_acks_needed - 1) % AckMod \in 0 .. AckMod - 1
      BY <2>1, Remainder
    <2>3. QED
      BY <2>1, <2>2, Zenon DEF Clock, NxtAcksNeeded
  <1>9. r_len' \in 0 .. MaxLen
    BY Fields, ExecAssumption DEF Clock, NxtLen, ExecInv, ExecTypeOK
  <1>10. r_wdt_timer' \in 0 .. WdtMax
    BY ExecAssumption DEF Clock, NxtWatchdog, ExecInv, ExecTypeOK
  <1>11. outstanding' \in Seq(Addr)
    BY OutstandingLength DEF ExecInv
  <1>12. due' \in Int
    BY Fields, ExecAssumption DEF Clock, NxtDue, ExecInv, ExecTypeOK
  <1>13. QED
    BY <1>2, <1>3, <1>5, <1>6, <1>7, <1>8, <1>9, <1>10, <1>11, <1>12, Zenon
       DEF ExecTypeOK

-----------------------------------------------------------------------------
\* The registered flags, as the truth values they are.
LEMMA FlagFacts ==
  ASSUME ExecInv,
         NEW i_stb \in BOOLEAN, NEW stall \in BOOLEAN, NEW ack \in BOOLEAN,
         NEW err \in BOOLEAN, NEW c \in Codeword,
         Clock(i_stb, c, stall, ack, err)
  PROVE  /\ last_ack' <=> \/ o_wb_stb /\ r_acks_needed = 0
                          \/ ~o_wb_stb /\ r_acks_needed = 1
         /\ zero_acks' <=> ~o_wb_stb /\ r_acks_needed = 0
         /\ single_read_request' <=> ~o_wb_cyc /\ Len10(c) = 1
         /\ last_read_request' <=> o_wb_stb /\ (r_len <= 1 \/ (r_len = 2 /\ ~stall))
         /\ fresh' <=> (Starts /\ ~o_wb_cyc) \/ (~Starts /\ fresh)
         /\ failed' <=> ~Starts /\ (failed \/ (o_wb_cyc /\ err))
         /\ ~(ack /\ err)
  BY Zenon DEF Clock, NxtLastAck, NxtLastRead, NxtOrigin

\* What a step of the state machine does to the bus lines.
LEMMA LineFacts ==
  ASSUME ExecInv,
         NEW i_stb \in BOOLEAN, NEW stall \in BOOLEAN, NEW ack \in BOOLEAN,
         NEW err \in BOOLEAN, NEW c \in Codeword,
         Clock(i_stb, c, stall, ack, err)
  PROVE  CycleMatchesState'
  <1>1. Fsm(i_stb, c, stall, ack, err)
    BY DEF Clock
  <1>2. CycleMatchesState
    BY DEF ExecInv
  <1>3. CASE r_wdt_reset /\ Reset
    BY <1>3 DEF Reset, CycleMatchesState
  <1>4. CASE wb_state = "IDLE" /\ Idle(i_stb, c)
    BY <1>4 DEF Idle, CycleMatchesState
  <1>5. CASE wb_state = "READ_REQUEST" /\ ReadRequest(stall, ack, err)
    <2>1. wb_state' = "IDLE" => failed'
      BY <1>2, <1>5, FlagFacts DEF ReadRequest, CycleMatchesState, Starts
    <2>2. QED
      BY <1>5, <2>1 DEF ReadRequest, CycleMatchesState
  <1>6. CASE wb_state = "WRITE_REQUEST" /\ WriteRequest(stall, err)
    BY <1>6 DEF WriteRequest, CycleMatchesState
  <1>7. CASE wb_state = "ACK" /\ Ack(ack, err)
    BY <1>7 DEF Ack, CycleMatchesState
  <1>8. CASE wb_state = "WAIT_ON_NEXT_WRITE" /\ WaitOnNextWrite(i_stb, c, err)
    BY <1>8 DEF WaitOnNextWrite, CycleMatchesState
  <1>9. CASE wb_state = "FLUSH_WRITE_REQUESTS" /\ FlushWriteRequests(i_stb, c)
    BY <1>9 DEF FlushWriteRequests, CycleMatchesState
  <1>10. QED
    BY <1>1, <1>3, <1>4, <1>5, <1>6, <1>7, <1>8, <1>9, Zenon DEF Fsm

\* The counter follows the bus, whatever the state machine does.
LEMMA ExecCounts ==
  ASSUME ExecInv,
         NEW i_stb \in BOOLEAN, NEW stall \in BOOLEAN, NEW ack \in BOOLEAN,
         NEW err \in BOOLEAN, NEW c \in Codeword,
         Clock(i_stb, c, stall, ack, err)
  PROVE  Len(outstanding') <= MaxOut /\ AcksCounted'
  <1>1. /\ Len(outstanding) \in Nat /\ Len(outstanding) <= MaxOut
        /\ Len(outstanding) >= MaxOut => stall
        /\ MaxOut \in Nat /\ AckMod \in Nat \ {0} /\ MaxOut < AckMod
    BY ExecAssumption DEF ExecInv, ExecTypeOK, Clock
  <1>2. /\ ack \/ err => Len(outstanding) >= 1
        /\ Len(outstanding') = IF ~o_wb_cyc \/ err THEN 0
                               ELSE Len(outstanding) - (IF ack THEN 1 ELSE 0)
                                      + (IF o_wb_stb /\ ~stall THEN 1 ELSE 0)
    BY OutstandingLength DEF ExecInv
  <1>3. Len(outstanding') <= MaxOut
    BY <1>1, <1>2
  <1>4. CASE ~o_wb_cyc
    <2>1. r_acks_needed' = 0
      BY <1>4, Zenon DEF Clock, NxtAcksNeeded
    <2>2. QED
      BY <1>2, <1>3, <1>4, <2>1 DEF AcksCounted
  <1>5. CASE o_wb_cyc /\ (Starts \/ failed \/ err \/ ~fresh)
    <2>1. ~fresh' \/ failed'
      <3>1. /\ fresh' <=> (Starts /\ ~o_wb_cyc) \/ (~Starts /\ fresh)
            /\ failed' <=> ~Starts /\ (failed \/ (o_wb_cyc /\ err))
        BY FlagFacts, ZenonT(30)
      <3>2. QED
        BY <1>5, <3>1, Zenon
    <2>2. QED
      BY <1>3, <2>1 DEF AcksCounted
  <1>6. CASE o_wb_cyc /\ ~Starts /\ ~failed /\ ~err /\ fresh
    <2>1. r_acks_needed = Len(outstanding)
      BY <1>6 DEF ExecInv, AcksCounted
    <2>2. CASE o_wb_stb /\ ~stall /\ ~ack
      <3>1. (r_acks_needed + 1) % AckMod = r_acks_needed + 1
        <4>1. r_acks_needed + 1 \in 0 .. AckMod - 1 /\ r_acks_needed + 1 \in Int
          BY <1>1, <2>1, <2>2
        <4>2. QED
          BY <1>1, <4>1, Remainder, Zenon
      <3>2. r_acks_needed' = r_acks_needed + 1
        BY <1>6, <2>2, <3>1, Zenon DEF Clock, NxtAcksNeeded
      <3>3. QED
        BY <1>1, <1>2, <1>6, <2>1, <2>2, <3>2 DEF AcksCounted
    <2>3. CASE (~o_wb_stb \/ stall) /\ ack
      <3>1. (r_acks_needed - 1) % AckMod = r_acks_needed - 1
        <4>1. r_acks_needed - 1 \in 0 .. AckMod - 1 /\ r_acks_needed - 1 \in Int
          BY <1>1, <1>2, <2>1, <2>3
        <4>2. QED
          BY <1>1, <4>1, Remainder, Zenon
      <3>2. r_acks_needed' = r_acks_needed - 1
        BY <1>6, <2>3, <3>1, Zenon DEF Clock, NxtAcksNeeded
      <3>3. QED
        BY <1>1, <1>2, <1>6, <2>1, <2>3, <3>2 DEF AcksCounted
    <2>4. CASE ~(o_wb_stb /\ ~stall /\ ~ack) /\ ~((~o_wb_stb \/ stall) /\ ack)
      <3>1. r_acks_needed' = r_acks_needed
        BY <1>6, <2>4, Zenon DEF Clock, NxtAcksNeeded
      <3>2. QED
        BY <1>1, <1>2, <1>6, <2>1, <2>4, <3>1 DEF AcksCounted
    <2>5. QED
      BY <2>2, <2>3, <2>4
  <1>7. QED
    BY <1>3, <1>4, <1>5, <1>6

\* A word of the read that runs leaves one fewer due; an error or a reset ends
\* the count; nothing else changes it.
LEMMA DueFacts ==
  ASSUME ExecInv,
         NEW i_stb \in BOOLEAN, NEW stall \in BOOLEAN, NEW ack \in BOOLEAN,
         NEW err \in BOOLEAN, NEW c \in Codeword,
         Clock(i_stb, c, stall, ack, err)
  PROVE  /\ Starts => due' = Len10(c)
         /\ ~Starts =>
              /\ r_wdt_reset => due' = 0
              /\ ~r_wdt_reset =>
                   /\ wb_state = "IDLE" => due' = due
                   /\ wb_state = "READ_REQUEST" =>
                        due' = IF err THEN 0 ELSE IF ack THEN due - 1 ELSE due
                   /\ wb_state = "ACK" =>
                        due' = IF err THEN 0
                               ELSE IF ack /\ ~o_wb_we THEN due - 1 ELSE due
                   /\ wb_state \in {"WRITE_REQUEST", "WAIT_ON_NEXT_WRITE",
                                    "FLUSH_WRITE_REQUESTS"} => due' = due \/ due' = 0
  <1>1. /\ Starts => due' = Len10(c)
        /\ ~Starts =>
             /\ ~o_stb' => due' = due
             /\ o_stb' /\ o_codword'.kind \in {"err", "reset"} => due' = 0
             /\ o_stb' /\ o_codword'.kind = "data" => due' = due - 1
             /\ o_codword'.kind \in {"addr", "wrack"} => due' = due
    BY DEF Clock, NxtDue
  <1>2. Fsm(i_stb, c, stall, ack, err)
    BY DEF Clock
  <1>3. CASE r_wdt_reset
    <2>1. o_stb' /\ o_codword'.kind = "reset"
      BY <1>2, <1>3 DEF Fsm, Reset, Word
    <2>2. QED
      BY <1>1, <1>3, <2>1
  <1>4. CASE ~r_wdt_reset /\ wb_state = "IDLE"
    <2>1. o_codword'.kind = "addr"
      BY <1>2, <1>4 DEF Fsm, Idle, Word
    <2>2. QED
      BY <1>1, <1>4, <2>1
  <1>5. CASE ~r_wdt_reset /\ wb_state = "READ_REQUEST"
    <2>1. /\ o_stb' <=> err \/ ack
          /\ o_codword' = IF err THEN Word("err", 0)
                          ELSE IF ack THEN Word("data", Head(outstanding))
                          ELSE o_codword
      BY <1>2, <1>5 DEF Fsm, ReadRequest
    <2>2. (err => o_codword'.kind = "err") /\ (~err /\ ack => o_codword'.kind = "data")
      BY <2>1 DEF Word
    <2>3. QED
      BY <1>1, <1>5, <2>1, <2>2
  <1>6. CASE ~r_wdt_reset /\ wb_state = "ACK"
    <2>1. /\ o_stb' <=> (ack /\ ~o_wb_we) \/ err
          /\ o_codword' = IF err THEN Word("err", 0)
                          ELSE IF ack THEN Word("data", Head(outstanding))
                          ELSE o_codword
      BY <1>2, <1>6 DEF Fsm, Ack
    <2>2. (err => o_codword'.kind = "err") /\ (~err /\ ack => o_codword'.kind = "data")
      BY <2>1 DEF Word
    <2>3. QED
      BY <1>1, <1>6, <2>1, <2>2
  <1>7. CASE /\ ~r_wdt_reset
             /\ wb_state \in {"WRITE_REQUEST", "WAIT_ON_NEXT_WRITE",
                              "FLUSH_WRITE_REQUESTS"}
    <2>1. o_codword'.kind \in {"err", "wrack"}
      BY <1>2, <1>7 DEF Fsm, WriteRequest, WaitOnNextWrite, FlushWriteRequests, Word
    <2>2. o_stb' \in BOOLEAN
      BY ExecTypes, Zenon DEF ExecTypeOK
    <2>3. QED
      BY <1>1, <1>7, <2>1, <2>2
  <1>8. QED
    BY <1>3, <1>4, <1>5, <1>6, <1>7 DEF ExecInv, ExecTypeOK

-----------------------------------------------------------------------------
\* A clock keeps the account of the words due, one case per state.
LEMMA ExecProgress ==
  ASSUME ExecInv,
         NEW i_stb \in BOOLEAN, NEW stall \in BOOLEAN, NEW ack \in BOOLEAN,
         NEW err \in BOOLEAN, NEW c \in Codeword,
         Clock(i_stb, c, stall, ack, err)
  PROVE  AckFlags' /\ ReadProgress'
  <1>1. Fsm(i_stb, c, stall, ack, err)
    BY DEF Clock
  <1>2. ExecTypeOK' /\ AcksCounted' /\ CycleMatchesState'
    BY ExecTypes, ExecCounts, LineFacts
  <1>3. /\ Len(outstanding) \in Nat /\ Len(outstanding') \in Nat
        /\ due \in Int /\ due' \in Int /\ r_len \in Int /\ r_len' \in Int
        /\ r_acks_needed \in Nat /\ r_acks_needed' \in Nat
    BY <1>2, ExecAssumption DEF ExecInv, ExecTypeOK
  <1>4. /\ outstanding' = <<>> <=> Len(outstanding') = 0
        /\ ack \/ err => Len(outstanding) >= 1
        /\ Len(outstanding') = IF ~o_wb_cyc \/ err THEN 0
                               ELSE Len(outstanding) - (IF ack THEN 1 ELSE 0)
                                      + (IF o_wb_stb /\ ~stall THEN 1 ELSE 0)
    BY OutstandingLength DEF ExecInv
  <1>a. fresh' /\ ~failed' /\ wb_state' \in {"ACK", "WAIT_ON_NEXT_WRITE"}
          => r_acks_needed' = Len(outstanding')
    BY <1>2, Zenon DEF AcksCounted, CycleMatchesState
  <1>5. CASE r_wdt_reset /\ Reset
    <2>1. wb_state' = "IDLE" /\ ~Starts
      BY <1>5 DEF Reset, Starts
    <2>2. due' = 0
      BY <1>5, <2>1, DueFacts
    <2>3. QED
      BY <2>1, <2>2 DEF AckFlags, ReadProgress
  <1>6. CASE ~r_wdt_reset /\ wb_state = "IDLE" /\ Idle(i_stb, c)
    <2>1. CASE wb_state' = "READ_REQUEST"
      <3>1. Starts /\ c.op = "read" /\ ~o_wb_we'
        BY <1>6, <2>1 DEF Idle, Starts
      <3>2. CASE o_wb_cyc
        BY <2>1, <3>1, <3>2, FlagFacts DEF AckFlags, ReadProgress
      <3>3. CASE ~o_wb_cyc
        <4>1. ~o_wb_stb
          BY <3>3 DEF ExecInv, CycleMatchesState
        <4>2. r_len' = Len10(c) /\ Len10(c) >= 1
          BY <3>1, <4>1, Fields DEF Clock, NxtLen
        <4>3. due' = Len10(c) /\ Len(outstanding') = 0 /\ ~failed'
          BY <1>4, <3>1, <3>3, DueFacts, FlagFacts
        <4>4. Len10(c) = 1 <=> single_read_request' \/ last_read_request'
          BY <3>3, <4>1, FlagFacts
        <4>5. QED
          BY <1>3, <2>1, <3>1, <4>2, <4>3, <4>4 DEF AckFlags, ReadProgress
      <3>4. QED
        BY <3>2, <3>3
    <2>2. CASE wb_state' = "WRITE_REQUEST"
      <3>1. Starts /\ c.op # "read" /\ o_wb_we'
        BY <1>6, <2>2 DEF Idle, Starts
      <3>2. due' = 0 /\ ~failed'
        BY <3>1, DueFacts, FlagFacts, Fields
      <3>3. QED
        BY <2>2, <3>1, <3>2 DEF AckFlags, ReadProgress
    <2>3. CASE wb_state' = "IDLE"
      <3>1. ~Starts
        BY <2>3 DEF Starts
      <3>2. due' = due /\ (fresh' => fresh)
        BY <1>6, <3>1, DueFacts, FlagFacts
      <3>3. QED
        BY <1>6, <2>3, <3>2 DEF AckFlags, ReadProgress, ExecInv
    <2>4. QED
      BY <1>6, <2>1, <2>2, <2>3 DEF Idle
  <1>7. CASE ~r_wdt_reset /\ wb_state = "READ_REQUEST" /\ ReadRequest(stall, ack, err)
    <2>1. /\ ~Starts /\ (fresh' <=> fresh)
          /\ failed' <=> failed \/ (o_wb_cyc /\ err)
          /\ o_wb_stb /\ o_wb_cyc
          /\ o_wb_we' = o_wb_we
      <3>1. ~Starts /\ o_wb_we' = o_wb_we
        BY <1>7 DEF Starts, ReadRequest
      <3>2. o_wb_stb /\ o_wb_cyc
        BY <1>7 DEF ExecInv, CycleMatchesState
      <3> QED
        BY <3>1, <3>2, FlagFacts
    <2>2. CASE ~fresh
      BY <2>1, <2>2 DEF AckFlags, ReadProgress
    <2>3. CASE fresh
      <3>1. /\ ~failed /\ ~o_wb_we /\ r_len >= 1
            /\ r_len = 1 <=> single_read_request \/ last_read_request
            /\ due = Len(outstanding) + r_len
            /\ r_acks_needed = Len(outstanding)
        BY <1>7, <2>1, <2>3 DEF ExecInv, ReadProgress, AcksCounted
      <3>2. due' = IF err THEN 0 ELSE IF ack THEN due - 1 ELSE due
        BY <1>7, <2>1, DueFacts
      <3>3. /\ ~single_read_request'
            /\ last_read_request' <=> r_len <= 1 \/ (r_len = 2 /\ ~stall)
            /\ last_ack' <=> r_acks_needed = 0
            /\ ~zero_acks'
        BY <2>1, FlagFacts
      <3>4. r_len' = IF ~stall THEN r_len - 1 ELSE r_len
        BY <1>3, <2>1, <3>1 DEF Clock, NxtLen
      <3>5. wb_state' = IF ~stall /\ r_len = 1 THEN "ACK"
                        ELSE IF err THEN "IDLE" ELSE "READ_REQUEST"
        BY <1>7, <3>1 DEF ReadRequest
      <3>6. AckFlags'
        <4>1. last_ack' => Len(outstanding') <= 1
          BY <1>3, <1>4, <3>1, <3>3
        <4>2. QED
          BY <1>a, <3>3, <4>1 DEF AckFlags
      <3>7. ReadProgress'
        <4>1. ~o_wb_we'
          BY <2>1, <3>1, Zenon
        <4>2. CASE ~stall /\ r_len = 1 /\ err
          BY <1>4, <2>1, <3>2, <3>5, <4>1, <4>2 DEF ReadProgress
        <4>3. CASE ~stall /\ r_len = 1 /\ ~err
          <5>1. due' = Len(outstanding')
            BY <1>3, <1>4, <2>1, <3>1, <3>2, <4>3
          <5>2. ~failed'
            BY <2>1, <3>1, <4>3
          <5>3. QED
            BY <3>5, <4>1, <4>3, <5>1, <5>2 DEF ReadProgress
        <4>4. CASE ~(~stall /\ r_len = 1) /\ err
          BY <3>2, <3>5, <4>4 DEF ReadProgress
        <4>5. CASE ~(~stall /\ r_len = 1) /\ ~err
          <5>1. due' = Len(outstanding') + r_len' /\ r_len' >= 1
            BY <1>3, <1>4, <2>1, <3>1, <3>2, <3>4, <4>5
          <5>2. ~failed'
            BY <2>1, <3>1, <4>5
          <5>3. r_len' = 1 <=> single_read_request' \/ last_read_request'
            BY <1>3, <3>1, <3>3, <3>4, <4>5
          <5>4. QED
            BY <3>5, <4>1, <4>5, <5>1, <5>2, <5>3 DEF ReadProgress
        <4>6. QED
          BY <4>2, <4>3, <4>4, <4>5
      <3>8. QED
        BY <3>6, <3>7
    <2>4. QED
      BY <2>2, <2>3
  <1>8. CASE ~r_wdt_reset /\ wb_state = "WRITE_REQUEST" /\ WriteRequest(stall, err)
    <2>1. /\ ~Starts /\ (fresh' <=> fresh)
          /\ failed' <=> failed \/ (o_wb_cyc /\ err)
          /\ o_wb_stb /\ o_wb_cyc
          /\ o_wb_we' = o_wb_we
      BY <1>8, FlagFacts DEF Starts, ExecInv, CycleMatchesState, WriteRequest
    <2>2. wb_state' = CASE err -> "FLUSH_WRITE_REQUESTS"
                        [] ~err /\ ~stall -> "WAIT_ON_NEXT_WRITE"
                        [] OTHER -> "WRITE_REQUEST"
      BY <1>8 DEF WriteRequest
    <2>3. fresh => o_wb_we /\ ~failed /\ due = 0 /\ r_acks_needed = Len(outstanding)
      BY <1>8, <2>1 DEF ExecInv, ReadProgress, AcksCounted
    <2>4. fresh => due' = 0
      BY <1>8, <2>1, <2>3, DueFacts
    <2>5. (last_ack' <=> r_acks_needed = 0) /\ ~zero_acks'
      BY <2>1, FlagFacts
    <2>6. AckFlags'
      <3>1. fresh /\ last_ack' => Len(outstanding') <= 1
        BY <1>3, <1>4, <2>3, <2>5
      <3>2. QED
        BY <1>a, <2>1, <2>5, <3>1 DEF AckFlags
    <2>7. ReadProgress'
      BY <2>1, <2>2, <2>3, <2>4 DEF ReadProgress
    <2>8. QED
      BY <2>6, <2>7
  <1>9. CASE ~r_wdt_reset /\ wb_state = "ACK" /\ Ack(ack, err)
    <2>1. /\ ~Starts /\ (fresh' <=> fresh)
          /\ failed' <=> failed \/ (o_wb_cyc /\ err)
          /\ ~o_wb_stb /\ o_wb_cyc
          /\ o_wb_we' = o_wb_we
      <3>1. ~Starts /\ o_wb_we' = o_wb_we
        BY <1>9 DEF Starts, Ack
      <3>2. ~o_wb_stb /\ o_wb_cyc
        BY <1>9 DEF ExecInv, CycleMatchesState
      <3> QED
        BY <3>1, <3>2, FlagFacts
    <2>2. wb_state' = IF (last_ack /\ ack) \/ zero_acks \/ err THEN "IDLE" ELSE "ACK"
      BY <1>9 DEF Ack
    <2>3. due' = IF err THEN 0 ELSE IF ack /\ ~o_wb_we THEN due - 1 ELSE due
      BY <1>9, <2>1, DueFacts
    <2>4. fresh /\ ~failed => /\ r_acks_needed = Len(outstanding)
                              /\ last_ack => r_acks_needed <= 1
                              /\ zero_acks => r_acks_needed = 0
                              /\ due = IF o_wb_we THEN 0 ELSE Len(outstanding)
      BY <1>9, <2>1 DEF ExecInv, AckFlags, ReadProgress, AcksCounted
    <2>5. fresh /\ failed => due = 0 /\ Len(outstanding) = 0
      BY <1>9 DEF ExecInv, ReadProgress, ExecTypeOK
    <2>6. (last_ack' <=> r_acks_needed = 1) /\ (zero_acks' <=> r_acks_needed = 0)
      BY <2>1, FlagFacts
    <2>7. AckFlags'
      BY <1>2, <1>3, <1>4, <2>1, <2>2, <2>4, <2>6
         DEF AckFlags, AcksCounted, CycleMatchesState
    <2>8. ReadProgress'
      BY <1>3, <1>4, <2>1, <2>2, <2>3, <2>4, <2>5 DEF ReadProgress
    <2>9. QED
      BY <2>7, <2>8
  <1>10. CASE ~r_wdt_reset /\ wb_state = "WAIT_ON_NEXT_WRITE"
                /\ WaitOnNextWrite(i_stb, c, err)
    <2>1. /\ ~Starts /\ (fresh' <=> fresh)
          /\ failed' <=> failed \/ (o_wb_cyc /\ err)
          /\ ~o_wb_stb /\ o_wb_cyc
          /\ o_wb_we' = o_wb_we
      BY <1>10, FlagFacts DEF Starts, ExecInv, CycleMatchesState, WaitOnNextWrite
    <2>2. /\ wb_state' \in {"IDLE", "FLUSH_WRITE_REQUESTS", "WRITE_REQUEST", "ACK",
                            "WAIT_ON_NEXT_WRITE"}
          /\ err => wb_state' \in {"IDLE", "FLUSH_WRITE_REQUESTS"}
      BY <1>10 DEF WaitOnNextWrite
    <2>3. fresh => o_wb_we /\ ~failed /\ due = 0 /\ r_acks_needed = Len(outstanding)
      BY <1>10, <2>1 DEF ExecInv, ReadProgress, AcksCounted
    <2>4. fresh => due' = 0
      BY <1>10, <2>1, <2>3, DueFacts
    <2>5. (last_ack' <=> r_acks_needed = 1) /\ (zero_acks' <=> r_acks_needed = 0)
      BY <2>1, FlagFacts
    <2>6. AckFlags'
      BY <1>2, <1>3, <1>4, <2>1, <2>2, <2>3, <2>5
         DEF AckFlags, AcksCounted, CycleMatchesState
    <2>7. ReadProgress'
      BY <2>1, <2>2, <2>3, <2>4 DEF ReadProgress
    <2>8. QED
      BY <2>6, <2>7
  <1>11. CASE ~r_wdt_reset /\ wb_state = "FLUSH_WRITE_REQUESTS"
                /\ FlushWriteRequests(i_stb, c)
    <2>1. ~Starts /\ wb_state' \in {"IDLE", "FLUSH_WRITE_REQUESTS"}
      BY <1>11 DEF Starts, FlushWriteRequests
    <2>2. fresh' <=> fresh
      BY <2>1, FlagFacts
    <2>3. fresh => due' = 0
      <3>1. fresh => due = 0
        BY <1>11 DEF ExecInv, ReadProgress
      <3>2. QED
        BY <1>11, <2>1, <3>1, DueFacts
    <2>4. QED
      BY <2>1, <2>2, <2>3 DEF AckFlags, ReadProgress
  <1>12. QED
    BY <1>1, <1>5, <1>6, <1>7, <1>8, <1>9, <1>10, <1>11, Zenon DEF Fsm

-----------------------------------------------------------------------------
\* wbuexec.v keeps its inductive invariant at every clock, whatever commands
\* come and whatever the bus does.
THEOREM ExecInvariance == ExecSpec => []ExecInv
  <1>1. ExecInv /\ [ExecNext]_execvars => ExecInv'
    <2> SUFFICES ASSUME ExecInv, [ExecNext]_execvars PROVE ExecInv'
      OBVIOUS
    <2>1. CASE UNCHANGED execvars
      <3>1. ExecTypeOK'
        BY <2>1 DEF execvars, fsm, ExecInv, ExecTypeOK
      <3>1a. CycleMatchesState'
        BY <2>1 DEF execvars, fsm, ExecInv, CycleMatchesState
      <3>2. AcksCounted' /\ AckFlags'
        BY <2>1 DEF execvars, fsm, ExecInv, AcksCounted, AckFlags
      <3>3. ReadProgress'
        BY <2>1 DEF execvars, fsm, ExecInv, ReadProgress
      <3>4. outstanding' = outstanding
        BY <2>1 DEF execvars
      <3> QED
        BY <3>1, <3>1a, <3>2, <3>3, <3>4 DEF ExecInv
    <2>2. CASE ExecNext
      <3>1. PICK i_stb, stall, ack, err \in BOOLEAN, c \in Codeword :
              Clock(i_stb, c, stall, ack, err)
        BY <2>2 DEF ExecNext
      <3>2. QED
        BY <3>1, ExecTypes, LineFacts, ExecCounts, ExecProgress DEF ExecInv
    <2>3. QED
      BY <2>1, <2>2
  <1>2. QED
    BY InitExecInv, <1>1, PTL DEF ExecSpec

\* r_acks_needed equals the number of unanswered requests, in every transaction
\* that began with cyc low and has not failed.
THEOREM ExecAcksCounted == ExecSpec => []AcksCounted
  <1>1. ExecInv => AcksCounted
    BY DEF ExecInv
  <1>2. QED
    BY ExecInvariance, <1>1, PTL

\* A read of any length that began with cyc low gives the host as many words as
\* it asked for, or an error or reset word in place of the rest.
THEOREM ExecExactRead == ExecSpec => []ExactRead
  <1>1. ExecInv => ExactRead
    BY DEF ExecInv, ExactRead, ReadProgress, ExecTypeOK
  <1>2. QED
    BY ExecInvariance, <1>1, PTL
=============================================================================
