------------------------------ MODULE MCFlash -------------------------------
EXTENDS FlashDrvr, FiniteSets
MCFlashImages ==
  { [a \in 0 .. FLASHLEN - 1 |-> Erased], [a \in 0 .. FLASHLEN - 1 |-> 0],
    [a \in 0 .. FLASHLEN - 1 |-> IF a % 3 = 0 THEN 0 ELSE Erased] }
Ask(a, n) ==
  [addr |-> a, len |-> n,
   data |-> [i \in 0 .. FLASHLEN - 1 |->
     IF i + FLASHBASE \in a .. a + n - 1 /\ i % 4 \in {0, 3} THEN 0 ELSE Erased]]
MCFlashAligned   == {Ask(FLASHBASE, 10), Ask(FLASHBASE + PGLENB, 6), Ask(FLASHBASE, 6)}
MCFlashUnaligned == {Ask(FLASHBASE + WORDB, 6)}
=============================================================================
