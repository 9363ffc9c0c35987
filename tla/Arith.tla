------------------------------- MODULE Arith --------------------------------
(***************************************************************************)
(* The arithmetic of the C libraries: 64-bit division without a 64-bit     *)
(* divider (sw/zlib/udiv.c, umod.c), the Internet checksum in C (sw/rv32/  *)
(* ipcksum.c) and in ZipCPU assembly (sw/board/ipcksum.c), and rounding    *)
(* (sw/host/twoc.cpp), each beside its mathematical definition.            *)
(*                                                                         *)
(* W is half of the width of a word: 32 for udiv.c, 16 for the checksum.   *)
(* The definitions work for any power of two.  A behaviour is one call.    *)
(***************************************************************************)
EXTENDS Integers, SequencesExt

CONSTANTS W,           \* a power of two
          Dividends, Divisors,
          Words,       \* words of checked packets, below 2^(2W)
          BitsIn, BitsOut   \* BitsOut: the widths a number of BitsIn bits is rounded to

VARIABLES dividend, divisor, pkt, val
arithvars == <<dividend, divisor, pkt, val>>

Low(v)  == v % 2^W
High(v) == v \div 2^W
Wide(v) == v % 2^(2 * W)

-----------------------------------------------------------------------------
\* cltz(): the number of leading zeros, by halves.  The source looks at the bits in
\* reverse.
HalfZeros(w, s) ==
  IF s.v \div 2^(s.n - w) = 0 THEN [v |-> s.v, n |-> s.n - w, cnt |-> s.cnt + w]
  ELSE s
Halvings == CASE W = 2 -> <<1>> [] W = 4 -> <<2, 1>> [] W = 8 -> <<4, 2, 1>>
cltz(v) ==
  LET hv    == IF High(v) = 0 THEN Low(v) ELSE High(v)
      start == [v |-> hv, n |-> W, cnt |-> IF High(v) = 0 THEN W ELSE 0]
  IN  FoldLeft(LAMBDA s, w : HalfZeros(w, s), start, Halvings).cnt

\* The loop of __udivdi3(): subtract and shift, for each bit of the quotient.
SubtractAndShift(x, y, bits) ==
  FoldLeft(LAMBDA s, i : LET m == 2^(bits - i) IN
             IF s.a >= s.b THEN [r |-> s.r + m, a |-> s.a - s.b, b |-> s.b \div 2]
             ELSE [s EXCEPT !.b = s.b \div 2],
           [r |-> 0, a |-> x, b |-> y], [i \in 1 .. bits + 1 |-> i - 1]).r

\* Variant: the halves are divided although the divisor has low bits.
__udivdi3_halves(x, y) ==
  LET la == cltz(x)
      lb == cltz(y)
      xa == Wide(x * 2^la)
  IN  IF x < y THEN 0
      ELSE IF High(y) = 0 /\ High(x) = 0 THEN Low(x) \div Low(y)
      ELSE IF lb - la < W THEN High(xa) \div High(Wide(y * 2^la))
      ELSE SubtractAndShift(xa, Wide(y * 2^lb), lb - la)

__udivdi3(x, y) ==
  LET la == cltz(x)
      lb == cltz(y)
      xa == Wide(x * 2^la)
  IN  IF x < y THEN 0
      ELSE IF High(y) = 0 /\ High(x) = 0 THEN Low(x) \div Low(y)
      ELSE IF lb - la < W /\ Low(Wide(y * 2^la)) = 0 THEN High(xa) \div High(Wide(y * 2^la))
      ELSE SubtractAndShift(xa, Wide(y * 2^lb), lb - la)

__umoddi3(x, y) == Wide(x - Wide(__udivdi3(x, y) * y))

\* __divdi3(), on two's complement words: the most negative one is its own negative,
\* as the negate instruction leaves it.
Neg(v)    == Wide(-v)
IsNeg(v)  == v >= 2^(2 * W - 1)
Abs(v)    == IF IsNeg(v) THEN Neg(v) ELSE v
__divdi3(x, y) ==
  LET r == __udivdi3(Abs(x), Abs(y)) IN IF IsNeg(x) # IsNeg(y) THEN Neg(r) ELSE r

-----------------------------------------------------------------------------
\* ipcksum() of sw/rv32: 16-bit words are added up and the carries folded back in.
Folded(sum) == IF High(sum) = 0 THEN sum ELSE LET s == Low(sum) + High(sum) IN
               IF High(s) = 0 THEN s ELSE Low(s) + High(s)
Invert(v) == 2^W - 1 - v
ipcksum_rv32(ws) ==
  Invert(Folded(FoldLeft(LAMBDA sum, w : sum + High(w) + Low(w), 0, ws)))

\* ipcksum() of sw/board: 32-bit words, and the carry is added to the next sum.
\* Variant: the last carry is lost.
ipcksum_zip_once(ws) ==
  LET sum == FoldLeft(LAMBDA r, w : Wide(r + w) + (r + w) \div 2^(2 * W), 0, ws)
  IN  Invert(Low(Low(sum) + High(sum)))

ipcksum_zip(ws) ==
  LET sum == FoldLeft(LAMBDA r, w : Wide(r + w) + (r + w) \div 2^(2 * W), 0, ws)
      s   == Low(sum) + High(sum)
  IN  Invert(Low(IF High(s) # 0 THEN s + 1 ELSE s))

-----------------------------------------------------------------------------
\* sbits(): the low bits, as a signed number.  rndbits(): the high bits, rounded.
sbits(v, bits) == LET r == v % 2^bits IN IF r >= 2^(bits - 1) THEN r - 2^bits ELSE r

\* Variant: a half is always rounded up.
rndbits_up(v, in, o) ==
  LET s == sbits(v, in)
      t == sbits(v \div 2^(in - o), o)
  IN  IF in = o THEN s ELSE IF (s \div 2^(in - o - 1)) % 2 = 0 THEN t ELSE t + 1

rndbits(v, in, o) ==
  LET s == sbits(v, in)
      t == sbits(v \div 2^(in - o), o)
  IN  IF in = o THEN s
      ELSE IF in - 1 = o THEN IF s % 4 = 3 THEN t + 1 ELSE t
      ELSE IF (s \div 2^(in - o - 1)) % 2 = 0 THEN t
      ELSE IF s % 2^(in - o - 1) # 0 \/ t % 2 = 1 THEN t + 1 ELSE t

-----------------------------------------------------------------------------
\* One input is given to one of the functions.
Fresh     == dividend = 1 /\ divisor = 1 /\ pkt = <<>> /\ val = 0
ArithInit == Fresh
DivideThese == Fresh /\ dividend' \in Dividends /\ divisor' \in Divisors /\ UNCHANGED <<pkt, val>>
SumThese    == Fresh /\ pkt' \in [1 .. 3 -> Words] /\ UNCHANGED <<dividend, divisor, val>>
RoundThis   == Fresh /\ val' \in 0 .. 2^BitsIn - 1 /\ UNCHANGED <<dividend, divisor, pkt>>
ArithNext   == DivideThese \/ SumThese \/ RoundThis
ArithSpec   == ArithInit /\ [][ArithNext]_arithvars

\* Division of double words is division: the quotient, the remainder, and the signed
\* quotient rounded towards zero, at every boundary between the three methods.
Divides ==
  LET q == Abs(dividend) \div Abs(divisor)
  IN  /\ __udivdi3(dividend, divisor) = dividend \div divisor /\ __umoddi3(dividend, divisor) = dividend % divisor
      /\ __divdi3(dividend, divisor) = Wide(IF IsNeg(dividend) # IsNeg(divisor) THEN -q ELSE q)

\* "The carry bit can only and will only ever be a one here": the two checksums are
\* the same, and with its checksum a packet adds up to all ones.
ChecksumsAgree ==
  pkt # <<>> =>
    /\ ipcksum_zip(pkt) = ipcksum_rv32(pkt)
    /\ ipcksum_rv32(Append(pkt, ipcksum_rv32(pkt))) = 0

\* rndbits() gives the nearest number, and the even one of two.
RoundsNearest ==
  \A o \in BitsOut :
  LET s == sbits(val, BitsIn)
      r == rndbits(val, BitsIn, o)
      u == 2^(BitsIn - o)
      d == 2 * (s - r * u)
  IN  d <= u /\ -d <= u /\ (d = u \/ -d = u => r % 2 = 0)

\* All of them.
ArithmeticRight == Divides /\ ChecksumsAgree /\ RoundsNearest
=============================================================================
