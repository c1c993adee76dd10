--------------------------- MODULE FloatPrimitives ---------------------------
(***************************************************************************)
(* The integer operations under the floating-point library                 *)
(* (softfloat/primitives.h), on words of w bits.  What the library does on *)
(* words of 64 bits and pairs of them is done here on narrower ones.       *)
(***************************************************************************)
EXTENDS Integers

LeftShift(w, a, n) == (a * 2 ^ n) % 2 ^ w

(* x with the lowest bit set if sticky.                                     *)
Jam(x, sticky) == IF sticky /\ x % 2 = 0 THEN x + 1 ELSE x

(* Mutant: the bits shifted out are lost.                                   *)
LoseBits(w, a, n) == IF n < w THEN a \div 2 ^ n ELSE 0

(* Right shift; the lowest bit of the result remembers what is shifted out. *)
RightJam(w, a, n) ==
  IF n < w THEN Jam(a \div 2 ^ n, a % 2 ^ n # 0) ELSE IF a # 0 THEN 1 ELSE 0

(* The same for less than a word, and by one.                               *)
ShortRightJam(a, n) == Jam(a \div 2 ^ n, a % 2 ^ n # 0)
Right1Jam(a) == Jam(a \div 2, a % 2 # 0)

(* Right shift that keeps what it shifts out in a second word.              *)
ExtraRightJam(w, a, n) ==
  IF n < w THEN [v |-> a \div 2 ^ n, extra |-> LeftShift(w, a, (w - n) % w)]
           ELSE [v |-> 0, extra |-> IF n = w THEN a ELSE IF a # 0 THEN 1 ELSE 0]

CountLeadingZeros(w, a) ==
  CHOOSE n \in 0 .. w : a < 2 ^ (w - n) /\ (n = w \/ a >= 2 ^ (w - n - 1))

----------------------------------------------------------------------------
(* Pairs of words: hi (v64 in the code) and lo (v0).                        *)
Pair(hi, lo) == [hi |-> hi, lo |-> lo]

Add(w, a, b) ==
  LET lo == (a.lo + b.lo) % 2 ^ w IN
  Pair((a.hi + b.hi + (IF lo < a.lo THEN 1 ELSE 0)) % 2 ^ w, lo)

Sub(w, a, b) ==
  Pair((a.hi - b.hi - (IF a.lo < b.lo THEN 1 ELSE 0)) % 2 ^ w, (a.lo - b.lo) % 2 ^ w)

(* The product of two words, from the products of their halves.             *)
Mul(w, a, b) ==
  LET half == 2 ^ (w \div 2)
      mid1 == (a \div half) * (b % half)
      mid  == (mid1 + ((a % half) * (b \div half))) % 2 ^ w
      up   == (mid * half) % 2 ^ w
      lo   == (((a % half) * (b % half)) + up) % 2 ^ w IN
  Pair((a \div half) * (b \div half) + (IF mid < mid1 THEN half ELSE 0) + (mid \div half)
         + (IF lo < up THEN 1 ELSE 0), lo)

PairRightJam(w, a, n) ==
  CASE n < w -> Pair(a.hi \div 2 ^ n,
                     Jam((LeftShift(w, a.hi, (w - n) % w) + (a.lo \div 2 ^ n)) % 2 ^ w,
                         a.lo % 2 ^ n # 0))
    [] n >= w /\ n < 2 * w ->
         Pair(0, Jam(a.hi \div 2 ^ (n - w), a.hi % 2 ^ (n - w) # 0 \/ a.lo # 0))
    [] OTHER -> Pair(0, IF a.hi # 0 \/ a.lo # 0 THEN 1 ELSE 0)

(* For n from 1 to w - 1.                                                   *)
PairLeft(w, a, n) == Pair((LeftShift(w, a.hi, n) + (a.lo \div 2 ^ (w - n))) % 2 ^ w,
                          LeftShift(w, a.lo, n))

(* A remainder below zero reads as one with the highest bit set.            *)
Negative(w, rem) == rem.hi >= 2 ^ (w - 1)

RECURSIVE AddBack(_, _, _, _)
AddBack(w, z, rem, b) ==
  IF Negative(w, rem)
  THEN AddBack(w, z - 2 ^ (w \div 2),
               Add(w, rem, Pair(b \div 2 ^ (w \div 2), LeftShift(w, b, w \div 2))), b)
  ELSE [z |-> z, rem |-> rem]

(* The pair with a in its high word and zero in its low one, divided by b,  *)
(* half a word at a time: the exact quotient or up to 2 more.               *)
EstimateDiv(w, a, b) ==
  LET half == 2 ^ (w \div 2)
      bHi  == b \div half
      z1   == IF bHi * half <= a THEN 2 ^ w - half ELSE (a \div bHi) * half
      est  == AddBack(w, z1, Sub(w, Pair(a, 0), Mul(w, b, z1)), b)
      rem  == ((est.rem.hi * half) % 2 ^ w) + (est.rem.lo \div half) IN
  IF b <= a THEN 2 ^ w - 1
  ELSE est.z + (IF bHi * half <= rem THEN half - 1 ELSE rem \div bHi)

(* The square root that half as many bits give of a significand with its    *)
(* leading bit, to the next integer below or above: the entries of the two  *)
(* tables.                                                                  *)
FirstGuesses(w, expOdd, a) ==
  LET twice == IF expOdd THEN a ELSE 2 * a IN
  {z \in 2 ^ ((w \div 2) - 1) .. 2 ^ (w \div 2) - 1 :
     2 * (z - 1) * (z - 1) < twice /\ twice < 2 * (z + 1) * (z + 1)}

(* Two steps of Newton's method from the first guess z0.                    *)
EstimateSqrt(w, expOdd, a, z0) ==
  LET h  == w \div 2
      z1 == (a \div z0) + z0
      z  == IF expOdd THEN (a \div z0) * 2 ^ (h - 2) + z0 * 2 ^ (h - 1)
            ELSE IF z1 >= 2 ^ (h + 1) THEN 2 ^ w - 2 ^ (h - 1) ELSE z1 * 2 ^ (h - 1)
      x  == IF expOdd THEN a \div 2 ELSE a IN
  IF ~ expOdd /\ z <= a THEN 2 ^ (w - 1) + (a \div 2)
  ELSE ((x * 2 ^ (w - 1)) \div z) + (z \div 2)

=============================================================================
