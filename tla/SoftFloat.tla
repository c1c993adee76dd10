------------------------------ MODULE SoftFloat ------------------------------
(***************************************************************************)
(* The floating-point library of the simulator (riscv-base/softfloat), on  *)
(* formats that the constants give: F32 and F64 have e exponent bits and m *)
(* fraction bits, and words of 1 + e + m bits, as they do in the code.     *)
(*                                                                         *)
(* A floating-point number is its sign and its magnitude: the exponent and *)
(* the fraction as one integer, which a carry out of the fraction goes on  *)
(* to increase.  An operation returns v, its result, and flags, the        *)
(* exceptions it raises; rm is softfloat_roundingMode.                     *)
(***************************************************************************)
EXTENDS FloatPrimitives, FiniteSets

CONSTANTS
  F32, F64,      \* formats: records with fields e and m
  Int32, Int64,  \* bits of the integers that numbers are converted to
  IntGuard       \* bits behind the point of a number that becomes an Int32

W(F) == 1 + F.e + F.m

(* The relations between the widths that the code relies on.                *)
ASSUME FormatsAssumption ==
  /\ {F32.e, F64.e, F32.m, F64.m, Int32, Int64, IntGuard} \subseteq Nat \ {0, 1}
  /\ F32.e < F64.e /\ F32.m < Int32 /\ F32.m + 1 + W(F32) <= W(F64)
  /\ W(F32) % 2 = 0 /\ W(F64) % 4 = 0 /\ W(F32) - 1 <= F64.m
  /\ Int32 + IntGuard <= F64.m /\ F64.m < Int64 /\ Int64 <= W(F64)
  /\ W(F64) <= 2 ^ (F32.e - 1)

Modes == {"near_even", "minMag", "min", "max", "near_maxMag"}

G(F)      == F.e - 1          \* bits of a significand behind the fraction
Bias(F)   == 2 ^ (F.e - 1) - 1
ExpMax(F) == 2 ^ F.e - 1

Res(v, flags) == [v |-> v, flags |-> flags]

Exp(F, a)  == a.mag \div 2 ^ F.m
Frac(F, a) == a.mag % 2 ^ F.m

Pack(F, sign, exp, sig) == [sign |-> sign, mag |-> exp * 2 ^ F.m + sig]

Inf(F, sign)  == Pack(F, sign, ExpMax(F), 0)
Zero(F, sign) == Pack(F, sign, 0, 0)
IsNaN(F, a)   == Exp(F, a) = ExpMax(F) /\ Frac(F, a) # 0
IsInf(F, a)   == Exp(F, a) = ExpMax(F) /\ Frac(F, a) = 0
IsZero(a)     == a.mag = 0

(* The highest bit of the fraction is clear, and it is not infinity.        *)
IsSigNaN(F, a) == IsNaN(F, a) /\ Frac(F, a) < 2 ^ (F.m - 1)

DefaultNaN(F) == [sign |-> TRUE, mag |-> 2 ^ (F.e + F.m) - 1]

Invalid(v) == Res(v, {"invalid"})

PropagateNaN(F, a, b) ==
  IF IsSigNaN(F, a) \/ IsSigNaN(F, b) THEN Invalid(DefaultNaN(F)) ELSE Res(DefaultNaN(F), {})

----------------------------------------------------------------------------
(* Rounding.  half is the weight of the highest of the g bits to round off. *)
RoundIncrement(g, rm, sign) ==
  CASE rm \in {"near_even", "near_maxMag"} -> 2 ^ (g - 1)
    [] rm \in {"minMag", IF sign THEN "max" ELSE "min"} -> 0
    [] OTHER -> 2 ^ g - 1

RoundOff(g, rm, sign, sig) ==
  LET z == (sig + RoundIncrement(g, rm, sign)) \div 2 ^ g IN
  IF rm = "near_even" /\ sig % 2 ^ g = 2 ^ (g - 1) THEN 2 * (z \div 2) ELSE z

(* The number with the significand sig, whose leading bit is the second of  *)
(* the word and makes exp one more; tininess is detected before rounding.   *)
RoundPack(F, rm, sign, exp, sig) ==
  LET inc  == RoundIncrement(G(F), rm, sign)
      tiny == exp < 0
      s    == IF tiny THEN RightJam(W(F), sig, -exp) ELSE sig
      z    == RoundOff(G(F), rm, sign, s)
      inexact == s % 2 ^ G(F) # 0 IN
  IF exp > ExpMax(F) - 2 \/ (exp = ExpMax(F) - 2 /\ sig + inc >= 2 ^ (W(F) - 1))
  THEN Res([Inf(F, sign) EXCEPT !.mag = IF inc = 0 THEN @ - 1 ELSE @], {"overflow", "inexact"})
  ELSE Res(Pack(F, sign, IF z = 0 \/ tiny THEN 0 ELSE exp, z),
           IF ~ inexact THEN {} ELSE IF tiny THEN {"underflow", "inexact"} ELSE {"inexact"})

NormRoundPack(F, rm, sign, exp, sig) ==
  LET n == CountLeadingZeros(W(F), sig) - 1 IN
  IF n >= G(F) /\ exp - n >= 0 /\ exp - n < ExpMax(F) - 2
  THEN Res(Pack(F, sign, IF sig = 0 THEN 0 ELSE exp - n, sig * 2 ^ (n - G(F))), {})
  ELSE RoundPack(F, rm, sign, exp - n, LeftShift(W(F), sig, n))

softfloat_roundPackToF32(rm, sign, exp, sig) == RoundPack(F32, rm, sign, exp, sig)
softfloat_roundPackToF64(rm, sign, exp, sig) == RoundPack(F64, rm, sign, exp, sig)

softfloat_normRoundPackToF32(rm, sign, exp, sig) == NormRoundPack(F32, rm, sign, exp, sig)
softfloat_normRoundPackToF64(rm, sign, exp, sig) == NormRoundPack(F64, rm, sign, exp, sig)

NormSubnormal(F, sig) ==
  LET n == CountLeadingZeros(W(F), sig) - F.e IN [exp |-> 1 - n, sig |-> sig * 2 ^ n]

(* Exponent and significand, with its leading bit, of a finite number.      *)
Normal(F, a) ==
  IF Exp(F, a) = 0 THEN NormSubnormal(F, Frac(F, a))
                   ELSE [exp |-> Exp(F, a), sig |-> Frac(F, a) + 2 ^ F.m]

----------------------------------------------------------------------------
(* Sum and difference of two magnitudes.  The smaller significand loses     *)
(* bits, so it starts a few places further left.                            *)
Aligned(F, a, shift, lead, n) ==
  LET sig == Frac(F, a) * 2 ^ shift IN
  RightJam(W(F), IF Exp(F, a) = 0 THEN 2 * sig ELSE sig + lead, n)

AddMags(F, rm, a, b, signZ) ==
  LET sh    == G(F) - 1
      lead  == 2 ^ (W(F) - 3)
      diff  == Exp(F, a) - Exp(F, b)
      big   == IF diff < 0 THEN b ELSE a
      small == IF diff < 0 THEN a ELSE b
      n     == IF diff < 0 THEN - diff ELSE diff
      sum   == lead + Frac(F, big) * 2 ^ sh + Aligned(F, small, sh, lead, n) IN
  IF IsNaN(F, a) \/ IsNaN(F, b) THEN PropagateNaN(F, a, b)
  ELSE IF IsInf(F, big) THEN Res(Inf(F, signZ), {})
  ELSE IF diff = 0 /\ Exp(F, a) = 0 THEN Res(Pack(F, signZ, 0, a.mag + b.mag), {})
  ELSE IF diff = 0
  THEN RoundPack(F, rm, signZ, Exp(F, a), 2 * lead + (Frac(F, a) + Frac(F, b)) * 2 ^ sh)
  ELSE IF sum < 2 * lead THEN RoundPack(F, rm, signZ, Exp(F, big) - 1, 2 * sum)
                         ELSE RoundPack(F, rm, signZ, Exp(F, big), sum)

SubMags(F, rm, a, b, signZ) ==
  LET sh   == G(F)
      lead == 2 ^ (W(F) - 2)
      diff == Exp(F, a) - Exp(F, b)
      n    == IF diff < 0 THEN - diff ELSE diff
      aBigger == diff > 0 \/ (diff = 0 /\ Frac(F, a) > Frac(F, b))
      big     == IF aBigger THEN a ELSE b
      small   == IF aBigger THEN b ELSE a
      sign    == IF aBigger THEN signZ ELSE ~ signZ
      sigZ == IF diff = 0 THEN (Frac(F, big) - Frac(F, small)) * 2 ^ sh
              ELSE lead + Frac(F, big) * 2 ^ sh - Aligned(F, small, sh, lead, n)
      expZ == IF Exp(F, big) = 0 THEN 1 ELSE Exp(F, big) IN
  IF IsNaN(F, a) \/ IsNaN(F, b) THEN PropagateNaN(F, a, b)
  ELSE IF IsInf(F, a) /\ IsInf(F, b) THEN Invalid(DefaultNaN(F))
  ELSE IF IsInf(F, big) THEN Res(Inf(F, sign), {})
  ELSE IF a.mag = b.mag THEN Res(Zero(F, rm = "min"), {})
  ELSE NormRoundPack(F, rm, sign, expZ - 1, sigZ)

softfloat_addMagsF32(rm, a, b, signZ) == AddMags(F32, rm, a, b, signZ)
softfloat_addMagsF64(rm, a, b, signZ) == AddMags(F64, rm, a, b, signZ)
softfloat_subMagsF32(rm, a, b, signZ) == SubMags(F32, rm, a, b, signZ)
softfloat_subMagsF64(rm, a, b, signZ) == SubMags(F64, rm, a, b, signZ)

f32_add(rm, a, b) == IF a.sign = b.sign THEN softfloat_addMagsF32(rm, a, b, a.sign)
                                        ELSE softfloat_subMagsF32(rm, a, b, a.sign)
f64_add(rm, a, b) == IF a.sign = b.sign THEN softfloat_addMagsF64(rm, a, b, a.sign)
                                        ELSE softfloat_subMagsF64(rm, a, b, a.sign)
f32_sub(rm, a, b) == IF a.sign = b.sign THEN softfloat_subMagsF32(rm, a, b, a.sign)
                                        ELSE softfloat_addMagsF32(rm, a, b, a.sign)
f64_sub(rm, a, b) == IF a.sign = b.sign THEN softfloat_subMagsF64(rm, a, b, a.sign)
                                        ELSE softfloat_addMagsF64(rm, a, b, a.sign)

----------------------------------------------------------------------------
(* Products.  The 32-bit routines use a 64-bit integer (two words of F32),  *)
(* the 64-bit ones a pair of words.                                         *)
MulSpecial(F, a, b) == \E x \in {a, b} : Exp(F, x) = ExpMax(F) \/ IsZero(x)

MulOfSpecial(F, a, b) ==
  LET sign == a.sign # b.sign IN
  IF IsNaN(F, a) \/ IsNaN(F, b) THEN PropagateNaN(F, a, b)
  ELSE IF ~ (IsInf(F, a) \/ IsInf(F, b)) THEN Res(Zero(F, sign), {})
  ELSE IF IsZero(a) \/ IsZero(b) THEN Invalid(DefaultNaN(F))
  ELSE Res(Inf(F, sign), {})

RoundProduct(F, rm, sign, exp, sig) ==
  IF sig < 2 ^ (W(F) - 2) THEN RoundPack(F, rm, sign, exp - 1, 2 * sig)
                          ELSE RoundPack(F, rm, sign, exp, sig)

f32_mul(rm, a, b) ==
  LET F  == F32
      na == Normal(F, a)
      nb == Normal(F, b) IN
  IF MulSpecial(F, a, b) THEN MulOfSpecial(F, a, b)
  ELSE RoundProduct(F, rm, a.sign # b.sign, na.exp + nb.exp - Bias(F),
                    ShortRightJam(na.sig * 2 ^ G(F) * nb.sig * 2 ^ (G(F) + 1), W(F)))

f64_mul(rm, a, b) ==
  LET F  == F64
      na == Normal(F, a)
      nb == Normal(F, b)
      z  == Mul(W(F), na.sig * 2 ^ G(F), nb.sig * 2 ^ (G(F) + 1)) IN
  IF MulSpecial(F, a, b) THEN MulOfSpecial(F, a, b)
  ELSE RoundProduct(F, rm, a.sign # b.sign, na.exp + nb.exp - Bias(F), Jam(z.hi, z.lo # 0))

(* a * b + c, rounded once: the cases in which a or b is zero or none of    *)
(* the numbers is finite.                                                   *)
MulAddSpecial(F, a, b, c) == MulSpecial(F, a, b) \/ Exp(F, c) = ExpMax(F)

MulAddOfSpecial(F, rm, a, b, c) ==
  LET sign == a.sign # b.sign
      nan  == PropagateNaN(F, DefaultNaN(F), c)
      also(r) == Res(nan.v, nan.flags \cup r.flags) IN
  IF IsNaN(F, a) \/ IsNaN(F, b) THEN also(PropagateNaN(F, a, b))
  ELSE IF IsInf(F, a) \/ IsInf(F, b)
  THEN IF IsZero(a) \/ IsZero(b) THEN also(Invalid(DefaultNaN(F)))
       ELSE IF IsNaN(F, c) THEN nan
       ELSE IF IsInf(F, c) /\ c.sign # sign THEN also(Invalid(DefaultNaN(F)))
       ELSE Res(Inf(F, sign), {})
  ELSE IF IsNaN(F, c) THEN nan
  ELSE IF IsZero(c) /\ c.sign # sign THEN Res(Zero(F, rm = "min"), {})
  ELSE Res(c, {})

(* The product as a pair of words whose third bit leads, or of two words as *)
(* one number.                                                              *)
Product(F, a, b) ==
  LET na   == Normal(F, a)
      nb   == Normal(F, b)
      prod == Mul(W(F), na.sig * 2 ^ G(F), nb.sig * 2 ^ G(F))
      exp  == na.exp + nb.exp - Bias(F) + 1 IN
  IF prod.hi < 2 ^ (W(F) - 3) THEN [exp |-> exp - 1, sig |-> PairLeft(W(F), prod, 1)]
                              ELSE [exp |-> exp, sig |-> prod]

Wide(w, pair) == pair.hi * 2 ^ w + pair.lo

JamPair(z) == Jam(z.hi, z.lo # 0)

(* The product p and the third operand, of significand sigC, exponent expC  *)
(* and sign signC, are added in words of w bits that overlap by diff.        *)
SumF32(p, sigP, sigC, diff) ==
  LET w == W(F32) IN
  IF diff <= 0 THEN sigC + RightJam(2 * w, sigP, w - diff)
  ELSE ShortRightJam(sigP + RightJam(2 * w, sigC * 2 ^ w, diff), w)

DifferenceF32(sigP, sigC, diff) ==
  LET w == W(F32) IN
  IF diff < 0 THEN sigC * 2 ^ w - RightJam(2 * w, sigP, - diff)
  ELSE sigP - (IF diff = 0 THEN sigC * 2 ^ w ELSE RightJam(2 * w, sigC * 2 ^ w, diff))

RoundShifted(rm, sign, exp, abs, sh) ==
  LET w == W(F32) IN
  softfloat_roundPackToF32(rm, sign, exp - sh,
    IF sh < w THEN ShortRightJam(abs, w - sh) ELSE abs * 2 ^ (sh - w))

RoundNumber(rm, sign, exp, abs) ==
  RoundShifted(rm, sign, exp, abs, CountLeadingZeros(2 * W(F32), abs) - 1)

RoundDifferenceF32(rm, sign, signC, exp, diff, dif) ==
  IF dif = 0 THEN Res(Zero(F32, rm = "min"), {})
  ELSE RoundNumber(rm, IF diff < 0 THEN signC ELSE (sign # (dif < 0)), exp,
                   IF dif < 0 THEN - dif ELSE dif)

AddedF32(rm, sign, p, sigP, signC, expC, sigC) ==
  LET diff == p.exp - expC IN
  IF sign = signC
  THEN RoundProduct(F32, rm, sign, IF diff <= 0 THEN expC ELSE p.exp, SumF32(p, sigP, sigC, diff))
  ELSE RoundDifferenceF32(rm, sign, signC, IF diff < 0 THEN expC ELSE p.exp, diff,
                          DifferenceF32(sigP, sigC, diff))

FusedF32(rm, sign, p, c, nc) ==
  LET sigP == Wide(W(F32), p.sig) IN
  IF IsZero(c)
  THEN softfloat_roundPackToF32(rm, sign, p.exp - 1, ShortRightJam(sigP, W(F32) - 1))
  ELSE AddedF32(rm, sign, p, sigP, c.sign, nc.exp, nc.sig * 2 ^ (G(F32) - 1))

softfloat_mulAddF32(rm, a, b, c) ==
  IF MulAddSpecial(F32, a, b, c) THEN MulAddOfSpecial(F32, rm, a, b, c)
  ELSE FusedF32(rm, a.sign # b.sign, Product(F32, a, b), c, Normal(F32, c))

(* The same in pairs of words.                                              *)
SumF64(p, sigC, diff) ==
  LET w == W(F64) IN
  IF diff <= 0
  THEN Jam(sigC + (IF diff < 0 THEN RightJam(w, p.sig.hi, - diff) ELSE p.sig.hi), p.sig.lo # 0)
  ELSE JamPair(Add(w, p.sig, PairRightJam(w, Pair(sigC, 0), diff)))

DifferenceF64(p, sigC, diff) ==
  LET w == W(F64) IN
  IF diff < 0 THEN Sub(w, Pair(sigC, 0), PairRightJam(w, p.sig, - diff))
  ELSE Sub(w, p.sig, IF diff = 0 THEN Pair(sigC, 0) ELSE PairRightJam(w, Pair(sigC, 0), diff))

RoundUpper(rm, sign, exp, up, sh) ==
  softfloat_roundPackToF64(rm, sign, exp - sh,
    IF sh < 0 THEN Jam(ShortRightJam(up.hi, - sh), up.lo # 0) ELSE JamPair(PairLeft(W(F64), up, sh)))

RoundFrom(rm, sign, exp, up) ==
  RoundUpper(rm, sign, exp, up, CountLeadingZeros(W(F64), up.hi) - 1)

RoundPair(rm, sign, exp, abs) ==
  RoundFrom(rm, sign, IF abs.hi = 0 THEN exp - W(F64) ELSE exp,
            IF abs.hi = 0 THEN Pair(abs.lo, 0) ELSE abs)

RoundDifferenceF64(rm, sign, signC, exp, diff, dif) ==
  LET neg == diff = 0 /\ Negative(W(F64), dif) IN
  IF dif = Pair(0, 0) THEN Res(Zero(F64, rm = "min"), {})
  ELSE RoundPair(rm, IF diff < 0 THEN signC ELSE (sign # neg), exp,
                 IF neg THEN Sub(W(F64), Pair(0, 0), dif) ELSE dif)

AddedF64(rm, sign, p, signC, expC, sigC) ==
  LET diff == p.exp - expC IN
  IF sign = signC
  THEN RoundProduct(F64, rm, sign, IF diff <= 0 THEN expC ELSE p.exp, SumF64(p, sigC, diff))
  ELSE RoundDifferenceF64(rm, sign, signC, IF diff < 0 THEN expC ELSE p.exp, diff,
                          DifferenceF64(p, sigC, diff))

FusedF64(rm, sign, p, c, nc) ==
  IF IsZero(c)
  THEN softfloat_roundPackToF64(rm, sign, p.exp - 1, Jam(2 * p.sig.hi, p.sig.lo # 0))
  ELSE AddedF64(rm, sign, p, c.sign, nc.exp, nc.sig * 2 ^ (G(F64) - 1))

softfloat_mulAddF64(rm, a, b, c) ==
  IF MulAddSpecial(F64, a, b, c) THEN MulAddOfSpecial(F64, rm, a, b, c)
  ELSE FusedF64(rm, a.sign # b.sign, Product(F64, a, b), c, Normal(F64, c))

f32_mulAdd(rm, a, b, c) == softfloat_mulAddF32(rm, a, b, c)
f64_mulAdd(rm, a, b, c) == softfloat_mulAddF64(rm, a, b, c)

----------------------------------------------------------------------------
(* Quotients.                                                               *)
DivSpecial(F, a, b) ==
  Exp(F, a) = ExpMax(F) \/ Exp(F, b) = ExpMax(F) \/ IsZero(a) \/ IsZero(b)

DivOfSpecial(F, a, b) ==
  LET sign == a.sign # b.sign IN
  IF IsNaN(F, a) \/ IsNaN(F, b) THEN PropagateNaN(F, a, b)
  ELSE IF (IsInf(F, a) /\ IsInf(F, b)) \/ (IsZero(a) /\ IsZero(b)) THEN Invalid(DefaultNaN(F))
  ELSE IF IsInf(F, a) THEN Res(Inf(F, sign), {})
  ELSE IF IsZero(b) THEN Res(Inf(F, sign), {"infinity"})
  ELSE Res(Zero(F, sign), {})

(* Dividend, divisor and exponent, so that the quotient has its leading bit *)
(* second in the word.                                                      *)
Dividend(F, a, b) ==
  LET na == Normal(F, a)
      nb == Normal(F, b)
      up == nb.sig <= na.sig IN
  [a   |-> na.sig * 2 ^ (IF up THEN G(F) - 1 ELSE G(F)),
   b   |-> nb.sig * 2 ^ (G(F) + 1),
   exp |-> na.exp - nb.exp + Bias(F) - (IF up THEN 1 ELSE 2)]

f32_div(rm, a, b) ==
  LET F == F32
      d == Dividend(F, a, b)
      q == (d.a * 2 ^ W(F)) \div d.b
      z == Jam(q, q % 2 ^ (G(F) - 1) = 0 /\ d.b * q # d.a * 2 ^ W(F)) IN
  IF DivSpecial(F, a, b) THEN DivOfSpecial(F, a, b)
  ELSE softfloat_roundPackToF32(rm, a.sign # b.sign, d.exp, z)

(* An estimate that is too high is corrected downwards.                     *)
RECURSIVE QuotientDown(_, _, _, _)
QuotientDown(w, z, rem, b) ==
  IF Negative(w, rem) THEN QuotientDown(w, z - 1, Add(w, rem, Pair(0, b)), b)
                      ELSE Jam(z, rem.lo # 0)

f64_div(rm, a, b) ==
  LET F   == F64
      d   == Dividend(F, a, b)
      est == EstimateDiv(W(F), d.a, d.b)
      rem == Sub(W(F), Pair(d.a, 0), Mul(W(F), d.b, est))
      z   == IF est % 2 ^ (G(F) - 1) <= 2 THEN QuotientDown(W(F), est, rem, d.b) ELSE est IN
  IF DivSpecial(F, a, b) THEN DivOfSpecial(F, a, b)
  ELSE softfloat_roundPackToF64(rm, a.sign # b.sign, d.exp, z)

----------------------------------------------------------------------------
(* Square roots; guess is the entry of the table that the estimate starts   *)
(* from.                                                                    *)
SqrtSpecial(F, a) == a.sign \/ IsZero(a) \/ Exp(F, a) = ExpMax(F)

SqrtOfSpecial(F, a) ==
  IF IsNaN(F, a) THEN PropagateNaN(F, a, Zero(F, FALSE))
  ELSE IF IsZero(a) \/ ~ a.sign THEN Res(a, {})
  ELSE Invalid(DefaultNaN(F))

(* The significand the estimate is made of, as wide as w bits.              *)
Radicand(F, a, w) ==
  LET shift == w - (F.m + 1)
      sig   == Normal(F, a).sig IN
  IF shift >= 0 THEN sig * 2 ^ shift ELSE sig \div 2 ^ (- shift)

Odd(F, a) == Normal(F, a).exp % 2 = 1

SqrtExp(F, a) == ((Normal(F, a).exp - Bias(F)) \div 2) + Bias(F) - 1

RECURSIVE RootDown(_, _)
RootDown(z, x) == IF z * z > x THEN RootDown(z - 1, x) ELSE Jam(z, z * z # x)

RECURSIVE LongRootDown(_, _, _)
LongRootDown(w, z, rem) ==
  IF Negative(w, rem)
  THEN LongRootDown(w, z - 1,
         Add(w, rem, Pair((z - 1) \div 2 ^ (w - 1), (2 * (z - 1)) % 2 ^ w)))
  ELSE Jam(z, rem # Pair(0, 0))

f32_sqrt(rm, a, guess) ==
  LET F   == F32
      w   == W(F)
      sig == Radicand(F, a, w)
      est == (EstimateSqrt(w, Odd(F, a), sig, guess) + 2) % 2 ^ w
      x   == (IF Odd(F, a) THEN sig \div 2 ELSE sig) * 2 ^ w
      z   == IF est < 2 THEN 2 ^ (w - 1) - 1
             ELSE Right1Jam(IF est % 2 ^ G(F) <= 5 THEN RootDown(est, x) ELSE est) IN
  IF SqrtSpecial(F, a) THEN SqrtOfSpecial(F, a)
  ELSE softfloat_roundPackToF32(rm, FALSE, SqrtExp(F, a), z)

f64_sqrt(rm, a, guess) ==
  LET F    == F64
      w    == W(F)
      h    == w \div 2
      half == EstimateSqrt(h, Odd(F, a), Radicand(F, a, h), guess)
      sig  == Normal(F, a).sig * 2 ^ (G(F) - (IF Odd(F, a) THEN 2 ELSE 1))
      est  == EstimateDiv(w, sig, half * 2 ^ h) + half * 2 ^ (h - 2)
      rem  == Sub(w, Pair(sig, 0), Mul(w, est, est))
      z    == IF est % 2 ^ (G(F) - 1) <= 5 THEN LongRootDown(w, est, rem) ELSE est IN
  IF SqrtSpecial(F, a) THEN SqrtOfSpecial(F, a)
  ELSE softfloat_roundPackToF64(rm, FALSE, SqrtExp(F, a), z)

----------------------------------------------------------------------------
(* To integers of n bits.  A result out of range is the nearest limit for a *)
(* signed integer and all ones for an unsigned one.                         *)
Limit(n, sign) == IF sign THEN - 2 ^ (n - 1) ELSE 2 ^ (n - 1) - 1
Ones(n)        == 2 ^ n - 1

Inexact(yes) == IF yes THEN {"inexact"} ELSE {}

Signed(n, sign, z, inexact) ==
  IF z >= 2 ^ (n - 1) + (IF sign THEN 1 ELSE 0) THEN Invalid(Limit(n, sign))
  ELSE Res(IF sign THEN - z ELSE z, Inexact(inexact))

Unsigned(n, sign, z, inexact) ==
  IF sign /\ z # 0 THEN Invalid(Ones(n)) ELSE Res(z, Inexact(inexact))

(* sig has IntGuard bits behind the point.                                  *)
TooLong(rm, sign, sig) ==
  sig + RoundIncrement(IntGuard, rm, sign) >= 2 ^ (Int32 + IntGuard)

softfloat_roundPackToI32(rm, sign, sig) ==
  IF TooLong(rm, sign, sig) THEN Invalid(Limit(Int32, sign))
  ELSE Signed(Int32, sign, RoundOff(IntGuard, rm, sign, sig), sig % 2 ^ IntGuard # 0)

softfloat_roundPackToUI32(rm, sign, sig) ==
  IF TooLong(rm, sign, sig) THEN Invalid(Ones(Int32))
  ELSE Unsigned(Int32, sign, RoundOff(IntGuard, rm, sign, sig), sig % 2 ^ IntGuard # 0)

(* x has a word of Int64 bits on either side of the point.                  *)
RoundUp(rm, sign, extra) ==
  CASE rm \in {"near_even", "near_maxMag"} -> extra >= 2 ^ (Int64 - 1)
    [] OTHER -> rm = (IF sign THEN "min" ELSE "max") /\ extra # 0

RoundInt64(rm, sign, x) ==
  IF ~ RoundUp(rm, sign, x.extra) THEN x.v
  ELSE IF rm = "near_even" /\ x.extra = 2 ^ (Int64 - 1) THEN 2 * ((x.v + 1) \div 2)
  ELSE x.v + 1

Wraps(rm, sign, x) == RoundUp(rm, sign, x.extra) /\ x.v = Ones(Int64)

softfloat_roundPackToI64(rm, sign, x) ==
  IF Wraps(rm, sign, x) THEN Invalid(Limit(Int64, sign))
  ELSE Signed(Int64, sign, RoundInt64(rm, sign, x), x.extra # 0)

softfloat_roundPackToUI64(rm, sign, x) ==
  IF Wraps(rm, sign, x) THEN Invalid(Ones(Int64))
  ELSE Unsigned(Int64, sign, RoundInt64(rm, sign, x), x.extra # 0)

(* The significand of any number, infinite ones included.                   *)
Sig(F, a) == Frac(F, a) + (IF Exp(F, a) = 0 THEN 0 ELSE 2 ^ F.m)

Fixed32(a) ==
  LET n == Bias(F32) + F32.m + W(F32) - IntGuard - Exp(F32, a)
      s == Sig(F32, a) * 2 ^ W(F32) IN
  IF n > 0 THEN RightJam(W(F64), s, n) ELSE s

Fixed64(a) ==
  LET n == Bias(F64) + F64.m - IntGuard - Exp(F64, a)
      s == Sig(F64, a) IN
  IF n > 0 THEN RightJam(W(F64), s, n) ELSE s

f32_to_i32(rm, a)  == softfloat_roundPackToI32(rm, a.sign /\ ~ IsNaN(F32, a), Fixed32(a))
f32_to_ui32(rm, a) == softfloat_roundPackToUI32(rm, a.sign, Fixed32(a))
f64_to_i32(rm, a)  == softfloat_roundPackToI32(rm, a.sign /\ ~ IsNaN(F64, a), Fixed64(a))
f64_to_ui32(rm, a) == softfloat_roundPackToUI32(rm, a.sign, Fixed64(a))

(* Too large for 64 bits whatever the fraction is.                          *)
Huge(F, a) == Exp(F, a) > Bias(F) + Int64 - 1

LongFixed32(a) ==
  LET n == Bias(F32) + Int64 - 1 - Exp(F32, a)
      s == Sig(F32, a) * 2 ^ (Int64 - 1 - F32.m) IN
  IF n > 0 THEN ExtraRightJam(Int64, s, n) ELSE [v |-> s, extra |-> 0]

LongFixed64(a) ==
  LET n == Bias(F64) + F64.m - Exp(F64, a)
      s == Sig(F64, a) IN
  IF n > 0 THEN ExtraRightJam(Int64, s, n) ELSE [v |-> s * 2 ^ (- n), extra |-> 0]

f32_to_i64(rm, a) ==
  IF Huge(F32, a) THEN Invalid(Limit(Int64, a.sign /\ ~ IsNaN(F32, a)))
  ELSE softfloat_roundPackToI64(rm, a.sign, LongFixed32(a))

f32_to_ui64(rm, a) ==
  IF Huge(F32, a) THEN Invalid(Ones(Int64))
  ELSE softfloat_roundPackToUI64(rm, a.sign, LongFixed32(a))

f64_to_i64(rm, a) ==
  IF Huge(F64, a) THEN Invalid(Limit(Int64, a.sign /\ ~ IsNaN(F64, a)))
  ELSE softfloat_roundPackToI64(rm, a.sign, LongFixed64(a))

f64_to_ui64(rm, a) ==
  IF Huge(F64, a) THEN Invalid(Ones(Int64))
  ELSE softfloat_roundPackToUI64(rm, a.sign, LongFixed64(a))

(* The same towards zero, by routines of their own.                         *)
Truncated(F, a, places) ==
  LET n == Bias(F) + places - Exp(F, a) IN
  [v |-> Sig(F, a) \div 2 ^ n, lost |-> Sig(F, a) % 2 ^ n # 0]

(* Of a number below one nothing remains.                                   *)
Fraction(a) == Res(0, Inexact(~ IsZero(a)))

(* A single-precision significand starts at the top of the integer.         *)
TruncateSingle(n, a) ==
  LET e == Bias(F32) + n - 1 - Exp(F32, a)
      s == Sig(F32, a) * 2 ^ (n - 1 - F32.m) IN
  [v |-> s \div 2 ^ e, lost |-> s % 2 ^ e # 0]

SingleToSigned(n, a) ==
  LET t == TruncateSingle(n, a) IN
  IF Exp(F32, a) < Bias(F32) THEN Fraction(a)
  ELSE IF Exp(F32, a) < Bias(F32) + n - 1 THEN Res(IF a.sign THEN - t.v ELSE t.v, Inexact(t.lost))
  ELSE IF a = Pack(F32, TRUE, Bias(F32) + n - 1, 0) THEN Res(- 2 ^ (n - 1), {})
  ELSE Invalid(Limit(n, a.sign /\ ~ IsNaN(F32, a)))

SingleToUnsigned(n, a) ==
  LET t == TruncateSingle(n, a) IN
  IF Exp(F32, a) < Bias(F32) THEN Fraction(a)
  ELSE IF a.sign \/ Exp(F32, a) > Bias(F32) + n - 1 THEN Invalid(Ones(n))
  ELSE Res(t.v, Inexact(t.lost))

f32_to_i32_r_minMag(a)  == SingleToSigned(Int32, a)
f32_to_ui32_r_minMag(a) == SingleToUnsigned(Int32, a)
f32_to_i64_r_minMag(a)  == SingleToSigned(Int64, a)
f32_to_ui64_r_minMag(a) == SingleToUnsigned(Int64, a)

f64_to_i32_r_minMag(a) ==
  LET t == Truncated(F64, a, F64.m)
      limit == Invalid(Limit(Int32, a.sign /\ ~ IsNaN(F64, a))) IN
  IF Exp(F64, a) < Bias(F64) THEN Fraction(a)
  ELSE IF Exp(F64, a) > Bias(F64) + Int32 - 1 THEN limit
  ELSE Signed(Int32, a.sign, t.v, t.lost)

f64_to_ui32_r_minMag(a) ==
  LET t == Truncated(F64, a, F64.m) IN
  IF Exp(F64, a) < Bias(F64) THEN Fraction(a)
  ELSE IF a.sign \/ Exp(F64, a) > Bias(F64) + Int32 - 1 THEN Invalid(Ones(Int32))
  ELSE Res(t.v, Inexact(t.lost))

f64_to_i64_r_minMag(a) ==
  LET up == Exp(F64, a) - (Bias(F64) + F64.m)
      t  == IF up >= 0 THEN [v |-> Sig(F64, a) * 2 ^ up, lost |-> FALSE]
                       ELSE Truncated(F64, a, F64.m) IN
  IF Exp(F64, a) < Bias(F64) THEN Fraction(a)
  ELSE IF Exp(F64, a) < Bias(F64) + Int64 - 1 THEN Res(IF a.sign THEN - t.v ELSE t.v, Inexact(t.lost))
  ELSE IF a = Pack(F64, TRUE, Bias(F64) + Int64 - 1, 0) THEN Res(- 2 ^ (Int64 - 1), {})
  ELSE Invalid(Limit(Int64, a.sign /\ ~ IsNaN(F64, a)))

f64_to_ui64_r_minMag(a) ==
  LET up == Exp(F64, a) - (Bias(F64) + F64.m)
      t  == IF up >= 0 THEN [v |-> Sig(F64, a) * 2 ^ up, lost |-> FALSE]
                       ELSE Truncated(F64, a, F64.m) IN
  IF Exp(F64, a) < Bias(F64) THEN Fraction(a)
  ELSE IF a.sign \/ Huge(F64, a) THEN Invalid(Ones(Int64))
  ELSE Res(t.v, Inexact(t.lost))

(* To an integral number of the same format.                                *)
RoundToInt(F, rm, a) ==
  LET one   == [sign |-> a.sign, mag |-> Bias(F) * 2 ^ F.m]
      last  == 2 ^ (Bias(F) + F.m - Exp(F, a))
      sum   == a.mag + RoundIncrement(Bias(F) + F.m - Exp(F, a), rm, a.sign)
      even  == rm = "near_even" /\ sum % last = 0
      z     == [a EXCEPT !.mag = IF even THEN 2 * last * (sum \div (2 * last))
                                 ELSE last * (sum \div last)]
      up    == CASE rm = "near_even"   -> Exp(F, a) = Bias(F) - 1 /\ Frac(F, a) # 0
                 [] rm = "near_maxMag" -> Exp(F, a) = Bias(F) - 1
                 [] OTHER              -> rm = (IF a.sign THEN "min" ELSE "max") IN
  IF IsNaN(F, a) THEN PropagateNaN(F, a, Zero(F, FALSE))
  ELSE IF Exp(F, a) >= Bias(F) + F.m \/ IsZero(a) THEN Res(a, {})
  ELSE IF Exp(F, a) < Bias(F) THEN Res(IF up THEN one ELSE Zero(F, a.sign), {"inexact"})
  ELSE Res(z, Inexact(z # a))

f32_roundToInt(rm, a) == RoundToInt(F32, rm, a)
f64_roundToInt(rm, a) == RoundToInt(F64, rm, a)

----------------------------------------------------------------------------
(* From integers as wide as a word of the format they are named for.        *)
Magnitude(a) == IF a < 0 THEN - a ELSE a

i32_to_f32(rm, a) ==
  CASE a = 0                  -> Res(Zero(F32, FALSE), {})
    [] a = - 2 ^ (W(F32) - 1) -> Res(Pack(F32, TRUE, Bias(F32) + W(F32) - 1, 0), {})
    [] OTHER -> softfloat_normRoundPackToF32(rm, a < 0, Bias(F32) + W(F32) - 3, Magnitude(a))

i64_to_f64(rm, a) ==
  CASE a = 0                  -> Res(Zero(F64, FALSE), {})
    [] a = - 2 ^ (W(F64) - 1) -> Res(Pack(F64, TRUE, Bias(F64) + W(F64) - 1, 0), {})
    [] OTHER -> softfloat_normRoundPackToF64(rm, a < 0, Bias(F64) + W(F64) - 3, Magnitude(a))

ui32_to_f32(rm, a) ==
  CASE a = 0 -> Res(Zero(F32, FALSE), {})
    [] a >= 2 ^ (W(F32) - 1) ->
         softfloat_roundPackToF32(rm, FALSE, Bias(F32) + W(F32) - 2, Right1Jam(a))
    [] OTHER -> softfloat_normRoundPackToF32(rm, FALSE, Bias(F32) + W(F32) - 3, a)

ui64_to_f64(rm, a) ==
  CASE a = 0 -> Res(Zero(F64, FALSE), {})
    [] a >= 2 ^ (W(F64) - 1) ->
         softfloat_roundPackToF64(rm, FALSE, Bias(F64) + W(F64) - 2, ShortRightJam(a, 1))
    [] OTHER -> softfloat_normRoundPackToF64(rm, FALSE, Bias(F64) + W(F64) - 3, a)

(* From a wider integer: exact if the significand holds it.                 *)
FromWide(rm, sign, abs) ==
  LET F == F32
      n == CountLeadingZeros(W(F64), abs) - (W(F64) - F.m - 1)
      g == n + G(F) IN
  IF abs = 0 THEN Res(Zero(F, FALSE), {})
  ELSE IF n >= 0 THEN Res(Pack(F, sign, Bias(F) + F.m - 1 - n, abs * 2 ^ n), {})
  ELSE softfloat_roundPackToF32(rm, sign, Bias(F) + W(F) - 3 - g,
                 IF g < 0 THEN ShortRightJam(abs, - g) ELSE abs * 2 ^ g)

(* From a narrower one: always exact.                                       *)
FromNarrow(sign, abs) ==
  LET F == F64
      n == CountLeadingZeros(W(F32), abs) + F.m - (W(F32) - 1) IN
  IF abs = 0 THEN Res(Zero(F, FALSE), {})
  ELSE Res(Pack(F, sign, Bias(F) + F.m - 1 - n, abs * 2 ^ n), {})

i64_to_f32(rm, a)  == FromWide(rm, a < 0, Magnitude(a))
ui64_to_f32(rm, a) == FromWide(rm, FALSE, a)
i32_to_f64(a)      == FromNarrow(a < 0, Magnitude(a))
ui32_to_f64(a)     == FromNarrow(FALSE, a)

----------------------------------------------------------------------------
(* Between the formats.  A NaN keeps its sign and becomes quiet.            *)
QuietNaN(F, sign) == [DefaultNaN(F) EXCEPT !.sign = sign]

ConvertNaN(from, to, a) ==
  Res(QuietNaN(to, a.sign), IF IsSigNaN(from, a) THEN {"invalid"} ELSE {})

f32_to_f64(a) ==
  LET n == NormSubnormal(F32, Frac(F32, a))
      e == IF Exp(F32, a) = 0 THEN n.exp - 1 ELSE Exp(F32, a)
      s == IF Exp(F32, a) = 0 THEN n.sig ELSE Frac(F32, a) IN
  IF IsNaN(F32, a) THEN ConvertNaN(F32, F64, a)
  ELSE IF IsInf(F32, a) THEN Res(Inf(F64, a.sign), {})
  ELSE IF IsZero(a) THEN Res(Zero(F64, a.sign), {})
  ELSE Res(Pack(F64, a.sign, e + Bias(F64) - Bias(F32), s * 2 ^ (F64.m - F32.m)), {})

f64_to_f32(rm, a) ==
  LET sig == ShortRightJam(Frac(F64, a), F64.m - (W(F32) - 2)) IN
  IF IsNaN(F64, a) THEN ConvertNaN(F64, F32, a)
  ELSE IF IsInf(F64, a) THEN Res(Inf(F32, a.sign), {})
  ELSE IF IsZero(a) THEN Res(Zero(F32, a.sign), {})
  ELSE softfloat_roundPackToF32(rm, a.sign, Exp(F64, a) - (Bias(F64) - Bias(F32) + 1),
                 sig + 2 ^ (W(F32) - 2))

----------------------------------------------------------------------------
(* Comparisons; the quiet ones raise invalid for a signaling NaN only.      *)
Unordered(F, a, b) == IsNaN(F, a) \/ IsNaN(F, b)

BothZero(a, b) == IsZero(a) /\ IsZero(b)

Equal(a, b) == a = b \/ BothZero(a, b)

LessOrEqual(a, b) ==
  IF a.sign # b.sign THEN a.sign \/ BothZero(a, b)
  ELSE IF a.sign THEN b.mag <= a.mag ELSE a.mag <= b.mag

Less(a, b) ==
  IF a.sign # b.sign THEN a.sign /\ ~ BothZero(a, b)
  ELSE IF a.sign THEN b.mag < a.mag ELSE a.mag < b.mag

Compare(F, quiet, a, b, holds) ==
  IF ~ Unordered(F, a, b) THEN Res(holds, {})
  ELSE IF quiet /\ ~ IsSigNaN(F, a) /\ ~ IsSigNaN(F, b) THEN Res(FALSE, {})
  ELSE Invalid(FALSE)

f32_eq(a, b)           == Compare(F32, TRUE, a, b, Equal(a, b))
f64_eq(a, b)           == Compare(F64, TRUE, a, b, Equal(a, b))
f32_eq_signaling(a, b) == Compare(F32, FALSE, a, b, Equal(a, b))
f64_eq_signaling(a, b) == Compare(F64, FALSE, a, b, Equal(a, b))
f32_le(a, b)           == Compare(F32, FALSE, a, b, LessOrEqual(a, b))
f64_le(a, b)           == Compare(F64, FALSE, a, b, LessOrEqual(a, b))
f32_lt(a, b)           == Compare(F32, FALSE, a, b, Less(a, b))
f64_lt(a, b)           == Compare(F64, FALSE, a, b, Less(a, b))
f32_le_quiet(a, b)     == Compare(F32, TRUE, a, b, LessOrEqual(a, b))
f64_le_quiet(a, b)     == Compare(F64, TRUE, a, b, LessOrEqual(a, b))
f32_lt_quiet(a, b)     == Compare(F32, TRUE, a, b, Less(a, b))
f64_lt_quiet(a, b)     == Compare(F64, TRUE, a, b, Less(a, b))

(* The bits of the class mask that are set.                                 *)
Classify(F, a) ==
  LET bit(on, b) == IF on THEN {b} ELSE {}
      side(k)    == IF a.sign THEN k ELSE 7 - k
      tiny       == Exp(F, a) = 0 IN
  bit(IsInf(F, a), side(0)) \cup bit(~ tiny /\ Exp(F, a) # ExpMax(F), side(1))
    \cup bit(tiny /\ Frac(F, a) # 0, side(2)) \cup bit(tiny /\ Frac(F, a) = 0, side(3))
    \cup bit(IsNaN(F, a) /\ IsSigNaN(F, a), 8) \cup bit(IsNaN(F, a) /\ ~ IsSigNaN(F, a), 9)

f32_classify(a) == Res(Classify(F32, a), {})
f64_classify(a) == Res(Classify(F64, a), {})

=============================================================================
