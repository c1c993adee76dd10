-------------------------- MODULE FPUnitProperties --------------------------
(***************************************************************************)
(* What a floating-point instruction must give: the exact result of the    *)
(* operation, rounded once in the mode asked for, with the exceptions that *)
(* go with it.  An exact value is compared with the numbers of the format  *)
(* and with the points halfway between them; nothing is computed the way   *)
(* the library does.                                                       *)
(***************************************************************************)
EXTENDS FPUnit

(* Values are x.m * 2 ^ x.e.                                                *)
Point(m, e) == [m |-> m, e |-> e]

Least(x, y) == IF x < y THEN x ELSE y

Le(x, y) ==
  IF x.e >= y.e THEN x.m <= y.m \div 2 ^ Least(x.e - y.e, 30)
  ELSE x.m \div 2 ^ Least(y.e - x.e, 30)
         + (IF x.m % 2 ^ Least(y.e - x.e, 30) = 0 THEN 0 ELSE 1) <= y.m

Times(x, y) == Point(x.m * y.m, x.e + y.e)

(* The number with the magnitude mag, taking infinity for the power of two  *)
(* that follows the greatest number; and what lies halfway to the next one. *)
Power(F, mag)  == (IF mag < 2 ^ F.m THEN 1 ELSE mag \div 2 ^ F.m) - Bias(F) - F.m
Number(F, mag) ==
  Point((mag % 2 ^ F.m) + (IF mag < 2 ^ F.m THEN 0 ELSE 2 ^ F.m), Power(F, mag))
Halfway(F, mag) == Point(2 * Number(F, mag).m + 1, Power(F, mag) - 1)

Value(F, a) == Number(F, a.mag)

(* atMost(p) and atLeast(p) say how the exact magnitude compares with the   *)
(* point p: this one is rounded to k or less, when point gives the k-th     *)
(* result and half the point between it and the next.                       *)
RoundsTo(rm, sign, k, point(_), half(_), atMost(_), atLeast(_)) ==
  CASE rm = "near_even" /\ k % 2 = 0             -> atMost(half(k))
    [] rm \in {"near_even", "near_maxMag"}       -> ~ atLeast(half(k))
    [] rm = (IF sign THEN "min" ELSE "max")      -> atMost(point(k))
    [] OTHER                                     -> ~ atLeast(point(k + 1))

Rounded(F, rm, sign, atMost(_), atLeast(_), r) ==
  LET point(k) == Number(F, k)
      half(k)  == Halfway(F, k)
      upTo(k)  == RoundsTo(rm, sign, k, point, half, atMost, atLeast)
      inf      == Inf(F, sign).mag
      mag      == r.v.mag
      exact    == atMost(point(mag)) /\ atLeast(point(mag))
      away     == RoundIncrement(G(F), rm, sign) # 0
      tiny     == ~ atLeast(point(2 ^ F.m)) IN
  /\ r.v.sign = sign
  /\ IF upTo(inf - 1)
     THEN /\ mag < inf /\ upTo(mag) /\ (mag = 0 \/ ~ upTo(mag - 1))
          /\ r.fflags = (IF exact THEN {} ELSE {"inexact"} \cup (IF tiny THEN {"underflow"} ELSE {}))
     ELSE /\ mag = (IF away THEN inf ELSE inf - 1)
          /\ r.fflags = {"overflow", "inexact"}

RoundedValue(F, rm, sign, x, r) ==
  LET atMost(p)  == Le(x, p)
      atLeast(p) == Le(p, x) IN
  Rounded(F, rm, sign, atMost, atLeast, r)

Is(r, v, flags) == r.v = v /\ r.fflags = flags

NotANumber(F, args, invalid, r) ==
  Is(r, DefaultNaN(F),
     IF invalid \/ \E a \in args : IsSigNaN(F, a) THEN {"invalid"} ELSE {})

AnyNaN(F, args) == \E a \in args : IsNaN(F, a)

(* The sum of two values that are not zero, with as many bits as a product  *)
(* has, and of the smaller one only a trace where it is much smaller.       *)
Widened(bits, x) ==
  LET n == CountLeadingZeros(bits, x.m) IN [x EXCEPT !.m = @ * 2 ^ n, !.e = @ - n]

Trace(x, n) ==
  LET d == 2 ^ Least(n, 29) IN
  IF x % d = 0 THEN x \div d ELSE 2 * (x \div (2 * d)) + 1

Total(bits, signX, x, signY, y) ==
  LET wx    == Widened(bits, x)
      wy    == Widened(bits, y)
      swap  == wx.e < wy.e
      big   == IF swap THEN wy ELSE wx
      small == IF swap THEN wx ELSE wy
      sign  == IF swap THEN signY ELSE signX
      m     == IF signX = signY THEN 16 * big.m + Trace(16 * small.m, big.e - small.e)
                                ELSE 16 * big.m - Trace(16 * small.m, big.e - small.e) IN
  [sign |-> (sign # (m < 0)), x |-> Point(IF m < 0 THEN - m ELSE m, big.e - 4)]

(* a * b + c                                                                *)
FusedCorrect(F, rm, a, b, c, r) ==
  LET sign  == a.sign # b.sign
      bits  == 2 * (F.m + 1)
      zeroByInf == (IsZero(a) /\ IsInf(F, b)) \/ (IsInf(F, a) /\ IsZero(b))
      prodInf   == IsInf(F, a) \/ IsInf(F, b)
      infDiff   == prodInf /\ IsInf(F, c) /\ c.sign # sign
      prod  == Times(Value(F, a), Value(F, b))
      exact == Total(bits, sign, prod, c.sign, Value(F, c)) IN
  CASE AnyNaN(F, {a, b, c}) \/ zeroByInf \/ infDiff ->
         NotANumber(F, {a, b, c}, zeroByInf \/ (infDiff /\ ~ AnyNaN(F, {a, b, c})), r)
    [] prodInf \/ IsInf(F, c) -> Is(r, Inf(F, IF prodInf THEN sign ELSE c.sign), {})
    [] prod.m = 0 /\ IsZero(c) -> Is(r, Zero(F, IF sign = c.sign THEN sign ELSE rm = "min"), {})
    [] prod.m = 0 -> Is(r, c, {})
    [] IsZero(c) -> RoundedValue(F, rm, sign, prod, r)
    [] OTHER -> IF exact.x.m = 0 THEN Is(r, Zero(F, rm = "min"), {})
                ELSE RoundedValue(F, rm, exact.sign, exact.x, r)

SumCorrect(F, rm, a, b, r)     == FusedCorrect(F, rm, a, One(F), b, r)
ProductCorrect(F, rm, a, b, r) == FusedCorrect(F, rm, a, b, Zero(F, a.sign # b.sign), r)

QuotientCorrect(F, rm, a, b, r) ==
  LET sign == a.sign # b.sign
      noValue == (IsZero(a) /\ IsZero(b)) \/ (IsInf(F, a) /\ IsInf(F, b))
      atMost(p)  == Le(Value(F, a), Times(p, Value(F, b)))
      atLeast(p) == Le(Times(p, Value(F, b)), Value(F, a)) IN
  CASE AnyNaN(F, {a, b}) \/ noValue -> NotANumber(F, {a, b}, noValue, r)
    [] IsInf(F, a) \/ IsInf(F, b) \/ IsZero(a) \/ IsZero(b) ->
         Is(r, IF IsInf(F, a) \/ IsZero(b) THEN Inf(F, sign) ELSE Zero(F, sign),
            IF IsZero(b) /\ ~ IsInf(F, a) THEN {"infinity"} ELSE {})
    [] OTHER -> Rounded(F, rm, sign, atMost, atLeast, r)

RootCorrect(F, rm, a, r) ==
  LET noValue == a.sign /\ ~ IsZero(a) /\ ~ IsNaN(F, a)
      atMost(p)  == Le(Value(F, a), Times(p, p))
      atLeast(p) == Le(Times(p, p), Value(F, a)) IN
  CASE IsNaN(F, a) \/ noValue -> NotANumber(F, {a}, noValue, r)
    [] IsZero(a) \/ IsInf(F, a) -> Is(r, a, {})
    [] OTHER -> Rounded(F, rm, FALSE, atMost, atLeast, r)

(* To an integer whose magnitude is at most limit; beyond is the result of  *)
(* all other numbers and of those that are none.                            *)
Integral(rm, F, a, k) ==
  LET point(n) == Point(n, 0)
      half(n)  == Point(2 * n + 1, -1)
      atMost(p)  == Le(Value(F, a), p)
      atLeast(p) == Le(p, Value(F, a)) IN
  RoundsTo(rm, a.sign, k, point, half, atMost, atLeast)

IntegerCorrect(F, rm, a, limit, beyond, result, flags) ==
  LET k == Magnitude(result)
      exact == Le(Value(F, a), Point(k, 0)) /\ Le(Point(k, 0), Value(F, a)) IN
  IF IsNaN(F, a) \/ IsInf(F, a) \/ ~ Integral(rm, F, a, limit)
  THEN result = beyond /\ flags = {"invalid"}
  ELSE /\ result = (IF a.sign THEN - k ELSE k)
       /\ Integral(rm, F, a, k) /\ (k = 0 \/ ~ Integral(rm, F, a, k - 1))
       /\ flags = Inexact(~ exact)

SignedCorrect(F, rm, a, n, r) ==
  IntegerCorrect(F, rm, a, IF a.sign THEN 2 ^ (n - 1) ELSE 2 ^ (n - 1) - 1,
    IF a.sign /\ ~ IsNaN(F, a) THEN - 2 ^ (n - 1) ELSE 2 ^ (n - 1) - 1, r.v, r.fflags)

UnsignedCorrect(F, rm, a, n, r) ==
  IntegerCorrect(F, rm, a, IF a.sign THEN 0 ELSE 2 ^ n - 1, 2 ^ n - 1, LowBits(n, r.v), r.fflags)

(* The integral value of a number of the format.                            *)
IntegralCorrect(F, rm, a, r) ==
  LET x == Value(F, r.v)
      k == IF x.e >= 0 THEN x.m * 2 ^ x.e ELSE x.m \div 2 ^ Least(- x.e, 30) IN
  CASE IsNaN(F, a) -> NotANumber(F, {a}, FALSE, r)
    [] IsInf(F, a) \/ Value(F, a).e >= 0 -> Is(r, a, {})
    [] OTHER -> /\ Le(x, Point(k, 0)) /\ r.v.sign = a.sign
                /\ Integral(rm, F, a, k) /\ (k = 0 \/ ~ Integral(rm, F, a, k - 1))
                /\ r.fflags = Inexact(r.v # a)

FromIntegerCorrect(F, rm, i, r) ==
  RoundedValue(F, rm, i < 0, Point(Magnitude(i), 0), r)

ConversionCorrect(from, to, rm, a, r) ==
  CASE IsNaN(from, a) -> /\ IsNaN(to, r.v) /\ ~ IsSigNaN(to, r.v)
                         /\ r.fflags = (IF IsSigNaN(from, a) THEN {"invalid"} ELSE {})
    [] IsInf(from, a) -> Is(r, Inf(to, a.sign), {})
    [] OTHER          -> RoundedValue(to, rm, a.sign, Value(from, a), r)

(* Comparisons of values; one with a NaN does not hold.                     *)
Below(F, a, b) ==
  CASE a.sign /\ b.sign -> ~ Le(Value(F, a), Value(F, b))
    [] a.sign # b.sign  -> a.sign /\ ~ (IsZero(a) /\ IsZero(b))
    [] OTHER            -> ~ Le(Value(F, b), Value(F, a))

Ordered(F, a, b) == ~ AnyNaN(F, {a, b})

CompareCorrect(F, a, b, holds, quiet, r) ==
  /\ r.v = (Ordered(F, a, b) /\ holds)
  /\ r.fflags = (IF IF quiet THEN \E x \in {a, b} : IsSigNaN(F, x) ELSE ~ Ordered(F, a, b)
                 THEN {"invalid"} ELSE {})

(* Of two numbers the one that none is better than; a NaN only of two.      *)
ChoiceCorrect(F, a, b, better(_, _), r) ==
  /\ r.v \in {a, b}
  /\ IsNaN(F, r.v) => IsNaN(F, a) /\ IsNaN(F, b)
  /\ Ordered(F, a, b) => ~ better(a, r.v) /\ ~ better(b, r.v)
  /\ r.fflags # {} => \E x \in {a, b} : IsSigNaN(F, x)

ClassCorrect(F, a, r) ==
  LET mirror == Classify(F, Neg(a)) IN
  \E c \in 0 .. 9 : Is(r, {c}, {}) /\ mirror = {IF c < 8 THEN 7 - c ELSE c}

Correct(op, i) ==
  LET F == Format(i.f)
      a == i.args[1]
      b == i.args[2]
      c == i.args[3]
      lt(x, y) == Below(F, x, y)
      gt(x, y) == Below(F, y, x) IN
  CASE op = "fadd"   -> SumCorrect(F, i.rm, a, b, i)
    [] op = "fsub"   -> SumCorrect(F, i.rm, a, Neg(b), i)
    [] op = "fmul"   -> ProductCorrect(F, i.rm, a, b, i)
    [] op = "fdiv"   -> QuotientCorrect(F, i.rm, a, b, i)
    [] op = "fmadd"  -> FusedCorrect(F, i.rm, a, b, c, i)
    [] op = "fmsub"  -> FusedCorrect(F, i.rm, a, b, Neg(c), i)
    [] op = "fnmadd" -> FusedCorrect(F, i.rm, Neg(a), b, Neg(c), i)
    [] op = "fnmsub" -> FusedCorrect(F, i.rm, Neg(a), b, c, i)
    [] op = "fsqrt"  -> RootCorrect(F, i.rm, a, i)
    [] op = "fcvt_w"  -> SignedCorrect(F, i.rm, a, Int32, i)
    [] op = "fcvt_wu" -> UnsignedCorrect(F, i.rm, a, Int32, i)
    [] op = "fcvt_l"  -> SignedCorrect(F, i.rm, a, Int64, i)
    [] op = "fcvt_lu" -> UnsignedCorrect(F, i.rm, a, Int64, i)
    [] op = "roundToInt"  -> IntegralCorrect(F, i.rm, a, i)
    [] op = "fcvt_from_w"  -> FromIntegerCorrect(F, i.rm, SignExtend(W(F32), a), i)
    [] op = "fcvt_from_wu" -> FromIntegerCorrect(F, i.rm, LowBits(W(F32), a), i)
    [] op = "fcvt_from_l"  -> FromIntegerCorrect(F, i.rm, a, i)
    [] op = "fcvt_from_lu" -> FromIntegerCorrect(F, i.rm, LowBits(W(F64), a), i)
    [] op = "fcvt_d_s" -> ConversionCorrect(F32, F64, i.rm, a, i)
    [] op = "fcvt_s_d" -> ConversionCorrect(F64, F32, i.rm, a, i)
    [] op \in {"feq", "feq_signaling"} ->
         CompareCorrect(F, a, b, ~ lt(a, b) /\ ~ lt(b, a), op = "feq", i)
    [] op = "flt"    -> CompareCorrect(F, a, b, lt(a, b), FALSE, i)
    [] op = "fle"    -> CompareCorrect(F, a, b, ~ lt(b, a), FALSE, i)
    [] op = "fmin"   -> ChoiceCorrect(F, a, b, lt, i)
    [] op = "fmax"   -> ChoiceCorrect(F, a, b, gt, i)
    [] op = "fclass" -> ClassCorrect(F, a, i)

(* Every floating-point instruction gives the exact result of its operation *)
(* rounded once, in the mode it asks for, and raises the exceptions that go *)
(* with this and no other, for normal and subnormal operands, zeros,        *)
(* infinities and NaNs: whatever bits the library shifts out, jams, or      *)
(* corrects an estimate by.                                                 *)
CorrectlyRounded == fp # <<>> => Correct(fp[1], fp[2])

=============================================================================
