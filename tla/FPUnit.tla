------------------------------- MODULE FPUnit -------------------------------
(***************************************************************************)
(* Execution of a floating-point instruction (alu.cc, the templates of     *)
(* alu_ops/ and riscv-base/insns/f*.h): the operands were read into the    *)
(* payload, and what the library returns for them, with the exceptions it  *)
(* raised, goes to C_value and fflags there, from where writeback takes    *)
(* the one and retire the other.                                           *)
(*                                                                         *)
(* The constants are the operands tried: by format, the numbers for an     *)
(* operation of one operand, the sequences for one of two and of three;    *)
(* and the integers to convert.                                            *)
(***************************************************************************)
EXTENDS SoftFloat, Sequences

CONSTANTS Numbers, Pairs, Triples, Integers32, Integers64

VARIABLE fp    \* the instruction that was executed, if any: its name and its payload

fpVars == <<fp>>

Formats == {"s", "d"}
Format(f) == IF f = "s" THEN F32 ELSE F64

Neg(a) == [a EXCEPT !.sign = ~ @]
One(F) == [sign |-> FALSE, mag |-> Bias(F) * 2 ^ F.m]

(* What the low n bits of a register are as a signed or unsigned integer.   *)
LowBits(n, x) == x % 2 ^ n
SignExtend(n, x) ==
  IF LowBits(n, x) >= 2 ^ (n - 1) THEN LowBits(n, x) - 2 ^ n ELSE LowBits(n, x)

FPInit == fp = <<>>

NoInstruction == fp = <<>>

(* The handler of every instruction: fflags is assigned, not accumulated.   *)
Executed(op, f, rm, args, r) ==
  fp' = << op, [f |-> f, rm |-> rm, args |-> args, v |-> r.v, fflags |-> r.flags] >>

MulAdd(f, rm, a, b, c) == IF f = "s" THEN f32_mulAdd(rm, a, b, c) ELSE f64_mulAdd(rm, a, b, c)

(* Sums and products are made by the routine that multiplies and adds.      *)
fadd(f, rm, a, b) == MulAdd(f, rm, a, One(Format(f)), b)
fsub(f, rm, a, b) == MulAdd(f, rm, a, One(Format(f)), Neg(b))
fmul(f, rm, a, b) == MulAdd(f, rm, a, b, Zero(Format(f), a.sign # b.sign))

fmadd(f, rm, a, b, c)  == MulAdd(f, rm, a, b, c)
fmsub(f, rm, a, b, c)  == MulAdd(f, rm, a, b, Neg(c))
fnmadd(f, rm, a, b, c) == MulAdd(f, rm, Neg(a), b, Neg(c))
fnmsub(f, rm, a, b, c) == MulAdd(f, rm, Neg(a), b, c)

fdiv(f, rm, a, b) == IF f = "s" THEN f32_div(rm, a, b) ELSE f64_div(rm, a, b)

Arithmetic ==
  /\ NoInstruction
  /\ \E f \in Formats, rm \in Modes : \E x \in Pairs[f] :
       \/ Executed("fadd", f, rm, x, fadd(f, rm, x[1], x[2]))
       \/ Executed("fsub", f, rm, x, fsub(f, rm, x[1], x[2]))
       \/ Executed("fmul", f, rm, x, fmul(f, rm, x[1], x[2]))
       \/ Executed("fdiv", f, rm, x, fdiv(f, rm, x[1], x[2]))

Fused ==
  /\ NoInstruction
  /\ \E f \in Formats, rm \in Modes : \E x \in Triples[f] :
       \/ Executed("fmadd", f, rm, x, fmadd(f, rm, x[1], x[2], x[3]))
       \/ Executed("fmsub", f, rm, x, fmsub(f, rm, x[1], x[2], x[3]))
       \/ Executed("fnmadd", f, rm, x, fnmadd(f, rm, x[1], x[2], x[3]))
       \/ Executed("fnmsub", f, rm, x, fnmsub(f, rm, x[1], x[2], x[3]))

(* The estimate of a root starts from an entry of a table: either of those  *)
(* next to the root.                                                        *)
Guesses(F, a, w) ==
  IF SqrtSpecial(F, a) THEN {0} ELSE FirstGuesses(w, Odd(F, a), Radicand(F, a, w))

SquareRoot ==
  /\ NoInstruction
  /\ \E rm \in Modes :
       \/ \E a \in Numbers["s"] : \E guess \in Guesses(F32, a, W(F32)) :
            Executed("fsqrt", "s", rm, <<a>>, f32_sqrt(rm, a, guess))
       \/ \E a \in Numbers["d"] : \E guess \in Guesses(F64, a, W(F64) \div 2) :
            Executed("fsqrt", "d", rm, <<a>>, f64_sqrt(rm, a, guess))

(* A word is sign-extended into the register, an unsigned one too.          *)
ToWord(r) == [r EXCEPT !.v = SignExtend(Int32, @)]

fcvt_w(f, rm, a)  == ToWord(IF f = "s" THEN f32_to_i32(rm, a) ELSE f64_to_i32(rm, a))
fcvt_wu(f, rm, a) == ToWord(IF f = "s" THEN f32_to_ui32(rm, a) ELSE f64_to_ui32(rm, a))
fcvt_l(f, rm, a)  == IF f = "s" THEN f32_to_i64(rm, a) ELSE f64_to_i64(rm, a)
fcvt_lu(f, rm, a) == IF f = "s" THEN f32_to_ui64(rm, a) ELSE f64_to_ui64(rm, a)

ToInteger ==
  /\ NoInstruction
  /\ \E f \in Formats, rm \in Modes : \E a \in Numbers[f] :
       \/ Executed("fcvt_w", f, rm, <<a>>, fcvt_w(f, rm, a))
       \/ Executed("fcvt_wu", f, rm, <<a>>, fcvt_wu(f, rm, a))
       \/ Executed("fcvt_l", f, rm, <<a>>, fcvt_l(f, rm, a))
       \/ Executed("fcvt_lu", f, rm, <<a>>, fcvt_lu(f, rm, a))

(* The conversions of a word take the low half of the register.             *)
fcvt_from_w(f, rm, x) ==
  LET i == SignExtend(W(F32), x) IN IF f = "s" THEN i32_to_f32(rm, i) ELSE i32_to_f64(i)
fcvt_from_wu(f, rm, x) ==
  LET i == LowBits(W(F32), x) IN IF f = "s" THEN ui32_to_f32(rm, i) ELSE ui32_to_f64(i)
fcvt_from_l(f, rm, x)  == IF f = "s" THEN i64_to_f32(rm, x) ELSE i64_to_f64(rm, x)
fcvt_from_lu(f, rm, x) ==
  LET i == LowBits(W(F64), x) IN IF f = "s" THEN ui64_to_f32(rm, i) ELSE ui64_to_f64(rm, i)

FromInteger ==
  /\ NoInstruction
  /\ \E f \in Formats, rm \in Modes :
       \/ \E x \in Integers32 :
            \/ Executed("fcvt_from_w", f, rm, <<x>>, fcvt_from_w(f, rm, x))
            \/ Executed("fcvt_from_wu", f, rm, <<x>>, fcvt_from_wu(f, rm, x))
       \/ \E x \in Integers64 :
            \/ Executed("fcvt_from_l", f, rm, <<x>>, fcvt_from_l(f, rm, x))
            \/ Executed("fcvt_from_lu", f, rm, <<x>>, fcvt_from_lu(f, rm, x))

BetweenFormats ==
  /\ NoInstruction
  /\ \E rm \in Modes :
       \/ \E a \in Numbers["s"] : Executed("fcvt_d_s", "d", rm, <<a>>, f32_to_f64(a))
       \/ \E a \in Numbers["d"] : Executed("fcvt_s_d", "s", rm, <<a>>, f64_to_f32(rm, a))

feq(f, a, b) == IF f = "s" THEN f32_eq(a, b) ELSE f64_eq(a, b)
flt(f, a, b) == IF f = "s" THEN f32_lt(a, b) ELSE f64_lt(a, b)
fle(f, a, b) == IF f = "s" THEN f32_le(a, b) ELSE f64_le(a, b)

(* A second operand that is not a number is not looked at further.          *)
Select(F, a, b, better) ==
  IF IsNaN(F, b) THEN Res(a, {}) ELSE Res(IF better.v THEN a ELSE b, better.flags)

fmin(f, a, b) ==
  Select(Format(f), a, b, IF f = "s" THEN f32_lt_quiet(a, b) ELSE f64_lt_quiet(a, b))
fmax(f, a, b) ==
  Select(Format(f), a, b, IF f = "s" THEN f32_le_quiet(b, a) ELSE f64_le_quiet(b, a))

Comparison ==
  /\ NoInstruction
  /\ \E f \in Formats : \E x \in Pairs[f] :
       \/ Executed("feq", f, "near_even", x, feq(f, x[1], x[2]))
       \/ Executed("flt", f, "near_even", x, flt(f, x[1], x[2]))
       \/ Executed("fle", f, "near_even", x, fle(f, x[1], x[2]))
       \/ Executed("fmin", f, "near_even", x, fmin(f, x[1], x[2]))
       \/ Executed("fmax", f, "near_even", x, fmax(f, x[1], x[2]))

fclass(f, a) == IF f = "s" THEN f32_classify(a) ELSE f64_classify(a)

Classification ==
  /\ NoInstruction
  /\ \E f \in Formats : \E a \in Numbers[f] :
       Executed("fclass", f, "near_even", <<a>>, fclass(f, a))

(* Routines of the library that no instruction calls.                       *)
LibraryArithmetic ==
  /\ NoInstruction
  /\ \E f \in Formats, rm \in Modes : \E x \in Pairs[f] :
       \/ Executed("fadd", f, rm, x,
            IF f = "s" THEN f32_add(rm, x[1], x[2]) ELSE f64_add(rm, x[1], x[2]))
       \/ Executed("fsub", f, rm, x,
            IF f = "s" THEN f32_sub(rm, x[1], x[2]) ELSE f64_sub(rm, x[1], x[2]))
       \/ Executed("fmul", f, rm, x,
            IF f = "s" THEN f32_mul(rm, x[1], x[2]) ELSE f64_mul(rm, x[1], x[2]))

LibraryEqual ==
  /\ NoInstruction
  /\ \E f \in Formats : \E x \in Pairs[f] :
       Executed("feq_signaling", f, "near_even", x,
         IF f = "s" THEN f32_eq_signaling(x[1], x[2]) ELSE f64_eq_signaling(x[1], x[2]))

LibraryToInteger ==
  /\ NoInstruction
  /\ \E f \in Formats : \E a \in Numbers[f] :
       \/ \E rm \in Modes : Executed("roundToInt", f, rm, <<a>>,
            IF f = "s" THEN f32_roundToInt(rm, a) ELSE f64_roundToInt(rm, a))
       \/ Executed("fcvt_w", f, "minMag", <<a>>,
            IF f = "s" THEN f32_to_i32_r_minMag(a) ELSE f64_to_i32_r_minMag(a))
       \/ Executed("fcvt_wu", f, "minMag", <<a>>,
            ToWord(IF f = "s" THEN f32_to_ui32_r_minMag(a) ELSE f64_to_ui32_r_minMag(a)))
       \/ Executed("fcvt_l", f, "minMag", <<a>>,
            IF f = "s" THEN f32_to_i64_r_minMag(a) ELSE f64_to_i64_r_minMag(a))
       \/ Executed("fcvt_lu", f, "minMag", <<a>>,
            IF f = "s" THEN f32_to_ui64_r_minMag(a) ELSE f64_to_ui64_r_minMag(a))

(* The payload entry is free for the next instruction.                      *)
Retire == fp # <<>> /\ fp' = <<>>

FPNext ==
  \/ Arithmetic \/ Fused \/ SquareRoot \/ ToInteger \/ FromInteger \/ BetweenFormats
  \/ Comparison \/ Classification
  \/ LibraryArithmetic \/ LibraryEqual \/ LibraryToInteger
  \/ Retire

FPSpec == FPInit /\ [][FPNext]_fpVars

=============================================================================
