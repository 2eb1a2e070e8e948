----------------------------- MODULE SoftFloat -----------------------------
(***************************************************************************)
(* src/softfloat: the floating-point library that the instruction          *)
(* emulation of the machine-mode monitor is linked with.                   *)
(*                                                                         *)
(* The library has every routine twice, for 32 and for 64 bits.  Where the *)
(* two differ only in their widths there is one operator here, generic in  *)
(* the format F, and the two routines are its instances under their own    *)
(* names.  A format is the pair of its exponent and fraction widths; every *)
(* mask and shift of the code is written in terms of them, so that the     *)
(* same definitions are the code at widths 8, 23 and 11, 52 and can be     *)
(* evaluated at widths of a few bits.                                      *)
(*                                                                         *)
(* A value is its bit pattern, a natural number.  A routine returns        *)
(* [v |-> result, fl |-> the set of flags it raises]; the rounding mode,   *)
(* global in the code, is the argument m.                                  *)
(***************************************************************************)
EXTENDS Integers, FiniteSets, FiniteSetsExt

CONSTANTS ExpBits32, FracBits32,   \* 8 and 23 in the code
          ExpBits64, FracBits64,   \* 11 and 52 in the code
          IntGuard                 \* 7: bits below the point of a word being rounded

F32 == [e |-> ExpBits32, f |-> FracBits32]
F64 == [e |-> ExpBits64, f |-> FracBits64]
W(F) == 1 + F.e + F.f              \* bits of a word: 32, 64

(* What the routines rely on: three bits below the last place to round     *)
(* with (there are as many as exponent bits, less one), a 64-bit word that *)
(* is two 32-bit words, doubles that hold an integer of 32 bits in their   *)
(* fraction, and singles that are all normal doubles.                      *)
ASSUME FormatAssumption ==
    /\ {ExpBits32, FracBits32, ExpBits64, FracBits64, IntGuard} \subseteq Nat
    /\ ExpBits32 >= 4 /\ FracBits32 >= 2 /\ IntGuard >= 2
    /\ W(F64) = 2 * W(F32)
    /\ ExpBits64 > ExpBits32 /\ FracBits64 >= ExpBits32 + FracBits32
    /\ 2 ^ (ExpBits64 - 1) > 2 ^ (ExpBits32 - 1) + FracBits32

(* What exponentiation is, for the prover; TLC knows.                      *)
ASSUME PowersAssumption ==
    \A n \in 0..(W(F64) + 2) : 2 ^ n = IF n = 0 THEN 1 ELSE 2 * 2 ^ (n - 1)

Modes == {"near_even", "minMag", "min", "max", "near_maxMag"}

-----------------------------------------------------------------------------
(* Fields of a pattern (internals.h) and helpers on words (primitives.h).  *)

Bias(F) == 2 ^ (F.e - 1) - 1       \* 0x7F, 0x3FF
ExpMax(F) == 2 ^ F.e - 1           \* 0xFF, 0x7FF
Guard(F) == F.e - 1                \* bits below the last place while rounding: 7, 10
Hidden(F) == 2 ^ F.f               \* 0x00800000, 0x0010000000000000
TopBit(F) == 2 ^ (W(F) - 1)        \* 0x80000000, 0x8000000000000000

Sign(F, ui) == ui \div TopBit(F)
Exp(F, ui) == (ui \div Hidden(F)) % 2 ^ F.e
Frac(F, ui) == ui % Hidden(F)
Pack(F, s, exp, sig) == (s * TopBit(F) + exp * Hidden(F) + sig) % 2 ^ W(F)

Xor(s, t) == (s + t) % 2
Bool(p) == IF p THEN 1 ELSE 0
OrOne(x, p) == IF p /\ x % 2 = 0 THEN x + 1 ELSE x      \* x | (p != 0)
BitLength(x) ==
    CHOOSE n \in 0..(2 * W(F64)) : x < 2 ^ n /\ \A k \in 0..(n - 1) : 2 ^ k <= x
CountLeadingZeros(w, x) == w - BitLength(x)
\* Mutant: the bits shifted out leave no trace.
ShiftRightLossy(x, n) == IF n > BitLength(x) THEN 0 ELSE x \div 2 ^ n
ShiftRightJam(x, n) ==
    IF n > BitLength(x) THEN Bool(x # 0) ELSE OrOne(x \div 2 ^ n, x % 2 ^ n # 0)

softfloat_shift32RightJam(x, n) == ShiftRightJam(x, n)
softfloat_shift64RightJam(x, n) == ShiftRightJam(x, n)
softfloat_shortShift32Right1Jam(x) == ShiftRightJam(x, 1)
softfloat_shortShift64RightJam(x, n) == ShiftRightJam(x, n)
softfloat_countLeadingZeros32(x) == CountLeadingZeros(W(F32), x)
softfloat_countLeadingZeros64(x) == CountLeadingZeros(W(F64), x)

(* A word shifted right by n with one more word for the bits that fall     *)
(* off, the last of them sticky.                                           *)
softfloat_shift64ExtraRightJam(x, n) ==
    LET w == W(F64)
    IN  IF n < w THEN [v |-> x \div 2 ^ n, extra |-> (x % 2 ^ n) * 2 ^ (w - n)]
        ELSE [v |-> 0, extra |-> IF n = w THEN x ELSE Bool(x # 0)]

Ret(v, fl) == [v |-> v, fl |-> fl]
Raise(r, fl) == [r EXCEPT !.fl = @ \union fl]

-----------------------------------------------------------------------------
(* NaNs (specialize.h and the s_*NaN* files).                              *)

DefaultNaN(F) == 2 ^ W(F) - 1
IsNaN(F, ui) == Exp(F, ui) = ExpMax(F) /\ Frac(F, ui) # 0
IsInf(F, ui) == Exp(F, ui) = ExpMax(F) /\ Frac(F, ui) = 0
IsZero(F, ui) == Exp(F, ui) = 0 /\ Frac(F, ui) = 0
IsSigNaN(F, ui) == IsNaN(F, ui) /\ Frac(F, ui) < 2 ^ (F.f - 1)

\* Mutant: only the first operand is tested for signaling.
PropagateFirstNaN(F, a, b) ==
    Ret(DefaultNaN(F), IF IsSigNaN(F, a) THEN {"invalid"} ELSE {})
PropagateNaN(F, a, b) ==
    Ret(DefaultNaN(F), IF IsSigNaN(F, a) \/ IsSigNaN(F, b) THEN {"invalid"} ELSE {})
Invalid(F) == Ret(DefaultNaN(F), {"invalid"})

softfloat_isSigNaNF32UI(a) == IsSigNaN(F32, a)
softfloat_isSigNaNF64UI(a) == IsSigNaN(F64, a)
softfloat_propagateNaNF32UI(a, b) == PropagateNaN(F32, a, b)
softfloat_propagateNaNF64UI(a, b) == PropagateNaN(F64, a, b)

(* Across a change of format a NaN keeps its sign and nothing else.        *)
CommonNaN(F, a) == Ret(Sign(F, a), IF IsSigNaN(F, a) THEN {"invalid"} ELSE {})
FromCommonNaN(F, nan) == [nan EXCEPT !.v = @ * TopBit(F) + TopBit(F) - 1]
softfloat_f32UIToCommonNaN(a) == CommonNaN(F32, a)
softfloat_f64UIToCommonNaN(a) == CommonNaN(F64, a)
softfloat_commonNaNToF32UI(nan) == FromCommonNaN(F32, nan)
softfloat_commonNaNToF64UI(nan) == FromCommonNaN(F64, nan)

-----------------------------------------------------------------------------
(* Rounding and packing (s_roundPackToF*.c, s_normRoundPackToF*.c).        *)

RoundIncrement(m, s, g) ==
    CASE m \in {"near_even", "near_maxMag"} -> 2 ^ (g - 1)
      [] m = "minMag" \/ m = (IF s = 1 THEN "max" ELSE "min") -> 0
      [] OTHER -> 2 ^ g - 1

(* (sig + increment) >> g, made even when the tie rule says so.            *)
\* Mutant: ties up, never to even.
RoundSigTiesUp(m, sig, inc, g) == (sig + inc) \div 2 ^ g
RoundSig(m, sig, inc, g) ==
    LET z == (sig + inc) \div 2 ^ g
    IN  IF m = "near_even" /\ sig % 2 ^ g = 2 ^ (g - 1) THEN z - (z % 2) ELSE z

(* Tininess is detected before rounding, so a negative exponent is always  *)
(* tiny.                                                                   *)
RoundPack(F, m, s, exp, sig) ==
    LET g    == Guard(F)
        inc  == RoundIncrement(m, s, g)
        tiny == exp < 0
        sig1 == IF tiny THEN ShiftRightJam(sig, -exp) ELSE sig
        exp1 == IF tiny THEN 0 ELSE exp
        bits == sig1 % 2 ^ g
        z    == RoundSig(m, sig1, inc, g)
        over == \/ exp > ExpMax(F) - 2
                \/ exp = ExpMax(F) - 2 /\ sig + inc >= TopBit(F)
    IN  IF over
        THEN Ret(Pack(F, s, ExpMax(F), 0) - Bool(inc = 0), {"overflow", "inexact"})
        ELSE Ret(Pack(F, s, IF z = 0 THEN 0 ELSE exp1, z),
                 (IF bits # 0 THEN {"inexact"} ELSE {})
                 \union (IF tiny /\ bits # 0 THEN {"underflow"} ELSE {}))

(* The significand need not be normalised; the short path packs one that   *)
(* needs no rounding.                                                      *)
NormRoundPack(F, m, s, exp, sig) ==
    LET n    == CountLeadingZeros(W(F), sig) - 1
        expZ == exp - n
    IN  IF n >= Guard(F) /\ expZ \in 0..(ExpMax(F) - 3)
        THEN Ret(Pack(F, s, IF sig = 0 THEN 0 ELSE expZ, sig * 2 ^ (n - Guard(F))), {})
        ELSE RoundPack(F, m, s, expZ, sig * 2 ^ n)

softfloat_roundPackToF32(m, s, exp, sig) == RoundPack(F32, m, s, exp, sig)
softfloat_roundPackToF64(m, s, exp, sig) == RoundPack(F64, m, s, exp, sig)
softfloat_normRoundPackToF32(m, s, exp, sig) == NormRoundPack(F32, m, s, exp, sig)
softfloat_normRoundPackToF64(m, s, exp, sig) == NormRoundPack(F64, m, s, exp, sig)

(* Exponent and significand of a finite nonzero pattern, the leading one   *)
(* in place: a subnormal is shifted up and its exponent goes below 1.      *)
NormSubnormal(F, sig) ==
    LET n == CountLeadingZeros(W(F), sig) - F.e
    IN  [exp |-> 1 - n, sig |-> sig * 2 ^ n]
softfloat_normSubnormalF32Sig(sig) == NormSubnormal(F32, sig)
softfloat_normSubnormalF64Sig(sig) == NormSubnormal(F64, sig)
Norm(F, ui) ==
    IF Exp(F, ui) = 0 THEN NormSubnormal(F, Frac(F, ui))
    ELSE [exp |-> Exp(F, ui), sig |-> Frac(F, ui) + Hidden(F)]

-----------------------------------------------------------------------------
(* Sums and differences of magnitudes.                                     *)

(* A significand with g bits to spare, at the exponent it is packed with:  *)
(* a subnormal counts from exponent 1.                                     *)
Aligned(F, ui, g) ==
    (IF Exp(F, ui) = 0 THEN 2 * Frac(F, ui) ELSE Frac(F, ui) + Hidden(F)) * 2 ^ g

AddMags(F, m, a, b, s) ==
    LET g     == Guard(F) - 1
        expA  == Exp(F, a)
        expB  == Exp(F, b)
        d     == expA - expB
        big   == IF d < 0 THEN b ELSE a
        small == IF d < 0 THEN a ELSE b
        sum   == Aligned(F, big, g)
                 + ShiftRightJam(Aligned(F, small, g), IF d < 0 THEN -d ELSE d)
        short == sum < TopBit(F) \div 2
    IN  IF IsNaN(F, a) \/ IsNaN(F, b) THEN PropagateNaN(F, a, b)
        ELSE IF IsInf(F, a) THEN Ret(a, {})
        ELSE IF IsInf(F, b) THEN Ret(Pack(F, s, ExpMax(F), 0), {})
        ELSE IF expA = 0 /\ expB = 0 THEN Ret(Pack(F, s, 0, (a + b) % TopBit(F)), {})
        ELSE RoundPack(F, m, s, Exp(F, big) - Bool(short), IF short THEN 2 * sum ELSE sum)

SubMags(F, m, a, b, s) ==
    LET g    == Guard(F)
        expA == Exp(F, a)
        expB == Exp(F, b)
        d    == expA - expB
        At(ui) == IF d = 0 THEN Frac(F, ui) * 2 ^ g ELSE Aligned(F, ui, g)
        sigA == ShiftRightJam(At(a), IF d < 0 THEN -d ELSE 0)
        sigB == ShiftRightJam(At(b), IF d > 0 THEN d ELSE 0)
        expZ == IF d < 0 THEN expB ELSE IF expA = 0 THEN 1 ELSE expA
    IN  IF IsNaN(F, a) \/ IsNaN(F, b) THEN PropagateNaN(F, a, b)
        ELSE IF IsInf(F, a) /\ IsInf(F, b) THEN Invalid(F)
        ELSE IF IsInf(F, b) THEN Ret(Pack(F, Xor(s, 1), ExpMax(F), 0), {})
        ELSE IF IsInf(F, a) THEN Ret(a, {})
        ELSE IF d = 0 /\ sigA = sigB THEN Ret(Pack(F, Bool(m = "min"), 0, 0), {})
        ELSE IF d < 0 \/ (d = 0 /\ sigA < sigB)
        THEN NormRoundPack(F, m, Xor(s, 1), expZ - 1, sigB - sigA)
        ELSE NormRoundPack(F, m, s, expZ - 1, sigA - sigB)

softfloat_addMagsF32(m, a, b, s) == AddMags(F32, m, a, b, s)
softfloat_addMagsF64(m, a, b, s) == AddMags(F64, m, a, b, s)
softfloat_subMagsF32(m, a, b, s) == SubMags(F32, m, a, b, s)
softfloat_subMagsF64(m, a, b, s) == SubMags(F64, m, a, b, s)

f32_add(m, a, b) ==
    IF Sign(F32, a) = Sign(F32, b) THEN softfloat_addMagsF32(m, a, b, Sign(F32, a))
    ELSE softfloat_subMagsF32(m, a, b, Sign(F32, a))
f64_add(m, a, b) ==
    IF Sign(F64, a) = Sign(F64, b) THEN softfloat_addMagsF64(m, a, b, Sign(F64, a))
    ELSE softfloat_subMagsF64(m, a, b, Sign(F64, a))
\* Mutant: the sign of the second operand.
SubOfSecondSign(m, a, b) ==
    IF Sign(F32, a) = Sign(F32, b) THEN softfloat_subMagsF32(m, a, b, Sign(F32, a))
    ELSE softfloat_addMagsF32(m, a, b, Sign(F32, b))
f32_sub(m, a, b) ==
    IF Sign(F32, a) = Sign(F32, b) THEN softfloat_subMagsF32(m, a, b, Sign(F32, a))
    ELSE softfloat_addMagsF32(m, a, b, Sign(F32, a))
f64_sub(m, a, b) ==
    IF Sign(F64, a) = Sign(F64, b) THEN softfloat_subMagsF64(m, a, b, Sign(F64, a))
    ELSE softfloat_addMagsF64(m, a, b, Sign(F64, a))

-----------------------------------------------------------------------------
(* Products, quotients and roots.                                          *)

Mul(F, m, a, b) ==
    LET s    == Xor(Sign(F, a), Sign(F, b))
        nA   == Norm(F, a)
        nB   == Norm(F, b)
        prod == ShiftRightJam((nA.sig * 2 ^ Guard(F)) * (nB.sig * 2 ^ (Guard(F) + 1)), W(F))
        low  == prod < TopBit(F) \div 2
    IN  IF IsNaN(F, a) \/ IsNaN(F, b) THEN PropagateNaN(F, a, b)
        ELSE IF IsInf(F, a) \/ IsInf(F, b)
        THEN IF IsZero(F, a) \/ IsZero(F, b) THEN Invalid(F)
             ELSE Ret(Pack(F, s, ExpMax(F), 0), {})
        ELSE IF IsZero(F, a) \/ IsZero(F, b) THEN Ret(Pack(F, s, 0, 0), {})
        ELSE RoundPack(F, m, s, nA.exp + nB.exp - Bias(F) - Bool(low),
                       IF low THEN 2 * prod ELSE prod)

f32_mul(m, a, b) == Mul(F32, m, a, b)
f64_mul(m, a, b) == Mul(F64, m, a, b)

(* Division proper for operands neither NaN nor infinite nor zero: the     *)
(* exponent, and the significands placed so that sigB has its top bit set  *)
(* and the quotient one bit below it.                                      *)
DivOperands(F, a, b) ==
    LET nA   == Norm(F, a)
        nB   == Norm(F, b)
        sigA == nA.sig * 2 ^ Guard(F)
        sigB == nB.sig * 2 ^ (Guard(F) + 1)
        up   == sigB <= 2 * sigA
    IN  [exp |-> nA.exp - nB.exp + Bias(F) - 2 + Bool(up),
         sigA |-> IF up THEN sigA \div 2 ELSE sigA, sigB |-> sigB]

(* The cases that need no division; NoCase when the quotient is needed.    *)
NoCase == [v |-> -1, fl |-> {}]
DivSpecial(F, a, b) ==
    LET s == Xor(Sign(F, a), Sign(F, b))
    IN  IF IsNaN(F, a) \/ IsNaN(F, b) THEN PropagateNaN(F, a, b)
        ELSE IF IsInf(F, a) /\ IsInf(F, b) THEN Invalid(F)
        ELSE IF IsInf(F, a) THEN Ret(Pack(F, s, ExpMax(F), 0), {})
        ELSE IF IsInf(F, b) THEN Ret(Pack(F, s, 0, 0), {})
        ELSE IF IsZero(F, a) /\ IsZero(F, b) THEN Invalid(F)
        ELSE IF IsZero(F, b) THEN Ret(Pack(F, s, ExpMax(F), 0), {"infinity"})
        ELSE IF IsZero(F, a) THEN Ret(Pack(F, s, 0, 0), {})
        ELSE NoCase

(* The 32-bit routine divides exactly, and looks for a remainder only when *)
(* the bits below the rounding bit are all zero.                           *)
f32_div(m, a, b) ==
    LET o    == DivOperands(F32, a, b)
        wide == o.sigA * 2 ^ W(F32)
        q    == wide \div o.sigB
        sigZ == OrOne(q, q % 2 ^ (Guard(F32) - 1) = 0 /\ q * o.sigB # wide)
    IN  IF DivSpecial(F32, a, b) # NoCase THEN DivSpecial(F32, a, b)
        ELSE RoundPack(F32, m, Xor(Sign(F32, a), Sign(F32, b)), o.exp, sigZ)

(* How many times a step is added to a negative number until it is not:    *)
(* the code's "while (0x8000... <= rem)".                                  *)
StepsUp(rem, step) == IF rem >= 0 THEN 0 ELSE (step - 1 - rem) \div step

(* a * 2^w / b from two divisions by the upper half of b: never below the  *)
(* quotient, and above it by at most 2.                                    *)
softfloat_estimateDiv128To64(a, b) ==
    LET h    == 2 ^ W(F32)
        bh   == b \div h
        z0   == h * (IF bh * h <= a THEN h - 1 ELSE a \div bh)
        r0   == a * h * h - b * z0
        k    == StepsUp(r0, b * h)
        r    == ((r0 + k * b * h) \div h) % 2 ^ W(F64)
    IN  IF b <= a THEN 2 ^ W(F64) - 1
        ELSE z0 - k * h + (IF bh * h <= r THEN h - 1 ELSE r \div bh)

(* The 64-bit routine estimates; it makes the quotient exact only when the *)
(* estimate is so close above a rounding boundary that it matters.         *)
f64_div(m, a, b) ==
    LET o    == DivOperands(F64, a, b)
        z    == softfloat_estimateDiv128To64(o.sigA, o.sigB)
        rem  == o.sigA * 2 ^ W(F64) - o.sigB * z
        k    == StepsUp(rem, o.sigB)
        sigZ == IF z % 2 ^ (Guard(F64) - 1) <= 2
                THEN OrOne(z - k, rem + k * o.sigB # 0) ELSE z
    IN  IF DivSpecial(F64, a, b) # NoCase THEN DivSpecial(F64, a, b)
        ELSE RoundPack(F64, m, Xor(Sign(F64, a), Sign(F64, b)), o.exp, sigZ)

(* The integer part of a square root, bit by bit.                          *)
ISqrt(n) ==
    LET w == W(F64)
        r[i \in 0..w] == IF i = 0 THEN 0
                         ELSE LET p == r[i - 1]
                                  q == p + 2 ^ (w - i)
                              IN  IF q * q <= n THEN q ELSE p
    IN  r[w]

(* The square root of a significand, in 32 bits, from two tables and one   *)
(* Newton step.  Which value near the root it gives is left open (d is its *)
(* distance from the root's integer part) within the error that the tables *)
(* have at 32 bits: less than 3/2 below the root, less than 1/4 above it.  *)
SqrtErrors == -1..1
softfloat_estimateSqrt32(exp, a, d) ==
    LET n    == a * 2 ^ (W(F32) - (exp % 2))
        z    == ISqrt(n) + d
        near == (2 * z + 3) * (2 * z + 3) > 4 * n /\ (4 * z - 1) * (4 * z - 1) < 16 * n
        est  == IF near THEN z ELSE ISqrt(n)
    IN  IF est >= 2 ^ W(F32) THEN 2 ^ W(F32) - 1 ELSE est

SqrtSpecial(F, a) ==
    IF IsNaN(F, a) THEN PropagateNaN(F, a, 0)
    ELSE IF IsZero(F, a) \/ (IsInf(F, a) /\ Sign(F, a) = 0) THEN Ret(a, {})
    ELSE IF Sign(F, a) = 1 THEN Invalid(F)
    ELSE NoCase

(* From the estimate z down towards the root of n while the remainder is  *)
(* negative; sticky when it ends up other than zero.  Each step lowers z   *)
(* and adds 2z with the last bit set to bit: the routine for singles sets  *)
(* it (f32_sqrt.c:59), the one for doubles does not (f64_sqrt.c:62), so    *)
(* its remainder is one too small for every step taken.                    *)
SqrtCorrect(z, n, bit) ==
    LET rem(k) == n - (z - k) * (z - k) - (1 - bit) * k
        steps  == CHOOSE k \in 0..z : rem(k) >= 0 /\ \A j \in 0..(k - 1) : rem(j) < 0
    IN  OrOne(z - steps, rem(steps) # 0)

f32_sqrt(m, a, d) ==
    LET nA   == Norm(F32, a)
        expZ == ((nA.exp - Bias(F32)) \div 2) + Bias(F32) - 1
        sigA == nA.sig * 2 ^ (Guard(F32) + 1)
        z    == (softfloat_estimateSqrt32(nA.exp % 2, sigA, d) + 2) % 2 ^ W(F32)
        n    == (sigA \div 2 ^ (nA.exp % 2)) * 2 ^ W(F32)
        sigZ == IF z % 2 ^ Guard(F32) > 5 THEN z ELSE SqrtCorrect(z, n, 1)
    IN  IF SqrtSpecial(F32, a) # NoCase THEN SqrtSpecial(F32, a)
        ELSE IF z % 2 ^ Guard(F32) <= 5 /\ z < 2 THEN RoundPack(F32, m, 0, expZ, TopBit(F32) - 1)
        ELSE RoundPack(F32, m, 0, expZ, softfloat_shortShift32Right1Jam(sigZ))

f64_sqrt(m, a, d) ==
    LET w    == W(F32)
        nA   == Norm(F64, a)
        expZ == ((nA.exp - Bias(F64)) \div 2) + Bias(F64) - 1
        z32  == softfloat_estimateSqrt32(nA.exp % 2, nA.sig \div 2 ^ (FracBits64 + 1 - w), d)
        sigA == nA.sig * 2 ^ (Guard(F64) - 1 - (nA.exp % 2))
        z    == softfloat_estimateDiv128To64(sigA, z32 * 2 ^ w) + z32 * 2 ^ (w - 2)
        sigZ == IF z % 2 ^ (Guard(F64) - 1) > 5 THEN z
                ELSE SqrtCorrect(z, sigA * 2 ^ W(F64), 0)
    IN  IF SqrtSpecial(F64, a) # NoCase THEN SqrtSpecial(F64, a)
        ELSE RoundPack(F64, m, 0, expZ, sigZ)

-----------------------------------------------------------------------------
(* a * b + c with one rounding (s_mulAddF*.c).  op asks for the sign of c, *)
(* of the product or of both to be inverted; the routine for singles       *)
(* compares op with each request, the one for doubles tests its bits.      *)
softfloat_mulAdd_subC == 1
softfloat_mulAdd_subProd == 2
Asked(F, op, request) == IF F = F32 THEN op = request ELSE op \in {request, 3}
SignC(F, op, c) == Xor(Sign(F, c), Bool(Asked(F, op, softfloat_mulAdd_subC)))
SignProd(F, op, a, b) ==
    Xor(Xor(Sign(F, a), Sign(F, b)), Bool(Asked(F, op, softfloat_mulAdd_subProd)))

(* The finite case: product and addend as numbers of two words, the        *)
(* product's leading one at bit 2W-3, the addend's at bit 2W-3 of its      *)
(* upper word.                                                             *)
MulAddFinite(F, op, m, a, b, c) ==
    LET w     == W(F)
        signP == SignProd(F, op, a, b)
        signC == SignC(F, op, c)
        nA    == Norm(F, a)
        nB    == Norm(F, b)
        nC    == Norm(F, c)
        p0    == (nA.sig * 2 ^ Guard(F)) * (nB.sig * 2 ^ Guard(F))
        small == p0 < 2 ^ (2 * w - 3)
        prod  == IF small THEN 2 * p0 ELSE p0
        expP  == nA.exp + nB.exp - Bias(F) + 1 - Bool(small)
        sigC  == nC.sig * 2 ^ (Guard(F) - 1)
        c2    == sigC * 2 ^ w
        d     == expP - nC.exp
        sum   == IF d <= 0 THEN sigC + ShiftRightJam(prod, w - d)
                 ELSE ShiftRightJam(prod + ShiftRightJam(c2, d), w)
        expS  == IF d <= 0 THEN nC.exp ELSE expP
        low   == sum < TopBit(F) \div 2
        diff  == IF d < 0 THEN ShiftRightJam(prod, -d) - c2
                 ELSE prod - ShiftRightJam(c2, d)
        mag   == IF diff < 0 THEN -diff ELSE diff
        n     == CountLeadingZeros(2 * w, mag) - 1
    IN  CASE IsZero(F, c) -> RoundPack(F, m, signP, expP - 1, ShiftRightJam(prod, w - 1))
          [] ~IsZero(F, c) /\ signP = signC ->
                 RoundPack(F, m, signP, expS - Bool(low), IF low THEN 2 * sum ELSE sum)
          [] ~IsZero(F, c) /\ signP # signC /\ mag = 0 ->
                 Ret(Pack(F, Bool(m = "min"), 0, 0), {})
          [] OTHER -> RoundPack(F, m, IF diff < 0 THEN signC ELSE signP, expS - n,
                                IF n < w THEN ShiftRightJam(mag, w - n) ELSE mag * 2 ^ (n - w))

(* Where the result is c itself it is returned as it came, with the sign   *)
(* that op asked to invert.                                                *)
MulAdd(F, op, m, a, b, c) ==
    LET signP == SignProd(F, op, a, b)
        signC == SignC(F, op, c)
    IN  IF IsNaN(F, a) \/ IsNaN(F, b)
        THEN Raise(PropagateNaN(F, DefaultNaN(F), c), PropagateNaN(F, a, b).fl)
        ELSE IF (IsInf(F, a) /\ IsZero(F, b)) \/ (IsInf(F, b) /\ IsZero(F, a))
        THEN Raise(PropagateNaN(F, DefaultNaN(F), c), {"invalid"})
        ELSE IF IsNaN(F, c) THEN PropagateNaN(F, 0, c)
        ELSE IF IsInf(F, a) \/ IsInf(F, b)
        THEN IF IsInf(F, c) /\ signP # signC THEN Invalid(F)
             ELSE Ret(Pack(F, signP, ExpMax(F), 0), {})
        ELSE IF IsInf(F, c) THEN Ret(c, {})
        ELSE IF IsZero(F, a) \/ IsZero(F, b)
        THEN IF IsZero(F, c) /\ signP # signC
             THEN Ret(Pack(F, Bool(m = "min"), 0, 0), {}) ELSE Ret(c, {})
        ELSE MulAddFinite(F, op, m, a, b, c)

softfloat_mulAddF32(op, m, a, b, c) == MulAdd(F32, op, m, a, b, c)
softfloat_mulAddF64(op, m, a, b, c) == MulAdd(F64, op, m, a, b, c)
f32_mulAdd(m, a, b, c) == softfloat_mulAddF32(0, m, a, b, c)
f64_mulAdd(m, a, b, c) == softfloat_mulAddF64(0, m, a, b, c)

-----------------------------------------------------------------------------
(* The remainder of a by b: a minus b times the integer nearest a / b.     *)

RemSpecial(F, a, b) ==
    IF IsNaN(F, a) \/ IsNaN(F, b) THEN PropagateNaN(F, a, b)
    ELSE IF IsInf(F, a) \/ IsZero(F, b) THEN Invalid(F)
    ELSE IF IsInf(F, b) \/ IsZero(F, a) \/ Norm(F, a).exp < Norm(F, b).exp - 1 THEN Ret(a, {})
    ELSE NoCase

(* The common end: from a remainder that is not negative, subtract sigB    *)
(* until it is, and keep the one of the last two that is nearer zero, or   *)
(* the one of the even quotient.                                           *)
RemNearest(F, m, sign, expB, sigA, sigB, q) ==
    LET k    == sigA \div sigB + 1
        alt  == sigA - (k - 1) * sigB
        neg  == sigA - k * sigB
        mean == neg + alt
        r    == IF mean < 0 \/ (mean = 0 /\ (q + k) % 2 = 1) THEN alt ELSE neg
    IN  NormRoundPack(F, m, Xor(sign, Bool(r < 0)), expB, IF r < 0 THEN -r ELSE r)

(* A quotient digit of W-2 bits: the estimate less 2, never too big.       *)
\* Mutant: the estimate is taken for the digit.
RemDigitTooBig(sigA, sigB) == softfloat_estimateDiv128To64(sigA, sigB)
RemDigit(sigA, sigB) ==
    LET q == softfloat_estimateDiv128To64(sigA, sigB) IN IF 2 < q THEN q - 2 ELSE 0

(* sigA * 2^(W-2) reduced by one digit's multiple of sigB, as often as d   *)
(* needs; b4 is a quarter of sigB.                                         *)
RemReduce(sigA, sigB, b4, d) ==
    LET w    == W(F64)
        n    == IF d <= w THEN 0 ELSE (d - w + w - 3) \div (w - 2)
        sig[i \in 0..n] == IF i = 0 THEN sigA
                           ELSE (-(b4 * RemDigit(sig[i - 1], sigB))) % 2 ^ w
    IN  [sigA |-> sig[n], d |-> d - n * (w - 2)]

f64_rem(m, a, b) ==
    LET w    == W(F64)
        nA   == Norm(F64, a)
        nB   == Norm(F64, b)
        d    == nA.exp - nB.exp
        sigB == nB.sig * 2 ^ ExpBits64
        sA   == (nA.sig * 2 ^ ExpBits64) \div (IF d < 0 THEN 2 ELSE 1)
        q0   == Bool(sigB <= sA)
        red  == RemReduce(IF q0 = 1 THEN sA - sigB ELSE sA, sigB, sigB \div 4, d)
        q    == RemDigit(red.sigA, sigB) \div 2 ^ (w - red.d)
        rest == ((red.sigA \div 2) * 2 ^ (red.d - 1) - ((sigB \div 4) * q)) % 2 ^ w
    IN  CASE RemSpecial(F64, a, b) # NoCase -> RemSpecial(F64, a, b)
          [] RemSpecial(F64, a, b) = NoCase /\ d > 0 ->
                 RemNearest(F64, m, Sign(F64, a), nB.exp, rest, sigB \div 4, q)
          [] OTHER -> RemNearest(F64, m, Sign(F64, a), nB.exp, red.sigA \div 4, sigB \div 4, q0)

(* The 32-bit routine divides exactly while the exponents are less than W  *)
(* apart, and otherwise estimates in two words.                            *)
f32_rem(m, a, b) ==
    LET w    == W(F32)
        nA   == Norm(F32, a)
        nB   == Norm(F32, b)
        d    == nA.exp - nB.exp
        up   == 2 ^ ExpBits32
        sigB == nB.sig * up
        sA   == (nA.sig * up) \div (IF d < 0 THEN 2 ELSE 1)
        q0   == Bool(sigB <= sA)
        sA0  == IF q0 = 1 THEN sA - sigB ELSE sA
        q    == ((sA0 * 2 ^ w) \div sigB) \div 2 ^ (w - d)
        rest == ((sA0 \div 2) * 2 ^ (d - 1) - ((sigB \div 4) * q)) % 2 ^ w
        red  == RemReduce(sA0 * 2 ^ w, sigB * 2 ^ w, sigB * 2 ^ (w - 2), d)
        q64  == RemDigit(red.sigA, sigB * 2 ^ w) \div 2 ^ (2 * w - red.d)
        far  == (((red.sigA \div 2 ^ (w + 1)) * 2 ^ (red.d - 1))
                 - ((sigB \div 4) * (q64 % 2 ^ w))) % 2 ^ w
    IN  CASE RemSpecial(F32, a, b) # NoCase -> RemSpecial(F32, a, b)
          [] RemSpecial(F32, a, b) = NoCase /\ d >= w ->
                 RemNearest(F32, m, Sign(F32, a), nB.exp, far, sigB \div 4, q64)
          [] RemSpecial(F32, a, b) = NoCase /\ d \in 1..(w - 1) ->
                 RemNearest(F32, m, Sign(F32, a), nB.exp, rest, sigB \div 4, q)
          [] OTHER -> RemNearest(F32, m, Sign(F32, a), nB.exp, sA0 \div 4, sigB \div 4, q0)

-----------------------------------------------------------------------------
(* Rounding to an integral value in the same format.                       *)

RoundToInt(F, m, exact, a) ==
    LET s    == Sign(F, a)
        e    == Exp(F, a)
        up   == CASE m = "near_even" -> e = Bias(F) - 1 /\ Frac(F, a) # 0
                  [] m = "near_maxMag" -> e = Bias(F) - 1
                  [] m = "min" -> s = 1
                  [] m = "max" -> s = 0
                  [] OTHER -> FALSE
        last == 2 ^ (Bias(F) + F.f - e)
        inc  == CASE m \in {"near_even", "near_maxMag"} -> last \div 2
                  [] m \in {"min", "max"} /\ Xor(s, Bool(m = "max")) = 1 -> last - 1
                  [] OTHER -> 0
        z0   == a + inc
        z1   == IF m = "near_even" /\ z0 % last = 0 THEN z0 - (z0 % (2 * last)) ELSE z0
        z    == z1 - (z1 % last)
        Inexact(p) == IF exact /\ p THEN {"inexact"} ELSE {}
    IN  CASE IsNaN(F, a) -> PropagateNaN(F, a, 0)
          [] ~IsNaN(F, a) /\ (e >= Bias(F) + F.f \/ IsZero(F, a)) -> Ret(a, {})
          [] e < Bias(F) /\ ~IsZero(F, a) ->
                 Ret(Pack(F, s, IF up THEN Bias(F) ELSE 0, 0), Inexact(TRUE))
          [] OTHER -> Ret(z, Inexact(z # a))

f32_roundToInt(m, exact, a) == RoundToInt(F32, m, exact, a)
f64_roundToInt(m, exact, a) == RoundToInt(F64, m, exact, a)

-----------------------------------------------------------------------------
(* From floating point to integers of w bits.  A signed result is an       *)
(* integer, an unsigned one a natural number; one that does not fit is     *)
(* replaced by the bound on its side, with the invalid flag.               *)

IntMin(w) == -(2 ^ (w - 1))
IntMax(w) == 2 ^ (w - 1) - 1
UIntMax(w) == 2 ^ w - 1
Signed(w, x) == IF x % 2 ^ w > IntMax(w) THEN (x % 2 ^ w) - 2 ^ w ELSE x % 2 ^ w
Clamp(w, s) == Ret(IF s = 1 THEN IntMin(w) ELSE IntMax(w), {"invalid"})
Inexact(exact, p) == IF exact /\ p THEN {"inexact"} ELSE {}
SigOf(F, a) == Frac(F, a) + (IF Exp(F, a) = 0 THEN 0 ELSE Hidden(F))

(* sig has IntGuard bits below the point.                                  *)
softfloat_roundPackToI32(s, sig, m, exact) ==
    LET w   == W(F32)
        inc == RoundIncrement(m, s, IntGuard)
        mag == RoundSig(m, sig, inc, IntGuard)
        z   == Signed(w, IF s = 1 THEN -mag ELSE mag)
    IN  IF \/ sig + inc >= 2 ^ (w + IntGuard)
           \/ z # 0 /\ Bool(z < 0) # s
        THEN Clamp(w, s) ELSE Ret(z, Inexact(exact, sig % 2 ^ IntGuard # 0))
softfloat_roundPackToUI32(s, sig, m, exact) ==
    LET w   == W(F32)
        inc == RoundIncrement(m, s, IntGuard)
        mag == RoundSig(m, sig, inc, IntGuard)
    IN  IF sig + inc >= 2 ^ (w + IntGuard) \/ (s = 1 /\ mag # 0)
        THEN Ret(UIntMax(w), {"invalid"})
        ELSE Ret(mag, Inexact(exact, sig % 2 ^ IntGuard # 0))

(* x.v is the integer part, x.extra a word of fraction.                    *)
\* Mutant: ties up, and no directed rounding.
Round64TiesUp(s, x, m) ==
    IF x.extra >= TopBit(F64) /\ m \in {"near_even", "near_maxMag"} THEN x.v + 1 ELSE x.v
Round64(s, x, m) ==
    LET half == TopBit(F64)
        up   == IF m \in {"near_even", "near_maxMag"} THEN x.extra >= half
                ELSE m = (IF s = 1 THEN "min" ELSE "max") /\ x.extra # 0
    IN  IF ~up THEN x.v
        ELSE (x.v + 1) - (IF m = "near_even" /\ x.extra = half THEN (x.v + 1) % 2 ELSE 0)
softfloat_roundPackToI64(s, x, m, exact) ==
    LET w   == W(F64)
        mag == Round64(s, x, m)
        z   == Signed(w, IF s = 1 THEN -mag ELSE mag)
    IN  IF mag > UIntMax(w) \/ (z # 0 /\ Bool(z < 0) # s)
        THEN Clamp(w, s) ELSE Ret(z, Inexact(exact, x.extra # 0))
softfloat_roundPackToUI64(s, x, m, exact) ==
    LET w   == W(F64)
        mag == Round64(s, x, m)
    IN  IF mag > UIntMax(w) \/ (s = 1 /\ mag # 0)
        THEN Ret(UIntMax(w), {"invalid"}) ELSE Ret(mag, Inexact(exact, x.extra # 0))

(* The operand as sig with IntGuard bits below the point of a 32-bit       *)
(* integer; a single starts one word up.                                   *)
Fixed32(F, lead, a) ==
    LET n == lead + F.f - IntGuard + Bias(F) - Exp(F, a)
    IN  IF n > 0 THEN softfloat_shift64RightJam(SigOf(F, a) * 2 ^ lead, n) ELSE SigOf(F, a) * 2 ^ lead
f32_to_i32(a, m, exact) ==
    softfloat_roundPackToI32(Sign(F32, a), Fixed32(F32, W(F32), a), m, exact)
f32_to_ui32(a, m, exact) ==
    softfloat_roundPackToUI32(Sign(F32, a), Fixed32(F32, W(F32), a), m, exact)
f64_to_i32(a, m, exact) ==
    softfloat_roundPackToI32(Sign(F64, a), Fixed32(F64, 0, a), m, exact)
f64_to_ui32(a, m, exact) ==
    softfloat_roundPackToUI32(Sign(F64, a), Fixed32(F64, 0, a), m, exact)

(* The same for 64 bits and an extra word; too big an exponent is caught   *)
(* before.                                                                 *)
TooBig64(F, a) == Exp(F, a) > Bias(F) + W(F64) - 1
Fixed64(F, lead, a) ==
    LET n == lead + F.f + Bias(F) - Exp(F, a)
    IN  IF n > 0 THEN softfloat_shift64ExtraRightJam(SigOf(F, a) * 2 ^ lead, n)
        ELSE [v |-> SigOf(F, a) * 2 ^ (lead - n), extra |-> 0]
Lead64 == W(F64) - 1 - FracBits32     \* 40: puts the leading one of a single on top
f32_to_i64(a, m, exact) ==
    IF TooBig64(F32, a) THEN Clamp(W(F64), Sign(F32, a))
    ELSE softfloat_roundPackToI64(Sign(F32, a), Fixed64(F32, Lead64, a), m, exact)
f32_to_ui64(a, m, exact) ==
    IF TooBig64(F32, a) THEN Ret(UIntMax(W(F64)), {"invalid"})
    ELSE softfloat_roundPackToUI64(Sign(F32, a), Fixed64(F32, Lead64, a), m, exact)
f64_to_i64(a, m, exact) ==
    IF TooBig64(F64, a) THEN Clamp(W(F64), Sign(F64, a))
    ELSE softfloat_roundPackToI64(Sign(F64, a), Fixed64(F64, 0, a), m, exact)
f64_to_ui64(a, m, exact) ==
    IF TooBig64(F64, a) THEN Ret(UIntMax(W(F64)), {"invalid"})
    ELSE softfloat_roundPackToUI64(Sign(F64, a), Fixed64(F64, 0, a), m, exact)

(* Truncating conversions.  A NaN counts as positive, whatever its sign.   *)
Trunc(F, a) ==
    LET n == Exp(F, a) - Bias(F) - F.f
    IN  IF n >= 0 THEN SigOf(F, a) * 2 ^ n ELSE SigOf(F, a) \div 2 ^ (-n)
TruncInexact(F, a) ==
    LET n == Bias(F) + F.f - Exp(F, a) IN n > 0 /\ SigOf(F, a) % 2 ^ n # 0
TruncToI(F, w, a, exact) ==
    CASE Exp(F, a) < Bias(F) -> Ret(0, Inexact(exact, ~IsZero(F, a)))
      [] Exp(F, a) >= Bias(F) + w - 1 ->
             IF a = Pack(F, 1, Bias(F) + w - 1, 0) THEN Ret(IntMin(w), {})
             ELSE Clamp(w, IF IsNaN(F, a) THEN 0 ELSE Sign(F, a))
      [] OTHER -> Ret(IF Sign(F, a) = 1 THEN -Trunc(F, a) ELSE Trunc(F, a),
                      Inexact(exact, TruncInexact(F, a)))
TruncToUI(F, w, a, exact) ==
    CASE Exp(F, a) < Bias(F) -> Ret(0, Inexact(exact, ~IsZero(F, a)))
      [] Exp(F, a) >= Bias(F) /\ (Sign(F, a) = 1 \/ Exp(F, a) > Bias(F) + w - 1) ->
             Ret(UIntMax(w), {"invalid"})
      [] OTHER -> Ret(Trunc(F, a), Inexact(exact, TruncInexact(F, a)))

f32_to_i32_r_minMag(a, exact) == TruncToI(F32, W(F32), a, exact)
f32_to_i64_r_minMag(a, exact) == TruncToI(F32, W(F64), a, exact)
f64_to_i64_r_minMag(a, exact) == TruncToI(F64, W(F64), a, exact)
f32_to_ui32_r_minMag(a, exact) == TruncToUI(F32, W(F32), a, exact)
f32_to_ui64_r_minMag(a, exact) == TruncToUI(F32, W(F64), a, exact)
f64_to_ui32_r_minMag(a, exact) == TruncToUI(F64, W(F32), a, exact)
f64_to_ui64_r_minMag(a, exact) == TruncToUI(F64, W(F64), a, exact)

(* The one that lets the most negative integer have a fraction: it looks   *)
(* at the sign the truncated word comes out with.                          *)
f64_to_i32_r_minMag(a, exact) ==
    LET w == W(F32)
        s == IF IsNaN(F64, a) THEN 0 ELSE Sign(F64, a)
        z == Signed(w, IF s = 1 THEN -Trunc(F64, a) ELSE Trunc(F64, a))
    IN  CASE Exp(F64, a) < Bias(F64) -> Ret(0, Inexact(exact, ~IsZero(F64, a)))
          [] Exp(F64, a) > Bias(F64) + w - 1 -> Clamp(w, s)
          [] OTHER -> IF Bool(z < 0) # s THEN Clamp(w, s)
                      ELSE Ret(z, Inexact(exact, TruncInexact(F64, a)))

-----------------------------------------------------------------------------
(* From integers to floating point.                                        *)

Abs(x) == IF x < 0 THEN -x ELSE x

(* An integer as wide as the format: it may need rounding.  The pattern    *)
(* with only its top bit set is a power of two, or zero.                   *)
FromI(F, m, x) ==
    IF Abs(x) % TopBit(F) = 0
    THEN Ret(IF x < 0 THEN Pack(F, 1, Bias(F) + W(F) - 1, 0) ELSE 0, {})
    ELSE NormRoundPack(F, m, Bool(x < 0), Bias(F) + W(F) - 3, Abs(x))
FromUI(F, m, x) ==
    CASE x = 0 -> Ret(0, {})
      [] x >= TopBit(F) -> RoundPack(F, m, 0, Bias(F) + W(F) - 2, ShiftRightJam(x, 1))
      [] OTHER -> NormRoundPack(F, m, 0, Bias(F) + W(F) - 3, x)
i32_to_f32(m, x) == FromI(F32, m, x)
i64_to_f64(m, x) == FromI(F64, m, x)
ui32_to_f32(m, x) == FromUI(F32, m, x)
ui64_to_f64(m, x) == FromUI(F64, m, x)

(* A short integer fits the significand of a double.                       *)
ShortToF64(s, mag) ==
    LET n == softfloat_countLeadingZeros32(mag) + FracBits64 + 1 - W(F32)
    IN  IF mag = 0 THEN Ret(0, {})
        ELSE Ret(Pack(F64, s, Bias(F64) + FracBits64 - 1 - n, mag * 2 ^ n), {})
i32_to_f64(x) == ShortToF64(Bool(x < 0), Abs(x))
ui32_to_f64(x) == ShortToF64(0, x)

(* A long one may fit the significand of a single, or need a jam as well   *)
(* as rounding.                                                            *)
LongToF32(m, s, mag) ==
    LET n == softfloat_countLeadingZeros64(mag) - (W(F64) - FracBits32 - 1)
        g == n + Guard(F32)
    IN  CASE mag = 0 -> Ret(0, {})
          [] mag # 0 /\ n >= 0 -> Ret(Pack(F32, s, Bias(F32) + FracBits32 - 1 - n, mag * 2 ^ n), {})
          [] OTHER -> RoundPack(F32, m, s, Bias(F32) + W(F32) - 3 - g,
                                IF g < 0 THEN softfloat_shortShift64RightJam(mag, -g) ELSE mag * 2 ^ g)
i64_to_f32(m, x) == LongToF32(m, Bool(x < 0), Abs(x))
ui64_to_f32(m, x) == LongToF32(m, 0, x)

-----------------------------------------------------------------------------
(* Between the formats.                                                    *)

f32_to_f64(a) ==
    LET s == Sign(F32, a)
        n == softfloat_normSubnormalF32Sig(Frac(F32, a))
        sub == Exp(F32, a) = 0
        exp == IF sub THEN n.exp - 1 ELSE Exp(F32, a)
        sig == IF sub THEN n.sig ELSE Frac(F32, a)
    IN  CASE IsNaN(F32, a) -> softfloat_commonNaNToF64UI(softfloat_f32UIToCommonNaN(a))
          [] IsInf(F32, a) -> Ret(Pack(F64, s, ExpMax(F64), 0), {})
          [] IsZero(F32, a) -> Ret(Pack(F64, s, 0, 0), {})
          [] OTHER -> Ret(Pack(F64, s, exp + Bias(F64) - Bias(F32),
                               sig * 2 ^ (FracBits64 - FracBits32)), {})

(* The leading one is added to a subnormal double too: it is so small that *)
(* only its being there matters.                                           *)
f64_to_f32(m, a) ==
    LET s   == Sign(F64, a)
        exp == Exp(F64, a)
        sig == softfloat_shortShift64RightJam(Frac(F64, a), FracBits64 - FracBits32 - Guard(F32))
    IN  CASE IsNaN(F64, a) -> softfloat_commonNaNToF32UI(softfloat_f64UIToCommonNaN(a))
          [] IsInf(F64, a) -> Ret(Pack(F32, s, ExpMax(F32), 0), {})
          [] exp = 0 /\ sig = 0 -> Ret(Pack(F32, s, 0, 0), {})
          [] OTHER -> RoundPack(F32, m, s, exp - (Bias(F64) - Bias(F32)) - 1,
                                sig + TopBit(F32) \div 2)

-----------------------------------------------------------------------------
(* Comparisons: v is 1 or 0.  Of a NaN all are false.                      *)

Compare(F, signaling, a, b, p) ==
    CASE ~IsNaN(F, a) /\ ~IsNaN(F, b) -> Ret(Bool(p), {})
      [] OTHER -> Ret(0, IF signaling \/ IsSigNaN(F, a) \/ IsSigNaN(F, b)
                         THEN {"invalid"} ELSE {})
BothZero(F, a, b) == a % TopBit(F) = 0 /\ b % TopBit(F) = 0
Eq(F, a, b) == a = b \/ BothZero(F, a, b)
\* Mutant: two negative patterns in the order of their words.
LeUnflipped(F, a, b) ==
    IF Sign(F, a) # Sign(F, b) THEN Sign(F, a) = 1 \/ BothZero(F, a, b) ELSE a <= b
Le(F, a, b) ==
    IF Sign(F, a) # Sign(F, b) THEN Sign(F, a) = 1 \/ BothZero(F, a, b)
    ELSE a = b \/ (Sign(F, a) = 1) # (a < b)
Lt(F, a, b) ==
    IF Sign(F, a) # Sign(F, b) THEN Sign(F, a) = 1 /\ ~BothZero(F, a, b)
    ELSE a # b /\ (Sign(F, a) = 1) # (a < b)

f32_eq(a, b) == Compare(F32, FALSE, a, b, Eq(F32, a, b))
f64_eq(a, b) == Compare(F64, FALSE, a, b, Eq(F64, a, b))
f32_eq_signaling(a, b) == Compare(F32, TRUE, a, b, Eq(F32, a, b))
f64_eq_signaling(a, b) == Compare(F64, TRUE, a, b, Eq(F64, a, b))
f32_le(a, b) == Compare(F32, TRUE, a, b, Le(F32, a, b))
f64_le(a, b) == Compare(F64, TRUE, a, b, Le(F64, a, b))
f32_le_quiet(a, b) == Compare(F32, FALSE, a, b, Le(F32, a, b))
f64_le_quiet(a, b) == Compare(F64, FALSE, a, b, Le(F64, a, b))
f32_lt(a, b) == Compare(F32, TRUE, a, b, Lt(F32, a, b))
f64_lt(a, b) == Compare(F64, TRUE, a, b, Lt(F64, a, b))
f32_lt_quiet(a, b) == Compare(F32, FALSE, a, b, Lt(F32, a, b))
f64_lt_quiet(a, b) == Compare(F64, FALSE, a, b, Lt(F64, a, b))

(* The number of the one bit that f*_classify sets.                        *)
Classify(F, a) ==
    LET low == Exp(F, a) = 0
        neg == CASE IsInf(F, a) -> 0
                 [] low /\ Frac(F, a) # 0 -> 2
                 [] low /\ Frac(F, a) = 0 -> 3
                 [] OTHER -> 1
    IN  CASE IsSigNaN(F, a) -> 8
          [] IsNaN(F, a) /\ ~IsSigNaN(F, a) -> 9
          [] OTHER -> IF Sign(F, a) = 1 THEN neg ELSE 7 - neg
f32_classify(a) == Classify(F32, a)
f64_classify(a) == Classify(F64, a)
f32_isSignalingNaN(a) == IsSigNaN(F32, a)
f64_isSignalingNaN(a) == IsSigNaN(F64, a)
=============================================================================
