-------------------------- MODULE SoftFloatCalls --------------------------
(***************************************************************************)
(* A caller of the floating-point library: it chooses a routine, a         *)
(* rounding mode and operands, and gets a result and flags.  The           *)
(* properties compare every result with the exact one.                     *)
(***************************************************************************)
EXTENDS FloatReference

CONSTANTS Routines,               \* which routines are called: set of <<op, bits>>
          Singles, Doubles,       \* operands of one-operand routines, by width
          PairSingles, PairDoubles,      \* operands of two-operand routines
          TripleSingles, TripleDoubles,  \* first two operands of mulAdd
          Ints32, Ints64          \* signed integers to convert

VARIABLES op, bits, mode, a, b, c, ret
vars == <<op, bits, mode, a, b, c, ret>>

F == IF bits = 32 THEN F32 ELSE F64
Two == {"add", "sub", "mul", "div", "rem", "eq", "eq_signaling", "le", "le_quiet", "lt", "lt_quiet"}
ToInt == {"to_i32", "to_ui32", "to_i64", "to_ui64"}
TruncInt == {"to_i32_r_minMag", "to_ui32_r_minMag", "to_i64_r_minMag", "to_ui64_r_minMag"}
FromInt == {"from_i32", "from_ui32", "from_i64", "from_ui64"}
Moded == {"add", "sub", "mul", "div", "sqrt", "mulAdd", "roundToInt", "narrow"}
         \union ToInt \union FromInt
None == [v |-> -1, fl |-> {"none"}]

(* Only routines there are, with words of the widths they take.            *)
Library ==
    (({"sqrt", "mulAdd", "roundToInt", "classify"} \union Two \union ToInt \union TruncInt \union FromInt)
       \X {32, 64})
    \union {<<"narrow", 64>>, <<"widen", 32>>}
ASSUME CallsAssumption ==
    /\ Routines \subseteq Library
    /\ Singles \union PairSingles \union TripleSingles \subseteq 0..(2 ^ W(F32) - 1)
    /\ Doubles \union PairDoubles \union TripleDoubles \subseteq 0..(2 ^ W(F64) - 1)
    /\ Ints32 \subseteq IntMin(W(F32))..IntMax(W(F32))
    /\ Ints64 \subseteq IntMin(W(F64))..IntMax(W(F64))

(* Numbers are made integers, and integers numbers, only in formats where  *)
(* the words used for it have room: a 32-bit integer with the bits below   *)
(* its point in the fraction of a double, the point in that of a single,   *)
(* and every integer in the range of both.                                 *)
ASSUME ConversionsAssumption ==
    (\E r \in Routines : r[1] \in {"roundToInt"} \union ToInt \union TruncInt \union FromInt) =>
        /\ IntGuard <= ExpBits32 /\ IntGuard <= FracBits32
        /\ W(F32) + IntGuard <= FracBits64
        /\ 2 ^ (ExpBits32 - 1) > W(F64) + 1

ModesOf(o) == IF o \in Moded THEN Modes ELSE {"near_even"}
FirstOf(o, n) ==
    CASE o \in Two -> IF n = 32 THEN PairSingles ELSE PairDoubles
      [] o = "mulAdd" -> IF n = 32 THEN TripleSingles ELSE TripleDoubles
      [] o = "from_i32" -> Ints32
      [] o = "from_i64" -> Ints64
      [] o = "from_ui32" -> {x % 2 ^ W(F32) : x \in Ints32}
      [] o = "from_ui64" -> {x % 2 ^ W(F64) : x \in Ints64}
      [] OTHER -> IF n = 32 THEN Singles ELSE Doubles
SecondOf(o, n) ==
    CASE o \in Two -> FirstOf(o, n)
      [] o = "mulAdd" -> FirstOf(o, n)
      [] o = "sqrt" -> SqrtErrors              \* the error of the estimate
      [] OTHER -> {0}
ThirdOf(o, n) ==
    CASE o = "mulAdd" -> IF n = 32 THEN PairSingles ELSE PairDoubles
      [] o = "roundToInt" \/ o \in ToInt \union TruncInt -> {0, 1}    \* exact
      [] OTHER -> {0}

Init ==
    /\ \E r \in Routines : op = r[1] /\ bits = r[2]
    /\ mode \in ModesOf(op)
    /\ a \in FirstOf(op, bits)
    /\ b = 0 /\ c = 0
    /\ ret = None

Result32(x, y, z) ==
    CASE op = "add" -> f32_add(mode, x, y)
      [] op = "sub" -> f32_sub(mode, x, y)
      [] op = "mul" -> f32_mul(mode, x, y)
      [] op = "div" -> f32_div(mode, x, y)
      [] op = "rem" -> f32_rem(mode, x, y)
      [] op = "sqrt" -> f32_sqrt(mode, x, y)
      [] op = "mulAdd" -> f32_mulAdd(mode, x, y, z)
      [] op = "roundToInt" -> f32_roundToInt(mode, z = 1, x)
      [] op = "eq" -> f32_eq(x, y)
      [] op = "eq_signaling" -> f32_eq_signaling(x, y)
      [] op = "le" -> f32_le(x, y)
      [] op = "le_quiet" -> f32_le_quiet(x, y)
      [] op = "lt" -> f32_lt(x, y)
      [] op = "lt_quiet" -> f32_lt_quiet(x, y)
      [] op = "to_i32" -> f32_to_i32(x, mode, z = 1)
      [] op = "to_ui32" -> f32_to_ui32(x, mode, z = 1)
      [] op = "to_i64" -> f32_to_i64(x, mode, z = 1)
      [] op = "to_ui64" -> f32_to_ui64(x, mode, z = 1)
      [] op = "to_i32_r_minMag" -> f32_to_i32_r_minMag(x, z = 1)
      [] op = "to_ui32_r_minMag" -> f32_to_ui32_r_minMag(x, z = 1)
      [] op = "to_i64_r_minMag" -> f32_to_i64_r_minMag(x, z = 1)
      [] op = "to_ui64_r_minMag" -> f32_to_ui64_r_minMag(x, z = 1)
      [] op = "from_i32" -> i32_to_f32(mode, x)
      [] op = "from_ui32" -> ui32_to_f32(mode, x)
      [] op = "from_i64" -> i64_to_f32(mode, x)
      [] op = "from_ui64" -> ui64_to_f32(mode, x)
      [] op = "widen" -> f32_to_f64(x)
      [] op = "classify" -> Ret(f32_classify(x), {})

Result64(x, y, z) ==
    CASE op = "add" -> f64_add(mode, x, y)
      [] op = "sub" -> f64_sub(mode, x, y)
      [] op = "mul" -> f64_mul(mode, x, y)
      [] op = "div" -> f64_div(mode, x, y)
      [] op = "rem" -> f64_rem(mode, x, y)
      [] op = "sqrt" -> f64_sqrt(mode, x, y)
      [] op = "mulAdd" -> f64_mulAdd(mode, x, y, z)
      [] op = "roundToInt" -> f64_roundToInt(mode, z = 1, x)
      [] op = "eq" -> f64_eq(x, y)
      [] op = "eq_signaling" -> f64_eq_signaling(x, y)
      [] op = "le" -> f64_le(x, y)
      [] op = "le_quiet" -> f64_le_quiet(x, y)
      [] op = "lt" -> f64_lt(x, y)
      [] op = "lt_quiet" -> f64_lt_quiet(x, y)
      [] op = "to_i32" -> f64_to_i32(x, mode, z = 1)
      [] op = "to_ui32" -> f64_to_ui32(x, mode, z = 1)
      [] op = "to_i64" -> f64_to_i64(x, mode, z = 1)
      [] op = "to_ui64" -> f64_to_ui64(x, mode, z = 1)
      [] op = "to_i32_r_minMag" -> f64_to_i32_r_minMag(x, z = 1)
      [] op = "to_ui32_r_minMag" -> f64_to_ui32_r_minMag(x, z = 1)
      [] op = "to_i64_r_minMag" -> f64_to_i64_r_minMag(x, z = 1)
      [] op = "to_ui64_r_minMag" -> f64_to_ui64_r_minMag(x, z = 1)
      [] op = "from_i32" -> i32_to_f64(x)
      [] op = "from_ui32" -> ui32_to_f64(x)
      [] op = "from_i64" -> i64_to_f64(mode, x)
      [] op = "from_ui64" -> ui64_to_f64(mode, x)
      [] op = "narrow" -> f64_to_f32(mode, x)
      [] op = "classify" -> Ret(f64_classify(x), {})

(* Sums are taken of operands whose exact sum can still be written out: a  *)
(* bound of the check.                                                     *)
SpanBound == 28
Writable(x, y, z) ==
    LET p == IF op = "mulAdd" THEN Times(Number(F, x), Number(F, y)) ELSE Number(F, x)
        t == IF op = "mulAdd" THEN Number(F, z) ELSE Number(F, y)
        lo == IF p.k < t.k THEN p.k ELSE t.k
    IN  op \in {"add", "sub", "mulAdd"} => \A s \in {p, t} : TopOf(s) - lo <= SpanBound

Call ==
    /\ ret = None
    /\ \E y \in SecondOf(op, bits), z \in ThirdOf(op, bits) :
          /\ Writable(a, y, z)
          /\ b' = y /\ c' = z
          /\ ret' = IF bits = 32 THEN Result32(a, y, z) ELSE Result64(a, y, z)
    /\ UNCHANGED <<op, bits, mode, a>>

Spec == Init /\ [][Call]_vars

-----------------------------------------------------------------------------
Done == ret # None

Rounding == {"add", "sub", "mul", "div", "sqrt", "mulAdd", "narrow", "widen"} \union FromInt
R == CASE op = "narrow" -> F32 [] op = "widen" -> F64 [] OTHER -> F    \* format of the result
Operands ==
    CASE op \in FromInt -> {}
      [] op \in Two -> {a, b}
      [] op = "mulAdd" -> {a, b, c}
      [] OTHER -> {a}
AnyNaN == \E x \in Operands : IsNaN(F, x)
AnySigNaN == \E x \in Operands : IsSigNaN(F, x)
AllFinite == \A x \in Operands : Finite(F, x)
DivideByZero == op = "div" /\ AllFinite /\ IsZero(F, b) /\ ~IsZero(F, a)
OpInvalid == op \notin FromInt /\ IsInvalid(op, F, a, b, c)

(* The exact result, seen from a number z.                                 *)
SideOf(z) ==
    Side(op, IF op \in FromInt THEN Num(a, 0) ELSE Number(F, a),
         Number(F, b), Number(F, c), z)
Regular == Done /\ op \in Rounding /\ AllFinite /\ ~OpInvalid /\ ~DivideByZero

(* Every result that has an exact value is that value, rounded as the mode *)
(* in force says: to the neighbour it names, with ties broken as it says,  *)
(* subnormal results and results beyond the largest number included; and a *)
(* result that is exactly zero has the sign IEEE 754 gives it.             *)
CorrectlyRounded ==
    Regular =>
        LET s == Sign(R, ret.v)
            side(z) == IF s = 1 THEN -SideOf(Minus(z)) ELSE SideOf(z)
        IN  IF SideOf(Num(0, 0)) = 0
            THEN ret.v = TopBit(R) * (IF op \in FromInt THEN 0 ELSE
                         ZeroSign(op, mode, Sign(F, a), Sign(F, b), Sign(F, c)))
            ELSE /\ Bool(SideOf(Num(0, 0)) = -1) = s
                 /\ IsRounded(R, mode, ret.v, side)

(* The flags of a rounded result say what happened and no more: inexact    *)
(* when it is not the exact one, overflow and underflow when the exact one *)
(* is outside the normal range.                                            *)
FlagsHonest ==
    Regular =>
        LET s == Sign(R, ret.v)
            side(z) == IF s = 1 THEN -SideOf(Minus(z)) ELSE SideOf(z)
        IN  ret.fl = IF SideOf(Num(0, 0)) = 0 THEN {} ELSE RoundingFlags(R, ret.v, side)

(* A NaN operand or an undefined operation gives a NaN; an infinite operand*)
(* or a division by zero gives the infinity or the zero that is the limit, *)
(* with its sign.  Nothing else does.  The flags are invalid for a         *)
(* signaling NaN or an undefined operation, of a fused one also when only  *)
(* its addend is a NaN, and infinity for a division by zero.               *)
SpecialValues ==
    Done /\ op \in Rounding /\ ~Regular =>
        /\ IF AnyNaN \/ OpInvalid THEN IsNaN(R, ret.v)
           ELSE LET l == Limit(op, F, a, b, c)
                IN  ret.v = Pack(R, l.s, IF l.inf THEN ExpMax(R) ELSE 0, 0)
        /\ "invalid" \in ret.fl <=>
              \/ AnySigNaN
              \/ OpInvalid /\ (~AnyNaN \/ (op = "mulAdd" /\ ~IsNaN(F, a) /\ ~IsNaN(F, b)))
        /\ "infinity" \in ret.fl <=> DivideByZero
        /\ ret.fl \subseteq {"invalid", "infinity"}

(* A remainder is exact: it differs from a by a multiple of b, is no       *)
(* larger than half of b, and of the two at exactly half it is the one of  *)
(* the even multiple.                                                      *)
RemainderExact ==
    Done /\ op = "rem" =>
        IF AnyNaN \/ OpInvalid
        THEN IsNaN(F, ret.v) /\ ret.fl = IF AnySigNaN \/ ~AnyNaN THEN {"invalid"} ELSE {}
        ELSE LET x == Number(F, a)
                 y == Magnitude(F, b % TopBit(F))
                 k == IF x.k < y.k THEN x.k ELSE y.k
                 Y == y.n * 2 ^ (y.k - k)
                 t == PowerMod(Abs(x.n), x.k - k, 2 * Y)      \* also tells if the quotient is odd
                 up == 2 * (t % Y) > Y \/ (2 * (t % Y) = Y /\ t >= Y)
                 r == (t % Y) - (IF up THEN Y ELSE 0)
             IN  /\ ret.fl = {}
                 /\ IF IsInf(F, b) \/ CompareMag(Num(2 * x.n, x.k), y) = -1 THEN ret.v = a
                    ELSE Cmp(Number(F, ret.v), Num(IF x.n < 0 THEN -r ELSE r, k)) = 0

(* The comparisons order the patterns as the numbers they stand for, the   *)
(* two zeros alike and a NaN not at all, and only the signaling ones       *)
(* object to a quiet NaN; classify puts a pattern in the class of its      *)
(* number.                                                                 *)
OrderAgrees ==
    /\ Done /\ op \in {"eq", "eq_signaling", "le", "le_quiet", "lt", "lt_quiet"} =>
          LET d == Cmp(Number(F, a), Number(F, b))
          IN  /\ ret.v = Bool(~AnyNaN /\ CASE op \in {"eq", "eq_signaling"} -> d = 0
                                            [] op \in {"le", "le_quiet"} -> d <= 0
                                            [] OTHER -> d < 0)
              /\ ("invalid" \in ret.fl) <=>
                    AnySigNaN \/ (AnyNaN /\ op \in {"eq_signaling", "le", "lt"})
    /\ Done /\ op = "classify" =>
          LET x == Number(F, a)
              small == CompareMag(x, Magnitude(F, Hidden(F))) = -1
              rank == IF ~Finite(F, a) THEN 3 ELSE IF ~small THEN 2 ELSE IF x.n # 0 THEN 1 ELSE 0
          IN  ret.v = IF IsNaN(F, a) THEN (IF IsSigNaN(F, a) THEN 8 ELSE 9)
                      ELSE IF Sign(F, a) = 1 THEN 3 - rank ELSE 4 + rank

(* A conversion to an integer gives the number rounded as asked when it    *)
(* fits, and otherwise, with invalid and never with inexact, the bound of  *)
(* the type; inexact is raised only on request.  Rounding to an integral   *)
(* number keeps the format and the sign.  An integer made a float raises   *)
(* inexact exactly when the float is another number.                       *)
IntegersRounded ==
    /\ Done /\ op \in ToInt \union TruncInt =>
          LET signed == op \in {"to_i32", "to_i64", "to_i32_r_minMag", "to_i64_r_minMag"}
              w == IF op \in {"to_i32", "to_ui32", "to_i32_r_minMag", "to_ui32_r_minMag"}
                   THEN W(F32) ELSE W(F64)
              m == IF op \in TruncInt THEN "minMag" ELSE mode
              r == ToInteger(signed, w, m, Number(F, a))
              neg == Sign(F, a) = 1 /\ ~(AnyNaN /\ op \in TruncInt)
          IN  IF Finite(F, a)
              THEN ret = [r EXCEPT !.fl = IF c = 1 THEN @ ELSE @ \ {"inexact"}]
              ELSE ret = Ret(CASE ~signed -> UIntMax(w) [] signed /\ neg -> IntMin(w)
                               [] OTHER -> IntMax(w), {"invalid"})
    /\ Done /\ op = "roundToInt" =>
          LET x == Number(F, a)
              r == Rounded(mode, Manageable(W(F), x))
          IN  CASE AnyNaN -> IsNaN(F, ret.v)
                [] ~AnyNaN /\ (x.k >= 0 \/ ~Finite(F, a)) -> ret = Ret(a, {})
                [] OTHER -> /\ Sign(F, ret.v) = Sign(F, a)
                            /\ Cmp(Number(F, ret.v), Num(r.z, 0)) = 0
                            /\ ret.fl = IF c = 1 /\ ~r.exact THEN {"inexact"} ELSE {}
    /\ Done /\ op \in FromInt =>
          ret.fl = IF Cmp(Number(R, ret.v), Num(a, 0)) = 0 THEN {} ELSE {"inexact"}
=============================================================================
