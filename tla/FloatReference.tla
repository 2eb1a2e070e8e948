-------------------------- MODULE FloatReference --------------------------
(***************************************************************************)
(* What src/softfloat promises, without its algorithms: the value of a     *)
(* pattern as an exact number, and what it is for a pattern to be that     *)
(* number rounded.  The rounding of a result is judged by comparing the    *)
(* exact result with the numbers next to the one returned, so that no      *)
(* quotient or root is ever computed.                                      *)
(*                                                                         *)
(* An exact number is [n |-> numerator, k |-> exponent], n * 2^k.          *)
(***************************************************************************)
EXTENDS SoftFloat, Sequences

Num(n, k) == [n |-> n, k |-> k]
SignOf(i) == CASE i < 0 -> -1 [] i = 0 -> 0 [] OTHER -> 1

(* Numbers whose leading bits are in different places are compared by      *)
(* that; otherwise one of them is shifted by no more than their lengths.   *)
TopOf(x) == BitLength(Abs(x.n)) + x.k
CompareMag(x, y) ==
    CASE x.n = 0 \/ y.n = 0 -> SignOf(Abs(x.n) - Abs(y.n))
      [] x.n # 0 /\ y.n # 0 /\ TopOf(x) # TopOf(y) -> SignOf(TopOf(x) - TopOf(y))
      [] OTHER -> LET k == IF x.k < y.k THEN x.k ELSE y.k
                  IN  SignOf(Abs(x.n) * 2 ^ (x.k - k) - Abs(y.n) * 2 ^ (y.k - k))
Cmp(x, y) ==
    IF SignOf(x.n) # SignOf(y.n) THEN SignOf(SignOf(x.n) - SignOf(y.n))
    ELSE SignOf(x.n) * CompareMag(x, y)

Plus(x, y) ==
    LET k == IF x.k < y.k THEN x.k ELSE y.k
    IN  Num(x.n * 2 ^ (x.k - k) + y.n * 2 ^ (y.k - k), k)
Minus(x) == Num(-x.n, x.k)
Times(x, y) == Num(x.n * y.n, x.k + y.k)

(* n * 2^d modulo y, for d up to 40.                                       *)
PowerMod(n, d, y) ==
    IF d <= 20 THEN (n * 2 ^ d) % y ELSE (((n * 2 ^ 20) % y) * 2 ^ (d - 20)) % y

(* The number of a finite pattern; of an infinity, the number that would   *)
(* come next after the largest finite one.                                 *)
Magnitude(F, u) ==
    IF Exp(F, u) = 0 THEN Num(Frac(F, u), 1 - Bias(F) - F.f)
    ELSE Num(Frac(F, u) + Hidden(F), Exp(F, u) - Bias(F) - F.f)
Number(F, a) == IF Sign(F, a) = 1 THEN Minus(Magnitude(F, a)) ELSE Magnitude(F, a)
Finite(F, a) == Exp(F, a) # ExpMax(F)

-----------------------------------------------------------------------------
(* Exact results.  A result is known by which side of it a number lies on: *)
(* Side(...) is the sign of (exact result - z).                            *)

Side(op, x, y, w, z) ==
    CASE op = "add" -> Cmp(Plus(x, y), z)
      [] op = "sub" -> Cmp(Plus(x, Minus(y)), z)
      [] op = "mul" -> Cmp(Times(x, y), z)
      [] op = "div" -> SignOf(y.n) * Cmp(x, Times(z, y))
      [] op = "sqrt" -> IF z.n < 0 THEN 1 ELSE Cmp(x, Times(z, z))
      [] op = "mulAdd" -> Cmp(Plus(Times(x, y), w), z)
      [] OTHER -> Cmp(x, z)                        \* a conversion

(* How a mode rounds a number of sign s that is not representable.         *)
TowardZero(m, s) == m = "minMag" \/ m = (IF s = 1 THEN "max" ELSE "min")
AwayFromZero(m, s) == m = (IF s = 1 THEN "min" ELSE "max")

(* The pattern v of format F is the exact result rounded: exact, or the    *)
(* neighbour below or above it in magnitude that the mode asks for.  side  *)
(* is the sign of (|exact| - z) as a function of z >= 0.                   *)
IsRounded(F, m, v, side(_)) ==
    LET s    == Sign(F, v)
        u    == v % TopBit(F)
        inf  == ExpMax(F) * Hidden(F)
        Half(t) ==                                 \* between t and t + 1
            LET x == Plus(Magnitude(F, t), Magnitude(F, t + 1)) IN Num(x.n, x.k - 1)
        Nearest(c, up) ==                          \* c: side of the midpoint
            \/ c = (IF up THEN 1 ELSE -1)
            \/ c = 0 /\ (IF m = "near_maxMag" THEN up ELSE u % 2 = 0)
        Near == m \in {"near_even", "near_maxMag"}
        c    == side(Magnitude(F, u))
    IN  CASE c = 0 -> u # inf \/ ~TowardZero(m, s)
          [] c = 1 /\ u = inf -> ~TowardZero(m, s)
          [] c = 1 /\ u # inf ->
                 \/ /\ TowardZero(m, s)
                    /\ u = inf - 1 \/ side(Magnitude(F, u + 1)) = -1
                 \/ Near /\ Nearest(side(Half(u)), FALSE)
          [] OTHER ->
                 \/ AwayFromZero(m, s) /\ side(Magnitude(F, u - 1)) = 1
                 \/ Near /\ Nearest(side(Half(u - 1)), TRUE)

(* The flags of a rounded result; tiny is judged before rounding.          *)
RoundingFlags(F, v, side(_)) ==
    LET inf     == ExpMax(F) * Hidden(F)
        inexact == v % TopBit(F) = inf \/ side(Magnitude(F, v % TopBit(F))) # 0
        over    == v % TopBit(F) = inf \/ side(Magnitude(F, inf)) # -1
        tiny    == side(Magnitude(F, Hidden(F))) = -1
    IN  (IF inexact THEN {"inexact"} ELSE {})
        \union (IF over THEN {"overflow"} ELSE {})
        \union (IF tiny /\ inexact THEN {"underflow"} ELSE {})

(* The sign of a result that is exactly zero.                              *)
ZeroSign(op, m, sx, sy, sw) ==
    CASE op \in {"mul", "div"} -> Xor(sx, sy)
      [] op \in {"add", "sub", "mulAdd"} ->
             LET s1 == IF op = "mulAdd" THEN Xor(sx, sy) ELSE sx
                 s2 == CASE op = "add" -> sy [] op = "sub" -> 1 - sy [] OTHER -> sw
             IN  IF s1 = s2 THEN s1 ELSE Bool(m = "min")
      [] OTHER -> sx

-----------------------------------------------------------------------------
(* Infinities and NaNs.  The operands are patterns of one format; of       *)
(* operands that op does not have, pass any finite one.                    *)

IsInvalid(op, F, a, b, c) ==
    LET Product == \/ IsInf(F, a) /\ IsZero(F, b)
                   \/ IsInf(F, b) /\ IsZero(F, a)
        sP == Xor(Sign(F, a), Sign(F, b))
        Opposite(s, t) == IsInf(F, a) /\ IsInf(F, b) /\ s # t
    IN  CASE op = "add" -> Opposite(Sign(F, a), Sign(F, b))
          [] op = "sub" -> Opposite(Sign(F, a), 1 - Sign(F, b))
          [] op = "mul" -> Product
          [] op = "div" -> (IsInf(F, a) /\ IsInf(F, b)) \/ (IsZero(F, a) /\ IsZero(F, b))
          [] op = "rem" -> IsInf(F, a) \/ IsZero(F, b)
          [] op = "sqrt" -> Sign(F, a) = 1 /\ ~IsZero(F, a)
          [] op = "mulAdd" -> \/ Product
                              \/ /\ IsInf(F, a) \/ IsInf(F, b)
                                 /\ IsInf(F, c) /\ sP # Sign(F, c)
          [] OTHER -> FALSE

(* The infinity or zero that an infinite operand, or a division by zero,   *)
(* gives: the pattern without its sign, and the sign.                      *)
Limit(op, F, a, b, c) ==
    LET s  == Xor(Sign(F, a), Sign(F, b))
        I(t) == [inf |-> TRUE, s |-> t]
    IN  CASE op = "add" -> I(IF IsInf(F, a) THEN Sign(F, a) ELSE Sign(F, b))
          [] op = "sub" -> I(IF IsInf(F, a) THEN Sign(F, a) ELSE 1 - Sign(F, b))
          [] op = "mul" -> I(s)
          [] op = "div" -> [inf |-> ~IsInf(F, b), s |-> s]
          [] op = "mulAdd" -> I(IF IsInf(F, a) \/ IsInf(F, b) THEN s ELSE Sign(F, c))
          [] OTHER -> I(Sign(F, a))

-----------------------------------------------------------------------------
(* Integers of w bits.                                                     *)

(* A number less than a quarter rounds as a quarter of its sign does, and  *)
(* one of more than w + 1 bits as the least of those: neither need be      *)
(* written out.                                                            *)
Manageable(w, x) ==
    CASE x.n = 0 -> Num(0, 0)
      [] x.n # 0 /\ TopOf(x) < -1 -> Num(SignOf(x.n), -2)
      [] x.n # 0 /\ TopOf(x) > w + 2 -> Num(SignOf(x.n), w + 2)
      [] OTHER -> x
Rounded(m, x) ==
    LET d    == 2 ^ (IF x.k < 0 THEN -x.k ELSE 0)
        n    == Abs(x.n) * 2 ^ (IF x.k > 0 THEN x.k ELSE 0)
        s    == Bool(x.n < 0)
        fl   == n \div d
        rest == n % d
        up   == CASE m = "near_even" -> 2 * rest > d \/ (2 * rest = d /\ fl % 2 = 1)
                  [] m = "near_maxMag" -> 2 * rest >= d
                  [] OTHER -> rest # 0 /\ AwayFromZero(m, s)
    IN  [z |-> IF s = 1 THEN -(fl + Bool(up)) ELSE fl + Bool(up), exact |-> rest = 0]

(* A finite operand to an integer: rounded if that is in range, otherwise  *)
(* invalid, with the bound on its side for a signed result and the largest *)
(* word for an unsigned one.                                               *)
ToInteger(signed, w, m, x) ==
    LET r  == Rounded(m, Manageable(w, x))
        lo == IF signed THEN IntMin(w) ELSE 0
        hi == IF signed THEN IntMax(w) ELSE UIntMax(w)
    IN  IF r.z \in lo..hi THEN Ret(r.z, IF r.exact THEN {} ELSE {"inexact"})
        ELSE Ret(IF r.z < lo /\ signed THEN lo ELSE hi, {"invalid"})
=============================================================================
