------------------------- MODULE SoftFloatCalls_proof -------------------------
(***************************************************************************)
(* Calls of the floating-point library: what holds of them for formats of  *)
(* any width and whatever the operands.                                    *)
(***************************************************************************)
EXTENDS SoftFloatCalls, SoftFloat_proof

-----------------------------------------------------------------------------
(* The state of a call.                                                    *)

(* Until the call only its first operand is chosen; from then on the       *)
(* result is that of the routine.                                          *)
CallsInv ==
  /\ <<op, bits>> \in Routines /\ <<op, bits>> \in Library
  /\ mode \in ModesOf(op)
  /\ a \in FirstOf(op, bits)
  /\ Done => /\ b \in SecondOf(op, bits) /\ c \in ThirdOf(op, bits)
             /\ ret = IF bits = 32 THEN Result32(a, b, c) ELSE Result64(a, b, c)

LEMMA CallsInductive == Spec => []CallsInv
  <1>1. Init => CallsInv
    <2>1. SUFFICES ASSUME Init PROVE CallsInv
      OBVIOUS
    <2>2. PICK r \in Routines : op = r[1] /\ bits = r[2]
      BY <2>1 DEF Init
    <2>3. r \in Library
      BY CallsAssumption
    <2>4. r = <<r[1], r[2]>>
      BY <2>3 DEF Library
    <2>5. ret = None /\ mode \in ModesOf(op) /\ a \in FirstOf(op, bits)
      BY <2>1 DEF Init
    <2>6. QED
      BY <2>2, <2>3, <2>4, <2>5 DEF CallsInv, Done
  <1>2. CallsInv /\ [Call]_vars => CallsInv'
    <2>1. SUFFICES ASSUME CallsInv, [Call]_vars PROVE CallsInv'
      OBVIOUS
    <2>2. CASE Call
      <3>1. PICK y \in SecondOf(op, bits), z \in ThirdOf(op, bits) :
               /\ b' = y /\ c' = z
               /\ ret' = IF bits = 32 THEN Result32(a, y, z) ELSE Result64(a, y, z)
        BY <2>2 DEF Call
      <3>2. op' = op /\ bits' = bits /\ mode' = mode /\ a' = a
        BY <2>2 DEF Call
      <3>3. ModesOf(op)' = ModesOf(op)
        BY <3>2
      <3>4. FirstOf(op, bits)' = FirstOf(op, bits) /\ SecondOf(op, bits)' = SecondOf(op, bits) /\ ThirdOf(op, bits)' = ThirdOf(op, bits)
        BY <3>2
      <3>5. Result32(a, b, c)' = Result32(a, b', c') /\ Result64(a, b, c)' = Result64(a, b', c')
        BY <3>2 DEF Result32, Result64
      <3>6. ret' = (IF bits = 32 THEN Result32(a, b, c) ELSE Result64(a, b, c))'
        BY <3>1, <3>2, <3>5
      <3>7. QED
        BY <2>1, <3>1, <3>2, <3>3, <3>4, <3>6 DEF CallsInv
    <2>3. CASE UNCHANGED vars
      BY <2>1, <2>3 DEF CallsInv, vars, Done, ModesOf, FirstOf, SecondOf, ThirdOf, Result32, Result64
    <2>4. QED
      BY <2>1, <2>2, <2>3
  <1>3. QED
    BY <1>1, <1>2, PTL DEF Spec

(* The operands of a call are words of its format.                         *)
LEMMA OperandsInv ==
  ASSUME CallsInv
  PROVE  /\ F \in Formats /\ bits \in {32, 64}
         /\ F = IF bits = 32 THEN F32 ELSE F64
         /\ op \notin FromInt => a \in Patterns(F)
         /\ Done /\ op \in Two \union {"mulAdd"} => b \in Patterns(F)
         /\ Done /\ op = "mulAdd" => c \in Patterns(F)
  <1>1. bits \in {32, 64} /\ (op = "narrow" => bits = 64) /\ (op = "widen" => bits = 32)
    BY DEF CallsInv, Library, Two, ToInt, TruncInt, FromInt
  <1>2. F \in Formats /\ F = IF bits = 32 THEN F32 ELSE F64
    BY DEF F, Formats
  <1>3. op \notin FromInt => FirstOf(op, bits) \subseteq Patterns(F)
    BY <1>1, CallsAssumption DEF FirstOf, FromInt, F, Patterns
  <1>4. op \in Two \union {"mulAdd"} => SecondOf(op, bits) = FirstOf(op, bits) /\ op \notin FromInt
    BY DEF SecondOf, Two, FromInt
  <1>5. op = "mulAdd" => ThirdOf(op, bits) \subseteq Patterns(F)
    BY <1>1, CallsAssumption DEF ThirdOf, ToInt, TruncInt, F, Patterns
  <1>6. QED
    BY <1>1, <1>2, <1>3, <1>4, <1>5 DEF CallsInv

-----------------------------------------------------------------------------
(* Comparisons.                                                            *)

(* The smallest normal number is one apart in exponent from zero.          *)
LEMMA LeastNormal ==
  ASSUME NEW G \in Formats, NEW u \in Patterns(G)
  PROVE  /\ CompareMag(Number(G, u), Magnitude(G, Hidden(G))) = -1 <=> Exp(G, u) = 0
         /\ Exp(G, u) = 0 => (Number(G, u).n # 0 <=> Frac(G, u) # 0)
  <1> DEFINE h == Hidden(G)
             e == Exp(G, u)
             f == Frac(G, u)
             v == Pack(G, 0, 1, 0)
  <1>1. h \in Nat /\ h >= 4 /\ ExpMax(G) \in Nat /\ ExpMax(G) >= 1 /\ TopBit(G) \in Nat
    BY FieldPlaces
  <1>2. v = 0 * TopBit(G) + 1 * h + 0 /\ v \in Patterns(G) /\ WithoutSign(G, v) = 1 * h + 0
    BY <1>1, Packed DEF WithoutSign
  <1>3. v = h
    BY <1>1, <1>2
  <1>4. h \in Patterns(G) /\ WithoutSign(G, h) = h
    BY <1>1, <1>2, <1>3
  <1>5. /\ WithoutSign(G, u) = e * h + f /\ WithoutSign(G, u) \in Nat
        /\ Magnitude(G, u).n = 0 <=> WithoutSign(G, u) = 0
    BY MagnitudeTop
  <1>6. e \in Nat /\ f \in 0..(h - 1)
    BY <1>1, Unpacked
  <1>7. CompareMag(Number(G, u), Magnitude(G, h)) = SignOf(WithoutSign(G, u) - h)
    BY <1>4, SignlessOrder
  <1> HIDE DEF h, e, f, v
  <1>8. e = 0 <=> WithoutSign(G, u) < h
    <2>1. e # 0 => e * h >= h /\ e * h \in Int
      BY <1>1, <1>6
    <2>2. QED
      BY <1>1, <1>5, <1>6, <2>1
  <1>9. SignOf(WithoutSign(G, u) - h) = -1 <=> WithoutSign(G, u) < h
    BY <1>1, <1>5 DEF SignOf
  <1>10. e = 0 => (Number(G, u).n # 0 <=> f # 0)
    <2>1. SignOf(Number(G, u).n) = IF WithoutSign(G, u) = 0 THEN 0 ELSE IF Sign(G, u) = 1 THEN -1 ELSE 1
      BY NumberIs
    <2>2. Number(G, u).n \in Int
      BY NumberIs
    <2>3. Number(G, u).n # 0 <=> WithoutSign(G, u) # 0
      BY <2>1, <2>2 DEF SignOf
    <2>4. e = 0 => WithoutSign(G, u) = f
      BY <1>1, <1>5, <1>6
    <2>5. QED
      BY <2>3, <2>4
  <1>11. QED
    BY <1>7, <1>8, <1>9, <1>10 DEF h, e, f

LEMMA ClassifyRight ==
  ASSUME NEW G \in Formats, NEW u \in Patterns(G)
  PROVE  LET x == Number(G, u)
             small == CompareMag(x, Magnitude(G, Hidden(G))) = -1
             rank == IF ~Finite(G, u) THEN 3 ELSE IF ~small THEN 2 ELSE IF x.n # 0 THEN 1 ELSE 0
         IN  Classify(G, u) = IF IsNaN(G, u) THEN (IF IsSigNaN(G, u) THEN 8 ELSE 9)
                              ELSE IF Sign(G, u) = 1 THEN 3 - rank ELSE 4 + rank
  <1>1. CompareMag(Number(G, u), Magnitude(G, Hidden(G))) = -1 <=> Exp(G, u) = 0
    BY LeastNormal
  <1>2. Exp(G, u) = 0 => (Number(G, u).n # 0 <=> Frac(G, u) # 0)
    BY LeastNormal
  <1>3. ExpMax(G) # 0
    BY FieldPlaces
  <1> DEFINE small == CompareMag(Number(G, u), Magnitude(G, Hidden(G))) = -1
             nz == Number(G, u).n # 0
  <1> HIDE DEF small, nz
  <1>4. (small <=> Exp(G, u) = 0) /\ (Exp(G, u) = 0 => (nz <=> Frac(G, u) # 0))
    BY <1>1, <1>2 DEF small, nz
  <1>5. Classify(G, u) =
          LET rank == IF ~Finite(G, u) THEN 3 ELSE IF ~small THEN 2 ELSE IF nz THEN 1 ELSE 0
          IN  IF IsNaN(G, u) THEN (IF IsSigNaN(G, u) THEN 8 ELSE 9)
              ELSE IF Sign(G, u) = 1 THEN 3 - rank ELSE 4 + rank
    <2>1. CASE IsNaN(G, u)
      BY <2>1 DEF Classify
    <2>2. CASE ~IsNaN(G, u)
      <3>1. IsInf(G, u) <=> ~Finite(G, u)
        BY <2>2 DEF IsInf, IsNaN, Finite
      <3>2. ~IsSigNaN(G, u)
        BY <2>2 DEF IsSigNaN
      <3>3. CASE IsInf(G, u)
        BY <1>3, <1>4, <2>2, <3>1, <3>2, <3>3 DEF Classify, IsInf
      <3>4. CASE ~IsInf(G, u)
        BY <1>4, <2>2, <3>1, <3>2, <3>4 DEF Classify
      <3>5. QED
        BY <3>3, <3>4
    <2>3. QED
      BY <2>1, <2>2
  <1>6. QED
    BY <1>5 DEF small, nz

(* Of which operation a comparison is, and whether a quiet NaN is invalid. *)
LEMMA CompareCalls ==
  ASSUME CallsInv, Done,
         op \in {"eq", "eq_signaling", "le", "le_quiet", "lt", "lt_quiet"}
  PROVE  ret = Compare(F, op \in {"eq_signaling", "le", "lt"}, a, b,
                       CASE op \in {"eq", "eq_signaling"} -> Eq(F, a, b)
                         [] op \in {"le", "le_quiet"} -> Le(F, a, b)
                         [] OTHER -> Lt(F, a, b))
  <1>1. ret = IF bits = 32 THEN Result32(a, b, c) ELSE Result64(a, b, c)
    BY DEF CallsInv
  <1>2. CASE op = "eq"
    <2>1. ret = Compare(F, FALSE, a, b, Eq(F, a, b))
      BY <1>1, <1>2 DEF Result32, Result64, f32_eq, f64_eq, F
    <2>2. (op \in {"eq_signaling", "le", "lt"}) = FALSE
      BY <1>2
    <2>3. QED
      BY <1>2, <2>1, <2>2
  <1>3. CASE op = "eq_signaling"
    <2>1. ret = Compare(F, TRUE, a, b, Eq(F, a, b))
      BY <1>1, <1>3 DEF Result32, Result64, f32_eq_signaling, f64_eq_signaling, F
    <2>2. QED
      BY <1>3, <2>1
  <1>4. CASE op = "le"
    <2>1. ret = Compare(F, TRUE, a, b, Le(F, a, b))
      BY <1>1, <1>4 DEF Result32, Result64, f32_le, f64_le, F
    <2>2. QED
      BY <1>4, <2>1
  <1>5. CASE op = "le_quiet"
    <2>1. ret = Compare(F, FALSE, a, b, Le(F, a, b))
      BY <1>1, <1>5 DEF Result32, Result64, f32_le_quiet, f64_le_quiet, F
    <2>2. (op \in {"eq_signaling", "le", "lt"}) = FALSE
      BY <1>5
    <2>3. QED
      BY <1>5, <2>1, <2>2
  <1>6. CASE op = "lt"
    <2>1. ret = Compare(F, TRUE, a, b, Lt(F, a, b))
      BY <1>1, <1>6 DEF Result32, Result64, f32_lt, f64_lt, F
    <2>2. QED
      BY <1>6, <2>1
  <1>7. CASE op = "lt_quiet"
    <2>1. ret = Compare(F, FALSE, a, b, Lt(F, a, b))
      BY <1>1, <1>7 DEF Result32, Result64, f32_lt_quiet, f64_lt_quiet, F
    <2>2. (op \in {"eq_signaling", "le", "lt"}) = FALSE
      BY <1>7
    <2>3. QED
      BY <1>7, <2>1, <2>2
  <1>8. QED
    BY <1>2, <1>3, <1>4, <1>5, <1>6, <1>7

LEMMA OrderAgreesInv == CallsInv => OrderAgrees
  <1> SUFFICES ASSUME CallsInv, Done PROVE OrderAgrees
    BY DEF OrderAgrees
  <1> DEFINE compares == op \in {"eq", "eq_signaling", "le", "le_quiet", "lt", "lt_quiet"}
             d == Cmp(Number(F, a), Number(F, b))
  <1>1. ASSUME compares
        PROVE  /\ ret.v = Bool(~AnyNaN /\ CASE op \in {"eq", "eq_signaling"} -> d = 0
                                             [] op \in {"le", "le_quiet"} -> d <= 0
                                             [] OTHER -> d < 0)
               /\ ("invalid" \in ret.fl) <=>
                     AnySigNaN \/ (AnyNaN /\ op \in {"eq_signaling", "le", "lt"})
    <2> DEFINE signaling == op \in {"eq_signaling", "le", "lt"}
               p == CASE op \in {"eq", "eq_signaling"} -> Eq(F, a, b)
                      [] op \in {"le", "le_quiet"} -> Le(F, a, b)
                      [] OTHER -> Lt(F, a, b)
               q == CASE op \in {"eq", "eq_signaling"} -> d = 0
                      [] op \in {"le", "le_quiet"} -> d <= 0
                      [] OTHER -> d < 0
    <2>1. ret = Compare(F, signaling, a, b, p)
      BY <1>1, CompareCalls
    <2>2. op \in Two /\ op \notin FromInt
      BY <1>1 DEF Two, FromInt
    <2>3. a \in Patterns(F) /\ b \in Patterns(F) /\ F \in Formats
      BY <2>2, OperandsInv
    <2>4. (Eq(F, a, b) <=> d = 0) /\ (Le(F, a, b) <=> d <= 0) /\ (Lt(F, a, b) <=> d < 0)
      BY <2>3, OrderRight
    <2>5. p <=> q
      BY <2>4
    <2>6. Operands = {a, b}
      BY <2>2 DEF Operands, Two
    <2>7. (AnyNaN <=> IsNaN(F, a) \/ IsNaN(F, b)) /\ (AnySigNaN <=> IsSigNaN(F, a) \/ IsSigNaN(F, b))
      BY <2>6 DEF AnyNaN, AnySigNaN
    <2>8. AnySigNaN => AnyNaN
      BY <2>7 DEF IsSigNaN
    <2> HIDE DEF signaling, p, q, d, compares
    <2>9. CASE AnyNaN
      <3>1. ret = Ret(0, IF signaling \/ AnySigNaN THEN {"invalid"} ELSE {})
        BY <2>1, <2>7, <2>9 DEF Compare
      <3>2. ret.v = 0 /\ ("invalid" \in ret.fl <=> signaling \/ AnySigNaN)
        BY <3>1 DEF Ret
      <3>3. QED
        BY <2>9, <3>2 DEF Bool, signaling
    <2>10. CASE ~AnyNaN
      <3>1. ret = Ret(Bool(p), {})
        BY <2>1, <2>7, <2>10 DEF Compare
      <3>2. ret.v = Bool(q) /\ "invalid" \notin ret.fl
        BY <2>5, <3>1 DEF Ret, Bool
      <3>3. QED
        BY <2>8, <2>10, <3>2 DEF Bool, signaling, q
    <2>11. QED
      BY <2>9, <2>10
  <1>2. ASSUME op = "classify"
        PROVE  LET x == Number(F, a)
                   small == CompareMag(x, Magnitude(F, Hidden(F))) = -1
                   rank == IF ~Finite(F, a) THEN 3 ELSE IF ~small THEN 2 ELSE IF x.n # 0 THEN 1 ELSE 0
               IN  ret.v = IF IsNaN(F, a) THEN (IF IsSigNaN(F, a) THEN 8 ELSE 9)
                           ELSE IF Sign(F, a) = 1 THEN 3 - rank ELSE 4 + rank
    <2>1. ret = IF bits = 32 THEN Result32(a, b, c) ELSE Result64(a, b, c)
      BY DEF CallsInv
    <2>2. ret.v = Classify(F, a)
      BY <1>2, <2>1 DEF Result32, Result64, f32_classify, f64_classify, F, Ret
    <2>3. op \notin FromInt
      BY <1>2 DEF FromInt
    <2>4. a \in Patterns(F) /\ F \in Formats
      BY <2>3, OperandsInv
    <2>5. QED
      BY <2>2, <2>4, ClassifyRight
  <1>3. QED
    BY <1>1, <1>2 DEF OrderAgrees

(* For formats of any width: comparisons order the patterns as the numbers *)
(* they stand for, with the NaNs apart, and classify names the class of    *)
(* the number.                                                             *)
THEOREM OrderAgreesAlways == Spec => []OrderAgrees
  BY CallsInductive, OrderAgreesInv, PTL

-----------------------------------------------------------------------------
(* Special values.                                                         *)

(* What has to hold of the result of a call that has no exact one.         *)
SpecialResult ==
  /\ IF AnyNaN \/ OpInvalid THEN IsNaN(R, ret.v)
     ELSE LET l == Limit(op, F, a, b, c)
          IN  ret.v = Pack(R, l.s, IF l.inf THEN ExpMax(R) ELSE 0, 0)
  /\ "invalid" \in ret.fl <=>
        \/ AnySigNaN
        \/ OpInvalid /\ (~AnyNaN \/ (op = "mulAdd" /\ ~IsNaN(F, a) /\ ~IsNaN(F, b)))
  /\ "infinity" \in ret.fl <=> DivideByZero
  /\ ret.fl \subseteq {"invalid", "infinity"}

LEMMA SumCalls ==
  ASSUME CallsInv, Done, op \in {"add", "sub"}, ~Regular
  PROVE  SpecialResult
  <1>1. /\ op \in Two /\ op \notin FromInt /\ op \in Rounding /\ R = F /\ Operands = {a, b}
        /\ op \notin {"div", "mulAdd"}
    BY DEF Two, FromInt, Rounding, R, Operands
  <1>2. F \in Formats /\ a \in Patterns(F) /\ b \in Patterns(F)
    BY <1>1, OperandsInv
  <1> DEFINE s == Sign(F, a)
             t == IF op = "add" THEN Sign(F, b) ELSE 1 - Sign(F, b)
             nan == IsNaN(F, a) \/ IsNaN(F, b)
             bad == IsInf(F, a) /\ IsInf(F, b) /\ s # t
  <1>3. /\ AnyNaN <=> nan
        /\ AnySigNaN <=> IsSigNaN(F, a) \/ IsSigNaN(F, b)
        /\ AllFinite <=> Finite(F, a) /\ Finite(F, b)
        /\ ~DivideByZero
    BY <1>1 DEF AnyNaN, AnySigNaN, AllFinite, DivideByZero
  <1>4. OpInvalid <=> bad
    BY <1>1 DEF OpInvalid, IsInvalid
  <1>5. /\ ~Finite(F, a) <=> IsNaN(F, a) \/ IsInf(F, a)
        /\ ~(IsNaN(F, a) /\ IsInf(F, a)) /\ ~(IsNaN(F, b) /\ IsInf(F, b))
        /\ IsSigNaN(F, a) => IsNaN(F, a)
        /\ IsSigNaN(F, b) => IsNaN(F, b)
    BY <1>2, OperandKinds
  <1>6. ~Finite(F, a) \/ ~Finite(F, b)
    BY <1>1, <1>3, <1>4, <1>5 DEF Regular
  <1>7. Limit(op, F, a, b, c) = [inf |-> TRUE, s |-> IF IsInf(F, a) THEN s ELSE t]
    BY DEF Limit
  <1>8. ret = IF s = Sign(F, b) THEN (IF op = "add" THEN AddMags(F, mode, a, b, s) ELSE SubMags(F, mode, a, b, s))
              ELSE (IF op = "add" THEN SubMags(F, mode, a, b, s) ELSE AddMags(F, mode, a, b, s))
    <2>1. ret = IF bits = 32 THEN Result32(a, b, c) ELSE Result64(a, b, c)
      BY DEF CallsInv
    <2>2. CASE op = "add"
      BY <2>1, <2>2 DEF Result32, Result64, f32_add, f64_add, F, softfloat_addMagsF32, softfloat_addMagsF64,
                        softfloat_subMagsF32, softfloat_subMagsF64
    <2>3. CASE op = "sub"
      BY <2>1, <2>3 DEF Result32, Result64, f32_sub, f64_sub, F, softfloat_addMagsF32, softfloat_addMagsF64,
                        softfloat_subMagsF32, softfloat_subMagsF64
    <2>4. QED
      BY <2>2, <2>3
  <1>9. ret = IF nan THEN PropagateNaN(F, a, b) ELSE IF bad THEN Invalid(F)
              ELSE Ret(Pack(F, IF IsInf(F, a) THEN s ELSE t, ExpMax(F), 0), {})
    BY <1>2, <1>6, <1>8, SumSpecial
  <1>10. /\ PropagateNaN(F, a, b).v = DefaultNaN(F) /\ Invalid(F).v = DefaultNaN(F)
         /\ PropagateNaN(F, a, b).fl = (IF IsSigNaN(F, a) \/ IsSigNaN(F, b) THEN {"invalid"} ELSE {})
         /\ Invalid(F).fl = {"invalid"} /\ IsNaN(F, DefaultNaN(F))
    BY <1>2, NaNResults, DefaultIsNaN
  <1> HIDE DEF s, t, nan, bad
  <1>11. CASE nan
    <2>1. ret.v = DefaultNaN(F) /\ ret.fl = IF AnySigNaN THEN {"invalid"} ELSE {}
      BY <1>3, <1>9, <1>10, <1>11
    <2>2. QED
      BY <1>1, <1>3, <1>10, <1>11, <2>1 DEF SpecialResult
  <1>12. CASE ~nan /\ bad
    <2>1. ret.v = DefaultNaN(F) /\ ret.fl = {"invalid"}
      BY <1>9, <1>10, <1>12
    <2>2. QED
      BY <1>1, <1>3, <1>4, <1>10, <1>12, <2>1 DEF SpecialResult
  <1>13. CASE ~nan /\ ~bad
    <2>1. ret.v = Pack(F, IF IsInf(F, a) THEN s ELSE t, ExpMax(F), 0) /\ ret.fl = {}
      BY <1>9, <1>13 DEF Ret
    <2>2. ~AnySigNaN
      BY <1>3, <1>5, <1>13 DEF nan
    <2>3. QED
      BY <1>1, <1>3, <1>4, <1>7, <1>13, <2>1, <2>2 DEF SpecialResult
  <1>14. QED
    BY <1>11, <1>12, <1>13

LEMMA ProductCalls ==
  ASSUME CallsInv, Done, op = "mul", ~Regular
  PROVE  SpecialResult
  <1>1. op \in Two /\ op \notin FromInt /\ op \in Rounding /\ R = F /\ Operands = {a, b}
    BY DEF Two, FromInt, Rounding, R, Operands
  <1>2. F \in Formats /\ a \in Patterns(F) /\ b \in Patterns(F)
    BY <1>1, OperandsInv
  <1> DEFINE s == Xor(Sign(F, a), Sign(F, b))
             nan == IsNaN(F, a) \/ IsNaN(F, b)
             bad == (IsInf(F, a) /\ IsZero(F, b)) \/ (IsInf(F, b) /\ IsZero(F, a))
  <1>3. /\ AnyNaN <=> nan
        /\ AnySigNaN <=> IsSigNaN(F, a) \/ IsSigNaN(F, b)
        /\ AllFinite <=> Finite(F, a) /\ Finite(F, b)
        /\ ~DivideByZero
    BY <1>1 DEF AnyNaN, AnySigNaN, AllFinite, DivideByZero
  <1>4. OpInvalid <=> bad
    BY <1>1 DEF OpInvalid, IsInvalid
  <1>5. /\ ~Finite(F, a) <=> IsNaN(F, a) \/ IsInf(F, a)
        /\ ~Finite(F, b) <=> IsNaN(F, b) \/ IsInf(F, b)
        /\ IsSigNaN(F, a) => IsNaN(F, a)
        /\ IsSigNaN(F, b) => IsNaN(F, b)
    BY <1>2, OperandKinds
  <1>6. ~Finite(F, a) \/ ~Finite(F, b)
    BY <1>1, <1>3, <1>4, <1>5 DEF Regular
  <1>7. Limit(op, F, a, b, c) = [inf |-> TRUE, s |-> s]
    BY DEF Limit
  <1>8. ret = Mul(F, mode, a, b)
    BY DEF CallsInv, Result32, Result64, f32_mul, f64_mul, F
  <1>9. ret = IF nan THEN PropagateNaN(F, a, b) ELSE IF bad THEN Invalid(F)
              ELSE Ret(Pack(F, s, ExpMax(F), 0), {})
    BY <1>2, <1>6, <1>8, ProductSpecial
  <1>10. /\ PropagateNaN(F, a, b).v = DefaultNaN(F) /\ Invalid(F).v = DefaultNaN(F)
         /\ PropagateNaN(F, a, b).fl = (IF IsSigNaN(F, a) \/ IsSigNaN(F, b) THEN {"invalid"} ELSE {})
         /\ Invalid(F).fl = {"invalid"} /\ IsNaN(F, DefaultNaN(F))
    BY <1>2, NaNResults, DefaultIsNaN
  <1> HIDE DEF s, nan, bad
  <1>11. CASE nan
    <2>1. ret.v = DefaultNaN(F) /\ ret.fl = IF AnySigNaN THEN {"invalid"} ELSE {}
      BY <1>3, <1>9, <1>10, <1>11
    <2>2. QED
      BY <1>1, <1>3, <1>10, <1>11, <2>1 DEF SpecialResult
  <1>12. CASE ~nan /\ bad
    <2>1. ret.v = DefaultNaN(F) /\ ret.fl = {"invalid"}
      BY <1>9, <1>10, <1>12
    <2>2. QED
      BY <1>1, <1>3, <1>4, <1>10, <1>12, <2>1 DEF SpecialResult
  <1>13. CASE ~nan /\ ~bad
    <2>1. ret.v = Pack(F, s, ExpMax(F), 0) /\ ret.fl = {}
      BY <1>9, <1>13 DEF Ret
    <2>2. ~AnySigNaN
      BY <1>3, <1>5, <1>13 DEF nan
    <2>3. QED
      BY <1>1, <1>3, <1>4, <1>7, <1>13, <2>1, <2>2 DEF SpecialResult
  <1>14. QED
    BY <1>11, <1>12, <1>13

LEMMA QuotientCalls ==
  ASSUME CallsInv, Done, op = "div", ~Regular
  PROVE  SpecialResult
  <1>1. op \in Two /\ op \notin FromInt /\ op \in Rounding /\ R = F /\ Operands = {a, b}
    BY DEF Two, FromInt, Rounding, R, Operands
  <1>2. F \in Formats /\ a \in Patterns(F) /\ b \in Patterns(F)
    BY <1>1, OperandsInv
  <1> DEFINE s == Xor(Sign(F, a), Sign(F, b))
             nan == IsNaN(F, a) \/ IsNaN(F, b)
             bad == (IsInf(F, a) /\ IsInf(F, b)) \/ (IsZero(F, a) /\ IsZero(F, b))
             inf == IsInf(F, a) \/ (IsZero(F, b) /\ ~IsZero(F, a))
  <1>3. /\ AnyNaN <=> nan
        /\ AnySigNaN <=> IsSigNaN(F, a) \/ IsSigNaN(F, b)
        /\ AllFinite <=> Finite(F, a) /\ Finite(F, b)
        /\ DivideByZero <=> AllFinite /\ IsZero(F, b) /\ ~IsZero(F, a)
    BY <1>1 DEF AnyNaN, AnySigNaN, AllFinite, DivideByZero
  <1>4. OpInvalid <=> bad
    BY <1>1 DEF OpInvalid, IsInvalid
  <1>5. /\ ~Finite(F, a) <=> IsNaN(F, a) \/ IsInf(F, a)
        /\ ~Finite(F, b) <=> IsNaN(F, b) \/ IsInf(F, b)
        /\ ~(IsInf(F, a) /\ IsZero(F, a)) /\ ~(IsInf(F, b) /\ IsZero(F, b))
        /\ ~(IsNaN(F, a) /\ IsZero(F, a)) /\ ~(IsNaN(F, b) /\ IsZero(F, b))
        /\ IsSigNaN(F, a) => IsNaN(F, a)
        /\ IsSigNaN(F, b) => IsNaN(F, b)
    BY <1>2, OperandKinds
  <1>6. ~Finite(F, a) \/ ~Finite(F, b) \/ IsZero(F, b)
    BY <1>1, <1>3, <1>4, <1>5 DEF Regular
  <1>7. Limit(op, F, a, b, c) = [inf |-> ~IsInf(F, b), s |-> s]
    BY DEF Limit
  <1>8. /\ DivSpecial(F, a, b) = IF nan THEN PropagateNaN(F, a, b) ELSE IF bad THEN Invalid(F)
                                 ELSE Ret(Pack(F, s, IF inf THEN ExpMax(F) ELSE 0, 0),
                                          IF inf /\ ~IsInf(F, a) THEN {"infinity"} ELSE {})
        /\ DivSpecial(F, a, b) # NoCase
    BY <1>2, <1>6, QuotientSpecial
  <1>9. ret = DivSpecial(F, a, b)
    <2>1. ret = IF bits = 32 THEN f32_div(mode, a, b) ELSE f64_div(mode, a, b)
      BY DEF CallsInv, Result32, Result64
    <2>2. CASE bits = 32
      <3>1. DivSpecial(F32, a, b) # NoCase
        BY <1>8, <2>2 DEF F
      <3>2. f32_div(mode, a, b) = DivSpecial(F32, a, b)
        BY <3>1 DEF f32_div
      <3>3. QED
        BY <2>1, <2>2, <3>2 DEF F
    <2>3. CASE bits # 32
      <3>1. DivSpecial(F64, a, b) # NoCase
        BY <1>8, <2>3 DEF F
      <3>2. f64_div(mode, a, b) = DivSpecial(F64, a, b)
        BY <3>1 DEF f64_div
      <3>3. QED
        BY <2>1, <2>3, <3>2 DEF F
    <2>4. QED
      BY <2>2, <2>3
  <1>10. /\ PropagateNaN(F, a, b).v = DefaultNaN(F) /\ Invalid(F).v = DefaultNaN(F)
         /\ PropagateNaN(F, a, b).fl = (IF IsSigNaN(F, a) \/ IsSigNaN(F, b) THEN {"invalid"} ELSE {})
         /\ Invalid(F).fl = {"invalid"} /\ IsNaN(F, DefaultNaN(F))
    BY <1>2, NaNResults, DefaultIsNaN
  <1>11. /\ inf /\ ~IsInf(F, a) /\ ~nan /\ ~bad => DivideByZero
         /\ DivideByZero => inf /\ ~IsInf(F, a) /\ ~nan /\ ~bad
         /\ ~nan /\ ~bad => (inf <=> ~IsInf(F, b)) /\ ~AnySigNaN
    BY <1>3, <1>5, <1>6
  <1> HIDE DEF s, nan, bad, inf
  <1>12. CASE nan
    <2>1. ret.v = DefaultNaN(F) /\ ret.fl = IF AnySigNaN THEN {"invalid"} ELSE {}
      BY <1>3, <1>8, <1>9, <1>10, <1>12
    <2>2. QED
      BY <1>1, <1>3, <1>10, <1>11, <1>12, <2>1 DEF SpecialResult
  <1>13. CASE ~nan /\ bad
    <2>1. ret.v = DefaultNaN(F) /\ ret.fl = {"invalid"}
      BY <1>8, <1>9, <1>10, <1>13
    <2>2. QED
      BY <1>1, <1>3, <1>4, <1>10, <1>11, <1>13, <2>1 DEF SpecialResult
  <1>14. CASE ~nan /\ ~bad
    <2>1. ret.v = Pack(F, s, IF inf THEN ExpMax(F) ELSE 0, 0) /\ ret.fl = IF DivideByZero THEN {"infinity"} ELSE {}
      BY <1>8, <1>9, <1>11, <1>14 DEF Ret
    <2>2. Limit(op, F, a, b, c).s = s /\ (Limit(op, F, a, b, c).inf <=> inf)
      <3>1. IsInf(F, b) => Limit(op, F, a, b, c) = [inf |-> FALSE, s |-> s] /\ ~inf
        BY <1>7, <1>11, <1>14
      <3>2. ~IsInf(F, b) => Limit(op, F, a, b, c) = [inf |-> TRUE, s |-> s] /\ inf
        BY <1>7, <1>11, <1>14
      <3>3. QED
        BY <3>1, <3>2
    <2>3. ret.v = Pack(R, Limit(op, F, a, b, c).s, IF Limit(op, F, a, b, c).inf THEN ExpMax(R) ELSE 0, 0)
      BY <1>1, <2>1, <2>2
    <2>4. ~AnyNaN /\ ~OpInvalid /\ ~AnySigNaN
      BY <1>3, <1>4, <1>11, <1>14
    <2>5. /\ ("infinity" \in ret.fl <=> DivideByZero) /\ "invalid" \notin ret.fl
          /\ ret.fl \subseteq {"invalid", "infinity"}
      BY <2>1
    <2>6. QED
      BY <2>3, <2>4, <2>5 DEF SpecialResult
  <1>15. QED
    BY <1>12, <1>13, <1>14

LEMMA RootCalls ==
  ASSUME CallsInv, Done, op = "sqrt", ~Regular
  PROVE  SpecialResult
  <1>1. op \notin FromInt /\ op \in Rounding /\ R = F /\ Operands = {a}
    BY DEF Two, FromInt, Rounding, R, Operands
  <1>2. F \in Formats /\ a \in Patterns(F)
    BY <1>1, OperandsInv
  <1> DEFINE nan == IsNaN(F, a)
             bad == Sign(F, a) = 1 /\ ~IsZero(F, a)
  <1>3. /\ AnyNaN <=> nan
        /\ AnySigNaN <=> IsSigNaN(F, a)
        /\ AllFinite <=> Finite(F, a)
        /\ ~DivideByZero
    BY <1>1 DEF AnyNaN, AnySigNaN, AllFinite, DivideByZero
  <1>4. OpInvalid <=> bad
    BY <1>1 DEF OpInvalid, IsInvalid
  <1>5. /\ ~Finite(F, a) <=> nan \/ IsInf(F, a)
        /\ ~(IsInf(F, a) /\ IsZero(F, a)) /\ ~(nan /\ IsZero(F, a))
        /\ IsSigNaN(F, a) => nan /\ Sign(F, a) \in {0, 1}
        /\ ~IsSigNaN(F, 0)
    BY <1>2, OperandKinds, ZeroPattern
  <1>6. ~Finite(F, a) \/ bad
    BY <1>1, <1>3, <1>4, <1>5 DEF Regular
  <1>7. Limit(op, F, a, b, c) = [inf |-> TRUE, s |-> Sign(F, a)]
    BY DEF Limit
  <1>8. /\ SqrtSpecial(F, a) = IF nan THEN PropagateNaN(F, a, 0) ELSE IF Sign(F, a) = 1 THEN Invalid(F)
                               ELSE Ret(Pack(F, Sign(F, a), ExpMax(F), 0), {})
        /\ SqrtSpecial(F, a) # NoCase
    BY <1>2, <1>6, RootSpecial
  <1>9. ret = SqrtSpecial(F, a)
    <2>1. ret = IF bits = 32 THEN f32_sqrt(mode, a, b) ELSE f64_sqrt(mode, a, b)
      BY DEF CallsInv, Result32, Result64
    <2>2. CASE bits = 32
      <3>1. SqrtSpecial(F32, a) # NoCase
        BY <1>8, <2>2 DEF F
      <3>2. f32_sqrt(mode, a, b) = SqrtSpecial(F32, a)
        BY <3>1 DEF f32_sqrt
      <3>3. QED
        BY <2>1, <2>2, <3>2 DEF F
    <2>3. CASE bits # 32
      <3>1. SqrtSpecial(F64, a) # NoCase
        BY <1>8, <2>3 DEF F
      <3>2. f64_sqrt(mode, a, b) = SqrtSpecial(F64, a)
        BY <3>1 DEF f64_sqrt
      <3>3. QED
        BY <2>1, <2>3, <3>2 DEF F
    <2>4. QED
      BY <2>2, <2>3
  <1>10. /\ PropagateNaN(F, a, 0).v = DefaultNaN(F) /\ Invalid(F).v = DefaultNaN(F)
         /\ PropagateNaN(F, a, 0).fl = (IF IsSigNaN(F, a) THEN {"invalid"} ELSE {})
         /\ Invalid(F).fl = {"invalid"} /\ IsNaN(F, DefaultNaN(F))
    BY <1>2, <1>5, NaNResults, DefaultIsNaN
  <1>11. ~nan => (bad <=> Sign(F, a) = 1)
    BY <1>5, <1>6
  <1> HIDE DEF nan, bad
  <1>12. CASE nan
    <2>1. ret.v = DefaultNaN(F) /\ ret.fl = IF AnySigNaN THEN {"invalid"} ELSE {}
      BY <1>3, <1>8, <1>9, <1>10, <1>12
    <2>2. QED
      BY <1>1, <1>3, <1>10, <1>12, <2>1 DEF SpecialResult
  <1>13. CASE ~nan /\ bad
    <2>1. ret.v = DefaultNaN(F) /\ ret.fl = {"invalid"}
      BY <1>8, <1>9, <1>10, <1>11, <1>13
    <2>2. QED
      BY <1>1, <1>3, <1>4, <1>10, <1>13, <2>1 DEF SpecialResult
  <1>14. CASE ~nan /\ ~bad
    <2>1. ret.v = Pack(F, Sign(F, a), ExpMax(F), 0) /\ ret.fl = {}
      BY <1>8, <1>9, <1>11, <1>14 DEF Ret
    <2>2. ~AnySigNaN
      BY <1>3, <1>5, <1>14
    <2>3. QED
      BY <1>1, <1>3, <1>4, <1>7, <1>14, <2>1, <2>2 DEF SpecialResult
  <1>15. QED
    BY <1>12, <1>13, <1>14

LEMMA FusedCalls ==
  ASSUME CallsInv, Done, op = "mulAdd", ~Regular
  PROVE  SpecialResult
  <1>1. /\ op \notin FromInt /\ op \in Rounding /\ R = F /\ Operands = {a, b, c}
        /\ op \in Two \union {"mulAdd"}
    BY DEF Two, FromInt, Rounding, R, Operands
  <1>2. F \in Formats /\ a \in Patterns(F) /\ b \in Patterns(F) /\ c \in Patterns(F)
    BY <1>1, OperandsInv
  <1> DEFINE s == Xor(Sign(F, a), Sign(F, b))
             nan == IsNaN(F, a) \/ IsNaN(F, b)
             product == (IsInf(F, a) /\ IsZero(F, b)) \/ (IsInf(F, b) /\ IsZero(F, a))
             infs == (IsInf(F, a) \/ IsInf(F, b)) /\ IsInf(F, c) /\ s # Sign(F, c)
             sig == IsSigNaN(F, a) \/ IsSigNaN(F, b) \/ IsSigNaN(F, c)
             t == IF IsInf(F, a) \/ IsInf(F, b) THEN s ELSE Sign(F, c)
  <1>3. /\ AnyNaN <=> nan \/ IsNaN(F, c)
        /\ AnySigNaN <=> sig
        /\ AllFinite <=> Finite(F, a) /\ Finite(F, b) /\ Finite(F, c)
        /\ ~DivideByZero
    BY <1>1 DEF AnyNaN, AnySigNaN, AllFinite, DivideByZero
  <1>4. OpInvalid <=> product \/ infs
    BY <1>1 DEF OpInvalid, IsInvalid
  <1>5. /\ ~Finite(F, a) <=> IsNaN(F, a) \/ IsInf(F, a)
        /\ ~Finite(F, b) <=> IsNaN(F, b) \/ IsInf(F, b)
        /\ ~Finite(F, c) <=> IsNaN(F, c) \/ IsInf(F, c)
        /\ ~(IsNaN(F, c) /\ IsInf(F, c))
        /\ IsSigNaN(F, a) => IsNaN(F, a)
        /\ IsSigNaN(F, b) => IsNaN(F, b)
        /\ IsSigNaN(F, c) => IsNaN(F, c)
        /\ ~IsSigNaN(F, 0)
    BY <1>2, OperandKinds, ZeroPattern
  <1>6. ~Finite(F, a) \/ ~Finite(F, b) \/ ~Finite(F, c)
    BY <1>1, <1>3, <1>4, <1>5 DEF Regular
  <1>7. Limit(op, F, a, b, c) = [inf |-> TRUE, s |-> t]
    BY DEF Limit
  <1>8. ret = MulAdd(F, 0, mode, a, b, c)
    BY DEF CallsInv, Result32, Result64, f32_mulAdd, f64_mulAdd, softfloat_mulAddF32, softfloat_mulAddF64, F
  <1>9. ret = IF nan THEN Ret(DefaultNaN(F), IF sig THEN {"invalid"} ELSE {})
              ELSE IF product THEN Ret(DefaultNaN(F), {"invalid"})
              ELSE IF IsNaN(F, c) THEN PropagateNaN(F, 0, c)
              ELSE IF infs THEN Invalid(F) ELSE Ret(Pack(F, t, ExpMax(F), 0), {})
    BY <1>2, <1>6, <1>8, FusedSpecial
  <1>10. /\ PropagateNaN(F, 0, c).v = DefaultNaN(F) /\ Invalid(F).v = DefaultNaN(F)
         /\ PropagateNaN(F, 0, c).fl = (IF IsSigNaN(F, c) THEN {"invalid"} ELSE {})
         /\ Invalid(F).fl = {"invalid"} /\ IsNaN(F, DefaultNaN(F))
    BY <1>2, <1>5, NaNResults, DefaultIsNaN
  <1>11. ~nan /\ IsSigNaN(F, c) <=> ~nan /\ sig
    BY <1>5
  <1>12. sig => nan \/ IsNaN(F, c)
    BY <1>5
  <1>13. infs => ~IsNaN(F, c)
    BY <1>5
  <1>14. nan <=> ~(~IsNaN(F, a) /\ ~IsNaN(F, b))
    OBVIOUS
  <1> HIDE DEF s, nan, product, infs, sig, t
  <1>15. CASE nan
    <2>1. ret.v = DefaultNaN(F) /\ ret.fl = IF sig THEN {"invalid"} ELSE {}
      BY <1>9, <1>15 DEF Ret
    <2>2. QED
      BY <1>1, <1>3, <1>10, <1>14, <1>15, <2>1 DEF SpecialResult
  <1>16. CASE ~nan /\ product
    <2>1. ret.v = DefaultNaN(F) /\ ret.fl = {"invalid"}
      BY <1>9, <1>16 DEF Ret
    <2>2. QED
      BY <1>1, <1>3, <1>4, <1>10, <1>14, <1>16, <2>1 DEF SpecialResult
  <1>17. CASE ~nan /\ ~product /\ IsNaN(F, c)
    <2>1. ret.v = DefaultNaN(F) /\ ret.fl = IF sig THEN {"invalid"} ELSE {}
      BY <1>9, <1>10, <1>11, <1>17
    <2>2. ~OpInvalid
      BY <1>4, <1>13, <1>17
    <2>3. QED
      BY <1>1, <1>3, <1>10, <1>17, <2>1, <2>2 DEF SpecialResult
  <1>18. CASE ~nan /\ ~product /\ ~IsNaN(F, c) /\ infs
    <2>1. ret.v = DefaultNaN(F) /\ ret.fl = {"invalid"}
      BY <1>9, <1>10, <1>18
    <2>2. QED
      BY <1>1, <1>3, <1>4, <1>10, <1>18, <2>1 DEF SpecialResult
  <1>19. CASE ~nan /\ ~product /\ ~IsNaN(F, c) /\ ~infs
    <2>1. ret.v = Pack(F, t, ExpMax(F), 0) /\ ret.fl = {}
      BY <1>9, <1>19 DEF Ret
    <2>2. ~AnySigNaN
      BY <1>3, <1>12, <1>19
    <2>3. QED
      BY <1>1, <1>3, <1>4, <1>7, <1>19, <2>1, <2>2 DEF SpecialResult
  <1>20. QED
    BY <1>15, <1>16, <1>17, <1>18, <1>19

(* A conversion between the formats is never undefined.                    *)
LEMMA FormatCalls ==
  ASSUME CallsInv, Done, op \in {"narrow", "widen"}, ~Regular
  PROVE  SpecialResult
  <1>1. op \notin FromInt /\ op \in Rounding /\ Operands = {a}
    BY DEF Two, FromInt, Rounding, Operands
  <1>2. F \in Formats /\ a \in Patterns(F)
    BY <1>1, OperandsInv
  <1>3. /\ AnyNaN <=> IsNaN(F, a)
        /\ AnySigNaN <=> IsSigNaN(F, a)
        /\ AllFinite <=> Finite(F, a)
        /\ ~DivideByZero
    BY <1>1 DEF AnyNaN, AnySigNaN, AllFinite, DivideByZero
  <1>4. ~OpInvalid
    BY <1>1 DEF OpInvalid, IsInvalid
  <1>5. /\ ~Finite(F, a) <=> IsNaN(F, a) \/ IsInf(F, a)
        /\ ~(IsNaN(F, a) /\ IsInf(F, a))
        /\ IsSigNaN(F, a) => IsNaN(F, a)
        /\ Sign(F, a) \in {0, 1}
    BY <1>2, OperandKinds
  <1>6. ~Finite(F, a)
    BY <1>1, <1>3, <1>4 DEF Regular
  <1>7. Limit(op, F, a, b, c) = [inf |-> TRUE, s |-> Sign(F, a)]
    BY DEF Limit
  <1>8. /\ op = "narrow" => bits = 64 /\ F = F64 /\ R = F32
        /\ op = "widen" => bits = 32 /\ F = F32 /\ R = F64
    BY DEF CallsInv, Library, Two, ToInt, TruncInt, FromInt, F, R
  <1>9. R \in Formats
    BY <1>8 DEF Formats
  <1>10. ret = IF IsNaN(F, a) THEN FromCommonNaN(R, CommonNaN(F, a))
               ELSE Ret(Pack(R, Sign(F, a), ExpMax(R), 0), {})
    <2>1. CASE op = "narrow"
      <3>1. ret = f64_to_f32(mode, a)
        BY <1>8, <2>1 DEF CallsInv, Result64
      <3>2. Exp(F64, a) # 0
        BY <1>2, <1>6, <1>8, <2>1, FieldPlaces DEF Finite
      <3>3. QED
        BY <1>5, <1>6, <1>8, <2>1, <3>1, <3>2 DEF f64_to_f32, softfloat_commonNaNToF32UI, softfloat_f64UIToCommonNaN
    <2>2. CASE op = "widen"
      <3>1. ret = f32_to_f64(a)
        BY <1>8, <2>2 DEF CallsInv, Result32
      <3>2. ~IsZero(F32, a)
        BY <1>2, <1>5, <1>6, <1>8, <2>2, OperandKinds
      <3>3. QED
        BY <1>5, <1>6, <1>8, <2>2, <3>1, <3>2 DEF f32_to_f64, softfloat_commonNaNToF64UI, softfloat_f32UIToCommonNaN
    <2>3. QED
      BY <2>1, <2>2
  <1>11. CASE IsNaN(F, a)
    <2>1. /\ ret.v = Sign(F, a) * TopBit(R) + TopBit(R) - 1
          /\ ret.fl = IF IsSigNaN(F, a) THEN {"invalid"} ELSE {}
      BY <1>10, <1>11 DEF FromCommonNaN, CommonNaN, Ret
    <2>2. IsNaN(R, ret.v)
      BY <1>5, <1>9, <2>1, QuietNaN
    <2>3. QED
      BY <1>3, <1>4, <1>11, <2>1, <2>2 DEF SpecialResult
  <1>12. CASE ~IsNaN(F, a)
    <2>1. ret.v = Pack(R, Sign(F, a), ExpMax(R), 0) /\ ret.fl = {}
      BY <1>10, <1>12 DEF Ret
    <2>2. ~AnySigNaN
      BY <1>3, <1>5, <1>12
    <2>3. QED
      BY <1>3, <1>4, <1>7, <1>12, <2>1, <2>2 DEF SpecialResult
  <1>13. QED
    BY <1>11, <1>12

LEMMA SpecialValuesInv == CallsInv => SpecialValues
  <1> SUFFICES ASSUME CallsInv, Done, op \in Rounding, ~Regular PROVE SpecialResult
    BY DEF SpecialValues, SpecialResult
  <1>1. op \notin FromInt
    <2>1. SUFFICES ASSUME op \in FromInt PROVE FALSE
      OBVIOUS
    <2>2. Operands = {} /\ ~OpInvalid
      BY <2>1 DEF Operands, OpInvalid, FromInt, Two
    <2>3. AllFinite /\ ~DivideByZero
      BY <2>1, <2>2 DEF AllFinite, DivideByZero, FromInt
    <2>4. QED
      BY <2>2, <2>3 DEF Regular
  <1>2. op \in {"add", "sub", "mul", "div", "sqrt", "mulAdd", "narrow", "widen"}
    BY <1>1 DEF Rounding
  <1>3. QED
    BY <1>2, SumCalls, ProductCalls, QuotientCalls, RootCalls, FusedCalls, FormatCalls

(* For formats of any width: with a NaN, an infinity, an undefined         *)
(* operation or a division by zero a routine returns the NaN, the infinity *)
(* or the zero that it should, and raises invalid and infinity exactly     *)
(* then.                                                                   *)
THEOREM SpecialValuesAlways == Spec => []SpecialValues
  BY CallsInductive, SpecialValuesInv, PTL

-----------------------------------------------------------------------------
(* Numbers and integers (IntegersRounded).                                 *)

(* A call of one of these routines is one that ConversionsAssumption is    *)
(* about.                                                                  *)
LEMMA ConversionsFit ==
  ASSUME CallsInv, op \in {"roundToInt"} \union ToInt \union TruncInt \union FromInt
  PROVE  IntegerWidths
  <1>1. <<op, bits>> \in Routines /\ <<op, bits>>[1] = op
    BY DEF CallsInv
  <1>2. \E r \in Routines : r[1] \in {"roundToInt"} \union ToInt \union TruncInt \union FromInt
    BY <1>1
  <1>3. QED
    BY <1>2, ConversionsAssumption DEF IntegerWidths

ToSigned == {"to_i32", "to_i64", "to_i32_r_minMag", "to_i64_r_minMag"}
ToShort == {"to_i32", "to_ui32", "to_i32_r_minMag", "to_ui32_r_minMag"}

(* What a conversion to an integer is to return.                           *)
IntegerWanted ==
  LET signed == op \in ToSigned
      w == IF op \in ToShort THEN W(F32) ELSE W(F64)
  IN  IF op \in TruncInt THEN WantedTrunc(F, signed, w, a) ELSE Wanted(F, signed, w, mode, a)

(* The operand, the mode and the request of such a call.                   *)
LEMMA ToIntegerState ==
  ASSUME CallsInv, Done, op \in ToInt \union TruncInt
  PROVE  /\ a \in Patterns(F) /\ F \in Formats /\ (c = 1) \in BOOLEAN /\ Operands = {a}
         /\ op \in ToInt => mode \in Modes
         /\ bits \in {32, 64} /\ IntegerWidths
  <1>1. op \notin FromInt /\ op \notin Two /\ op # "mulAdd"
    BY DEF ToInt, TruncInt, FromInt, Two
  <1>2. a \in Patterns(F) /\ F \in Formats
    BY <1>1, OperandsInv
  <1>3. Operands = {a}
    BY <1>1 DEF Operands
  <1>4. op \in ToInt => mode \in Modes
    BY DEF CallsInv, ModesOf, Moded
  <1>5. bits \in {32, 64}
    BY DEF CallsInv, Library
  <1>6. QED
    BY <1>2, <1>3, <1>4, <1>5, ConversionsFit

(* The routine called returns what is wanted, whichever of the sixteen it  *)
(* is.                                                                     *)
LEMMA ToIntegerCalls ==
  ASSUME CallsInv, Done, op \in ToInt \union TruncInt
  PROVE  ret = OnRequest(c = 1, IntegerWanted)
  <1> DEFINE exact == c = 1
  <1>1. /\ a \in Patterns(F) /\ F \in Formats /\ exact \in BOOLEAN /\ (op \in ToInt => mode \in Modes)
        /\ bits \in {32, 64} /\ IntegerWidths
    BY ToIntegerState
  <1>2. ret = IF bits = 32 THEN Result32(a, b, c) ELSE Result64(a, b, c)
    BY DEF CallsInv
  <1>3. /\ bits = 32 => F = F32
        /\ bits = 64 => F = F64
    BY DEF F
  <1>4. CASE op = "to_i32"
    <2>1. IntegerWanted = Wanted(F, TRUE, W(F32), mode, a)
      BY <1>4, Zenon DEF IntegerWanted, ToSigned, ToShort, TruncInt
    <2>2. bits = 32 => ret = f32_to_i32(a, mode, exact)
      BY <1>2, <1>4 DEF Result32
    <2>3. bits = 64 => ret = f64_to_i32(a, mode, exact)
      BY <1>2, <1>4 DEF Result64
    <2>4. mode \in Modes
      BY <1>1, <1>4 DEF ToInt
    <2> HIDE DEF exact
    <2>5. bits = 32 => f32_to_i32(a, mode, exact) = OnRequest(exact, Wanted(F32, TRUE, W(F32), mode, a))
      BY <1>1, <1>3, <2>4, RoundedTo32, Zenon
    <2>6. bits = 64 => f64_to_i32(a, mode, exact) = OnRequest(exact, Wanted(F64, TRUE, W(F32), mode, a))
      BY <1>1, <1>3, <2>4, RoundedTo32, Zenon
    <2>7. QED
      BY <1>1, <1>3, <2>1, <2>2, <2>3, <2>5, <2>6, Zenon DEF exact
  <1>5. CASE op = "to_ui32"
    <2>8. (op \in ToSigned) = FALSE
      BY <1>5 DEF ToSigned
    <2>1. IntegerWanted = Wanted(F, FALSE, W(F32), mode, a)
      BY <1>5, <2>8, Zenon DEF IntegerWanted, ToShort, TruncInt
    <2>2. bits = 32 => ret = f32_to_ui32(a, mode, exact)
      BY <1>2, <1>5 DEF Result32
    <2>3. bits = 64 => ret = f64_to_ui32(a, mode, exact)
      BY <1>2, <1>5 DEF Result64
    <2>4. mode \in Modes
      BY <1>1, <1>5 DEF ToInt
    <2> HIDE DEF exact
    <2>5. bits = 32 => f32_to_ui32(a, mode, exact) = OnRequest(exact, Wanted(F32, FALSE, W(F32), mode, a))
      BY <1>1, <1>3, <2>4, RoundedTo32, Zenon
    <2>6. bits = 64 => f64_to_ui32(a, mode, exact) = OnRequest(exact, Wanted(F64, FALSE, W(F32), mode, a))
      BY <1>1, <1>3, <2>4, RoundedTo32, Zenon
    <2>7. QED
      BY <1>1, <1>3, <2>1, <2>2, <2>3, <2>5, <2>6, Zenon DEF exact
  <1>6. CASE op = "to_i64"
    <2>1. IntegerWanted = Wanted(F, TRUE, W(F64), mode, a)
      BY <1>6, Zenon DEF IntegerWanted, ToSigned, ToShort, TruncInt
    <2>2. bits = 32 => ret = f32_to_i64(a, mode, exact)
      BY <1>2, <1>6 DEF Result32
    <2>3. bits = 64 => ret = f64_to_i64(a, mode, exact)
      BY <1>2, <1>6 DEF Result64
    <2>4. mode \in Modes
      BY <1>1, <1>6 DEF ToInt
    <2> HIDE DEF exact
    <2>5. bits = 32 => f32_to_i64(a, mode, exact) = OnRequest(exact, Wanted(F32, TRUE, W(F64), mode, a))
      BY <1>1, <1>3, <2>4, RoundedTo64, Zenon
    <2>6. bits = 64 => f64_to_i64(a, mode, exact) = OnRequest(exact, Wanted(F64, TRUE, W(F64), mode, a))
      BY <1>1, <1>3, <2>4, RoundedTo64, Zenon
    <2>7. QED
      BY <1>1, <1>3, <2>1, <2>2, <2>3, <2>5, <2>6, Zenon DEF exact
  <1>7. CASE op = "to_ui64"
    <2>8. (op \in ToSigned) = FALSE
      BY <1>7 DEF ToSigned
    <2>1. IntegerWanted = Wanted(F, FALSE, W(F64), mode, a)
      BY <1>7, <2>8, Zenon DEF IntegerWanted, ToShort, TruncInt
    <2>2. bits = 32 => ret = f32_to_ui64(a, mode, exact)
      BY <1>2, <1>7 DEF Result32
    <2>3. bits = 64 => ret = f64_to_ui64(a, mode, exact)
      BY <1>2, <1>7 DEF Result64
    <2>4. mode \in Modes
      BY <1>1, <1>7 DEF ToInt
    <2> HIDE DEF exact
    <2>5. bits = 32 => f32_to_ui64(a, mode, exact) = OnRequest(exact, Wanted(F32, FALSE, W(F64), mode, a))
      BY <1>1, <1>3, <2>4, RoundedTo64, Zenon
    <2>6. bits = 64 => f64_to_ui64(a, mode, exact) = OnRequest(exact, Wanted(F64, FALSE, W(F64), mode, a))
      BY <1>1, <1>3, <2>4, RoundedTo64, Zenon
    <2>7. QED
      BY <1>1, <1>3, <2>1, <2>2, <2>3, <2>5, <2>6, Zenon DEF exact
  <1>8. CASE op = "to_i32_r_minMag"
    <2>1. IntegerWanted = WantedTrunc(F, TRUE, W(F32), a)
      BY <1>8, Zenon DEF IntegerWanted, ToSigned, ToShort, TruncInt
    <2>2. bits = 32 => ret = f32_to_i32_r_minMag(a, exact)
      BY <1>2, <1>8 DEF Result32
    <2>3. bits = 64 => ret = f64_to_i32_r_minMag(a, exact)
      BY <1>2, <1>8 DEF Result64
    <2> HIDE DEF exact
    <2>5. bits = 32 => f32_to_i32_r_minMag(a, exact) = OnRequest(exact, WantedTrunc(F32, TRUE, W(F32), a))
      BY <1>1, <1>3, TruncatedTo, Zenon
    <2>6. bits = 64 => f64_to_i32_r_minMag(a, exact) = OnRequest(exact, WantedTrunc(F64, TRUE, W(F32), a))
      BY <1>1, <1>3, TruncatedTo, Zenon
    <2>7. QED
      BY <1>1, <1>3, <2>1, <2>2, <2>3, <2>5, <2>6, Zenon DEF exact
  <1>9. CASE op = "to_ui32_r_minMag"
    <2>8. (op \in ToSigned) = FALSE
      BY <1>9 DEF ToSigned
    <2>1. IntegerWanted = WantedTrunc(F, FALSE, W(F32), a)
      BY <1>9, <2>8, Zenon DEF IntegerWanted, ToShort, TruncInt
    <2>2. bits = 32 => ret = f32_to_ui32_r_minMag(a, exact)
      BY <1>2, <1>9 DEF Result32
    <2>3. bits = 64 => ret = f64_to_ui32_r_minMag(a, exact)
      BY <1>2, <1>9 DEF Result64
    <2> HIDE DEF exact
    <2>5. bits = 32 => f32_to_ui32_r_minMag(a, exact) = OnRequest(exact, WantedTrunc(F32, FALSE, W(F32), a))
      BY <1>1, <1>3, TruncatedTo, Zenon
    <2>6. bits = 64 => f64_to_ui32_r_minMag(a, exact) = OnRequest(exact, WantedTrunc(F64, FALSE, W(F32), a))
      BY <1>1, <1>3, TruncatedTo, Zenon
    <2>7. QED
      BY <1>1, <1>3, <2>1, <2>2, <2>3, <2>5, <2>6, Zenon DEF exact
  <1>10. CASE op = "to_i64_r_minMag"
    <2>1. IntegerWanted = WantedTrunc(F, TRUE, W(F64), a)
      BY <1>10, Zenon DEF IntegerWanted, ToSigned, ToShort, TruncInt
    <2>2. bits = 32 => ret = f32_to_i64_r_minMag(a, exact)
      BY <1>2, <1>10 DEF Result32
    <2>3. bits = 64 => ret = f64_to_i64_r_minMag(a, exact)
      BY <1>2, <1>10 DEF Result64
    <2> HIDE DEF exact
    <2>5. bits = 32 => f32_to_i64_r_minMag(a, exact) = OnRequest(exact, WantedTrunc(F32, TRUE, W(F64), a))
      BY <1>1, <1>3, TruncatedTo, Zenon
    <2>6. bits = 64 => f64_to_i64_r_minMag(a, exact) = OnRequest(exact, WantedTrunc(F64, TRUE, W(F64), a))
      BY <1>1, <1>3, TruncatedTo, Zenon
    <2>7. QED
      BY <1>1, <1>3, <2>1, <2>2, <2>3, <2>5, <2>6, Zenon DEF exact
  <1>11. CASE op = "to_ui64_r_minMag"
    <2>8. (op \in ToSigned) = FALSE
      BY <1>11 DEF ToSigned
    <2>1. IntegerWanted = WantedTrunc(F, FALSE, W(F64), a)
      BY <1>11, <2>8, Zenon DEF IntegerWanted, ToShort, TruncInt
    <2>2. bits = 32 => ret = f32_to_ui64_r_minMag(a, exact)
      BY <1>2, <1>11 DEF Result32
    <2>3. bits = 64 => ret = f64_to_ui64_r_minMag(a, exact)
      BY <1>2, <1>11 DEF Result64
    <2> HIDE DEF exact
    <2>5. bits = 32 => f32_to_ui64_r_minMag(a, exact) = OnRequest(exact, WantedTrunc(F32, FALSE, W(F64), a))
      BY <1>1, <1>3, TruncatedTo, Zenon
    <2>6. bits = 64 => f64_to_ui64_r_minMag(a, exact) = OnRequest(exact, WantedTrunc(F64, FALSE, W(F64), a))
      BY <1>1, <1>3, TruncatedTo, Zenon
    <2>7. QED
      BY <1>1, <1>3, <2>1, <2>2, <2>3, <2>5, <2>6, Zenon DEF exact
  <1>12. QED
    BY <1>4, <1>5, <1>6, <1>7, <1>8, <1>9, <1>10, <1>11 DEF ToInt, TruncInt

(* First part of IntegersRounded: conversions to an integer.               *)
LEMMA IntegersConverted ==
  ASSUME CallsInv, Done, op \in ToInt \union TruncInt
  PROVE  LET signed == op \in {"to_i32", "to_i64", "to_i32_r_minMag", "to_i64_r_minMag"}
             w == IF op \in {"to_i32", "to_ui32", "to_i32_r_minMag", "to_ui32_r_minMag"}
                  THEN W(F32) ELSE W(F64)
             m == IF op \in TruncInt THEN "minMag" ELSE mode
             r == ToInteger(signed, w, m, Number(F, a))
             neg == Sign(F, a) = 1 /\ ~(AnyNaN /\ op \in TruncInt)
         IN  IF Finite(F, a)
             THEN ret = [r EXCEPT !.fl = IF c = 1 THEN @ ELSE @ \ {"inexact"}]
             ELSE ret = Ret(CASE ~signed -> UIntMax(w) [] signed /\ neg -> IntMin(w)
                              [] OTHER -> IntMax(w), {"invalid"})
  <1> DEFINE signed == op \in ToSigned
             w == IF op \in ToShort THEN W(F32) ELSE W(F64)
             m == IF op \in TruncInt THEN "minMag" ELSE mode
             r == ToInteger(signed, w, m, Number(F, a))
             neg == Sign(F, a) = 1 /\ ~(AnyNaN /\ op \in TruncInt)
             exact == c = 1
             s == IF op \in TruncInt /\ IsNaN(F, a) THEN 0 ELSE Sign(F, a)
             bound == CASE ~signed -> UIntMax(w) [] signed /\ neg -> IntMin(w) [] OTHER -> IntMax(w)
  <1>1. a \in Patterns(F) /\ F \in Formats /\ exact \in BOOLEAN /\ Operands = {a}
    BY ToIntegerState
  <1>2. ret = OnRequest(exact, IntegerWanted)
    BY ToIntegerCalls
  <1>3. AnyNaN <=> IsNaN(F, a)
    BY <1>1 DEF AnyNaN
  <1>4. Finite(F, a) => IntegerWanted = r
    BY Zenon DEF IntegerWanted, Wanted, WantedTrunc
  <1>5. ~Finite(F, a) => IntegerWanted = Outside(signed, w, s)
    <2>1. CASE op \in TruncInt
      BY <2>1, Zenon DEF IntegerWanted, WantedTrunc
    <2>2. CASE op \notin TruncInt
      BY <2>2, Zenon DEF IntegerWanted, Wanted
    <2>3. QED
      BY <2>1, <2>2
  <1>6. neg <=> s = 1
    BY <1>3
  <1> HIDE DEF exact, signed, w, r, s, neg
  <1>7. ASSUME Finite(F, a) PROVE ret = [r EXCEPT !.fl = IF exact THEN @ ELSE @ \ {"inexact"}]
    BY <1>2, <1>4, <1>7 DEF OnRequest
  <1>8. ASSUME ~Finite(F, a) PROVE ret = Ret(bound, {"invalid"})
    <2>1. Outside(signed, w, s) = Ret(bound, {"invalid"})
      BY <1>6 DEF Outside, Least, Greatest
    <2>2. OnRequest(exact, Ret(bound, {"invalid"})) = Ret(bound, {"invalid"})
      BY DEF OnRequest, Ret
    <2>3. QED
      BY <1>2, <1>5, <1>8, <2>1, <2>2
  <1>9. QED
    BY <1>7, <1>8, Zenon DEF exact, signed, w, r, neg, ToSigned, ToShort

(* Second part of IntegersRounded: roundToInt.                             *)
LEMMA IntegralRounded ==
  ASSUME CallsInv, Done, op = "roundToInt"
  PROVE  LET x == Number(F, a)
             r == Rounded(mode, Manageable(W(F), x))
         IN  CASE AnyNaN -> IsNaN(F, ret.v)
               [] ~AnyNaN /\ (x.k >= 0 \/ ~Finite(F, a)) -> ret = Ret(a, {})
               [] OTHER -> /\ Sign(F, ret.v) = Sign(F, a)
                           /\ Cmp(Number(F, ret.v), Num(r.z, 0)) = 0
                           /\ ret.fl = IF c = 1 /\ ~r.exact THEN {"inexact"} ELSE {}
  <1> DEFINE exact == c = 1
             x == Number(F, a)
             r == Rounded(mode, Manageable(W(F), x))
  <1>1. op \notin FromInt /\ op \notin Two /\ op # "mulAdd"
    BY DEF FromInt, Two
  <1>2. a \in Patterns(F) /\ F \in Formats /\ Operands = {a} /\ exact \in BOOLEAN
    BY <1>1, OperandsInv DEF Operands
  <1>3. mode \in Modes
    BY DEF CallsInv, ModesOf, Moded
  <1>4. Bias(F) > F.f
    <2>1. Bias(F) > W(F64)
      BY <1>2, ConversionsFit, WidthsSuit
    <2>2. F.f \in Nat /\ F.e \in Nat /\ W(F) = 1 + F.e + F.f /\ W(F) <= W(F64) /\ W(F64) \in Nat /\ Bias(F) \in Nat
      BY <1>2, FormatWidths, FieldPlaces DEF Formats
    <2>3. QED
      BY <2>1, <2>2
  <1>5. ret = IF bits = 32 THEN f32_roundToInt(mode, exact, a) ELSE f64_roundToInt(mode, exact, a)
    BY DEF CallsInv, Result32, Result64
  <1> HIDE DEF exact
  <1>6. ret = RoundToInt(F, mode, exact, a)
    <2>1. CASE bits = 32
      BY <1>5, <2>1, Zenon DEF F, f32_roundToInt
    <2>2. CASE bits # 32
      BY <1>5, <2>2, Zenon DEF F, f64_roundToInt
    <2>3. QED
      BY <2>1, <2>2
  <1>7. AnyNaN <=> IsNaN(F, a)
    BY <1>2 DEF AnyNaN
  <1>8. /\ IsNaN(F, a) => ret = PropagateNaN(F, a, 0)
        /\ ~IsNaN(F, a) /\ (x.k >= 0 \/ ~Finite(F, a)) => ret = Ret(a, {})
        /\ Finite(F, a) /\ x.k < 0 => IntegralWanted(F, mode, exact, a, ret)
    BY <1>2, <1>3, <1>4, <1>6, IntegralRight, Zenon
  <1>9. IsNaN(F, a) => IsNaN(F, ret.v)
    BY <1>2, <1>8, NaNResults, DefaultIsNaN
  <1>10. x.k \in Int
    BY <1>2, NumberIs, MagnitudeTop
  <1>11. ~IsNaN(F, a) /\ ~(x.k >= 0 \/ ~Finite(F, a)) =>
             /\ Sign(F, ret.v) = Sign(F, a)
             /\ Cmp(Number(F, ret.v), Num(r.z, 0)) = 0
             /\ ret.fl = IF exact /\ ~r.exact THEN {"inexact"} ELSE {}
    BY <1>8, <1>10 DEF IntegralWanted
  <1> HIDE DEF x, r
  <1>12. (CASE AnyNaN -> IsNaN(F, ret.v)
           [] ~AnyNaN /\ (x.k >= 0 \/ ~Finite(F, a)) -> ret = Ret(a, {})
           [] OTHER -> /\ Sign(F, ret.v) = Sign(F, a)
                       /\ Cmp(Number(F, ret.v), Num(r.z, 0)) = 0
                       /\ ret.fl = IF exact /\ ~r.exact THEN {"inexact"} ELSE {})
    BY <1>7, <1>8, <1>9, <1>11
  <1>13. QED
    BY <1>12, Zenon DEF x, r, exact

(* Third part of IntegersRounded: integers made floats.                    *)
LEMMA IntegersFloated ==
  ASSUME CallsInv, Done, op \in FromInt
  PROVE  ret.fl = IF Cmp(Number(R, ret.v), Num(a, 0)) = 0 THEN {} ELSE {"inexact"}
  <1>1. R = F
    BY DEF R, FromInt
  <1>2. Bias(F32) > W(F64) /\ Bias(F64) > W(F64)
    <2>1. IntegerWidths
      BY ConversionsFit
    <2>2. QED
      BY <2>1, WidthsSuit DEF Formats
  <1>3. mode \in Modes
    BY DEF CallsInv, ModesOf, Moded
  <1>4. ret = IF bits = 32 THEN Result32(a, b, c) ELSE Result64(a, b, c)
    BY DEF CallsInv
  <1>5. a \in FirstOf(op, bits) /\ bits \in {32, 64}
    BY DEF CallsInv, Library
  <1>6. F = IF bits = 32 THEN F32 ELSE F64
    BY DEF F
  <1>7. 2 ^ W(F32) \in Nat \ {0} /\ 2 ^ W(F64) \in Nat \ {0}
    <2>1. W(F32) \in 0..Widest /\ W(F64) \in 0..Widest
      BY FormatWidths DEF Widest
    <2>2. QED
      BY <2>1, Powers
  <1>8. CASE op = "from_i32"
    <2>1. a \in Ints32
      BY <1>5, <1>8 DEF FirstOf, Two
    <2>2. a \in IntMin(W(F32))..IntMax(W(F32))
      BY <2>1, CallsAssumption
    <2>3. SaysInexact(F32, i32_to_f32(mode, a), a) /\ SaysInexact(F64, i32_to_f64(a), a)
      BY <1>2, <1>3, <2>2, FromIntegers
    <2>4. ret = IF bits = 32 THEN i32_to_f32(mode, a) ELSE i32_to_f64(a)
      BY <1>4, <1>8 DEF Result32, Result64
    <2>5. QED
      BY <1>1, <1>6, <2>3, <2>4 DEF SaysInexact
  <1>9. CASE op = "from_i64"
    <2>1. a \in Ints64
      BY <1>5, <1>9 DEF FirstOf, Two
    <2>2. a \in IntMin(W(F64))..IntMax(W(F64))
      BY <2>1, CallsAssumption
    <2>3. SaysInexact(F32, i64_to_f32(mode, a), a) /\ SaysInexact(F64, i64_to_f64(mode, a), a)
      BY <1>2, <1>3, <2>2, FromIntegers
    <2>4. ret = IF bits = 32 THEN i64_to_f32(mode, a) ELSE i64_to_f64(mode, a)
      BY <1>4, <1>9 DEF Result32, Result64
    <2>5. QED
      BY <1>1, <1>6, <2>3, <2>4 DEF SaysInexact
  <1>10. CASE op = "from_ui32"
    <2>1. PICK x \in Ints32 : a = x % 2 ^ W(F32)
      BY <1>5, <1>10 DEF FirstOf, Two
    <2>2. a \in 0..(2 ^ W(F32) - 1)
      <3>1. x \in Int
        BY CallsAssumption DEF IntMin, IntMax
      <3>2. QED
        BY <1>7, <2>1, <3>1, Division
    <2>3. SaysInexact(F32, ui32_to_f32(mode, a), a) /\ SaysInexact(F64, ui32_to_f64(a), a)
      BY <1>2, <1>3, <2>2, FromIntegers
    <2>4. ret = IF bits = 32 THEN ui32_to_f32(mode, a) ELSE ui32_to_f64(a)
      BY <1>4, <1>10 DEF Result32, Result64
    <2>5. QED
      BY <1>1, <1>6, <2>3, <2>4 DEF SaysInexact
  <1>11. CASE op = "from_ui64"
    <2>1. PICK x \in Ints64 : a = x % 2 ^ W(F64)
      BY <1>5, <1>11 DEF FirstOf, Two
    <2>2. a \in 0..(2 ^ W(F64) - 1)
      <3>1. x \in Int
        BY CallsAssumption DEF IntMin, IntMax
      <3>2. QED
        BY <1>7, <2>1, <3>1, Division
    <2>3. SaysInexact(F32, ui64_to_f32(mode, a), a) /\ SaysInexact(F64, ui64_to_f64(mode, a), a)
      BY <1>2, <1>3, <2>2, FromIntegers
    <2>4. ret = IF bits = 32 THEN ui64_to_f32(mode, a) ELSE ui64_to_f64(mode, a)
      BY <1>4, <1>11 DEF Result32, Result64
    <2>5. QED
      BY <1>1, <1>6, <2>3, <2>4 DEF SaysInexact
  <1>12. QED
    BY <1>8, <1>9, <1>10, <1>11 DEF FromInt

(* The three parts together.                                               *)
LEMMA IntegersRoundedInv == CallsInv => IntegersRounded
  <1>1. SUFFICES ASSUME CallsInv PROVE IntegersRounded
    OBVIOUS
  <1>2. QED
    BY <1>1, IntegersConverted, IntegralRounded, IntegersFloated, Zenon DEF IntegersRounded

(* A conversion between numbers and integers of either width, in any       *)
(* rounding mode and for every operand, gives the number rounded as the    *)
(* mode says, or the bound of the type with invalid, and inexact exactly   *)
(* when the result is another number (and was asked to say so).            *)
THEOREM IntegersRoundedAlways == Spec => []IntegersRounded
  BY CallsInductive, IntegersRoundedInv, PTL

=============================================================================
