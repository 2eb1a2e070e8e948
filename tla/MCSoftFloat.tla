---------------------------- MODULE MCSoftFloat ----------------------------
EXTENDS SoftFloatCalls

Both(ops) == ops \X {32, 64}
Arithmetic == Both({"add", "sub", "mul", "div", "rem", "sqrt", "mulAdd",
                    "eq", "eq_signaling", "le", "le_quiet", "lt", "lt_quiet", "classify"})
              \union {<<"narrow", 64>>, <<"widen", 32>>}
Conversions == Both(ToInt \union TruncInt \union FromInt \union {"roundToInt"})
               \union {<<"narrow", 64>>, <<"widen", 32>>}

(* Patterns of format G with the given exponents and fractions; fractions  *)
(* and integers next to a power of two.                                    *)
Patterns(G, exps, fracs) == {Pack(G, s, e, f) : s \in {0, 1}, e \in exps, f \in fracs}
NearPowers(n, d) == {2 ^ i + j : i \in 0..n, j \in -d..d}
Fracs(G) == {0} \union (NearPowers(G.f, 1) \intersect 0..(Hidden(G) - 1))

AllSingles == 0..(2 ^ W(F32) - 1)
PairsOfSingles == Patterns(F32, {0, 1, 2, 7, 8, 13, 14, 15}, 0..(Hidden(F32) - 1))
FewSingles == Patterns(F32, {0, 1, 7, 14}, {0, 3}) \union {Pack(F32, 1, 15, 0), Pack(F32, 0, 15, 1)}

AnyDoubles == Patterns(F64, 0..ExpMax(F64), Fracs(F64))
PairsOfDoubles == Patterns(F64, {0, 1, 15, 16, 30, 31}, {0, 1, 171, 255})
FewDoubles == Patterns(F64, {0, 9, 15, 30}, {0, 171}) \union {Pack(F64, 0, 31, 0), Pack(F64, 0, 31, 3)}

(* For the conversions: exponents where the number, or the integer, is at  *)
(* an end of the range of the type it is converted to.                     *)
EdgeDoubles ==
    Patterns(F64, {0, 1} \union 26..36 \union 60..86 \union 93..96 \union {126, 127}, Fracs(F64))
AllInts32 == IntMin(W(F32))..IntMax(W(F32))
EdgeInts64 ==
    {i \in UNION {{x, -x} : x \in {0} \union NearPowers(W(F64) - 1, 3)} : i \in IntMin(W(F64))..IntMax(W(F64))}
=============================================================================
