--------------------------- MODULE SoftFloat_proof ---------------------------
(***************************************************************************)
(* What the routines of SoftFloat are built from, for formats of any       *)
(* width: powers of two, division, the length of a word, the fields of a   *)
(* pattern.  The prover has no laws of exponentiation; what is needed of   *)
(* them comes from PowersAssumption, by induction as the least number that *)
(* would be a counterexample.  On these rest the routines themselves: the  *)
(* order of patterns, special operands, and every conversion between       *)
(* numbers and integers.                                                   *)
(***************************************************************************)
EXTENDS FloatReference, FiniteSetTheorems, WellFoundedInduction, TLAPS

-----------------------------------------------------------------------------
(* Powers of two.                                                          *)

(* The largest exponent there is need of.                                  *)
Widest == W(F64) + 2

(* The widths of the formats.                                              *)
LEMMA FormatWidths ==
  /\ \A F \in {F32, F64} : /\ F.e \in Nat /\ F.e >= 4 /\ F.f \in Nat /\ F.f >= 2
                           /\ W(F) \in Nat /\ W(F) = 1 + F.e + F.f /\ W(F) <= W(F64)
  /\ Widest \in Nat /\ Widest >= 9 /\ IntGuard \in Nat /\ IntGuard >= 2
  BY FormatAssumption DEF F32, F64, W, Widest

(* Every non-empty set of naturals has a least element.                    *)
LEMMA LeastNumber ==
  ASSUME NEW T \in SUBSET Nat, T # {}
  PROVE  \E n \in T : \A k \in T : n <= k
  <1> DEFINE Less == OpToRel(<, Nat)
  <1>1. IsWellFoundedOn(Less, Nat)
    BY NatLessThanWellFounded
  <1>2. \A x, y \in Nat : <<y, x>> \in Less <=> y < x
    BY DEF OpToRel
  <1> HIDE DEF Less
  <1>3. PICK n \in T : \A k \in T : ~ (<<k, n>> \in Less)
    BY <1>1, WFMin
  <1>4. \A k \in T : ~ (k < n)
    BY <1>2, <1>3
  <1>5. QED
    BY <1>4

(* PowersAssumption, for the exponents named.                              *)
LEMMA PowerStep == \A n \in 0..Widest : 2 ^ n = IF n = 0 THEN 1 ELSE 2 * 2 ^ (n - 1)
  BY PowersAssumption DEF Widest

(* Powers of two are positive, and add in the exponent.                    *)
LEMMA Powers ==
  /\ 2 ^ 0 = 1
  /\ \A n \in 0..Widest : 2 ^ n \in Nat \ {0}
  <1> DEFINE bad == {n \in 0..Widest : 2 ^ n \notin Nat \ {0}}
  <1>1. bad = {}
    <2>1. SUFFICES ASSUME bad # {} PROVE FALSE
      OBVIOUS
    <2>2. PICK t \in bad : \A s \in bad : t <= s
      <3>1. bad \in SUBSET Nat
        BY FormatWidths
      <3> HIDE DEF bad
      <3>2. QED
        BY <2>1, <3>1, LeastNumber
    <2>3. t # 0
      BY <2>2, PowerStep
    <2> DEFINE k == t - 1
    <2>4. k \in 0..Widest /\ 2 ^ k \in Nat \ {0}
      BY <2>2, <2>3, FormatWidths
    <2>5. 2 ^ t = 2 * 2 ^ k
      BY <2>2, <2>3, PowerStep
    <2> HIDE DEF k
    <2>6. QED
      BY <2>2, <2>4, <2>5
  <1>2. QED
    BY <1>1

(* The power of a sum is the product of the powers.                        *)
LEMMA PowerSum ==
  ASSUME NEW m \in Nat, NEW n \in Nat, m + n <= Widest
  PROVE  2 ^ (m + n) = 2 ^ m * 2 ^ n
  <1> DEFINE bad == {k \in 0..n : 2 ^ (m + k) # 2 ^ m * 2 ^ k}
  <1>1. bad = {}
    <2>1. SUFFICES ASSUME bad # {} PROVE FALSE
      OBVIOUS
    <2>2. PICK t \in bad : \A s \in bad : t <= s
      <3>1. bad \in SUBSET Nat
        OBVIOUS
      <3> HIDE DEF bad
      <3>2. QED
        BY <2>1, <3>1, LeastNumber
    <2>3. \A k \in 0..Widest : 2 ^ k \in Int
      BY Powers
    <2>4. t # 0
      <3>1. m \in 0..Widest /\ m + 0 = m
        BY FormatWidths
      <3>2. 2 ^ m * 1 = 2 ^ m
        BY <2>3, <3>1
      <3>3. \A k : k = 0 => 2 ^ k = 1
        BY PowerStep, FormatWidths
      <3>4. QED
        BY <2>2, <3>1, <3>2, <3>3
    <2> DEFINE k == t - 1
    <2>5. /\ k \in 0..n /\ k \notin bad /\ k \in 0..Widest /\ m \in 0..Widest /\ m + k \in 0..Widest
          /\ t \in 0..Widest /\ m + t \in 0..Widest /\ (m + t) - 1 = m + k /\ m + t # 0
      BY <2>2, <2>4, FormatWidths
    <2>6. 2 ^ (m + k) = 2 ^ m * 2 ^ k /\ 2 ^ t = 2 * 2 ^ k
      BY <2>4, <2>5, PowerStep
    <2>7. 2 ^ (m + t) = 2 * 2 ^ (m + k)
      BY <2>5, PowerStep
    <2> HIDE DEF k
    <2>8. 2 ^ m \in Int /\ 2 ^ k \in Int
      BY <2>3, <2>5
    <2>9. 2 * (2 ^ m * 2 ^ k) = 2 ^ m * (2 * 2 ^ k)
      BY <2>8
    <2>10. QED
      BY <2>2, <2>6, <2>7, <2>9
  <1>2. n \in 0..n
    OBVIOUS
  <1>3. QED
    BY <1>1, <1>2

-----------------------------------------------------------------------------
(* Division.                                                               *)

(* Quotient and remainder of any integer.                                  *)
LEMMA Division ==
  ASSUME NEW v \in Int, NEW d \in Nat \ {0}
  PROVE  /\ v = (v % d) + d * (v \div d)
         /\ v % d \in Int /\ 0 <= v % d /\ v % d < d /\ v \div d \in Int
  OBVIOUS

(* Division by a positive number, whichever it is.                         *)
LEMMA Divides ==
  ASSUME NEW r \in Int, NEW q \in Int, NEW d \in Nat \ {0}, 0 <= r, r < d
  PROVE  (r + d * q) \div d = q /\ (r + d * q) % d = r
  OBVIOUS

(* A low part below d and a high part below e make a number below d * e.   *)
LEMMA Digits2 ==
  ASSUME NEW d \in Nat \ {0}, NEW e \in Nat \ {0}, NEW r \in Int, NEW q \in Int,
         0 <= r, r < d, 0 <= q, q < e
  PROVE  0 <= r + d * q /\ r + d * q < d * e
  <1>1. q + 1 <= e /\ d * (q + 1) = d * q + d
    OBVIOUS
  <1>2. d * (q + 1) <= d * e
    BY <1>1
  <1>3. 0 <= d * q
    OBVIOUS
  <1>4. QED
    BY <1>1, <1>2, <1>3

(* A larger exponent is a larger power.                                    *)
LEMMA PowerOrder ==
  ASSUME NEW m \in 0..Widest, NEW n \in 0..Widest, m <= n
  PROVE  2 ^ m <= 2 ^ n
  <1>1. m \in Nat /\ n - m \in 0..Widest /\ m + (n - m) = n /\ n - m \in Nat
    BY FormatWidths
  <1>2. 2 ^ n = 2 ^ m * 2 ^ (n - m)
    BY <1>1, PowerSum, FormatWidths
  <1>3. 2 ^ m \in Nat \ {0} /\ 2 ^ (n - m) \in Nat \ {0}
    BY <1>1, Powers
  <1>4. \A x, y \in Nat \ {0} : x <= x * y
    OBVIOUS
  <1>5. QED
    BY <1>2, <1>3, <1>4

(* A power of two below another is at most half of it.                     *)
LEMMA PowerHalf ==
  ASSUME NEW m \in 0..Widest, NEW n \in 0..Widest, m < n
  PROVE  2 * 2 ^ m <= 2 ^ n
  <1>1. n # 0 /\ n - 1 \in 0..Widest /\ m <= n - 1
    BY FormatWidths
  <1>2. 2 ^ n = 2 * 2 ^ (n - 1)
    BY <1>1, PowerStep
  <1>3. 2 ^ m <= 2 ^ (n - 1) /\ 2 ^ m \in Nat /\ 2 ^ (n - 1) \in Nat
    BY <1>1, PowerOrder, Powers
  <1>4. QED
    BY <1>2, <1>3

-----------------------------------------------------------------------------
(* The length of a word.                                                   *)

(* The number of bits of x is the one that fits.                           *)
LEMMA BitLengthIs ==
  ASSUME NEW x \in Nat, NEW n \in 0..Widest,
         x < 2 ^ n, n = 0 \/ 2 ^ (n - 1) <= x
  PROVE  BitLength(x) = n
  <1> DEFINE P(b) == x < 2 ^ b /\ \A k \in 0..(b - 1) : 2 ^ k <= x
  <1>1. n \in 0..(2 * W(F64))
    BY FormatWidths DEF Widest
  <1>2. \A k \in 0..Widest : 2 ^ k \in Nat
    BY Powers
  <1>3. ASSUME NEW k \in 0..(n - 1) PROVE 2 ^ k <= x
    <2>1. n # 0 /\ k \in 0..Widest /\ n - 1 \in 0..Widest /\ k <= n - 1
      BY FormatWidths
    <2>2. 2 ^ k <= 2 ^ (n - 1)
      BY <2>1, PowerOrder
    <2>3. QED
      BY <1>2, <2>1, <2>2
  <1>4. ASSUME NEW b \in 0..(2 * W(F64)), P(b) PROVE b = n
    <2>1. CASE b < n
      <3>1. b \in 0..(n - 1) /\ b \in 0..Widest
        BY <2>1, FormatWidths
      <3>2. QED
        BY <1>2, <1>3, <1>4, <3>1
    <2>2. CASE n < b
      <3>1. n \in 0..(b - 1)
        BY <2>2
      <3>2. QED
        BY <1>2, <1>4, <3>1
    <2>3. b \in Int /\ n \in Int
      OBVIOUS
    <2>4. QED
      BY <2>1, <2>2, <2>3
  <1>5. P(n)
    BY <1>3
  <1>6. BitLength(x) = CHOOSE b \in 0..(2 * W(F64)) : P(b)
    BY DEF BitLength
  <1> HIDE DEF P
  <1>7. QED
    BY <1>1, <1>4, <1>5, <1>6

(* Every word has a length.                                                *)
LEMMA BitLengthOf ==
  ASSUME NEW w \in 0..Widest, NEW x \in 0..(2 ^ w - 1)
  PROVE  /\ BitLength(x) \in 0..w
         /\ x < 2 ^ BitLength(x)
         /\ BitLength(x) = 0 <=> x = 0
         /\ BitLength(x) # 0 => 2 ^ (BitLength(x) - 1) <= x
  <1> DEFINE fits == {n \in 0..w : x < 2 ^ n}
  <1>1. \A k \in 0..Widest : 2 ^ k \in Nat
    BY Powers
  <1>2. w \in fits /\ fits \in SUBSET Nat /\ x \in Nat /\ w \in 0..w
    BY <1>1
  <1>3. PICK n \in fits : \A k \in fits : n <= k
    <2> HIDE DEF fits
    <2> QED BY <1>2, LeastNumber
  <1>4. n = 0 \/ 2 ^ (n - 1) <= x
    <2>1. SUFFICES ASSUME n # 0 PROVE 2 ^ (n - 1) <= x
      OBVIOUS
    <2>2. n \in 0..w /\ n - 1 \in 0..w /\ n - 1 \in 0..Widest
      BY <1>3, <2>1, FormatWidths
    <2>3. n - 1 \notin fits
      <3> HIDE DEF fits
      <3> QED BY <1>3, <2>2
    <2>4. QED
      BY <1>1, <1>2, <2>2, <2>3
  <1>5. BitLength(x) = n
    <2>1. n \in 0..Widest /\ x < 2 ^ n
      BY <1>3, FormatWidths
    <2>2. QED
      BY <1>2, <1>4, <2>1, BitLengthIs
  <1>6. n = 0 <=> x = 0
    <2>1. n = 0 => x < 1
      BY <1>3, Powers
    <2>2. n # 0 => x # 0
      <3>1. n # 0 => n - 1 \in 0..Widest
        BY <1>3, FormatWidths
      <3>2. n # 0 => 2 ^ (n - 1) >= 1
        BY <3>1, Powers
      <3>3. QED
        BY <1>2, <1>4, <3>2
    <2>3. QED
      BY <1>2, <2>1, <2>2
  <1>7. QED
    BY <1>3, <1>4, <1>5, <1>6

-----------------------------------------------------------------------------
(* The fields of a pattern.                                                *)

Formats == {F32, F64}
Patterns(F) == 0..(2 ^ W(F) - 1)

(* How the places of the fields are related.                               *)
LEMMA FieldPlaces ==
  ASSUME NEW F \in Formats
  PROVE  /\ Hidden(F) \in Nat /\ Hidden(F) >= 4 /\ Hidden(F) = 2 * 2 ^ (F.f - 1) /\ 2 ^ (F.f - 1) \in Nat
         /\ 2 ^ F.e \in Nat /\ ExpMax(F) \in Nat /\ 2 ^ F.e = ExpMax(F) + 1
         /\ Bias(F) \in Nat /\ Bias(F) >= 7 /\ ExpMax(F) = 2 * Bias(F) + 1
         /\ TopBit(F) \in Nat /\ TopBit(F) = 2 ^ F.e * Hidden(F) /\ 2 ^ W(F) = 2 * TopBit(F)
         /\ TopBit(F) = (ExpMax(F) + 1) * Hidden(F)
  <1>1. /\ F.e \in 0..Widest /\ F.f \in 0..Widest /\ F.e + F.f \in 0..Widest /\ W(F) \in 0..Widest
        /\ F.e \in Nat /\ F.f \in Nat /\ F.e # 0 /\ F.f # 0 /\ W(F) # 0 /\ W(F) - 1 = F.e + F.f
        /\ F.e - 1 \in 0..Widest /\ F.f - 1 \in 0..Widest /\ F.e + F.f <= Widest
        /\ 3 \in 0..Widest /\ 2 \in 0..Widest /\ 1 \in 0..Widest /\ 0 \in 0..Widest /\ 3 <= F.e - 1 /\ 2 <= F.f
    BY FormatWidths DEF Formats, Widest
  <1>2. /\ 2 ^ F.f \in Nat /\ 2 ^ F.e \in Nat /\ 2 ^ (F.e - 1) \in Nat /\ 2 ^ (F.f - 1) \in Nat
        /\ 2 ^ (F.e + F.f) \in Nat /\ 2 ^ W(F) \in Nat
    BY <1>1, Powers
  <1>3. 2 ^ 0 = 1 /\ 2 ^ 1 = 2 /\ 2 ^ 2 = 4 /\ 2 ^ 3 = 8
    <2>1. 2 ^ 0 = 1 /\ 2 ^ 1 = 2 * 2 ^ (1 - 1) /\ 2 ^ 2 = 2 * 2 ^ (2 - 1) /\ 2 ^ 3 = 2 * 2 ^ (3 - 1)
      BY <1>1, PowerStep
    <2>2. 1 - 1 = 0 /\ 2 - 1 = 1 /\ 3 - 1 = 2
      OBVIOUS
    <2>3. QED
      BY <2>1, <2>2
  <1>4. 2 ^ (F.e + F.f) = 2 ^ F.e * 2 ^ F.f
    BY <1>1, PowerSum
  <1>5. 2 ^ F.e = 2 * 2 ^ (F.e - 1) /\ 2 ^ F.f = 2 * 2 ^ (F.f - 1) /\ 2 ^ W(F) = 2 * 2 ^ (W(F) - 1)
    BY <1>1, PowerStep
  <1>6. 2 ^ 3 <= 2 ^ (F.e - 1) /\ 2 ^ 2 <= 2 ^ F.f
    BY <1>1, PowerOrder
  <1> DEFINE pe == 2 ^ F.e
             pf == 2 ^ F.f
             pe1 == 2 ^ (F.e - 1)
             pf1 == 2 ^ (F.f - 1)
             top == 2 ^ (W(F) - 1)
             all == 2 ^ W(F)
  <1>7. Hidden(F) = pf /\ ExpMax(F) = pe - 1 /\ Bias(F) = pe1 - 1 /\ TopBit(F) = top /\ top = pe * pf
    BY <1>1, <1>4 DEF Hidden, ExpMax, Bias, TopBit
  <1>8. pe \in Nat /\ pf \in Nat /\ pe1 \in Nat /\ pf1 \in Nat /\ pe = 2 * pe1 /\ pf = 2 * pf1 /\ 8 <= pe1 /\ 4 <= pf /\ all = 2 * top
    BY <1>2, <1>3, <1>5, <1>6
  <1> HIDE DEF pe, pf, pe1, pf1, top, all
  <1>9. top \in Nat /\ pe - 1 \in Nat /\ pe = (pe - 1) + 1
    BY <1>7, <1>8
  <1>10. QED
    BY <1>7, <1>8, <1>9 DEF pe, pf, pe1, pf1, top, all

(* A number of three digits: a sign, and two to the bases p and h.         *)
AreDigits(u, s, e, f, t, p, h) ==
    /\ h \in Nat \ {0} /\ p \in Nat \ {0} /\ t \in Nat \ {0} /\ t = p * h
    /\ s \in {0, 1} /\ e \in 0..(p - 1) /\ f \in 0..(h - 1) /\ u = s * t + e * h + f

(* They are found again by division.                                       *)
LEMMA Digits3 ==
  ASSUME NEW u, NEW s, NEW e, NEW f, NEW t, NEW p, NEW h, AreDigits(u, s, e, f, t, p, h)
  PROVE  /\ u \in 0..(2 * t - 1) /\ u \div t = s /\ u % t = e * h + f
         /\ (u \div h) % p = e /\ u % h = f
         /\ e * h + f \in 0..(t - 1)
  <1> USE DEF AreDigits
  <1>1. PICK low \in Int : low = e * h + f
    OBVIOUS
  <1>2. low \in 0..(t - 1)
    <2>1. 0 <= f + h * e /\ f + h * e < h * p
      BY Digits2
    <2>2. h * p = t /\ low = f + h * e
      BY <1>1
    <2>3. QED
      BY <1>1, <2>1, <2>2
  <1>3. u = low + t * s /\ u \in 0..(2 * t - 1)
    <2>1. s * t = t * s /\ u = s * t + low
      BY <1>1
    <2>2. s = 0 \/ s = 1
      OBVIOUS
    <2>3. QED
      BY <1>2, <2>1, <2>2
  <1>4. u \div t = s /\ u % t = low
    BY <1>2, <1>3, Divides
  <1>5. PICK q \in Int : q = e + p * s
    OBVIOUS
  <1>6. u = f + h * q
    <2>1. h * q = h * e + h * (p * s)
      BY <1>5
    <2>2. h * (p * s) = s * t /\ h * e = e * h
      OBVIOUS
    <2>3. QED
      BY <2>1, <2>2
  <1>7. u \div h = q /\ u % h = f
    BY <1>6, Divides
  <1>8. q % p = e
    BY <1>5, Divides
  <1>9. QED
    BY <1>1, <1>2, <1>3, <1>4, <1>7, <1>8

(* Packing fields and taking them apart again.                             *)
LEMMA Packed ==
  ASSUME NEW F \in Formats, NEW s \in {0, 1}, NEW e \in 0..ExpMax(F), NEW f \in 0..(Hidden(F) - 1)
  PROVE  /\ Pack(F, s, e, f) = s * TopBit(F) + e * Hidden(F) + f /\ Pack(F, s, e, f) \in Patterns(F)
         /\ Sign(F, Pack(F, s, e, f)) = s /\ Exp(F, Pack(F, s, e, f)) = e /\ Frac(F, Pack(F, s, e, f)) = f
         /\ Pack(F, s, e, f) % TopBit(F) = e * Hidden(F) + f
         /\ e * Hidden(F) + f \in 0..(TopBit(F) - 1)
  <1> DEFINE h == Hidden(F)
             p == 2 ^ F.e
             t == TopBit(F)
  <1>1. /\ h \in Nat \ {0} /\ p \in Nat \ {0} /\ t \in Nat \ {0} /\ t = p * h /\ 2 ^ W(F) = 2 * t
        /\ e \in 0..(p - 1) /\ f \in 0..(h - 1)
    BY FieldPlaces
  <1> HIDE DEF h, p, t
  <1>2. PICK u \in Int : u = s * t + e * h + f
    BY <1>1
  <1>3. AreDigits(u, s, e, f, t, p, h)
    BY <1>1, <1>2 DEF AreDigits
  <1>4. /\ u \in 0..(2 * t - 1) /\ u \div t = s /\ u % t = e * h + f
        /\ (u \div h) % p = e /\ u % h = f /\ e * h + f \in 0..(t - 1)
    BY <1>3, Digits3
  <1>5. u % (2 * t) = u
    <2>1. u = u + (2 * t) * 0 /\ 2 * t \in Nat \ {0} /\ 0 <= u /\ u < 2 * t
      BY <1>1, <1>4
    <2>2. QED
      BY <1>2, <2>1, Divides
  <1>6. Pack(F, s, e, f) = u
    BY <1>1, <1>2, <1>5 DEF Pack, h, t
  <1>7. QED
    BY <1>1, <1>2, <1>4, <1>6 DEF Sign, Exp, Frac, Patterns, h, p, t

(* A pattern is its fields.                                                *)
LEMMA Unpacked ==
  ASSUME NEW F \in Formats, NEW u \in Patterns(F)
  PROVE  /\ Sign(F, u) \in {0, 1} /\ Exp(F, u) \in 0..ExpMax(F) /\ Frac(F, u) \in 0..(Hidden(F) - 1)
         /\ u = Sign(F, u) * TopBit(F) + Exp(F, u) * Hidden(F) + Frac(F, u)
         /\ u = Pack(F, Sign(F, u), Exp(F, u), Frac(F, u))
         /\ u % TopBit(F) = Exp(F, u) * Hidden(F) + Frac(F, u)
  <1> DEFINE h == Hidden(F)
             p == 2 ^ F.e
             t == TopBit(F)
             q == u \div h
  <1>1. h \in Nat \ {0} /\ p \in Nat \ {0} /\ t = p * h /\ t \in Nat \ {0} /\ 2 ^ W(F) = 2 * t /\ ExpMax(F) = p - 1
    BY FieldPlaces
  <1>2. u \in Int /\ 0 <= u /\ u < 2 * t
    BY <1>1 DEF Patterns
  <1> HIDE DEF h, p, t
  <1>3. u = (u % h) + h * q /\ u % h \in 0..(h - 1) /\ q \in Int
    BY <1>1, <1>2, Division
  <1>4. q = (q % p) + p * (q \div p) /\ q % p \in 0..(p - 1) /\ q \div p \in Int
    <2> HIDE DEF q
    <2> QED BY <1>1, <1>3, Division
  <1> DEFINE s == q \div p
             e == q % p
             f == u % h
  <1>5. u = s * t + e * h + f
    <2> HIDE DEF q
    <2> DEFINE e1 == e
               s1 == s
    <2>1. q = e1 + p * s1 /\ e1 \in Int /\ s1 \in Int
      BY <1>4
    <2> HIDE DEF e1, s1
    <2>2. h * q = h * e1 + h * (p * s1)
      BY <1>1, <2>1
    <2>3. h * (p * s1) = s1 * (p * h) /\ h * e1 = e1 * h
      BY <1>1, <2>1
    <2>4. u = s1 * t + e1 * h + f
      BY <1>1, <1>3, <2>1, <2>2, <2>3
    <2>5. QED
      BY <2>4 DEF e1, s1
  <1>6. f \in 0..(h - 1) /\ e \in 0..(p - 1) /\ s \in Int
    BY <1>3, <1>4
  <1> HIDE DEF s, e, f, q
  <1>7. s \in {0, 1}
    <2>1. 0 <= f + h * e /\ f + h * e < h * p
      BY <1>1, <1>6, Digits2
    <2>2. h * p = t /\ e * h = h * e
      BY <1>1, <1>6
    <2>3. e * h + f \in Int
      BY <1>1, <1>6
    <2>4. PICK low \in Int : low = e * h + f
      BY <2>3
    <2>5. low \in 0..(t - 1) /\ u = s * t + low
      BY <1>1, <1>5, <1>6, <2>1, <2>2, <2>4
    <2>6. s <= -1 => s * t <= -t
      BY <1>1, <1>6
    <2>7. s >= 2 => s * t >= 2 * t
      BY <1>1, <1>6
    <2>8. s * t \in Int
      BY <1>1, <1>6
    <2>9. ~ (s <= -1) /\ ~ (s >= 2)
      BY <1>1, <1>2, <2>5, <2>6, <2>7, <2>8
    <2>10. QED
      BY <1>6, <2>9
  <1>8. e \in 0..ExpMax(F) /\ f \in 0..(Hidden(F) - 1)
    BY <1>1, <1>6 DEF h
  <1>9. /\ Pack(F, s, e, f) = s * TopBit(F) + e * Hidden(F) + f
        /\ Sign(F, Pack(F, s, e, f)) = s /\ Exp(F, Pack(F, s, e, f)) = e /\ Frac(F, Pack(F, s, e, f)) = f
        /\ Pack(F, s, e, f) % TopBit(F) = e * Hidden(F) + f
    BY <1>7, <1>8, Packed
  <1>10. Pack(F, s, e, f) = u
    BY <1>5, <1>9 DEF t, h
  <1>11. QED
    BY <1>5, <1>7, <1>8, <1>9, <1>10

-----------------------------------------------------------------------------
(* Patterns in the order of their numbers.                                 *)

(* What of a pattern is not its sign.                                      *)
WithoutSign(F, u) == u % TopBit(F)

(* The digits of a number with a larger upper one are a larger number.     *)
LEMMA UpperDigit ==
  ASSUME NEW h \in Nat \ {0}, NEW d \in Nat, NEW e \in Nat, NEW f \in 0..(h - 1), NEW g \in 0..(h - 1), d < e
  PROVE  d * h + f < e * h + g
  <1>1. (d + 1) * h <= e * h
    OBVIOUS
  <1>2. (d + 1) * h = d * h + h /\ d * h \in Int /\ e * h \in Int
    OBVIOUS
  <1>3. QED
    BY <1>1, <1>2

(* The number of a pattern, and its length.                                *)
LEMMA MagnitudeTop ==
  ASSUME NEW F \in Formats, NEW u \in Patterns(F)
  PROVE  LET x == Magnitude(F, u)
         IN  /\ x = Num(x.n, x.k) /\ x.n \in Nat /\ x.k \in Int /\ BitLength(x.n) \in Nat
             /\ Exp(F, u) = 0 => /\ x.n = Frac(F, u) /\ x.k = 1 - Bias(F) - F.f
                                 /\ BitLength(x.n) <= F.f
             /\ Exp(F, u) # 0 => /\ x.n = Frac(F, u) + Hidden(F) /\ x.k = Exp(F, u) - Bias(F) - F.f
                                 /\ BitLength(x.n) = F.f + 1
             /\ x.n = 0 <=> WithoutSign(F, u) = 0
             /\ WithoutSign(F, u) = Exp(F, u) * Hidden(F) + Frac(F, u) /\ WithoutSign(F, u) \in Nat
  <1>1. /\ Exp(F, u) \in 0..ExpMax(F) /\ Frac(F, u) \in 0..(Hidden(F) - 1)
        /\ WithoutSign(F, u) = Exp(F, u) * Hidden(F) + Frac(F, u)
    BY Unpacked DEF WithoutSign
  <1>2. /\ Hidden(F) \in Nat /\ Hidden(F) >= 4 /\ Bias(F) \in Nat /\ ExpMax(F) \in Nat
        /\ Hidden(F) = 2 ^ F.f /\ 2 ^ (F.f + 1) = 2 * Hidden(F) /\ F.f \in Nat
        /\ F.f \in 0..Widest /\ F.f + 1 \in 0..Widest /\ (F.f + 1) - 1 = F.f
    <2>1. F.f \in 0..Widest /\ F.f + 1 \in 0..Widest /\ (F.f + 1) - 1 = F.f /\ F.f + 1 # 0 /\ F.f \in Nat
      BY FormatWidths DEF Formats, Widest
    <2>2. 2 ^ (F.f + 1) = 2 * 2 ^ F.f
      BY <2>1, PowerStep
    <2>3. QED
      BY <2>1, <2>2, FieldPlaces DEF Hidden
  <1> DEFINE e == Exp(F, u)
             f == Frac(F, u)
             h == Hidden(F)
  <1>3. e * h \in Nat /\ (e # 0 => e * h >= h)
    BY <1>1, <1>2
  <1>4. WithoutSign(F, u) \in Nat /\ (WithoutSign(F, u) = 0 <=> e = 0 /\ f = 0)
    BY <1>1, <1>2, <1>3
  <1>5. CASE e = 0
    <2>1. Magnitude(F, u) = Num(f, 1 - Bias(F) - F.f)
      BY <1>5 DEF Magnitude
    <2>2. f \in 0..(2 ^ F.f - 1) /\ f \in Nat
      BY <1>1, <1>2
    <2>3. BitLength(f) \in 0..F.f
      BY <1>2, <2>2, BitLengthOf
    <2>4. 1 - Bias(F) - F.f \in Int
      BY <1>2
    <2> HIDE DEF e, f, h
    <2>5. QED
      BY <1>1, <1>2, <1>4, <1>5, <2>1, <2>2, <2>3, <2>4 DEF Num, e, f, h
  <1>6. CASE e # 0
    <2>1. Magnitude(F, u) = Num(f + h, e - Bias(F) - F.f)
      BY <1>6 DEF Magnitude
    <2>2. f + h \in Nat /\ f + h < 2 ^ (F.f + 1) /\ 2 ^ F.f <= f + h /\ f + h # 0
      BY <1>1, <1>2
    <2>3. BitLength(f + h) = F.f + 1
      BY <1>2, <2>2, BitLengthIs
    <2>4. e - Bias(F) - F.f \in Int
      BY <1>1, <1>2
    <2> HIDE DEF e, f, h
    <2>5. QED
      BY <1>1, <1>2, <1>4, <1>6, <2>1, <2>2, <2>3, <2>4 DEF Num, e, f, h
  <1>7. QED
    BY <1>5, <1>6

(* Without their signs, patterns are in the order of their numbers.        *)
LEMMA MagnitudeOrder ==
  ASSUME NEW F \in Formats, NEW u \in Patterns(F), NEW v \in Patterns(F)
  PROVE  CompareMag(Magnitude(F, u), Magnitude(F, v)) = SignOf(WithoutSign(F, u) - WithoutSign(F, v))
  <1> DEFINE x == Magnitude(F, u)
             y == Magnitude(F, v)
             bx == BitLength(x.n)
             by == BitLength(y.n)
             ex == Exp(F, u)
             ey == Exp(F, v)
             fx == Frac(F, u)
             fy == Frac(F, v)
             h == Hidden(F)
             B == Bias(F)
             p == F.f
  <1>1. /\ x.n \in Nat /\ x.k \in Int /\ bx \in Nat
        /\ ex = 0 => x.n = fx /\ x.k = 1 - B - p /\ bx <= p
        /\ ex # 0 => x.n = fx + h /\ x.k = ex - B - p /\ bx = p + 1
        /\ x.n = 0 <=> WithoutSign(F, u) = 0
        /\ WithoutSign(F, u) = ex * h + fx /\ WithoutSign(F, u) \in Nat
    BY MagnitudeTop
  <1>2. /\ y.n \in Nat /\ y.k \in Int /\ by \in Nat
        /\ ey = 0 => y.n = fy /\ y.k = 1 - B - p /\ by <= p
        /\ ey # 0 => y.n = fy + h /\ y.k = ey - B - p /\ by = p + 1
        /\ y.n = 0 <=> WithoutSign(F, v) = 0
        /\ WithoutSign(F, v) = ey * h + fy /\ WithoutSign(F, v) \in Nat
    BY MagnitudeTop
  <1>3. /\ ex \in Nat /\ ey \in Nat /\ fx \in 0..(h - 1) /\ fy \in 0..(h - 1)
        /\ h \in Nat \ {0} /\ B \in Nat /\ p \in Nat
    BY Unpacked, FieldPlaces, FormatWidths DEF Formats
  <1>4. ex = ey \/ (ex < ey /\ WithoutSign(F, u) < WithoutSign(F, v)) \/ (ey < ex /\ WithoutSign(F, v) < WithoutSign(F, u))
    <2> HIDE DEF x, y, bx, by, ex, ey, fx, fy, h, B, p
    <2>1. ex < ey => ex * h + fx < ey * h + fy
      BY <1>3, UpperDigit
    <2>2. ey < ex => ey * h + fy < ex * h + fx
      BY <1>3, UpperDigit
    <2>3. ex < ey \/ ey < ex \/ ex = ey
      BY <1>3
    <2>4. QED
      BY <1>1, <1>2, <2>1, <2>2, <2>3
  <1>5. ex = ey => WithoutSign(F, u) - WithoutSign(F, v) = fx - fy /\ x.n - y.n = fx - fy /\ x.k = y.k
    <2> HIDE DEF x, y, bx, by, ex, ey, fx, fy, h, B, p
    <2>1. SUFFICES ASSUME ex = ey PROVE WithoutSign(F, u) - WithoutSign(F, v) = fx - fy /\ x.n - y.n = fx - fy /\ x.k = y.k
      OBVIOUS
    <2>2. PICK m \in Int : m = ex * h
      BY <1>3
    <2>3. WithoutSign(F, u) = m + fx /\ WithoutSign(F, v) = m + fy
      BY <1>1, <1>2, <2>1, <2>2
    <2>4. WithoutSign(F, u) - WithoutSign(F, v) = fx - fy
      BY <1>3, <2>2, <2>3
    <2>5. x.n - y.n = fx - fy /\ x.k = y.k
      BY <1>1, <1>2, <1>3, <2>1
    <2>6. QED
      BY <2>4, <2>5
  <1>6. Abs(x.n) = x.n /\ Abs(y.n) = y.n /\ TopOf(x) = bx + x.k /\ TopOf(y) = by + y.k
    BY <1>1, <1>2 DEF Abs, TopOf
  <1>7. ex = 0 /\ ey = 0 /\ bx < by => fx < fy
    <2>1. SUFFICES ASSUME ex = 0, ey = 0, bx < by PROVE fx < fy
      OBVIOUS
    <2>2. /\ fx \in 0..(2 ^ p - 1) /\ fy \in 0..(2 ^ p - 1) /\ p \in 0..Widest /\ x.n = fx /\ y.n = fy
          /\ bx <= p /\ by <= p
      BY <1>1, <1>2, <1>3, <2>1, FormatWidths DEF Hidden, Formats, Widest
    <2>3. /\ fx < 2 ^ bx /\ (by # 0 => 2 ^ (by - 1) <= fy)
      BY <2>2, BitLengthOf
    <2>4. /\ by # 0 /\ by - 1 \in 0..Widest /\ bx \in 0..Widest /\ bx <= by - 1
      BY <1>1, <1>2, <2>1, <2>2, FormatWidths
    <2>5. 2 ^ bx <= 2 ^ (by - 1) /\ 2 ^ bx \in Nat /\ 2 ^ (by - 1) \in Nat
      BY <2>4, PowerOrder, Powers
    <2>6. QED
      BY <1>3, <2>3, <2>4, <2>5
  <1>8. ex = 0 /\ ey = 0 /\ by < bx => fy < fx
    <2>1. SUFFICES ASSUME ex = 0, ey = 0, by < bx PROVE fy < fx
      OBVIOUS
    <2>2. /\ fx \in 0..(2 ^ p - 1) /\ fy \in 0..(2 ^ p - 1) /\ p \in 0..Widest /\ x.n = fx /\ y.n = fy
          /\ bx <= p /\ by <= p
      BY <1>1, <1>2, <1>3, <2>1, FormatWidths DEF Hidden, Formats, Widest
    <2>3. /\ fy < 2 ^ by /\ (bx # 0 => 2 ^ (bx - 1) <= fx)
      BY <2>2, BitLengthOf
    <2>4. /\ bx # 0 /\ bx - 1 \in 0..Widest /\ by \in 0..Widest /\ by <= bx - 1
      BY <1>1, <1>2, <2>1, <2>2, FormatWidths
    <2>5. 2 ^ by <= 2 ^ (bx - 1) /\ 2 ^ by \in Nat /\ 2 ^ (bx - 1) \in Nat
      BY <2>4, PowerOrder, Powers
    <2>6. QED
      BY <1>3, <2>3, <2>4, <2>5
  <1>9. CompareMag(x, y) =
          CASE x.n = 0 \/ y.n = 0 -> SignOf(x.n - y.n)
            [] x.n # 0 /\ y.n # 0 /\ bx + x.k # by + y.k -> SignOf((bx + x.k) - (by + y.k))
            [] OTHER -> LET k == IF x.k < y.k THEN x.k ELSE y.k
                        IN  SignOf(x.n * 2 ^ (x.k - k) - y.n * 2 ^ (y.k - k))
    <2> HIDE DEF x, y, bx, by
    <2> QED BY <1>6 DEF CompareMag
  <1> HIDE DEF x, y, bx, by, ex, ey, fx, fy, h, B, p
  <1>10. CASE x.n = 0 \/ y.n = 0
    <2>1. CompareMag(x, y) = SignOf(x.n - y.n)
      BY <1>9, <1>10
    <2>2. SignOf(x.n - y.n) = SignOf(WithoutSign(F, u) - WithoutSign(F, v))
      BY <1>1, <1>2, <1>10 DEF SignOf
    <2>3. QED
      BY <2>1, <2>2 DEF x, y
  <1>11. CASE x.n # 0 /\ y.n # 0 /\ bx + x.k # by + y.k
    <2>1. CompareMag(x, y) = SignOf((bx + x.k) - (by + y.k))
      BY <1>9, <1>11
    <2>2. \/ bx + x.k < by + y.k /\ WithoutSign(F, u) < WithoutSign(F, v)
          \/ by + y.k < bx + x.k /\ WithoutSign(F, v) < WithoutSign(F, u)
      BY <1>1, <1>2, <1>3, <1>4, <1>5, <1>7, <1>8, <1>11
    <2>3. SignOf((bx + x.k) - (by + y.k)) = SignOf(WithoutSign(F, u) - WithoutSign(F, v))
      BY <1>1, <1>2, <2>2 DEF SignOf
    <2>4. QED
      BY <2>1, <2>3 DEF x, y
  <1>12. CASE ~ (x.n = 0 \/ y.n = 0) /\ bx + x.k = by + y.k
    <2>1. x.k = y.k /\ ex = ey
      BY <1>1, <1>2, <1>3, <1>12
    <2>2. CompareMag(x, y) = SignOf(x.n * 2 ^ (x.k - x.k) - y.n * 2 ^ (y.k - x.k))
      BY <1>9, <1>12, <2>1
    <2>3. x.k - x.k = 0 /\ y.k - x.k = 0
      BY <1>1, <2>1
    <2>4. x.n * 1 = x.n /\ y.n * 1 = y.n
      BY <1>1, <1>2
    <2>5. CompareMag(x, y) = SignOf(x.n - y.n)
      BY <2>2, <2>3, <2>4, Powers
    <2>6. x.n - y.n = WithoutSign(F, u) - WithoutSign(F, v)
      BY <1>5, <2>1
    <2>7. QED
      BY <2>5, <2>6 DEF x, y
  <1>13. QED
    BY <1>10, <1>11, <1>12 DEF x, y

(* The number of a pattern is that of its size, with its sign.             *)
LEMMA NumberIs ==
  ASSUME NEW F \in Formats, NEW u \in Patterns(F)
  PROVE  /\ Number(F, u).k = Magnitude(F, u).k /\ Number(F, u).n \in Int
         /\ Number(F, u) = Num(Number(F, u).n, Number(F, u).k)
         /\ Number(F, u).n = IF Sign(F, u) = 1 THEN -Magnitude(F, u).n ELSE Magnitude(F, u).n
         /\ Abs(Number(F, u).n) = Magnitude(F, u).n /\ TopOf(Number(F, u)) = TopOf(Magnitude(F, u))
         /\ Abs(Magnitude(F, u).n) = Magnitude(F, u).n
         /\ SignOf(Number(F, u).n) = IF WithoutSign(F, u) = 0 THEN 0 ELSE IF Sign(F, u) = 1 THEN -1 ELSE 1
  <1> DEFINE x == Magnitude(F, u)
  <1>1. x = Num(x.n, x.k) /\ x.n \in Nat /\ (x.n = 0 <=> WithoutSign(F, u) = 0)
    BY MagnitudeTop
  <1>2. Number(F, u) = Num(IF Sign(F, u) = 1 THEN -x.n ELSE x.n, x.k)
    <2> HIDE DEF x
    <2> QED BY <1>1 DEF Number, Minus, x
  <1> HIDE DEF x
  <1>3. Number(F, u).n = (IF Sign(F, u) = 1 THEN -x.n ELSE x.n) /\ Number(F, u).k = x.k
    BY <1>2 DEF Num
  <1>4. Abs(Number(F, u).n) = x.n /\ Abs(x.n) = x.n
    BY <1>1, <1>3 DEF Abs
  <1>5. TopOf(Number(F, u)) = TopOf(x)
    BY <1>3, <1>4 DEF TopOf
  <1>6. SignOf(Number(F, u).n) = IF WithoutSign(F, u) = 0 THEN 0 ELSE IF Sign(F, u) = 1 THEN -1 ELSE 1
    BY <1>1, <1>3 DEF SignOf
  <1>7. QED
    BY <1>1, <1>2, <1>3, <1>4, <1>5, <1>6 DEF x

(* Magnitudes are compared without the signs.                              *)
LEMMA SignlessOrder ==
  ASSUME NEW F \in Formats, NEW u \in Patterns(F), NEW v \in Patterns(F)
  PROVE  /\ CompareMag(Number(F, u), Number(F, v)) = SignOf(WithoutSign(F, u) - WithoutSign(F, v))
         /\ CompareMag(Number(F, u), Magnitude(F, v)) = SignOf(WithoutSign(F, u) - WithoutSign(F, v))
  <1> DEFINE x == Magnitude(F, u)
             y == Magnitude(F, v)
             X == Number(F, u)
             Y == Number(F, v)
  <1>1. CompareMag(x, y) = SignOf(WithoutSign(F, u) - WithoutSign(F, v))
    BY MagnitudeOrder
  <1>2. X.k = x.k /\ Abs(X.n) = Abs(x.n) /\ TopOf(X) = TopOf(x) /\ (X.n = 0 <=> x.n = 0)
    BY NumberIs, MagnitudeTop
  <1>3. Y.k = y.k /\ Abs(Y.n) = Abs(y.n) /\ TopOf(Y) = TopOf(y) /\ (Y.n = 0 <=> y.n = 0)
    BY NumberIs, MagnitudeTop
  <1> HIDE DEF x, y, X, Y
  <1>4. CompareMag(X, Y) = CompareMag(x, y) /\ CompareMag(X, y) = CompareMag(x, y)
    BY <1>2, <1>3 DEF CompareMag
  <1>5. QED
    BY <1>1, <1>4 DEF x, y, X, Y

(* The tests on words order any two patterns as their numbers.             *)
LEMMA OrderRight ==
  ASSUME NEW F \in Formats, NEW u \in Patterns(F), NEW v \in Patterns(F)
  PROVE  LET d == Cmp(Number(F, u), Number(F, v))
         IN  /\ d \in {-1, 0, 1}
             /\ Eq(F, u, v) <=> d = 0
             /\ Le(F, u, v) <=> d <= 0
             /\ Lt(F, u, v) <=> d < 0
  <1> DEFINE X == Number(F, u)
             Y == Number(F, v)
             s == Sign(F, u)
             t == Sign(F, v)
             z == WithoutSign(F, u)
             w == WithoutSign(F, v)
             T == TopBit(F)
  <1>1. /\ SignOf(X.n) = (IF z = 0 THEN 0 ELSE IF s = 1 THEN -1 ELSE 1)
        /\ SignOf(Y.n) = (IF w = 0 THEN 0 ELSE IF t = 1 THEN -1 ELSE 1)
    BY NumberIs
  <1>2. CompareMag(X, Y) = SignOf(z - w)
    BY SignlessOrder
  <1>3. /\ s \in {0, 1} /\ t \in {0, 1} /\ z \in Nat /\ w \in Nat /\ T \in Nat
        /\ u = s * T + z /\ v = t * T + w /\ z < T /\ w < T
    <2>1. /\ s \in {0, 1} /\ Exp(F, u) \in 0..ExpMax(F) /\ Frac(F, u) \in 0..(Hidden(F) - 1)
          /\ u = s * T + Exp(F, u) * Hidden(F) + Frac(F, u) /\ z = Exp(F, u) * Hidden(F) + Frac(F, u)
      BY Unpacked DEF WithoutSign
    <2>2. /\ t \in {0, 1} /\ Exp(F, v) \in 0..ExpMax(F) /\ Frac(F, v) \in 0..(Hidden(F) - 1)
          /\ v = t * T + Exp(F, v) * Hidden(F) + Frac(F, v) /\ w = Exp(F, v) * Hidden(F) + Frac(F, v)
      BY Unpacked DEF WithoutSign
    <2>3. z \in 0..(T - 1) /\ w \in 0..(T - 1)
      BY <2>1, <2>2, Packed
    <2>4. T \in Nat /\ Hidden(F) \in Nat /\ ExpMax(F) \in Nat
      BY FieldPlaces
    <2> HIDE DEF X, Y, s, t, z, w, T
    <2>5. /\ s * T \in Int /\ t * T \in Int /\ Exp(F, u) * Hidden(F) \in Int /\ Exp(F, v) * Hidden(F) \in Int
      BY <2>1, <2>2, <2>4
    <2>6. u = s * T + z /\ v = t * T + w
      BY <2>1, <2>2, <2>5
    <2>7. QED
      BY <2>1, <2>2, <2>3, <2>4, <2>6
  <1>4. BothZero(F, u, v) <=> z = 0 /\ w = 0
    BY DEF BothZero, WithoutSign
  <1> HIDE DEF X, Y, s, t, z, w, T
  <1>5. Cmp(X, Y) = IF SignOf(X.n) # SignOf(Y.n) THEN SignOf(SignOf(X.n) - SignOf(Y.n))
                    ELSE SignOf(X.n) * SignOf(z - w)
    BY <1>2 DEF Cmp
  <1>6. /\ s = t => (u = v <=> z = w) /\ (u < v <=> z < w)
        /\ s # t => u # v
    BY <1>3
  <1>7. z < w \/ z = w \/ w < z
    BY <1>3
  <1>8. /\ z < w => SignOf(z - w) = -1
        /\ z = w => SignOf(z - w) = 0
        /\ w < z => SignOf(z - w) = 1
    BY <1>3 DEF SignOf
  <1> DEFINE d == Cmp(X, Y)
  <1>9. d = CASE s = 0 /\ t = 0 -> SignOf(z - w)
              [] s = 1 /\ t = 1 -> -SignOf(z - w)
              [] s = 0 /\ t = 1 -> IF z = 0 /\ w = 0 THEN 0 ELSE 1
              [] s = 1 /\ t = 0 -> IF z = 0 /\ w = 0 THEN 0 ELSE -1
    <2>1. z = 0 /\ w = 0 => d = 0
      BY <1>1, <1>5, <1>8
    <2>2. SignOf(-1) = -1 /\ SignOf(-2) = -1 /\ SignOf(0) = 0 /\ SignOf(1) = 1 /\ SignOf(2) = 1
      BY DEF SignOf
    <2>3. CASE z = 0 /\ w # 0
      <3>1. SignOf(X.n) = 0 /\ SignOf(Y.n) = (IF t = 1 THEN -1 ELSE 1) /\ z < w
        BY <1>1, <1>3, <2>3
      <3>2. d = SignOf(0 - (IF t = 1 THEN -1 ELSE 1))
        BY <1>5, <3>1
      <3>3. d = IF t = 1 THEN 1 ELSE -1
        BY <2>2, <3>2
      <3>4. QED
        BY <1>3, <1>8, <2>3, <3>1, <3>3
    <2>4. CASE z # 0 /\ w = 0
      <3>1. SignOf(Y.n) = 0 /\ SignOf(X.n) = (IF s = 1 THEN -1 ELSE 1) /\ w < z
        BY <1>1, <1>3, <2>4
      <3>2. d = SignOf((IF s = 1 THEN -1 ELSE 1) - 0)
        BY <1>5, <3>1
      <3>3. d = IF s = 1 THEN -1 ELSE 1
        BY <2>2, <3>2
      <3>4. QED
        BY <1>3, <1>8, <2>4, <3>1, <3>3
    <2>5. CASE z # 0 /\ w # 0
      <3>1. SignOf(X.n) = (IF s = 1 THEN -1 ELSE 1) /\ SignOf(Y.n) = (IF t = 1 THEN -1 ELSE 1)
        BY <1>1, <2>5
      <3>2. SignOf(z - w) \in {-1, 0, 1}
        BY <1>7, <1>8
      <3>3. QED
        BY <1>3, <1>5, <2>2, <2>5, <3>1, <3>2
    <2>6. CASE z = 0 /\ w = 0
      BY <1>3, <1>8, <2>1, <2>6
    <2>7. QED
      BY <2>3, <2>4, <2>5, <2>6
  <1> HIDE DEF d
  <1>10. d \in {-1, 0, 1}
    BY <1>3, <1>7, <1>8, <1>9
  <1>11. Eq(F, u, v) <=> d = 0
    <2>1. u = v <=> s = t /\ z = w
      BY <1>6
    <2>2. Eq(F, u, v) <=> (s = t /\ z = w) \/ (z = 0 /\ w = 0)
      BY <1>4, <2>1 DEF Eq
    <2>3. QED
      BY <1>3, <1>7, <1>8, <1>9, <2>2
  <1>12. Le(F, u, v) <=> d <= 0
    <2>1. Le(F, u, v) <=> IF s # t THEN s = 1 \/ (z = 0 /\ w = 0) ELSE z = w \/ (s = 1) # (z < w)
      BY <1>4, <1>6 DEF Le, s, t
    <2>2. QED
      BY <1>3, <1>7, <1>8, <1>9, <2>1
  <1>13. Lt(F, u, v) <=> d < 0
    <2>1. Lt(F, u, v) <=> IF s # t THEN s = 1 /\ ~(z = 0 /\ w = 0) ELSE z # w /\ (s = 1) # (z < w)
      BY <1>4, <1>6 DEF Lt, s, t
    <2>2. QED
      BY <1>3, <1>7, <1>8, <1>9, <2>1
  <1>14. QED
    BY <1>10, <1>11, <1>12, <1>13 DEF d, X, Y

-----------------------------------------------------------------------------
(* NaNs, infinities and zeros.                                             *)

(* The kinds of patterns exclude each other.                               *)
LEMMA OperandKinds ==
  ASSUME NEW F \in Formats, NEW u \in Patterns(F)
  PROVE  /\ Sign(F, u) \in {0, 1} /\ u \in Nat
         /\ ~Finite(F, u) <=> IsNaN(F, u) \/ IsInf(F, u)
         /\ ~(IsNaN(F, u) /\ IsInf(F, u)) /\ ~(IsNaN(F, u) /\ IsZero(F, u)) /\ ~(IsInf(F, u) /\ IsZero(F, u))
         /\ IsSigNaN(F, u) => IsNaN(F, u)
         /\ IsInf(F, u) => u = Pack(F, Sign(F, u), ExpMax(F), 0)
         /\ IsZero(F, u) => u = Pack(F, Sign(F, u), 0, 0)
  <1>1. ExpMax(F) # 0 /\ TopBit(F) \in Nat /\ 2 ^ W(F) = 2 * TopBit(F)
    BY FieldPlaces
  <1>2. Sign(F, u) \in {0, 1} /\ u = Pack(F, Sign(F, u), Exp(F, u), Frac(F, u))
    BY Unpacked
  <1>3. u \in Nat
    BY <1>1 DEF Patterns
  <1>4. QED
    BY <1>1, <1>2, <1>3 DEF IsNaN, IsInf, IsZero, IsSigNaN, Finite

(* All bits but the sign set is a quiet NaN, and so is what a NaN of the   *)
(* other format becomes.                                                   *)
LEMMA QuietNaN ==
  ASSUME NEW F \in Formats, NEW s \in {0, 1}
  PROVE  LET u == s * TopBit(F) + TopBit(F) - 1
         IN  u \in Patterns(F) /\ IsNaN(F, u) /\ ~IsSigNaN(F, u) /\ Sign(F, u) = s
  <1> DEFINE h == Hidden(F)
             t == TopBit(F)
             q == 2 ^ (F.f - 1)
             x == ExpMax(F)
             u == Pack(F, s, x, h - 1)
  <1>1. h \in Nat /\ h >= 4 /\ t \in Nat /\ t = (x + 1) * h /\ h = 2 * q /\ q \in Nat /\ x \in Nat
    BY FieldPlaces
  <1>2. h - 1 \in 0..(h - 1) /\ x \in 0..x
    BY <1>1
  <1>3. u = s * t + x * h + (h - 1) /\ u \in Patterns(F) /\ Exp(F, u) = x /\ Frac(F, u) = h - 1 /\ Sign(F, u) = s
    BY <1>2, Packed
  <1>4. u = s * t + t - 1
    <2> HIDE DEF h, t, q, x, u
    <2>1. t = x * h + h /\ x * h \in Int /\ s * t \in Int
      BY <1>1
    <2>2. QED
      BY <1>1, <1>3, <2>1
  <1>5. IsNaN(F, u)
    <2> HIDE DEF h, q, x, u
    <2>1. h - 1 # 0
      BY <1>1
    <2>2. QED
      BY <1>3, <2>1 DEF IsNaN, x
  <1>6. ~IsSigNaN(F, u)
    <2> HIDE DEF h, q, x, u
    <2>1. ~(h - 1 < q)
      BY <1>1
    <2>2. QED
      BY <1>3, <2>1 DEF IsSigNaN, q
  <1>7. QED
    BY <1>3, <1>4, <1>5, <1>6

LEMMA DefaultIsNaN ==
  ASSUME NEW F \in Formats
  PROVE  DefaultNaN(F) \in Patterns(F) /\ IsNaN(F, DefaultNaN(F)) /\ ~IsSigNaN(F, DefaultNaN(F))
  <1>1. TopBit(F) \in Nat /\ 2 ^ W(F) = 2 * TopBit(F)
    BY FieldPlaces
  <1>2. DefaultNaN(F) = 1 * TopBit(F) + TopBit(F) - 1
    BY <1>1 DEF DefaultNaN
  <1>3. QED
    BY <1>2, QuietNaN

(* Zero, which stands for an operand a routine does not have.              *)
LEMMA ZeroPattern ==
  ASSUME NEW F \in Formats
  PROVE  0 \in Patterns(F) /\ IsZero(F, 0) /\ ~IsNaN(F, 0) /\ ~IsSigNaN(F, 0) /\ Sign(F, 0) = 0
  <1>1. TopBit(F) \in Nat /\ Hidden(F) \in Nat /\ ExpMax(F) \in Nat /\ ExpMax(F) # 0 /\ Hidden(F) >= 4
    BY FieldPlaces
  <1>2. 0 \in 0..ExpMax(F) /\ 0 \in 0..(Hidden(F) - 1)
    BY <1>1
  <1>3. /\ Pack(F, 0, 0, 0) = 0 * TopBit(F) + 0 * Hidden(F) + 0 /\ Pack(F, 0, 0, 0) \in Patterns(F)
        /\ Sign(F, Pack(F, 0, 0, 0)) = 0 /\ Exp(F, Pack(F, 0, 0, 0)) = 0 /\ Frac(F, Pack(F, 0, 0, 0)) = 0
    BY <1>2, Packed
  <1>4. Pack(F, 0, 0, 0) = 0
    BY <1>1, <1>3
  <1>5. QED
    BY <1>1, <1>3, <1>4 DEF IsZero, IsNaN, IsSigNaN

(* What the routines return for a NaN or an undefined operation.           *)
LEMMA NaNResults ==
  ASSUME NEW F \in Formats, NEW x, NEW y
  PROVE  /\ PropagateNaN(F, x, y).v = DefaultNaN(F) /\ Invalid(F).v = DefaultNaN(F)
         /\ PropagateNaN(F, x, y).fl = (IF IsSigNaN(F, x) \/ IsSigNaN(F, y) THEN {"invalid"} ELSE {})
         /\ Invalid(F).fl = {"invalid"} /\ DefaultNaN(F) # -1
  BY DefaultIsNaN, OperandKinds DEF PropagateNaN, Invalid, Ret

(* What is left of the operations when an operand is not finite.           *)
LEMMA SumSpecial ==
  ASSUME NEW F \in Formats, NEW m, NEW u \in Patterns(F), NEW v \in Patterns(F),
         ~Finite(F, u) \/ ~Finite(F, v)
  PROVE  LET s == Sign(F, u)
             t == Sign(F, v)
         IN  /\ (IF s = t THEN AddMags(F, m, u, v, s) ELSE SubMags(F, m, u, v, s)) =
                   IF IsNaN(F, u) \/ IsNaN(F, v) THEN PropagateNaN(F, u, v)
                   ELSE IF IsInf(F, u) /\ IsInf(F, v) /\ s # t THEN Invalid(F)
                   ELSE Ret(Pack(F, IF IsInf(F, u) THEN s ELSE t, ExpMax(F), 0), {})
             /\ (IF s = t THEN SubMags(F, m, u, v, s) ELSE AddMags(F, m, u, v, s)) =
                   IF IsNaN(F, u) \/ IsNaN(F, v) THEN PropagateNaN(F, u, v)
                   ELSE IF IsInf(F, u) /\ IsInf(F, v) /\ s # 1 - t THEN Invalid(F)
                   ELSE Ret(Pack(F, IF IsInf(F, u) THEN s ELSE 1 - t, ExpMax(F), 0), {})
  <1> DEFINE s == Sign(F, u)
             t == Sign(F, v)
             nan == IsNaN(F, u) \/ IsNaN(F, v)
  <1>1. /\ s \in {0, 1} /\ t \in {0, 1}
        /\ IsInf(F, u) => u = Pack(F, s, ExpMax(F), 0)
        /\ ~nan => IsInf(F, u) \/ IsInf(F, v)
    BY OperandKinds
  <1>2. AddMags(F, m, u, v, s) =
          IF nan THEN PropagateNaN(F, u, v)
          ELSE IF IsInf(F, u) THEN Ret(u, {}) ELSE Ret(Pack(F, s, ExpMax(F), 0), {})
    BY <1>1 DEF AddMags
  <1>3. SubMags(F, m, u, v, s) =
          IF nan THEN PropagateNaN(F, u, v)
          ELSE IF IsInf(F, u) /\ IsInf(F, v) THEN Invalid(F)
          ELSE IF IsInf(F, v) THEN Ret(Pack(F, Xor(s, 1), ExpMax(F), 0), {})
          ELSE Ret(u, {})
    BY <1>1 DEF SubMags
  <1>4. Xor(s, 1) = 1 - s
    BY <1>1 DEF Xor
  <1> HIDE DEF s, t, nan
  <1>5. QED
    BY <1>1, <1>2, <1>3, <1>4 DEF s, t, nan

LEMMA ProductSpecial ==
  ASSUME NEW F \in Formats, NEW m, NEW u \in Patterns(F), NEW v \in Patterns(F),
         ~Finite(F, u) \/ ~Finite(F, v)
  PROVE  Mul(F, m, u, v) =
           IF IsNaN(F, u) \/ IsNaN(F, v) THEN PropagateNaN(F, u, v)
           ELSE IF (IsInf(F, u) /\ IsZero(F, v)) \/ (IsInf(F, v) /\ IsZero(F, u)) THEN Invalid(F)
           ELSE Ret(Pack(F, Xor(Sign(F, u), Sign(F, v)), ExpMax(F), 0), {})
  <1>1. /\ ~Finite(F, u) <=> IsNaN(F, u) \/ IsInf(F, u)
        /\ ~Finite(F, v) <=> IsNaN(F, v) \/ IsInf(F, v)
        /\ ~(IsInf(F, u) /\ IsZero(F, u)) /\ ~(IsInf(F, v) /\ IsZero(F, v))
    BY OperandKinds
  <1>2. QED
    BY <1>1 DEF Mul

LEMMA QuotientSpecial ==
  ASSUME NEW F \in Formats, NEW u \in Patterns(F), NEW v \in Patterns(F)
  PROVE  LET s == Xor(Sign(F, u), Sign(F, v))
             inf == IsInf(F, u) \/ (IsZero(F, v) /\ ~IsZero(F, u))
             r == IF IsNaN(F, u) \/ IsNaN(F, v) THEN PropagateNaN(F, u, v)
                  ELSE IF (IsInf(F, u) /\ IsInf(F, v)) \/ (IsZero(F, u) /\ IsZero(F, v)) THEN Invalid(F)
                  ELSE Ret(Pack(F, s, IF inf THEN ExpMax(F) ELSE 0, 0),
                           IF inf /\ ~IsInf(F, u) THEN {"infinity"} ELSE {})
         IN  ~Finite(F, u) \/ ~Finite(F, v) \/ IsZero(F, v) =>
               DivSpecial(F, u, v) = r /\ r # NoCase
  <1> DEFINE s == Xor(Sign(F, u), Sign(F, v))
             inf == IsInf(F, u) \/ (IsZero(F, v) /\ ~IsZero(F, u))
             r == IF IsNaN(F, u) \/ IsNaN(F, v) THEN PropagateNaN(F, u, v)
                  ELSE IF (IsInf(F, u) /\ IsInf(F, v)) \/ (IsZero(F, u) /\ IsZero(F, v)) THEN Invalid(F)
                  ELSE Ret(Pack(F, s, IF inf THEN ExpMax(F) ELSE 0, 0),
                           IF inf /\ ~IsInf(F, u) THEN {"infinity"} ELSE {})
  <1>1. /\ ~Finite(F, u) <=> IsNaN(F, u) \/ IsInf(F, u)
        /\ ~Finite(F, v) <=> IsNaN(F, v) \/ IsInf(F, v)
        /\ ~(IsInf(F, u) /\ IsZero(F, u)) /\ ~(IsInf(F, v) /\ IsZero(F, v))
        /\ ~(IsInf(F, u) /\ IsNaN(F, u)) /\ ~(IsInf(F, v) /\ IsNaN(F, v))
        /\ Sign(F, u) \in {0, 1} /\ Sign(F, v) \in {0, 1}
    BY OperandKinds
  <1>2. ExpMax(F) \in Nat /\ Hidden(F) \in Nat /\ Hidden(F) >= 4
    BY FieldPlaces
  <1>3. s \in {0, 1} /\ 0 \in 0..(Hidden(F) - 1) /\ ExpMax(F) \in 0..ExpMax(F) /\ 0 \in 0..ExpMax(F)
    BY <1>1, <1>2 DEF Xor
  <1>4. Pack(F, s, ExpMax(F), 0) \in Patterns(F) /\ Pack(F, s, 0, 0) \in Patterns(F)
    BY <1>3, Packed
  <1>5. Pack(F, s, ExpMax(F), 0) # -1 /\ Pack(F, s, 0, 0) # -1
    BY <1>4 DEF Patterns
  <1>6. PropagateNaN(F, u, v).v # -1 /\ Invalid(F).v # -1
    BY NaNResults
  <1>7. ASSUME ~Finite(F, u) \/ ~Finite(F, v) \/ IsZero(F, v) PROVE DivSpecial(F, u, v) = r
    BY <1>1, <1>7 DEF DivSpecial
  <1>8. r.v # -1
    <2> HIDE DEF s
    <2> QED BY <1>5, <1>6 DEF Ret
  <1>9. QED
    BY <1>7, <1>8 DEF NoCase

LEMMA RootSpecial ==
  ASSUME NEW F \in Formats, NEW u \in Patterns(F),
         ~Finite(F, u) \/ (Sign(F, u) = 1 /\ ~IsZero(F, u))
  PROVE  /\ SqrtSpecial(F, u) =
               IF IsNaN(F, u) THEN PropagateNaN(F, u, 0)
               ELSE IF Sign(F, u) = 1 THEN Invalid(F)
               ELSE Ret(Pack(F, Sign(F, u), ExpMax(F), 0), {})
         /\ SqrtSpecial(F, u) # NoCase
  <1>1. /\ ~Finite(F, u) <=> IsNaN(F, u) \/ IsInf(F, u)
        /\ ~(IsInf(F, u) /\ IsZero(F, u)) /\ ~(IsInf(F, u) /\ IsNaN(F, u))
        /\ Sign(F, u) \in {0, 1} /\ u \in Nat
        /\ IsInf(F, u) => u = Pack(F, Sign(F, u), ExpMax(F), 0)
    BY OperandKinds
  <1>2. PropagateNaN(F, u, 0).v # -1 /\ Invalid(F).v # -1
    BY NaNResults
  <1>3. SqrtSpecial(F, u) = IF IsNaN(F, u) THEN PropagateNaN(F, u, 0)
                            ELSE IF Sign(F, u) = 1 THEN Invalid(F) ELSE Ret(u, {})
    BY <1>1 DEF SqrtSpecial
  <1>4. SqrtSpecial(F, u).v # -1
    <2>1. u # -1
      BY <1>1
    <2>2. QED
      BY <1>2, <1>3, <2>1 DEF Ret
  <1>5. QED
    BY <1>1, <1>3, <1>4 DEF NoCase

LEMMA FusedSpecial ==
  ASSUME NEW F \in Formats, NEW m, NEW u \in Patterns(F), NEW v \in Patterns(F), NEW w \in Patterns(F),
         ~Finite(F, u) \/ ~Finite(F, v) \/ ~Finite(F, w)
  PROVE  LET s == Xor(Sign(F, u), Sign(F, v))
             product == (IsInf(F, u) /\ IsZero(F, v)) \/ (IsInf(F, v) /\ IsZero(F, u))
         IN  MulAdd(F, 0, m, u, v, w) =
               IF IsNaN(F, u) \/ IsNaN(F, v)
               THEN Ret(DefaultNaN(F), IF IsSigNaN(F, u) \/ IsSigNaN(F, v) \/ IsSigNaN(F, w) THEN {"invalid"} ELSE {})
               ELSE IF product THEN Ret(DefaultNaN(F), {"invalid"})
               ELSE IF IsNaN(F, w) THEN PropagateNaN(F, 0, w)
               ELSE IF (IsInf(F, u) \/ IsInf(F, v)) /\ IsInf(F, w) /\ s # Sign(F, w) THEN Invalid(F)
               ELSE Ret(Pack(F, IF IsInf(F, u) \/ IsInf(F, v) THEN s ELSE Sign(F, w), ExpMax(F), 0), {})
  <1> DEFINE s == Xor(Sign(F, u), Sign(F, v))
             product == (IsInf(F, u) /\ IsZero(F, v)) \/ (IsInf(F, v) /\ IsZero(F, u))
  <1>1. /\ Sign(F, u) \in {0, 1} /\ Sign(F, v) \in {0, 1} /\ Sign(F, w) \in {0, 1}
        /\ ~Finite(F, u) <=> IsNaN(F, u) \/ IsInf(F, u)
        /\ ~Finite(F, v) <=> IsNaN(F, v) \/ IsInf(F, v)
        /\ ~Finite(F, w) <=> IsNaN(F, w) \/ IsInf(F, w)
        /\ IsInf(F, w) => w = Pack(F, Sign(F, w), ExpMax(F), 0)
    BY OperandKinds
  <1>2. s \in {0, 1}
    BY <1>1 DEF Xor
  <1>3. SignProd(F, 0, u, v) = s /\ SignC(F, 0, w) = Sign(F, w)
    <2>1. ~Asked(F, 0, softfloat_mulAdd_subProd) /\ ~Asked(F, 0, softfloat_mulAdd_subC)
      BY DEF Asked, softfloat_mulAdd_subProd, softfloat_mulAdd_subC
    <2>2. SignProd(F, 0, u, v) = Xor(s, 0) /\ SignC(F, 0, w) = Xor(Sign(F, w), 0)
      BY <2>1 DEF SignProd, SignC, Bool
    <2>3. Xor(0, 0) = 0 /\ Xor(1, 0) = 1
      BY DEF Xor
    <2>4. QED
      BY <1>1, <1>2, <2>2, <2>3
  <1>4. ~IsSigNaN(F, DefaultNaN(F))
    BY DefaultIsNaN
  <1>5. PropagateNaN(F, DefaultNaN(F), w) = Ret(DefaultNaN(F), IF IsSigNaN(F, w) THEN {"invalid"} ELSE {})
    BY <1>4 DEF PropagateNaN
  <1>6. PropagateNaN(F, u, v).fl = IF IsSigNaN(F, u) \/ IsSigNaN(F, v) THEN {"invalid"} ELSE {}
    BY NaNResults
  <1>7. Raise(PropagateNaN(F, DefaultNaN(F), w), PropagateNaN(F, u, v).fl) =
          Ret(DefaultNaN(F), IF IsSigNaN(F, u) \/ IsSigNaN(F, v) \/ IsSigNaN(F, w) THEN {"invalid"} ELSE {})
    BY <1>5, <1>6 DEF Raise, Ret
  <1>8. Raise(PropagateNaN(F, DefaultNaN(F), w), {"invalid"}) = Ret(DefaultNaN(F), {"invalid"})
    BY <1>5 DEF Raise, Ret
  <1>9. MulAdd(F, 0, m, u, v, w) =
          IF IsNaN(F, u) \/ IsNaN(F, v)
          THEN Raise(PropagateNaN(F, DefaultNaN(F), w), PropagateNaN(F, u, v).fl)
          ELSE IF product THEN Raise(PropagateNaN(F, DefaultNaN(F), w), {"invalid"})
          ELSE IF IsNaN(F, w) THEN PropagateNaN(F, 0, w)
          ELSE IF IsInf(F, u) \/ IsInf(F, v)
          THEN IF IsInf(F, w) /\ s # Sign(F, w) THEN Invalid(F) ELSE Ret(Pack(F, s, ExpMax(F), 0), {})
          ELSE Ret(w, {})
    <2> HIDE DEF s
    <2> QED BY <1>1, <1>3 DEF MulAdd
  <1> HIDE DEF s, product
  <1>10. QED
    BY <1>1, <1>7, <1>8, <1>9 DEF s, product

-----------------------------------------------------------------------------
(* Numbers n * 2^k in parts: the whole one, and what class the rest is of. *)

(* Nothing, less than half, half, or more than half of d.                  *)
Rest(r, d) == IF r = 0 THEN 0 ELSE IF 2 * r < d THEN 1 ELSE IF 2 * r = d THEN 2 ELSE 3

(* A number of less than a half need not be divided.                       *)
Tiny(n, k) == n = 0 \/ BitLength(n) + k < 0
Whole(n, k) == IF k >= 0 THEN n * 2 ^ k ELSE IF Tiny(n, k) THEN 0 ELSE n \div 2 ^ (-k)
Part(n, k) == IF k >= 0 THEN 0 ELSE IF Tiny(n, k) THEN Bool(n # 0) ELSE Rest(n % 2 ^ (-k), 2 ^ (-k))

(* Whether mode m takes a number of sign s to the next one, and the        *)
(* magnitude it is rounded to.                                             *)
RoundsUp(m, s, i, q) ==
  CASE m = "near_even" -> q = 3 \/ (q = 2 /\ i % 2 = 1)
    [] m = "near_maxMag" -> q \in {2, 3}
    [] OTHER -> q # 0 /\ AwayFromZero(m, s)
RoundedMag(m, s, n, k) == Whole(n, k) + Bool(RoundsUp(m, s, Whole(n, k), Part(n, k)))

(* Words of so many bits.                                                  *)
BitsAtMost(w, x) == x \in Nat /\ w \in 0..Widest /\ x < 2 ^ w

(* A word is shorter than the power of its length, and not than the one    *)
(* before.                                                                 *)
LEMMA LengthBounds ==
  ASSUME NEW w, NEW x, BitsAtMost(w, x)
  PROVE  /\ BitLength(x) \in 0..w /\ BitLength(x) \in 0..Widest /\ BitLength(x) \in Nat
         /\ x < 2 ^ BitLength(x) /\ 2 ^ BitLength(x) \in Nat \ {0}
         /\ BitLength(x) = 0 <=> x = 0
         /\ x # 0 => BitLength(x) - 1 \in 0..Widest /\ 2 ^ (BitLength(x) - 1) <= x /\ 2 ^ (BitLength(x) - 1) \in Nat \ {0}
  <1>1. x \in 0..(2 ^ w - 1) /\ w \in 0..Widest
    BY Powers DEF BitsAtMost
  <1>2. /\ BitLength(x) \in 0..w /\ x < 2 ^ BitLength(x) /\ (BitLength(x) = 0 <=> x = 0)
        /\ BitLength(x) # 0 => 2 ^ (BitLength(x) - 1) <= x
    BY <1>1, BitLengthOf
  <1>3. BitLength(x) \in 0..Widest /\ (BitLength(x) # 0 => BitLength(x) - 1 \in 0..Widest)
    BY <1>1, <1>2, FormatWidths
  <1>4. QED
    BY <1>2, <1>3, Powers

(* Less than d leaves itself.                                              *)
LEMMA BelowDivisor ==
  ASSUME NEW d \in Nat \ {0}, NEW r \in Nat, r < d
  PROVE  r \div d = 0 /\ r % d = r
  <1>1. r = r + d * 0 /\ 0 <= r /\ 0 \in Int
    OBVIOUS
  <1>2. QED
    BY <1>1, Divides

(* A multiple of d divides without a rest.                                 *)
LEMMA Multiple ==
  ASSUME NEW d \in Nat \ {0}, NEW i \in Int
  PROVE  (d * i) \div d = i /\ (d * i) % d = 0
  OBVIOUS

(* For a tiny number the quotient is nothing and the rest the number       *)
(* itself.                                                                 *)
LEMMA TinyByDivision ==
  ASSUME NEW w, NEW n, BitsAtMost(w, n), NEW j \in 0..Widest, Tiny(n, -j), j # 0
  PROVE  /\ n \div 2 ^ j = 0 /\ n % 2 ^ j = n /\ Rest(n, 2 ^ j) = Bool(n # 0)
         /\ n < 2 ^ j
  <1>1. 2 ^ j \in Nat \ {0} /\ n \in Nat
    BY Powers DEF BitsAtMost
  <1>2. CASE n = 0
    <2>1. 0 < 2 ^ j
      BY <1>1
    <2>2. QED
      BY <1>1, <1>2, <2>1, BelowDivisor DEF Rest, Bool
  <1>3. CASE n # 0
    <2> DEFINE b == BitLength(n)
    <2>1. b + 1 <= j /\ b \in 0..Widest /\ n < 2 ^ b /\ 2 ^ b \in Nat
      BY <1>1, <1>3, LengthBounds DEF Tiny
    <2>2. b < j
      BY <2>1
    <2>3. 2 * 2 ^ b <= 2 ^ j
      BY <2>1, <2>2, PowerHalf
    <2>4. 2 * n < 2 ^ j /\ n < 2 ^ j
      BY <1>1, <2>1, <2>3
    <2>5. QED
      BY <1>1, <1>3, <2>4, BelowDivisor DEF Rest, Bool
  <1>4. QED
    BY <1>2, <1>3

(* The parts, by division when the power can be written out.               *)
LEMMA PartsByDivision ==
  ASSUME NEW w, NEW n, BitsAtMost(w, n), NEW j \in 0..Widest
  PROVE  Whole(n, -j) = n \div 2 ^ j /\ Part(n, -j) = Rest(n % 2 ^ j, 2 ^ j)
  <1>1. n \in Nat
    BY DEF BitsAtMost
  <1>2. CASE j <= 0
    <2>1. -j = 0
      BY <1>2
    <2>2. n \div 1 = n /\ n % 1 = 0 /\ n * 1 = n /\ 0 >= 0
      BY <1>1
    <2>3. Whole(n, 0) = n /\ Part(n, 0) = 0
      BY <2>2, Powers DEF Whole, Part
    <2>4. n \div 2 ^ 0 = n /\ Rest(n % 2 ^ 0, 2 ^ 0) = 0
      BY <2>2, Powers DEF Rest
    <2>5. j = 0
      BY <1>2
    <2>6. QED
      BY <2>1, <2>3, <2>4, <2>5
  <1>3. CASE j > 0
    <2>1. ~(-j >= 0) /\ -(-j) = j
      BY <1>3
    <2>2. CASE Tiny(n, -j)
      BY <1>3, <2>1, <2>2, TinyByDivision DEF Whole, Part
    <2>3. CASE ~Tiny(n, -j)
      BY <2>1, <2>3 DEF Whole, Part
    <2>4. QED
      BY <2>2, <2>3
  <1>4. QED
    BY <1>2, <1>3

(* How large the whole part is, from the place of the leading bit.         *)
LEMMA WholeBounds ==
  ASSUME NEW w, NEW n, BitsAtMost(w, n), NEW k \in Int, NEW t \in Int, t = BitLength(n) + k, t <= Widest
  PROVE  /\ Whole(n, k) \in Nat /\ Part(n, k) \in 0..3
         /\ t >= 0 => Whole(n, k) < 2 ^ t
         /\ n # 0 /\ t >= 1 => 2 ^ (t - 1) <= Whole(n, k)
         /\ n # 0 /\ t <= 0 => Whole(n, k) = 0 /\ Part(n, k) # 0
         /\ n = 0 => Whole(n, k) = 0 /\ Part(n, k) = 0
  <1> DEFINE b == BitLength(n)
  <1>1. /\ n \in Nat /\ b \in 0..Widest /\ b \in Nat /\ n < 2 ^ b /\ 2 ^ b \in Nat \ {0}
        /\ n # 0 => b - 1 \in 0..Widest /\ 2 ^ (b - 1) <= n /\ 2 ^ (b - 1) \in Nat \ {0}
        /\ b = 0 <=> n = 0
    BY LengthBounds DEF BitsAtMost
  <1>2. t \in Int /\ t = b + k /\ k = t - b
    BY <1>1
  <1> HIDE DEF b
  <1>3. CASE n = 0
    <2>1. Whole(n, k) = 0 /\ Part(n, k) = 0
      <3>1. CASE k >= 0
        <4>1. b = 0 /\ k = t /\ k \in 0..Widest
          BY <1>1, <1>2, <1>3, <3>1
        <4>2. 0 * 2 ^ k = 0
          BY <4>1, Powers
        <4>3. QED
          BY <1>3, <3>1, <4>2 DEF Whole, Part
      <3>2. CASE ~(k >= 0)
        BY <1>3, <3>2 DEF Whole, Part, Tiny, Bool
      <3>3. QED
        BY <3>1, <3>2
    <2>2. t >= 0 => 0 < 2 ^ t
      BY Powers
    <2>3. QED
      BY <1>3, <2>1, <2>2
  <1>4. CASE n # 0 /\ k >= 0
    <2>1. /\ k \in 0..Widest /\ k \in Nat /\ t \in 0..Widest /\ t >= 1 /\ t - 1 \in 0..Widest
          /\ b + k <= Widest /\ (b - 1) + k <= Widest /\ b - 1 \in Nat /\ b + k = t /\ (b - 1) + k = t - 1
      BY <1>1, <1>2, <1>4, FormatWidths
    <2>2. 2 ^ (b + k) = 2 ^ b * 2 ^ k /\ 2 ^ ((b - 1) + k) = 2 ^ (b - 1) * 2 ^ k
      BY <1>1, <2>1, PowerSum
    <2>3. 2 ^ k \in Nat \ {0}
      BY <2>1, Powers
    <2>4. n * 2 ^ k < 2 ^ b * 2 ^ k /\ 2 ^ (b - 1) * 2 ^ k <= n * 2 ^ k /\ n * 2 ^ k \in Nat
      BY <1>1, <1>4, <2>3
    <2>5. Whole(n, k) = n * 2 ^ k /\ Part(n, k) = 0
      BY <1>4 DEF Whole, Part
    <2>6. QED
      BY <1>4, <2>1, <2>2, <2>4, <2>5
  <1>5. CASE n # 0 /\ k < 0 /\ t < 0
    <2>1. Tiny(n, k) /\ ~(k >= 0)
      BY <1>2, <1>5 DEF Tiny, b
    <2>2. Whole(n, k) = 0 /\ Part(n, k) = 1
      BY <1>5, <2>1 DEF Whole, Part, Bool
    <2>3. QED
      BY <1>5, <2>2
  <1>6. CASE n # 0 /\ k < 0 /\ t >= 0
    <2> DEFINE j == -k
    <2>1. j \in 0..Widest /\ j \in Nat /\ t \in 0..Widest /\ t + j = b /\ -j = k
      BY <1>1, <1>2, <1>6, FormatWidths
    <2>2. 2 ^ t \in Nat \ {0} /\ 2 ^ j \in Nat \ {0}
      BY <2>1, Powers
    <2>3. 2 ^ b = 2 ^ t * 2 ^ j
      BY <1>1, <2>1, PowerSum
    <2>4. Whole(n, k) = n \div 2 ^ j /\ Part(n, k) = Rest(n % 2 ^ j, 2 ^ j)
      BY <2>1, PartsByDivision
    <2> HIDE DEF j
    <2> DEFINE i == n \div 2 ^ j
               r == n % 2 ^ j
    <2>5. n = r + 2 ^ j * i /\ r \in Int /\ i \in Int /\ 0 <= r /\ r < 2 ^ j
      <3> DEFINE d == 2 ^ j
      <3>1. d \in Nat \ {0} /\ n \in Int
        BY <1>1, <2>2
      <3> HIDE DEF d
      <3>2. n = (n % d) + d * (n \div d) /\ n % d \in Int /\ 0 <= n % d /\ n % d < d /\ n \div d \in Int
        BY <3>1, Division
      <3>3. QED
        BY <3>2 DEF d
    <2> HIDE DEF i, r
    <2> DEFINE d == 2 ^ j
               p == 2 ^ t
    <2>6. d \in Nat \ {0} /\ p \in Nat \ {0} /\ n < p * d /\ n = r + d * i /\ r < d
      BY <1>1, <2>2, <2>3, <2>5
    <2> HIDE DEF d, p
    <2>7. i >= 0 /\ i < p
      <3>1. i <= -1 => d * i <= -d
        BY <2>5, <2>6
      <3>2. i >= p => d * i >= p * d
        BY <2>5, <2>6
      <3>3. d * i \in Int /\ p * d \in Int
        BY <2>5, <2>6
      <3>4. QED
        BY <1>1, <2>5, <2>6, <3>1, <3>2, <3>3
    <2>8. Rest(r, d) \in 0..3
      BY <2>5, <2>6 DEF Rest
    <2>9. t >= 1 => 2 ^ (t - 1) <= i
      <3>1. SUFFICES ASSUME t >= 1 PROVE 2 ^ (t - 1) <= i
        OBVIOUS
      <3>2. t - 1 \in 0..Widest /\ t - 1 \in Nat /\ (t - 1) + j = b - 1 /\ (t - 1) + j <= Widest
        BY <1>1, <1>6, <2>1, <3>1, FormatWidths
      <3>3. 2 ^ (b - 1) = 2 ^ (t - 1) * 2 ^ j /\ 2 ^ (t - 1) \in Nat
        BY <2>1, <3>2, PowerSum, Powers
      <3> DEFINE g == 2 ^ (t - 1)
      <3>4. g \in Nat /\ g * d <= r + d * i
        BY <1>1, <1>6, <2>6, <3>3 DEF d
      <3> HIDE DEF g
      <3>5. i < g => d * (i + 1) <= g * d
        BY <2>5, <2>6, <3>4
      <3>6. d * (i + 1) = d * i + d /\ d * i \in Int /\ g * d \in Int
        BY <2>5, <2>6, <3>4
      <3>7. QED
        BY <2>5, <2>6, <3>4, <3>5, <3>6 DEF g
    <2>10. t = 0 => i = 0 /\ Rest(r, d) # 0
      <3>1. t = 0 => p = 1
        BY Powers DEF p
      <3>2. t = 0 => i = 0
        BY <2>5, <2>7, <3>1
      <3>3. i = 0 => r = n
        BY <1>1, <2>5, <2>6
      <3>4. QED
        BY <1>1, <1>6, <3>2, <3>3 DEF Rest
    <2>11. QED
      BY <1>6, <2>1, <2>4, <2>5, <2>7, <2>8, <2>9, <2>10 DEF i, r, d, p
  <1>7. QED
    BY <1>2, <1>3, <1>4, <1>5, <1>6

-----------------------------------------------------------------------------
(* Rounding the bits below the point of a word.                            *)

LEMMA IncrementOf ==
  ASSUME NEW g \in Nat, g >= 1, NEW m \in Modes, NEW s \in {0, 1}
  PROVE  /\ m \in {"near_even", "near_maxMag"} => RoundIncrement(m, s, g) = 2 ^ (g - 1)
         /\ m \notin {"near_even", "near_maxMag"} /\ ~AwayFromZero(m, s) => RoundIncrement(m, s, g) = 0
         /\ m \notin {"near_even", "near_maxMag"} /\ AwayFromZero(m, s) => RoundIncrement(m, s, g) = 2 ^ g - 1
  <1>1. m \in {"near_even", "minMag", "min", "max", "near_maxMag"}
    BY DEF Modes
  <1>2. CASE m = "near_even"
    BY <1>2 DEF RoundIncrement
  <1>3. CASE m = "near_maxMag"
    BY <1>3 DEF RoundIncrement
  <1>4. CASE m = "minMag"
    BY <1>4 DEF RoundIncrement, AwayFromZero
  <1>5. CASE m = "min"
    BY <1>5 DEF RoundIncrement, AwayFromZero
  <1>6. CASE m = "max"
    BY <1>6 DEF RoundIncrement, AwayFromZero
  <1>7. QED
    BY <1>1, <1>2, <1>3, <1>4, <1>5, <1>6

(* A word x, as i whole units of d = 2 h and r more, plus an increment.    *)
Carries(d, i, r, inc, x, t) ==
  /\ d \in Nat \ {0} /\ {i, r, inc, x, t} \subseteq Nat
  /\ x = r + d * i /\ r < d /\ inc < d

(* Adding an increment to x = d i + r carries one into i or nothing.       *)
LEMMA CarryOf ==
  ASSUME NEW d, NEW i, NEW r, NEW inc, NEW x, NEW t, Carries(d, i, r, inc, x, t)
  PROVE  /\ (x + inc) \div d = i + Bool(r + inc >= d)
         /\ x + inc >= t * d <=> i + Bool(r + inc >= d) >= t
  <1> DEFINE up == r + inc >= d
             z == i + Bool(up)
             y == IF up THEN r + inc - d ELSE r + inc
  <1>1. /\ d \in Nat \ {0} /\ i \in Nat /\ r \in Nat /\ inc \in Nat /\ x \in Nat /\ t \in Nat
        /\ x = r + d * i /\ r < d /\ inc < d
    BY DEF Carries
  <1>2. y \in Nat /\ y < d /\ z \in Nat
    BY <1>1 DEF Bool
  <1>3. x + inc = y + d * z
    <2>1. CASE up
      <3>1. d * (i + 1) = d * i + d /\ d * i \in Int
        BY <1>1
      <3>2. QED
        BY <1>1, <2>1, <3>1 DEF Bool
    <2>2. CASE ~up
      <3>1. d * (i + 0) = d * i /\ d * i \in Int
        BY <1>1
      <3>2. QED
        BY <1>1, <2>2, <3>1 DEF Bool
    <2>3. QED
      BY <2>1, <2>2
  <1>5. (y + d * z) \div d = z
    <2> HIDE DEF y, z
    <2>1. y \in Int /\ z \in Int /\ d \in Nat \ {0} /\ 0 <= y /\ y < d
      BY <1>1, <1>2
    <2>2. QED
      BY <2>1, Divides
  <1>7. y + d * z >= t * d <=> z >= t
    <2> HIDE DEF y, z
    <2>1. z >= t => d * z >= t * d
      BY <1>1, <1>2
    <2>2. z + 1 <= t => d * (z + 1) <= t * d
      BY <1>1, <1>2
    <2>3. d * (z + 1) = d * z + d /\ d * z \in Int /\ t * d \in Int
      BY <1>1, <1>2
    <2>4. QED
      BY <1>1, <1>2, <2>1, <2>2, <2>3
  <1>8. (x + inc) \div d = z /\ (x + inc >= t * d <=> z >= t)
    BY <1>3, <1>5, <1>7
  <1>9. QED
    BY <1>8

(* g bits are below the point.                                             *)
LEMMA RoundSigIs ==
  ASSUME NEW g \in 1..Widest, NEW x \in Nat, NEW m \in Modes, NEW s \in {0, 1}, NEW t \in Nat, t % 2 = 0
  PROVE  LET i   == x \div 2 ^ g
             q   == Rest(x % 2 ^ g, 2 ^ g)
             inc == RoundIncrement(m, s, g)
             z   == i + Bool(RoundsUp(m, s, i, q))
         IN  /\ i \in Nat /\ q \in 0..3 /\ z \in Nat /\ inc \in Nat
             /\ RoundSig(m, x, inc, g) = z
             /\ x + inc >= t * 2 ^ g <=> z >= t
             /\ x % 2 ^ g # 0 <=> q # 0
  <1> DEFINE h == 2 ^ (g - 1)
             d == 2 ^ g
             i == x \div d
             r == x % d
             q == Rest(r, d)
             inc == RoundIncrement(m, s, g)
             up == RoundsUp(m, s, i, q)
             z == i + Bool(up)
             Right == /\ i \in Nat /\ q \in 0..3 /\ z \in Nat /\ inc \in Nat
                      /\ RoundSig(m, x, inc, g) = z
                      /\ x + inc >= t * d <=> z >= t
                      /\ r # 0 <=> q # 0
  <1>1. g \in 0..Widest /\ g - 1 \in 0..Widest /\ g # 0 /\ g \in Nat /\ g >= 1
    BY FormatWidths
  <1>2. h \in Nat \ {0} /\ d = 2 * h /\ d \in Nat \ {0}
    BY <1>1, Powers, PowerStep
  <1>3. /\ m \in {"near_even", "near_maxMag"} => inc = h
        /\ m \notin {"near_even", "near_maxMag"} /\ ~AwayFromZero(m, s) => inc = 0
        /\ m \notin {"near_even", "near_maxMag"} /\ AwayFromZero(m, s) => inc = d - 1
    BY <1>1, IncrementOf
  <1>4. m \in {"near_even", "minMag", "min", "max", "near_maxMag"}
    BY DEF Modes
  <1>5. RoundSig(m, x, inc, g) = IF m = "near_even" /\ r = h
                                 THEN (x + inc) \div d - (((x + inc) \div d) % 2) ELSE (x + inc) \div d
    BY DEF RoundSig
  <1> HIDE DEF h, d
  <1>6. x = r + d * i /\ r \in Int /\ i \in Int /\ 0 <= r /\ r < d
    <2>1. x = (x % d) + d * (x \div d) /\ x % d \in Int /\ 0 <= x % d /\ x % d < d /\ x \div d \in Int
      <3>1. x \in Int /\ d \in Nat \ {0}
        BY <1>2
      <3>2. QED
        BY <3>1, Division
    <2>2. QED
      BY <2>1
  <1>7. i >= 0
    <2> HIDE DEF i, r
    <2>1. i <= -1 => d * i <= -d
      BY <1>2, <1>6
    <2>2. d * i \in Int
      BY <1>2, <1>6
    <2>3. QED
      BY <1>2, <1>6, <2>1, <2>2
  <1>8. inc \in Nat /\ inc < d
    BY <1>2, <1>3
  <1> HIDE DEF i, r, inc
  <1>9. /\ (x + inc) \div d = i + Bool(r + inc >= d)
        /\ x + inc >= t * d <=> i + Bool(r + inc >= d) >= t
    <2>1. Carries(d, i, r, inc, x, t)
      BY <1>2, <1>6, <1>7, <1>8 DEF Carries
    <2>2. QED
      BY <2>1, CarryOf
  <1>10. /\ q \in 0..3 /\ (r = 0 <=> q = 0)
         /\ q = 3 <=> r > h
         /\ q = 2 <=> r = h
    BY <1>2, <1>6 DEF Rest
  <1> HIDE DEF q
  <1>11. ASSUME m = "near_even" PROVE Right
    <2>1. up <=> q = 3 \/ (q = 2 /\ i % 2 = 1)
      BY <1>11 DEF RoundsUp
    <2>2. inc = h /\ (r + inc >= d <=> r >= h)
      BY <1>2, <1>3, <1>6, <1>11
    <2> HIDE DEF up
    <2>3. CASE r = h
      <3>1. q = 2 /\ (x + inc) \div d = i + 1 /\ (up <=> i % 2 = 1)
        BY <1>2, <1>6, <1>9, <1>10, <2>1, <2>2, <2>3 DEF Bool
      <3>2. CASE i % 2 = 1
        <4>1. (i + 1) % 2 = 0
          BY <1>6, <3>2
        <4>2. QED
          BY <1>2, <1>5, <1>6, <1>7, <1>8, <1>9, <1>10, <1>11, <2>2, <2>3, <3>1, <3>2, <4>1 DEF Bool
      <3>3. CASE i % 2 # 1
        <4>1. (i + 1) % 2 = 1 /\ i % 2 = 0
          BY <1>6, <3>3
        <4>2. i + 1 >= t <=> i >= t
          BY <1>6, <4>1
        <4>3. QED
          BY <1>2, <1>5, <1>6, <1>7, <1>8, <1>9, <1>10, <1>11, <2>2, <2>3, <3>1, <3>3, <4>1, <4>2 DEF Bool
      <3>4. QED
        BY <3>2, <3>3
    <2>4. CASE r # h
      <3>1. up <=> r + inc >= d
        BY <1>2, <1>6, <1>10, <2>1, <2>2, <2>4
      <3>2. Bool(up) = Bool(r + inc >= d)
        BY <3>1 DEF Bool
      <3>3. QED
        BY <1>2, <1>5, <1>6, <1>7, <1>8, <1>9, <1>10, <2>4, <3>2 DEF Bool
    <2>5. QED
      BY <2>3, <2>4
  <1>12. ASSUME m # "near_even" PROVE Right
    <2>1. up <=> r + inc >= d
      <3>1. CASE m = "near_maxMag"
        <4>1. (up <=> q \in {2, 3}) /\ inc = h
          BY <1>3, <3>1 DEF RoundsUp
        <4>2. QED
          BY <1>2, <1>6, <1>10, <4>1
      <3>2. CASE m # "near_maxMag"
        <4>1. up <=> q # 0 /\ AwayFromZero(m, s)
          BY <1>12, <3>2 DEF RoundsUp
        <4>2. inc = IF AwayFromZero(m, s) THEN d - 1 ELSE 0
          BY <1>3, <1>12, <3>2
        <4>3. QED
          BY <1>2, <1>6, <1>10, <4>1, <4>2
      <3>3. QED
        BY <3>1, <3>2
    <2> HIDE DEF up
    <2>2. Bool(up) = Bool(r + inc >= d) /\ Bool(up) \in {0, 1}
      BY <2>1 DEF Bool
    <2>3. QED
      BY <1>2, <1>5, <1>6, <1>7, <1>8, <1>9, <1>10, <1>12, <2>2
  <1>13. QED
    BY <1>11, <1>12 DEF i, r, q, inc, d

-----------------------------------------------------------------------------
(* Integers of w bits.                                                     *)

WithSign(s, x) == IF s = 1 THEN -x ELSE x
Least(signed, w) == IF signed THEN IntMin(w) ELSE 0
Greatest(signed, w) == IF signed THEN IntMax(w) ELSE UIntMax(w)
Fits(signed, w, z) == z \in Least(signed, w)..Greatest(signed, w)

(* What a conversion gives for a number out of range, and for one that is  *)
(* rounded to mag, exactly if q is 0.                                      *)
Outside(signed, w, s) == Ret(IF signed /\ s = 1 THEN Least(signed, w) ELSE Greatest(signed, w), {"invalid"})
Converted(signed, w, s, mag, q) ==
  IF Fits(signed, w, WithSign(s, mag)) THEN Ret(WithSign(s, mag), IF q = 0 THEN {} ELSE {"inexact"})
  ELSE Outside(signed, w, s)
OnRequest(exact, r) == [r EXCEPT !.fl = IF exact THEN @ ELSE @ \ {"inexact"}]

(* The ends of the signed and the unsigned range of w bits.                *)
LEMMA WordBounds ==
  ASSUME NEW w \in 2..Widest
  PROVE  LET p == 2 ^ (w - 1)
         IN  /\ p \in Nat /\ p >= 2 /\ 2 ^ w = 2 * p /\ 2 ^ w % 2 = 0
             /\ IntMin(w) = -p /\ IntMax(w) = p - 1 /\ UIntMax(w) = 2 * p - 1
  <1>1. w \in 0..Widest /\ w # 0 /\ w - 1 \in 0..Widest /\ w - 1 # 0 /\ (w - 1) - 1 \in 0..Widest
    BY FormatWidths
  <1>2. 2 ^ w = 2 * 2 ^ (w - 1) /\ 2 ^ (w - 1) = 2 * 2 ^ ((w - 1) - 1) /\ 2 ^ ((w - 1) - 1) \in Nat \ {0}
    BY <1>1, PowerStep, Powers
  <1> DEFINE p == 2 ^ (w - 1)
  <1>3. p \in Nat /\ p >= 2 /\ 2 ^ w = 2 * p
    BY <1>2
  <1>4. (2 * p) % 2 = 0
    <2> HIDE DEF p
    <2>1. QED
      BY <1>3
  <1>5. IntMin(w) = -p /\ IntMax(w) = p - 1 /\ UIntMax(w) = 2 * p - 1
    BY <1>3 DEF IntMin, IntMax, UIntMax
  <1>6. QED
    BY <1>3, <1>4, <1>5

(* The word that holds a number of w bits, read as a signed one.           *)
LEMMA SignedFits ==
  ASSUME NEW w \in 2..Widest, NEW s \in {0, 1}, NEW mag \in Nat, mag < 2 ^ w
  PROVE  LET z == Signed(w, WithSign(s, mag))
         IN  /\ z \in Int /\ (z = 0 <=> mag = 0)
             /\ Fits(TRUE, w, WithSign(s, mag)) => z = WithSign(s, mag) /\ (mag # 0 => Bool(z < 0) = s)
             /\ ~Fits(TRUE, w, WithSign(s, mag)) => mag # 0 /\ Bool(z < 0) # s
  <1> DEFINE p == 2 ^ (w - 1)
             d == 2 ^ w
             y == WithSign(s, mag)
             z == Signed(w, y)
             fit == Fits(TRUE, w, y)
             Right == /\ z \in Int /\ (z = 0 <=> mag = 0)
                      /\ fit => z = y /\ (mag # 0 => Bool(z < 0) = s)
                      /\ ~fit => mag # 0 /\ Bool(z < 0) # s
  <1>1. p \in Nat /\ p >= 2 /\ d = 2 * p /\ IntMin(w) = -p /\ IntMax(w) = p - 1
    BY WordBounds
  <1>2. z = IF y % d > IntMax(w) THEN (y % d) - d ELSE y % d
    BY DEF Signed
  <1>3. fit <=> -p <= y /\ y <= p - 1
    <2>1. y \in Int
      BY DEF WithSign
    <2>2. QED
      BY <1>1, <2>1 DEF Fits, Least, Greatest
  <1> HIDE DEF p, d, z, fit
  <1>4. mag < d /\ d \in Nat \ {0}
    BY <1>1 DEF d
  <1>5. ASSUME s = 0 \/ mag <= 0 PROVE Right
    <2>1. y = mag
      <3>1. mag <= 0 => -mag = mag
        OBVIOUS
      <3>2. QED
        BY <1>5, <3>1 DEF WithSign
    <2>2. y % d = mag
      <3>1. mag \in Int /\ 0 <= mag /\ 0 \in Int /\ mag = mag + d * 0
        BY <1>4
      <3>2. QED
        BY <1>4, <2>1, <3>1, Divides
    <2> HIDE DEF y
    <2>3. z = IF mag > p - 1 THEN mag - 2 * p ELSE mag
      BY <1>1, <1>2, <2>2
    <2>4. fit <=> mag <= p - 1
      BY <1>1, <1>3, <2>1
    <2>5. QED
      BY <1>1, <1>4, <1>5, <2>1, <2>3, <2>4 DEF Bool
  <1>6. ASSUME s = 1, mag > 0 PROVE Right
    <2>1. y = -mag
      BY <1>6 DEF WithSign
    <2>2. y % d = d - mag
      <3>1. d - mag \in Int /\ 0 <= d - mag /\ d - mag < d /\ -1 \in Int /\ -mag = (d - mag) + d * (-1)
        BY <1>4, <1>6
      <3>2. ((d - mag) + d * (-1)) % d = d - mag
        BY <1>4, <3>1, Divides
      <3>3. QED
        BY <2>1, <3>1, <3>2
    <2> HIDE DEF y
    <2>3. z = IF 2 * p - mag > p - 1 THEN -mag ELSE 2 * p - mag
      BY <1>1, <1>2, <1>4, <2>2
    <2>4. QED
      BY <1>1, <1>3, <1>4, <1>6, <2>1, <2>3 DEF Bool
  <1>7. QED
    <2>1. s = 0 \/ mag <= 0 \/ (s = 1 /\ mag > 0)
      OBVIOUS
    <2>2. QED
      BY <1>5, <1>6, <2>1 DEF z, fit

(* The same of an unsigned integer: it must not be negative.               *)
LEMMA UnsignedFits ==
  ASSUME NEW w \in 2..Widest, NEW s \in {0, 1}, NEW mag \in Nat
  PROVE  Fits(FALSE, w, WithSign(s, mag)) <=> mag < 2 ^ w /\ (s = 0 \/ mag = 0)
  <1> DEFINE p == 2 ^ (w - 1)
  <1>1. p \in Nat /\ 2 ^ w = 2 * p /\ UIntMax(w) = 2 * p - 1
    BY WordBounds
  <1>2. WithSign(s, mag) = IF s = 1 THEN -mag ELSE mag
    BY DEF WithSign
  <1> HIDE DEF p
  <1>3. QED
    BY <1>1, <1>2 DEF Fits, Least, Greatest

(* No magnitude of more than w bits fits.                                  *)
LEMMA TooLong ==
  ASSUME NEW w \in 2..Widest, NEW s \in {0, 1}, NEW mag \in Nat, mag >= 2 ^ w, NEW signed \in BOOLEAN
  PROVE  ~Fits(signed, w, WithSign(s, mag))
  <1> DEFINE p == 2 ^ (w - 1)
  <1>1. p \in Nat /\ p >= 2 /\ 2 ^ w = 2 * p /\ UIntMax(w) = 2 * p - 1 /\ IntMin(w) = -p /\ IntMax(w) = p - 1
    BY WordBounds
  <1>2. WithSign(s, mag) = IF s = 1 THEN -mag ELSE mag
    BY DEF WithSign
  <1> HIDE DEF p
  <1>3. QED
    BY <1>1, <1>2 DEF Fits, Least, Greatest

(* How the routines end: a magnitude rounded from the class q is returned, *)
(* or refused.                                                             *)
EndOfSigned(w, s, mag, q, exact) ==
  LET z == Signed(w, WithSign(s, mag))
  IN  (IF mag >= 2 ^ w \/ (z # 0 /\ Bool(z < 0) # s) THEN Clamp(w, s) ELSE Ret(z, Inexact(exact, q # 0)))
        = OnRequest(exact, Converted(TRUE, w, s, mag, q))
EndOfUnsigned(w, s, mag, q, exact) ==
  (IF mag >= 2 ^ w \/ (s = 1 /\ mag # 0) THEN Ret(UIntMax(w), {"invalid"}) ELSE Ret(mag, Inexact(exact, q # 0)))
    = OnRequest(exact, Converted(FALSE, w, s, mag, q))

(* The signed routines end as they should.                                 *)
LEMMA EndsSigned ==
  ASSUME NEW w \in 2..Widest, NEW s \in {0, 1}, NEW mag \in Nat, NEW q \in 0..3, NEW exact \in BOOLEAN
  PROVE  EndOfSigned(w, s, mag, q, exact)
  <1> DEFINE z == Signed(w, WithSign(s, mag))
             fit == Fits(TRUE, w, WithSign(s, mag))
             given == IF mag >= 2 ^ w \/ (z # 0 /\ Bool(z < 0) # s) THEN Clamp(w, s) ELSE Ret(z, Inexact(exact, q # 0))
             asked == OnRequest(exact, Converted(TRUE, w, s, mag, q))
  <1>1. Outside(TRUE, w, s) = Clamp(w, s) /\ OnRequest(exact, Clamp(w, s)) = Clamp(w, s)
    BY DEF Outside, Clamp, Least, Greatest, OnRequest, Ret
  <1>2. OnRequest(exact, Ret(z, IF q = 0 THEN {} ELSE {"inexact"})) = Ret(z, Inexact(exact, q # 0))
    BY DEF OnRequest, Ret, Inexact
  <1>3. ASSUME mag >= 2 ^ w PROVE given = asked
    <2>1. ~fit
      BY <1>3, TooLong
    <2>2. QED
      BY <1>1, <1>3, <2>1 DEF Converted
  <1>4. ASSUME ~(mag >= 2 ^ w) PROVE given = asked
    <2>1. mag < 2 ^ w
      BY <1>4, WordBounds
    <2>2. /\ z \in Int /\ (z = 0 <=> mag = 0)
          /\ fit => z = WithSign(s, mag) /\ (mag # 0 => Bool(z < 0) = s)
          /\ ~fit => mag # 0 /\ Bool(z < 0) # s
      BY <2>1, SignedFits
    <2> HIDE DEF z
    <2>3. CASE fit
      BY <1>2, <1>4, <2>2, <2>3 DEF Converted
    <2>4. CASE ~fit
      BY <1>1, <1>4, <2>2, <2>4 DEF Converted
    <2>5. QED
      BY <2>3, <2>4 DEF z
  <1>5. QED
    BY <1>3, <1>4 DEF EndOfSigned

(* The unsigned routines end as they should.                               *)
LEMMA EndsUnsigned ==
  ASSUME NEW w \in 2..Widest, NEW s \in {0, 1}, NEW mag \in Nat, NEW q \in 0..3, NEW exact \in BOOLEAN
  PROVE  EndOfUnsigned(w, s, mag, q, exact)
  <1> DEFINE fit == Fits(FALSE, w, WithSign(s, mag))
             no == Ret(UIntMax(w), {"invalid"})
  <1>1. Outside(FALSE, w, s) = no /\ OnRequest(exact, no) = no
    BY DEF Outside, Least, Greatest, OnRequest, Ret
  <1>2. OnRequest(exact, Ret(mag, IF q = 0 THEN {} ELSE {"inexact"})) = Ret(mag, Inexact(exact, q # 0))
    BY DEF OnRequest, Ret, Inexact
  <1>3. fit <=> ~(mag >= 2 ^ w \/ (s = 1 /\ mag # 0))
    <2>1. 2 ^ w \in Nat
      BY WordBounds
    <2>2. fit <=> mag < 2 ^ w /\ (s = 0 \/ mag = 0)
      BY UnsignedFits
    <2> HIDE DEF fit
    <2>3. mag < 2 ^ w <=> ~(mag >= 2 ^ w)
      BY <2>1
    <2>4. QED
      BY <2>2, <2>3
  <1>4. fit => WithSign(s, mag) = mag
    <2> HIDE DEF fit
    <2>1. fit => s = 0 \/ mag <= 0
      BY <1>3
    <2>2. mag <= 0 => -mag = mag
      OBVIOUS
    <2>3. QED
      BY <2>1, <2>2 DEF WithSign
  <1> HIDE DEF fit, no
  <1>5. QED
    BY <1>1, <1>2, <1>3, <1>4 DEF Converted, EndOfUnsigned, fit, no

-----------------------------------------------------------------------------
(* The parts of a number that was shifted.                                 *)

LEMMA ScaledLength ==
  ASSUME NEW w, NEW n, BitsAtMost(w, n), NEW l \in Nat, w + l <= Widest
  PROVE  /\ n * 2 ^ l \in Nat /\ BitsAtMost(w + l, n * 2 ^ l) /\ l \in 0..Widest
         /\ n # 0 => BitLength(n * 2 ^ l) = BitLength(n) + l /\ n * 2 ^ l # 0
         /\ n = 0 => n * 2 ^ l = 0
  <1> DEFINE b == BitLength(n)
  <1>1. /\ b \in 0..w /\ b \in 0..Widest /\ b \in Nat /\ n < 2 ^ b /\ 2 ^ b \in Nat \ {0} /\ n \in Nat
        /\ n # 0 => b - 1 \in 0..Widest /\ 2 ^ (b - 1) <= n /\ 2 ^ (b - 1) \in Nat \ {0}
        /\ w \in 0..Widest /\ w \in Nat /\ n < 2 ^ w
    <2>1. w \in 0..Widest /\ w \in Nat /\ n < 2 ^ w /\ n \in Nat
      BY DEF BitsAtMost
    <2>2. QED
      BY <2>1, LengthBounds
  <1> HIDE DEF b
  <1>2. l \in 0..Widest /\ w + l \in 0..Widest /\ b + l <= Widest /\ b + l \in 0..Widest /\ Widest \in Nat
    BY <1>1, FormatWidths
  <1> DEFINE p == 2 ^ l
  <1>3. p \in Nat \ {0} /\ 2 ^ (w + l) = 2 ^ w * p /\ 2 ^ (b + l) = 2 ^ b * p /\ 2 ^ w \in Nat
    BY <1>1, <1>2, PowerSum, Powers
  <1> HIDE DEF p
  <1>4. n * p \in Nat /\ n * p < 2 ^ w * p /\ n * p < 2 ^ b * p
    BY <1>1, <1>3
  <1>5. BitsAtMost(w + l, n * p)
    BY <1>2, <1>3, <1>4 DEF BitsAtMost
  <1>6. n # 0 => BitLength(n * p) = b + l /\ n * p # 0
    <2>1. SUFFICES ASSUME n # 0 PROVE BitLength(n * p) = b + l /\ n * p # 0
      OBVIOUS
    <2>2. b - 1 \in Nat /\ (b - 1) + l <= Widest /\ (b - 1) + l = (b + l) - 1
      BY <1>1, <1>2, <2>1
    <2>3. 2 ^ ((b + l) - 1) = 2 ^ (b - 1) * p
      BY <2>2, PowerSum DEF p
    <2>4. 2 ^ (b - 1) * p <= n * p /\ 2 ^ (b - 1) \in Nat \ {0}
      BY <1>1, <1>3, <2>1
    <2>5. 2 ^ (b - 1) * p >= 1
      BY <1>3, <2>4
    <2>6. n * p \in Nat /\ n * p < 2 ^ (b + l) /\ 2 ^ ((b + l) - 1) <= n * p
      BY <1>3, <1>4, <2>3, <2>4
    <2>7. BitLength(n * p) = b + l
      BY <1>2, <2>6, BitLengthIs
    <2>8. 2 ^ (b - 1) * p \in Int
      BY <1>3, <2>4
    <2>9. QED
      BY <1>4, <2>4, <2>5, <2>7, <2>8
  <1>7. n = 0 => n * p = 0
    BY <1>3
  <1>8. QED
    BY <1>2, <1>4, <1>5, <1>6, <1>7 DEF b, p

(* A rest and its divisor may be scaled alike.                             *)
LEMMA ScaledRest ==
  ASSUME NEW r \in Nat, NEW d \in Nat \ {0}, NEW p \in Nat \ {0}
  PROVE  Rest(r * p, d * p) = Rest(r, d)
  <1>1. r * p \in Nat /\ d * p \in Nat /\ 2 * (r * p) = (2 * r) * p
    OBVIOUS
  <1>2. r = 0 <=> r * p = 0
    <2>1. r >= 1 => r * p >= p
      OBVIOUS
    <2>2. r <= 0 => r * p = 0
      OBVIOUS
    <2>3. QED
      BY <1>1, <2>1, <2>2
  <1>3. 2 * r < d <=> (2 * r) * p < d * p
    <2>1. 2 * r + 1 <= d => (2 * r + 1) * p <= d * p
      OBVIOUS
    <2>2. (2 * r + 1) * p = (2 * r) * p + p /\ (2 * r) * p \in Int
      OBVIOUS
    <2>3. 2 * r >= d => (2 * r) * p >= d * p
      OBVIOUS
    <2>4. QED
      BY <1>1, <2>1, <2>2, <2>3
  <1>4. 2 * r = d <=> (2 * r) * p = d * p
    <2>1. d + 1 <= 2 * r => (d + 1) * p <= (2 * r) * p
      OBVIOUS
    <2>2. (d + 1) * p = d * p + p
      OBVIOUS
    <2>3. 2 * r = d => (2 * r) * p = d * p
      OBVIOUS
    <2>4. (2 * r) * p \in Int
      OBVIOUS
    <2>5. QED
      BY <1>1, <1>3, <2>1, <2>2, <2>3, <2>4
  <1>5. QED
    BY <1>1, <1>2, <1>3, <1>4 DEF Rest

(* A number does not depend on how it is written: n 2^l at scale k - l has *)
(* the parts of n at scale k.                                              *)
LEMMA ScaledParts ==
  ASSUME NEW w, NEW n, BitsAtMost(w, n), NEW l \in Nat, w + l <= Widest, NEW k \in Int, k <= Widest
  PROVE  Whole(n * 2 ^ l, k - l) = Whole(n, k) /\ Part(n * 2 ^ l, k - l) = Part(n, k)
  <1> DEFINE b == BitLength(n)
             big == n * 2 ^ l
             Same == Whole(big, k - l) = Whole(n, k) /\ Part(big, k - l) = Part(n, k)
  <1>1. b \in 0..w /\ b \in Nat /\ n \in Nat /\ w \in Nat /\ w <= Widest /\ Widest \in Nat
    <2>1. n \in Nat /\ w \in Nat /\ w <= Widest /\ Widest \in Nat
      BY FormatWidths DEF BitsAtMost
    <2>2. QED
      BY <2>1, LengthBounds
  <1>2. /\ big \in Nat /\ BitsAtMost(w + l, big) /\ l \in 0..Widest
        /\ n # 0 => BitLength(big) = b + l /\ big # 0
        /\ n = 0 => big = 0
    BY ScaledLength
  <1> HIDE DEF b
  <1>3. k - l <= Widest /\ k - l \in Int
    BY <1>1
  <1>4. ASSUME n = 0 PROVE Same
    <2>1. \A i \in Int : i <= Widest => Whole(0, i) = 0 /\ Part(0, i) = 0
      <3>1. SUFFICES ASSUME NEW i \in Int, i <= Widest PROVE Whole(0, i) = 0 /\ Part(0, i) = 0
        OBVIOUS
      <3>2. CASE i >= 0
        <4>1. i \in 0..Widest
          BY <3>1, <3>2
        <4>2. 0 * 2 ^ i = 0
          BY <4>1, Powers
        <4>3. QED
          BY <3>2, <4>2 DEF Whole, Part
      <3>3. CASE ~(i >= 0)
        BY <3>3 DEF Whole, Part, Tiny, Bool
      <3>4. QED
        BY <3>2, <3>3
    <2>2. QED
      BY <1>2, <1>3, <1>4, <2>1
  <1>5. ASSUME n # 0, b + k < 0 PROVE Same
    <2>1. ~(k >= 0) /\ ~(k - l >= 0) /\ (b + l) + (k - l) < 0
      BY <1>1, <1>5
    <2>2. Tiny(n, k) /\ Tiny(big, k - l)
      BY <1>2, <1>5, <2>1 DEF Tiny, b
    <2> HIDE DEF big
    <2>3. QED
      BY <1>2, <1>5, <2>1, <2>2 DEF Whole, Part, Bool
  <1>6. ASSUME n # 0, b + k >= 0, k >= l PROVE Same
    <2>1. k \in Nat /\ k - l \in Nat /\ l + (k - l) = k /\ k - l >= 0 /\ k >= 0 /\ k - l \in 0..Widest
      BY <1>1, <1>3, <1>6
    <2>2. 2 ^ k = 2 ^ l * 2 ^ (k - l) /\ 2 ^ l \in Nat /\ 2 ^ (k - l) \in Nat
      BY <1>2, <2>1, PowerSum, Powers
    <2>3. big * 2 ^ (k - l) = n * 2 ^ k
      BY <1>1, <2>2
    <2>4. QED
      BY <2>1, <2>3 DEF Whole, Part
  <1>7. ASSUME n # 0, b + k >= 0, 0 <= k, k < l PROVE Same
    <2> DEFINE j == l - k
    <2>1. j \in 0..Widest /\ j \in Nat /\ k \in Nat /\ k \in 0..Widest /\ k + j = l /\ -j = k - l /\ k >= 0
      BY <1>1, <1>2, <1>7
    <2> HIDE DEF j
    <2>2. 2 ^ l = 2 ^ k * 2 ^ j /\ 2 ^ k \in Nat /\ 2 ^ j \in Nat \ {0}
      BY <1>2, <2>1, PowerSum, Powers
    <2> DEFINE d == 2 ^ j
               i == n * 2 ^ k
    <2>3. d \in Nat \ {0} /\ i \in Nat /\ big = 0 + d * i
      BY <1>1, <2>2
    <2>4. Whole(big, -j) = big \div d /\ Part(big, -j) = Rest(big % d, d)
      BY <1>2, <2>1, PartsByDivision
    <2> HIDE DEF d, i
    <2>5. big \div d = i /\ big % d = 0
      <3>1. big = d * i
        BY <2>3
      <3> HIDE DEF big
      <3>2. d \in Nat \ {0} /\ i \in Int
        BY <2>3
      <3>3. (d * i) \div d = i /\ (d * i) % d = 0
        BY <3>2, Multiple
      <3>4. QED
        BY <3>1, <3>3
    <2>6. Rest(0, d) = 0
      BY DEF Rest
    <2>7. Whole(n, k) = i /\ Part(n, k) = 0
      BY <2>1 DEF Whole, Part, i
    <2>8. QED
      BY <2>1, <2>4, <2>5, <2>6, <2>7
  <1>8. ASSUME n # 0, b + k >= 0, k < 0 PROVE Same
    <2> DEFINE i == -k
               j == i + l
    <2>1. i \in 0..Widest /\ i \in Nat /\ j \in 0..Widest /\ -i = k /\ -j = k - l /\ i + l <= Widest
      BY <1>1, <1>8
    <2> HIDE DEF i
    <2> DEFINE d == 2 ^ i
               p == 2 ^ l
    <2>2. d \in Nat \ {0} /\ p \in Nat \ {0} /\ 2 ^ j = d * p
      BY <1>2, <2>1, PowerSum, Powers
    <2>3. Whole(n, k) = n \div d /\ Part(n, k) = Rest(n % d, d)
      BY <2>1, PartsByDivision
    <2>4. Whole(big, k - l) = big \div 2 ^ j /\ Part(big, k - l) = Rest(big % 2 ^ j, 2 ^ j)
      BY <1>2, <2>1, PartsByDivision
    <2> DEFINE q == n \div d
               r == n % d
    <2> HIDE DEF d, p, j
    <2>5. n = r + d * q /\ r \in Int /\ 0 <= r /\ r < d /\ q \in Int
      BY <1>1, <2>2, Division
    <2> HIDE DEF q, r
    <2>6. big = r * p + (d * p) * q /\ r * p \in Int /\ 0 <= r * p /\ r * p < d * p /\ d * p \in Nat \ {0}
      <3>1. big = (r + d * q) * p
        BY <2>5 DEF p
      <3>2. (r + d * q) * p = r * p + (d * p) * q
        BY <2>2, <2>5
      <3>3. r * p \in Int /\ 0 <= r * p /\ r * p < d * p /\ d * p \in Nat \ {0}
        BY <2>2, <2>5
      <3>4. QED
        BY <3>1, <3>2, <3>3
    <2>7. big \div (d * p) = q /\ big % (d * p) = r * p
      <3> DEFINE e == d * p
                 u == r * p
      <3>1. e \in Nat \ {0} /\ u \in Int /\ 0 <= u /\ u < e /\ q \in Int /\ big = u + e * q
        BY <2>5, <2>6
      <3> HIDE DEF e, u, big
      <3>2. (u + e * q) \div e = q /\ (u + e * q) % e = u
        BY <3>1, Divides
      <3>3. QED
        BY <3>1, <3>2 DEF e, u
    <2>8. Rest(r * p, d * p) = Rest(r, d)
      BY <2>2, <2>5, ScaledRest
    <2>9. QED
      BY <2>2, <2>3, <2>4, <2>7, <2>8 DEF q, r
  <1>9. QED
    <2>1. \/ n = 0 \/ b + k < 0 \/ (b + k >= 0 /\ k >= l) \/ (b + k >= 0 /\ 0 <= k /\ k < l) \/ (b + k >= 0 /\ k < 0)
      BY <1>1
    <2>2. QED
      BY <1>4, <1>5, <1>6, <1>7, <1>8, <2>1

(* What falls off a word stays visible in its last bit: with two bits or   *)
(* more below the point the class of the rest is the same.  The word u is  *)
(* v + e i, e = 4 k; r of d fell off.                                      *)
Jammed(d, r, k, v) ==
  /\ d \in Nat \ {0} /\ k \in Nat \ {0} /\ r \in Nat /\ v \in Nat /\ r < d /\ v < 4 * k

(* The class of the rest of a jammed word is that of the whole number.     *)
LEMMA RestOfJam ==
  ASSUME NEW d, NEW r, NEW k, NEW v, Jammed(d, r, k, v)
  PROVE  /\ Rest(OrOne(v, r # 0), 4 * k) = Rest(r + d * v, d * (4 * k))
         /\ OrOne(v, r # 0) \in Nat /\ OrOne(v, r # 0) < 4 * k
  <1> DEFINE h == 2 * k
             y == OrOne(v, r # 0)
             x == r + d * v
  <1>1. d \in Nat \ {0} /\ k \in Nat \ {0} /\ r \in Nat /\ v \in Nat /\ r < d /\ v < 4 * k
    BY DEF Jammed
  <1>2. h \in Nat \ {0} /\ h % 2 = 0 /\ 4 * k = 2 * h
    BY <1>1
  <1>3. /\ y \in Nat /\ (r = 0 => y = v)
        /\ r # 0 => y % 2 = 1 /\ (y = v \/ (y = v + 1 /\ v % 2 = 0))
    BY <1>1 DEF OrOne
  <1> HIDE DEF y, h
  <1>4. y < 2 * h
    BY <1>1, <1>2, <1>3
  <1>5. d * v \in Nat /\ x \in Nat /\ d * (2 * h) \in Nat /\ d * h \in Nat /\ d * (2 * h) = 2 * (d * h)
    BY <1>1, <1>2
  <1>6. /\ v < h => x < d * h
        /\ v > h => x > d * h
        /\ v = h => x = r + d * h
        /\ v >= 1 => x >= 1
        /\ v <= 0 => x = r
    <2>1. v + 1 <= h => d * (v + 1) <= d * h
      BY <1>1, <1>2
    <2>2. v >= h + 1 => d * v >= d * (h + 1)
      BY <1>1, <1>2
    <2>3. d * (v + 1) = d * v + d /\ d * (h + 1) = d * h + d
      BY <1>1, <1>2
    <2>4. v >= 1 => d * v >= d
      BY <1>1
    <2>5. v <= 0 => d * v = 0
      BY <1>1
    <2>6. QED
      BY <1>1, <1>2, <1>5, <2>1, <2>2, <2>3, <2>4, <2>5
  <1> HIDE DEF x
  <1>7. y = 0 <=> x = 0
    BY <1>1, <1>3, <1>5, <1>6
  <1>8. y < h <=> x < d * h
    BY <1>1, <1>2, <1>3, <1>5, <1>6
  <1>9. y = h <=> x = d * h
    BY <1>1, <1>2, <1>3, <1>5, <1>6
  <1> DEFINE e == d * h
  <1>10. Rest(y, 2 * h) = Rest(x, 2 * e)
    <2>1. e \in Nat /\ (y < h <=> x < e) /\ (y = h <=> x = e)
      BY <1>5, <1>8, <1>9
    <2> HIDE DEF e
    <2>2. QED
      BY <1>2, <1>3, <1>5, <1>7, <2>1 DEF Rest
  <1>11. QED
    BY <1>2, <1>3, <1>4, <1>5, <1>10 DEF y, x, e

(* softfloat_shiftRightJam, read with g bits below the point, leaves the   *)
(* parts of the number it was given.                                       *)
LEMMA JamParts ==
  ASSUME NEW w, NEW x, BitsAtMost(w, x), NEW n \in Nat \ {0}, NEW g \in Nat, g >= 2,
         g <= Widest, n <= BitLength(x) => n + g <= Widest
  PROVE  LET y == ShiftRightJam(x, n)
         IN  /\ y \in Nat
             /\ y \div 2 ^ g = Whole(x, -(n + g))
             /\ Rest(y % 2 ^ g, 2 ^ g) = Part(x, -(n + g))
  <1> DEFINE b == BitLength(x)
             y == ShiftRightJam(x, n)
             e == 2 ^ g
             k == 2 ^ (g - 2)
             Right == y \in Nat /\ y \div e = Whole(x, -(n + g)) /\ Rest(y % e, e) = Part(x, -(n + g))
  <1>1. x \in Nat /\ w \in Nat /\ Widest \in Nat /\ w <= Widest
    BY FormatWidths DEF BitsAtMost
  <1>2. b \in 0..w /\ b \in Nat
    BY <1>1, LengthBounds
  <1>3. g \in 0..Widest /\ g - 1 \in 0..Widest /\ g - 2 \in 0..Widest /\ g # 0 /\ g - 1 # 0 /\ (g - 1) - 1 = g - 2
    BY <1>1
  <1>4. e = 4 * k /\ k \in Nat \ {0}
    <2>1. 2 ^ g = 2 * 2 ^ (g - 1) /\ 2 ^ (g - 1) = 2 * 2 ^ (g - 2) /\ 2 ^ (g - 2) \in Nat \ {0}
      BY <1>3, PowerStep, Powers
    <2>2. QED
      BY <2>1
  <1>5. e \in Nat \ {0} /\ e >= 4
    BY <1>4
  <1>6. y = IF n > b THEN Bool(x # 0) ELSE OrOne(x \div 2 ^ n, x % 2 ^ n # 0)
    BY DEF ShiftRightJam
  <1> HIDE DEF b, y, e, k
  <1>7. ASSUME n > b PROVE Right
    <2>1. ~(-(n + g) >= 0) /\ b + (-(n + g)) < 0
      BY <1>2, <1>7
    <2>2. Whole(x, -(n + g)) = 0 /\ Part(x, -(n + g)) = Bool(x # 0)
      BY <2>1 DEF Whole, Part, Tiny, b
    <2>3. y = Bool(x # 0) /\ y \in {0, 1}
      BY <1>6, <1>7 DEF Bool
    <2>4. y \div e = 0 /\ y % e = y
      <3>1. y \in Nat /\ y < e
        BY <1>5, <2>3
      <3>2. QED
        BY <1>5, <3>1, BelowDivisor
    <2>5. Rest(y, e) = y
      BY <1>5, <2>3 DEF Rest
    <2>6. QED
      BY <2>2, <2>3, <2>4, <2>5
  <1>8. ASSUME ~(n > b) PROVE Right
    <2>1. n \in 0..Widest /\ n \in Nat /\ n + g <= Widest /\ n + g \in 0..Widest
      BY <1>1, <1>2, <1>8 DEF b
    <2> DEFINE d == 2 ^ n
               u == x \div d
               r == x % d
               i == u \div e
               v == u % e
    <2>2. d \in Nat \ {0} /\ 2 ^ (n + g) = d * e
      BY <2>1, PowerSum, Powers DEF e
    <2>3. Whole(x, -(n + g)) = x \div (d * e) /\ Part(x, -(n + g)) = Rest(x % (d * e), d * e)
      BY <2>1, <2>2, PartsByDivision
    <2>4. y = OrOne(u, r # 0)
      BY <1>6, <1>8
    <2> HIDE DEF d
    <2>5. x = r + d * u /\ r \in Int /\ 0 <= r /\ r < d /\ u \in Int
      <3>1. x \in Int
        BY <1>1
      <3>2. QED
        BY <2>2, <3>1, Division
    <2> HIDE DEF u, r
    <2>6. u >= 0
      <3>1. u <= -1 => d * u <= -d
        BY <2>2, <2>5
      <3>2. d * u \in Int
        BY <2>2, <2>5
      <3>3. QED
        BY <1>1, <2>2, <2>5, <3>1, <3>2
    <2>7. u = v + e * i /\ v \in Int /\ 0 <= v /\ v < e /\ i \in Int
      BY <1>5, <2>5, Division
    <2> HIDE DEF v, i
    <2>8. Jammed(d, r, k, v)
      BY <1>4, <2>2, <2>5, <2>7 DEF Jammed
    <2>9. /\ Rest(OrOne(v, r # 0), e) = Rest(r + d * v, d * e)
          /\ OrOne(v, r # 0) \in Nat /\ OrOne(v, r # 0) < e
      BY <1>4, <2>8, RestOfJam
    <2>10. y = OrOne(v, r # 0) + e * i
      <3>1. u % 2 = v % 2
        <4>1. u = v + 2 * ((2 * k) * i) /\ (2 * k) * i \in Int
          <5>1. (4 * k) * i = 2 * ((2 * k) * i) /\ (2 * k) * i \in Int
            BY <1>4, <2>7
          <5>2. QED
            BY <1>4, <2>7, <5>1
        <4>2. PICK j \in Int : u = v + 2 * j
          BY <4>1
        <4>3. QED
          BY <2>5, <2>7, <4>2
      <3>2. e * i \in Int
        BY <1>5, <2>7
      <3>3. QED
        BY <2>4, <2>5, <2>7, <3>1, <3>2 DEF OrOne
    <2>11. y \div e = i /\ y % e = OrOne(v, r # 0)
      <3> DEFINE o == OrOne(v, r # 0)
      <3>1. o \in Int /\ 0 <= o /\ o < e /\ y = o + e * i
        BY <2>9, <2>10
      <3> HIDE DEF o
      <3>2. (o + e * i) \div e = i /\ (o + e * i) % e = o
        BY <1>5, <2>7, <3>1, Divides
      <3>3. QED
        BY <3>1, <3>2 DEF o
    <2>12. x \div (d * e) = i /\ x % (d * e) = r + d * v
      <3> DEFINE c == d * e
                 o == r + d * v
      <3>1. c \in Nat \ {0} /\ x = o + c * i /\ o \in Int /\ 0 <= o /\ o < c
        <4>1. d * (v + e * i) = d * v + (d * e) * i /\ d * v \in Int /\ (d * e) * i \in Int /\ d * e \in Nat \ {0}
          BY <1>5, <2>2, <2>7
        <4>2. 0 <= r + d * v /\ r + d * v < d * e
          BY <1>5, <2>2, <2>5, <2>7, Digits2
        <4>3. QED
          BY <2>5, <2>7, <4>1, <4>2
      <3> HIDE DEF c, o
      <3>2. (o + c * i) \div c = i /\ (o + c * i) % c = o
        BY <2>7, <3>1, Divides
      <3>3. QED
        BY <3>1, <3>2 DEF c, o
    <2>13. y \in Nat
      <3>1. y = OrOne(u, r # 0) /\ u \in Nat
        BY <2>4, <2>5, <2>6
      <3>2. QED
        BY <3>1 DEF OrOne
    <2>14. QED
      BY <2>3, <2>9, <2>11, <2>12, <2>13
  <1>9. QED
    BY <1>7, <1>8 DEF y, e

-----------------------------------------------------------------------------
(* What the reference makes of a number: its parts, rounded.               *)

LEMMA RoundedBy ==
  ASSUME NEW x, NEW m \in Modes, NEW s \in {0, 1}, s = Bool(x.n < 0), NEW d \in Nat \ {0}, NEW n \in Nat,
         d = 2 ^ (IF x.k < 0 THEN -x.k ELSE 0), n = Abs(x.n) * 2 ^ (IF x.k > 0 THEN x.k ELSE 0)
  PROVE  LET i == n \div d
             q == Rest(n % d, d)
         IN  /\ Rounded(m, x).z = WithSign(s, i + Bool(RoundsUp(m, s, i, q)))
             /\ Rounded(m, x).exact \in BOOLEAN
             /\ Rounded(m, x).exact <=> q = 0
  <1> DEFINE i == n \div d
             r == n % d
             q == Rest(r, d)
             up == CASE m = "near_even" -> 2 * r > d \/ (2 * r = d /\ i % 2 = 1)
                     [] m = "near_maxMag" -> 2 * r >= d
                     [] OTHER -> r # 0 /\ AwayFromZero(m, s)
  <1>1. Rounded(m, x) = [z |-> IF s = 1 THEN -(i + Bool(up)) ELSE i + Bool(up), exact |-> r = 0]
    BY DEF Rounded
  <1>2. r \in Int /\ 0 <= r /\ r < d
    BY Division
  <1> HIDE DEF i, r
  <1>3. up <=> RoundsUp(m, s, i, q)
    <2>1. /\ q \in 0..3 /\ (q = 0 <=> r = 0)
          /\ q = 3 <=> 2 * r > d
          /\ q = 2 <=> 2 * r = d
      BY <1>2 DEF Rest
    <2> HIDE DEF q
    <2>2. CASE m = "near_even"
      BY <2>1, <2>2 DEF RoundsUp
    <2>3. CASE m = "near_maxMag"
      <3>1. q \in {2, 3} <=> 2 * r >= d
        BY <1>2, <2>1
      <3>2. QED
        BY <2>3, <3>1 DEF RoundsUp
    <2>4. CASE m # "near_even" /\ m # "near_maxMag"
      BY <2>1, <2>4 DEF RoundsUp
    <2>5. QED
      BY <2>2, <2>3, <2>4
  <1>4. Bool(up) = Bool(RoundsUp(m, s, i, q))
    BY <1>3 DEF Bool
  <1>5. r = 0 <=> q = 0
    BY <1>2 DEF Rest
  <1> HIDE DEF q, up
  <1> DEFINE Right(z) == /\ Rounded(m, x).z = WithSign(s, z)
                         /\ Rounded(m, x).exact \in BOOLEAN
                         /\ Rounded(m, x).exact <=> q = 0
  <1>6. Rounded(m, x).z = WithSign(s, i + Bool(up))
    BY <1>1 DEF WithSign
  <1>7. Rounded(m, x).exact = (r = 0)
    BY <1>1
  <1>8. Right(i + Bool(RoundsUp(m, s, i, q)))
    BY <1>4, <1>5, <1>6, <1>7
  <1>9. QED
    BY <1>8 DEF i, r, q

(* A number of at most w bits and a few more of fraction, with its sign.   *)
IsSigned(x, s, n, k) ==
  x = Num(WithSign(s, n), k) /\ s \in {0, 1} /\ n \in Nat /\ k \in Int

(* The reference's rounding of a signed number: the magnitude rounded,     *)
(* with its sign, exact when there is no rest; a number of more than w + 2 *)
(* bits stands for all of them.                                            *)
LEMMA RoundedIs ==
  ASSUME NEW u, NEW n, BitsAtMost(u, n), u < Widest, NEW x, NEW s, NEW k, IsSigned(x, s, n, k),
         NEW m \in Modes, NEW w \in 2..W(F64)
  PROVE  LET t == BitLength(n) + k
             r == Rounded(m, Manageable(w, x))
         IN  /\ t <= w + 2 => /\ r.z = WithSign(s, RoundedMag(m, s, n, k))
                              /\ r.exact <=> Part(n, k) = 0
             /\ n # 0 /\ t > w + 2 => r.z = WithSign(s, 2 ^ (w + 2))
             /\ r.exact \in BOOLEAN
  <1> DEFINE b == BitLength(n)
             t == b + k
             y == Manageable(w, x)
             r == Rounded(m, y)
             Right == /\ t <= w + 2 => r.z = WithSign(s, RoundedMag(m, s, n, k)) /\ (r.exact <=> Part(n, k) = 0)
                      /\ n # 0 /\ t > w + 2 => r.z = WithSign(s, 2 ^ (w + 2))
                      /\ r.exact \in BOOLEAN
  <1>1. /\ n \in Nat /\ u \in Nat /\ u < Widest /\ Widest \in Nat /\ w + 2 \in 0..Widest /\ w + 2 \in Nat
        /\ s \in {0, 1} /\ k \in Int /\ x.n = WithSign(s, n) /\ x.k = k /\ w \in Nat
    <2>1. n \in Nat /\ u \in Nat /\ Widest \in Nat /\ W(F64) \in Nat /\ Widest = W(F64) + 2
      BY FormatWidths DEF BitsAtMost, Widest, Formats
    <2>2. QED
      BY <2>1 DEF IsSigned, Num
  <1>2. b \in 0..u /\ b \in Nat /\ (b = 0 <=> n = 0) /\ (n # 0 => b >= 1)
    BY <1>1, LengthBounds
  <1>3. Abs(x.n) = n /\ (n # 0 => SignOf(x.n) = WithSign(s, 1)) /\ (n # 0 <=> x.n # 0)
        /\ (n # 0 => Bool(x.n < 0) = s) /\ (n # 0 => Bool(WithSign(s, 1) < 0) = s)
    <2>1. CASE n <= 0
      <3>1. x.n = 0
        BY <1>1, <2>1 DEF WithSign
      <3>2. QED
        BY <1>1, <2>1, <3>1 DEF Abs
    <2>2. CASE n > 0
      BY <1>1, <2>2 DEF Abs, SignOf, WithSign, Bool
    <2>3. QED
      BY <1>1, <2>1, <2>2
  <1>4. TopOf(x) = t
    BY <1>1, <1>3 DEF TopOf
  <1>5. 2 ^ 0 = 1 /\ Abs(WithSign(s, 1)) = 1 /\ WithSign(s, 1) \in Int
    <2>1. WithSign(s, 1) \in {1, -1}
      BY DEF WithSign
    <2>2. \A i \in Int : (i >= 1 /\ i <= 1) \/ (i <= -1 /\ i >= -1) => Abs(i) = 1
      BY DEF Abs
    <2>3. 2 ^ 0 = 1
      BY Powers
    <2>4. QED
      BY <2>1, <2>2, <2>3
  <1> HIDE DEF b, r, y
  <1>6. ASSUME n <= 0 PROVE Right
    <2>1. n = 0 /\ x.n = 0
      BY <1>1, <1>3, <1>6
    <2>2. y = Num(0, 0)
      BY <2>1 DEF Manageable, y
    <2>3. y.n = 0 /\ y.k = 0 /\ Bool(y.n < 0) = 0 /\ Abs(y.n) = 0
      BY <2>2 DEF Num, Bool, Abs
    <2>4. 1 = 2 ^ (IF y.k < 0 THEN -y.k ELSE 0) /\ 0 = Abs(y.n) * 2 ^ (IF y.k > 0 THEN y.k ELSE 0)
      BY <1>5, <2>3
    <2>5. 0 \div 1 = 0 /\ 0 % 1 = 0
      OBVIOUS
    <2>6. Rest(0, 1) = 0 /\ ~RoundsUp(m, 0, 0, 0) /\ ~RoundsUp(m, s, 0, 0)
      <3>1. Rest(0, 1) = 0
        BY DEF Rest
      <3>2. \A a \in {0, 1} : ~RoundsUp(m, a, 0, 0)
        BY DEF RoundsUp
      <3>3. QED
        BY <1>1, <3>1, <3>2
    <2>7. r.z = WithSign(0, 0 + Bool(RoundsUp(m, 0, 0, 0))) /\ r.exact \in BOOLEAN /\ (r.exact <=> Rest(0, 1) = 0)
      <3>1. 0 \in {0, 1} /\ 1 \in Nat \ {0} /\ 0 \in Nat
        OBVIOUS
      <3>2. /\ Rounded(m, y).z = WithSign(0, 0 \div 1 + Bool(RoundsUp(m, 0, 0 \div 1, Rest(0 % 1, 1))))
            /\ Rounded(m, y).exact \in BOOLEAN /\ (Rounded(m, y).exact <=> Rest(0 % 1, 1) = 0)
        BY <2>3, <2>4, <3>1, RoundedBy
      <3>3. QED
        BY <2>5, <2>6, <3>2 DEF r
    <2>8. r.z = 0 /\ r.exact
      BY <2>6, <2>7 DEF WithSign, Bool
    <2>9. t <= w + 2 => Whole(n, k) = 0 /\ Part(n, k) = 0
      <3>1. SUFFICES ASSUME t <= w + 2 PROVE Whole(n, k) = 0 /\ Part(n, k) = 0
        OBVIOUS
      <3>2. t \in Int /\ t <= Widest /\ t = BitLength(n) + k
        BY <1>1, <1>2, <3>1 DEF b
      <3>3. QED
        BY <1>1, <2>1, <3>2, WholeBounds
    <2>10. WithSign(s, 0) = 0
      <3>1. \A i \in Nat : i <= 0 => WithSign(s, i) = 0
        BY DEF WithSign
      <3>2. QED
        BY <3>1
    <2>11. t <= w + 2 => RoundedMag(m, s, n, k) = 0
      BY <2>6, <2>9 DEF RoundedMag, Bool
    <2>12. QED
      BY <2>1, <2>7, <2>8, <2>9, <2>10, <2>11
  <1>7. ASSUME n > 0, t < -1 PROVE Right
    <2>1. y = Num(WithSign(s, 1), -2)
      <3>1. x.n # 0 /\ TopOf(x) < -1 /\ SignOf(x.n) = WithSign(s, 1)
        BY <1>3, <1>4, <1>7
      <3>2. Manageable(w, x) = Num(SignOf(x.n), -2)
        BY <1>1, <1>2, <1>4, <3>1 DEF Manageable
      <3>3. QED
        BY <3>1, <3>2 DEF y
    <2>2. y.n = WithSign(s, 1) /\ y.k = -2
      BY <2>1 DEF Num
    <2>3. 2 ^ 2 = 4
      <3>1. 2 \in 0..Widest /\ 1 \in 0..Widest
        BY <1>1
      <3>2. 2 ^ 2 = 2 * 2 ^ 1 /\ 2 ^ 1 = 2 * 2 ^ 0
        BY <3>1, PowerStep
      <3>3. QED
        BY <1>5, <3>2
    <2>4. 4 = 2 ^ (IF y.k < 0 THEN -y.k ELSE 0) /\ 1 = Abs(y.n) * 2 ^ (IF y.k > 0 THEN y.k ELSE 0)
      <3>1. y.k < 0 /\ ~(y.k > 0) /\ -y.k = 2
        <4>1. \A i \in Int : i <= -2 /\ i >= -2 => i < 0 /\ ~(i > 0) /\ -i = 2
          OBVIOUS
        <4>2. y.k \in Int /\ y.k <= -2 /\ y.k >= -2
          BY <2>2
        <4>3. QED
          BY <4>1, <4>2
      <3>2. (IF y.k < 0 THEN -y.k ELSE 0) = 2 /\ (IF y.k > 0 THEN y.k ELSE 0) = 0
        BY <3>1
      <3>3. Abs(y.n) * 1 = 1
        BY <1>5, <2>2
      <3>4. QED
        BY <1>5, <2>3, <3>2, <3>3
    <2>5. s = Bool(y.n < 0)
      BY <1>3, <1>7, <2>2
    <2>6. /\ Rounded(m, y).z = WithSign(s, 1 \div 4 + Bool(RoundsUp(m, s, 1 \div 4, Rest(1 % 4, 4))))
          /\ Rounded(m, y).exact \in BOOLEAN /\ (Rounded(m, y).exact <=> Rest(1 % 4, 4) = 0)
      BY <1>1, <2>4, <2>5, RoundedBy
    <2>7. 1 \div 4 = 0 /\ 1 % 4 = 1 /\ Rest(1, 4) = 1
      BY DEF Rest
    <2>8. ~(k >= 0) /\ Tiny(n, k)
      BY <1>1, <1>2, <1>7 DEF Tiny, b
    <2>9. Whole(n, k) = 0 /\ Part(n, k) = 1
      BY <1>7, <2>8 DEF Whole, Part, Bool
    <2>10. t <= w + 2 /\ ~(t > w + 2)
      BY <1>1, <1>2, <1>7
    <2>11. QED
      BY <2>6, <2>7, <2>9, <2>10 DEF RoundedMag, r
  <1>8. ASSUME n > 0, -1 <= t, t <= w + 2 PROVE Right
    <2>1. y = x
      BY <1>1, <1>2, <1>3, <1>4, <1>8 DEF Manageable, y
    <2>2. s = Bool(y.n < 0) /\ Abs(y.n) = n /\ y.k = k
      BY <1>1, <1>3, <1>8, <2>1
    <2>3. CASE k >= 0
      <3>1. k \in 0..Widest /\ ~(k < 0)
        BY <1>1, <1>2, <1>8, <2>3
      <3> DEFINE j == n * 2 ^ k
      <3>2. 2 ^ k \in Nat /\ j \in Nat
        BY <1>1, <3>1, Powers
      <3>3. 1 = 2 ^ (IF y.k < 0 THEN -y.k ELSE 0) /\ j = Abs(y.n) * 2 ^ (IF y.k > 0 THEN y.k ELSE 0)
        <4>1. CASE k > 0
          BY <1>5, <2>2, <3>1, <4>1
        <4>2. CASE ~(k > 0)
          <5>1. k = 0
            BY <3>1, <4>2
          <5>2. QED
            BY <1>5, <2>2, <5>1
        <4>3. QED
          BY <4>1, <4>2
      <3>4. Whole(n, k) = j /\ Part(n, k) = 0
        BY <2>3 DEF Whole, Part
      <3> HIDE DEF j
      <3>5. j \div 1 = j /\ j % 1 = 0 /\ Rest(0, 1) = 0
        BY <3>2 DEF Rest
      <3>6. /\ Rounded(m, y).z = WithSign(s, j \div 1 + Bool(RoundsUp(m, s, j \div 1, Rest(j % 1, 1))))
            /\ Rounded(m, y).exact \in BOOLEAN /\ (Rounded(m, y).exact <=> Rest(j % 1, 1) = 0)
        <4>1. 1 \in Nat \ {0}
          OBVIOUS
        <4>2. QED
          BY <1>1, <2>2, <3>2, <3>3, <4>1, RoundedBy
      <3>7. ~(t > w + 2)
        BY <1>1, <1>2, <1>8
      <3>8. QED
        BY <3>4, <3>5, <3>6, <3>7 DEF RoundedMag, r
    <2>4. CASE ~(k >= 0)
      <3> DEFINE j == -k
                 d == 2 ^ j
      <3>1. j \in 0..Widest /\ -j = k /\ k < 0 /\ ~(k > 0)
        BY <1>1, <1>2, <1>8, <2>4
      <3>2. Whole(n, -j) = n \div 2 ^ j /\ Part(n, -j) = Rest(n % 2 ^ j, 2 ^ j)
        BY <3>1, PartsByDivision
      <3>3. d \in Nat \ {0}
        BY <3>1, Powers
      <3>4. d = 2 ^ (IF y.k < 0 THEN -y.k ELSE 0) /\ n = Abs(y.n) * 2 ^ (IF y.k > 0 THEN y.k ELSE 0)
        BY <1>1, <1>5, <2>2, <3>1
      <3>5. /\ Rounded(m, y).z = WithSign(s, n \div d + Bool(RoundsUp(m, s, n \div d, Rest(n % d, d))))
            /\ Rounded(m, y).exact \in BOOLEAN /\ (Rounded(m, y).exact <=> Rest(n % d, d) = 0)
        <4> HIDE DEF d
        <4>1. QED
          BY <1>1, <2>2, <3>3, <3>4, RoundedBy
      <3>6. ~(t > w + 2)
        BY <1>1, <1>2, <1>8
      <3>7. QED
        BY <3>1, <3>2, <3>5, <3>6 DEF RoundedMag, r
    <2>5. QED
      BY <2>3, <2>4
  <1>9. ASSUME n > 0, t > w + 2 PROVE Right
    <2>1. ~(t < -1) /\ ~(t <= w + 2)
      BY <1>1, <1>2, <1>9
    <2>2. y = Num(WithSign(s, 1), w + 2)
      BY <1>1, <1>3, <1>4, <1>9, <2>1 DEF Manageable, y
    <2>3. y.n = WithSign(s, 1) /\ y.k = w + 2 /\ y.k > 0 /\ ~(y.k < 0)
      BY <1>1, <2>2 DEF Num
    <2> DEFINE j == 2 ^ (w + 2)
    <2>4. j \in Nat
      BY <1>1, Powers
    <2>5. 1 = 2 ^ (IF y.k < 0 THEN -y.k ELSE 0) /\ j = Abs(y.n) * 2 ^ (IF y.k > 0 THEN y.k ELSE 0)
      BY <1>5, <2>3, <2>4
    <2>6. s = Bool(y.n < 0)
      BY <1>3, <1>9, <2>3
    <2> HIDE DEF j
    <2>7. j \div 1 = j /\ j % 1 = 0 /\ Rest(0, 1) = 0
      BY <2>4 DEF Rest
    <2>8. /\ Rounded(m, y).z = WithSign(s, j \div 1 + Bool(RoundsUp(m, s, j \div 1, Rest(j % 1, 1))))
          /\ Rounded(m, y).exact \in BOOLEAN
      <3>1. 1 \in Nat \ {0}
        OBVIOUS
      <3>2. QED
        BY <1>1, <2>4, <2>5, <2>6, <3>1, RoundedBy
    <2>9. ~RoundsUp(m, s, j, 0)
      BY DEF RoundsUp
    <2>10. r.z = WithSign(s, j)
      BY <2>4, <2>7, <2>8, <2>9 DEF Bool, r
    <2>11. QED
      BY <2>1, <2>8, <2>10 DEF j, r
  <1>10. QED
    <2>1. n <= 0 \/ (n > 0 /\ t < -1) \/ (n > 0 /\ -1 <= t /\ t <= w + 2) \/ (n > 0 /\ t > w + 2)
      BY <1>1, <1>2
    <2>2. QED
      BY <1>6, <1>7, <1>8, <1>9, <2>1 DEF b, y, r

(* A rounded magnitude is the whole part or the next integer; a long       *)
(* number stays long.                                                      *)
LEMMA MagnitudeRounded ==
  ASSUME NEW u, NEW n, BitsAtMost(u, n), NEW k \in Int, NEW t \in Int, t = BitLength(n) + k, t <= Widest,
         NEW m, NEW s
  PROVE  LET mag == RoundedMag(m, s, n, k)
         IN  /\ mag \in Nat /\ Whole(n, k) <= mag /\ mag <= Whole(n, k) + 1 /\ Part(n, k) \in 0..3
             /\ \A w \in Nat : n # 0 /\ t >= w + 1 => mag >= 2 ^ w
  <1>1. /\ Whole(n, k) \in Nat /\ Part(n, k) \in 0..3
        /\ n # 0 /\ t >= 1 => 2 ^ (t - 1) <= Whole(n, k)
    BY WholeBounds
  <1> DEFINE mag == RoundedMag(m, s, n, k)
  <1>2. mag \in Nat /\ Whole(n, k) <= mag /\ mag <= Whole(n, k) + 1
    BY <1>1 DEF RoundedMag, Bool
  <1> HIDE DEF mag
  <1>3. ASSUME NEW w \in Nat, n # 0, t >= w + 1 PROVE mag >= 2 ^ w
    <2>1. t - 1 \in 0..Widest /\ w \in 0..Widest /\ w <= t - 1 /\ t >= 1
      BY <1>3, FormatWidths
    <2>2. 2 ^ w <= 2 ^ (t - 1) /\ 2 ^ w \in Nat /\ 2 ^ (t - 1) \in Nat
      BY <2>1, PowerOrder, Powers
    <2>3. QED
      BY <1>1, <1>2, <1>3, <2>1, <2>2
  <1>4. QED
    BY <1>1, <1>2, <1>3 DEF mag

(* The reference converts the rounded magnitude, or refuses it.            *)
LEMMA ReferenceEnds ==
  ASSUME NEW w \in 2..Widest, NEW s \in {0, 1}, NEW mag \in Nat, NEW q, NEW signed \in BOOLEAN,
         NEW r, r.z = WithSign(s, mag), r.exact \in BOOLEAN, r.exact <=> q = 0,
         NEW m, NEW x, r = Rounded(m, Manageable(w, x))
  PROVE  ToInteger(signed, w, m, x) = Converted(signed, w, s, mag, q)
  <1> DEFINE lo == Least(signed, w)
             hi == Greatest(signed, w)
             z == WithSign(s, mag)
             fit == Fits(signed, w, z)
  <1>1. ToInteger(signed, w, m, x) = IF z \in lo..hi THEN Ret(z, IF r.exact THEN {} ELSE {"inexact"})
                                     ELSE Ret(IF z < lo /\ signed THEN lo ELSE hi, {"invalid"})
    BY DEF ToInteger, Least, Greatest
  <1>2. z \in lo..hi <=> fit
    BY DEF Fits
  <1>3. ~fit => (z < lo /\ signed <=> signed /\ s = 1)
    <2> DEFINE p == 2 ^ (w - 1)
    <2>1. p \in Nat /\ p >= 2 /\ UIntMax(w) = 2 * p - 1 /\ IntMin(w) = -p /\ IntMax(w) = p - 1
      BY WordBounds
    <2>2. z = IF s = 1 THEN -mag ELSE mag
      BY DEF WithSign
    <2> HIDE DEF p
    <2>3. CASE signed
      <3>1. lo = -p /\ hi = p - 1
        BY <2>1, <2>3 DEF Least, Greatest
      <3>2. z \in Int
        BY <2>2
      <3>3. ~fit => z < lo \/ z > hi
        BY <1>2, <2>1, <3>1, <3>2
      <3> HIDE DEF z, lo, hi, fit
      <3>4. CASE s = 1
        BY <2>1, <2>2, <2>3, <3>1, <3>3, <3>4
      <3>5. CASE s # 1
        BY <2>1, <2>2, <2>3, <3>1, <3>3, <3>5
      <3>6. QED
        BY <3>4, <3>5
    <2>4. CASE ~signed
      BY <2>4
    <2>5. QED
      BY <2>3, <2>4
  <1>4. r.exact => q = 0
    OBVIOUS
  <1> HIDE DEF lo, hi, z, fit
  <1>5. CASE fit
    <2>1. ToInteger(signed, w, m, x) = Ret(z, IF r.exact THEN {} ELSE {"inexact"})
      BY <1>1, <1>2, <1>5
    <2>2. Converted(signed, w, s, mag, q) = Ret(z, IF q = 0 THEN {} ELSE {"inexact"})
      BY <1>5 DEF Converted, fit, z
    <2>3. (IF r.exact THEN {} ELSE {"inexact"}) = (IF q = 0 THEN {} ELSE {"inexact"})
      OBVIOUS
    <2>4. QED
      BY <2>1, <2>2, <2>3
  <1>6. CASE ~fit
    <2>1. ToInteger(signed, w, m, x) = Ret(IF z < lo /\ signed THEN lo ELSE hi, {"invalid"})
      BY <1>1, <1>2, <1>6
    <2>2. Converted(signed, w, s, mag, q) = Ret(IF signed /\ s = 1 THEN lo ELSE hi, {"invalid"})
      BY <1>6 DEF Converted, Outside, fit, z, lo, hi
    <2>3. (IF z < lo /\ signed THEN lo ELSE hi) = (IF signed /\ s = 1 THEN lo ELSE hi)
      BY <1>3, <1>6
    <2>4. QED
      BY <2>1, <2>2, <2>3
  <1>7. QED
    BY <1>5, <1>6

(* What the reference converts a number to: the rounded magnitude if the   *)
(* number is not too long, and the bound if it is.                         *)
LEMMA ReferenceIs ==
  ASSUME NEW u, NEW n, BitsAtMost(u, n), u < Widest, NEW x, NEW s, NEW k, IsSigned(x, s, n, k),
         NEW m \in Modes, NEW w \in 2..W(F64), NEW signed \in BOOLEAN
  PROVE  LET t == BitLength(n) + k
         IN  /\ t <= w + 2 => ToInteger(signed, w, m, x)
                                = Converted(signed, w, s, RoundedMag(m, s, n, k), Part(n, k))
             /\ n # 0 /\ t >= w + 1 => ToInteger(signed, w, m, x) = Outside(signed, w, s)
  <1> DEFINE t == BitLength(n) + k
             r == Rounded(m, Manageable(w, x))
             mag == RoundedMag(m, s, n, k)
             q == Part(n, k)
  <1>1. /\ t <= w + 2 => r.z = WithSign(s, mag) /\ (r.exact <=> q = 0)
        /\ n # 0 /\ t > w + 2 => r.z = WithSign(s, 2 ^ (w + 2))
        /\ r.exact \in BOOLEAN
    BY RoundedIs
  <1>2. /\ w \in 2..Widest /\ w + 2 \in 0..Widest /\ w \in 0..Widest /\ w \in Nat /\ s \in {0, 1}
        /\ t \in Int /\ k \in Int /\ (t <= w + 2 => t <= Widest)
    <2>1. k \in Int /\ s \in {0, 1} /\ BitLength(n) \in Nat
      BY LengthBounds DEF IsSigned
    <2>2. W(F64) \in Nat /\ Widest = W(F64) + 2
      BY FormatWidths DEF Widest, Formats
    <2>3. QED
      BY <2>1, <2>2
  <1>3. t <= w + 2 => mag \in Nat /\ (n # 0 /\ t >= w + 1 => mag >= 2 ^ w)
    BY <1>2, MagnitudeRounded
  <1> HIDE DEF r, mag, q, t
  <1>4. t <= w + 2 => ToInteger(signed, w, m, x) = Converted(signed, w, s, mag, q)
    BY <1>1, <1>2, <1>3, ReferenceEnds DEF r
  <1>5. ASSUME n # 0, t >= w + 1 PROVE ToInteger(signed, w, m, x) = Outside(signed, w, s)
    <2>1. CASE t <= w + 2
      <3>1. ~Fits(signed, w, WithSign(s, mag))
        BY <1>2, <1>3, <1>5, <2>1, TooLong
      <3>2. QED
        BY <1>4, <2>1, <3>1 DEF Converted
    <2>2. CASE t > w + 2
      <3> DEFINE big == 2 ^ (w + 2)
                 o == IF r.exact THEN 0 ELSE 1
      <3>1. big \in Nat /\ 2 ^ w <= big
        BY <1>2, PowerOrder, Powers
      <3>2. r.z = WithSign(s, big) /\ r.exact \in BOOLEAN /\ (r.exact <=> o = 0)
        BY <1>1, <1>5, <2>2
      <3> HIDE DEF big, o
      <3>3. ToInteger(signed, w, m, x) = Converted(signed, w, s, big, o)
        BY <1>2, <3>1, <3>2, ReferenceEnds DEF r
      <3>4. big >= 2 ^ w
        BY <1>2, <3>1, Powers
      <3>5. ~Fits(signed, w, WithSign(s, big))
        BY <1>2, <3>1, <3>4, TooLong
      <3>6. QED
        BY <3>3, <3>5 DEF Converted
    <2>3. QED
      BY <1>2, <2>1, <2>2
  <1>6. QED
    BY <1>4, <1>5 DEF t, mag, q

-----------------------------------------------------------------------------
(* Conversions to integers: the operand, and words of 32 bits.             *)

(* The operand of a conversion: SigOf(F, a) * 2^Scale(F, a), a subnormal   *)
(* with half its value, which is as far from any integer.                  *)
Scale(F, a) == Exp(F, a) - Bias(F) - F.f

(* The parts of an operand, normal or subnormal.                           *)
LEMMA OperandParts ==
  ASSUME NEW F \in Formats, NEW a \in Patterns(F)
  PROVE  LET n == SigOf(F, a)
             k == Scale(F, a)
             x == Number(F, a)
         IN  /\ BitsAtMost(F.f + 1, n) /\ F.f + 1 < Widest /\ n \in Nat /\ k \in Int /\ BitLength(n) \in Nat
             /\ n = 0 <=> IsZero(F, a)
             /\ Exp(F, a) = 0 => BitLength(n) + k < 0
             /\ Exp(F, a) # 0 => /\ BitLength(n) = F.f + 1 /\ n = Frac(F, a) + Hidden(F)
                                 /\ BitLength(n) + k = Exp(F, a) - Bias(F) + 1
             /\ IsSigned(x, Sign(F, a), n, x.k)
             /\ Exp(F, a) # 0 => x.k = k
             /\ Exp(F, a) = 0 => BitLength(n) + x.k < 0
  <1> DEFINE n == SigOf(F, a)
             x == Number(F, a)
             e == Exp(F, a)
             f == Frac(F, a)
             h == Hidden(F)
             y == Magnitude(F, a)
             b == BitLength(n)
  <1>1. /\ F.f \in Nat /\ F.f >= 2 /\ F.e \in Nat /\ F.e >= 4 /\ W(F) = 1 + F.e + F.f /\ W(F) <= W(F64) /\ Widest = W(F64) + 2
        /\ W(F64) \in Nat /\ W(F) \in Nat
    BY FormatWidths DEF Formats, Widest
  <1>2. h \in Nat /\ h >= 4 /\ Bias(F) \in Nat /\ Bias(F) >= 7
    BY FieldPlaces
  <1>3. Sign(F, a) \in {0, 1} /\ e \in 0..ExpMax(F) /\ f \in 0..(h - 1) /\ e \in Nat /\ f \in Nat
    BY <1>2, Unpacked, FieldPlaces
  <1>4. F.f \in 0..Widest /\ F.f + 1 \in 0..Widest /\ F.f + 1 # 0 /\ (F.f + 1) - 1 = F.f
    BY <1>1
  <1>5. 2 ^ (F.f + 1) = 2 * h
    <2>1. 2 ^ (F.f + 1) = 2 * 2 ^ F.f
      BY <1>4, PowerStep
    <2>2. QED
      BY <2>1 DEF Hidden
  <1>6. n = IF e = 0 THEN f ELSE f + h
    BY <1>2, <1>3 DEF SigOf
  <1>7. /\ y = Num(y.n, y.k) /\ y.n \in Nat /\ y.k \in Int
        /\ e = 0 => y.n = f /\ y.k = 1 - Bias(F) - F.f /\ BitLength(y.n) <= F.f
        /\ e # 0 => y.n = f + h /\ y.k = e - Bias(F) - F.f /\ BitLength(y.n) = F.f + 1
    BY MagnitudeTop
  <1>8. x.k = y.k /\ x = Num(x.n, x.k) /\ x.n = IF Sign(F, a) = 1 THEN -y.n ELSE y.n
    BY NumberIs
  <1>9. IsZero(F, a) <=> e = 0 /\ f = 0
    BY DEF IsZero
  <1>10. Scale(F, a) = e - Bias(F) - F.f
    BY DEF Scale
  <1> HIDE DEF x, e, f, h, y, n
  <1>11. n = y.n /\ n \in Nat /\ n < 2 * h /\ (n = 0 <=> IsZero(F, a))
    BY <1>2, <1>3, <1>6, <1>7, <1>9
  <1>12. BitsAtMost(F.f + 1, n)
    BY <1>4, <1>5, <1>11 DEF BitsAtMost
  <1>13. b \in Nat
    BY <1>12, LengthBounds
  <1>14. x.n = WithSign(Sign(F, a), n)
    BY <1>8, <1>11 DEF WithSign
  <1>15. IsSigned(x, Sign(F, a), n, x.k)
    BY <1>3, <1>7, <1>8, <1>11, <1>14 DEF IsSigned
  <1>16. /\ e = 0 => b <= F.f /\ b + Scale(F, a) < 0 /\ b + x.k < 0
         /\ e # 0 => b = F.f + 1 /\ b + Scale(F, a) = e - Bias(F) + 1 /\ x.k = Scale(F, a) /\ n = f + h
    BY <1>1, <1>2, <1>3, <1>7, <1>8, <1>10, <1>11, <1>13
  <1>17. Scale(F, a) \in Int
    BY <1>1, <1>2, <1>3, <1>10
  <1>18. F.f + 1 < Widest
    BY <1>1
  <1>19. QED
    BY <1>11, <1>12, <1>13, <1>15, <1>16, <1>17, <1>18 DEF n, x, e, f, h

(* The reference for the operand.                                          *)
LEMMA OperandConverted ==
  ASSUME NEW F \in Formats, NEW a \in Patterns(F), NEW m \in Modes, NEW w \in 2..W(F64), NEW signed \in BOOLEAN
  PROVE  LET n == SigOf(F, a)
             k == Scale(F, a)
             s == Sign(F, a)
         IN  /\ Exp(F, a) - Bias(F) <= w =>
                  ToInteger(signed, w, m, Number(F, a)) = Converted(signed, w, s, RoundedMag(m, s, n, k), Part(n, k))
             /\ Exp(F, a) - Bias(F) >= w =>
                  ToInteger(signed, w, m, Number(F, a)) = Outside(signed, w, s)
  <1> DEFINE n == SigOf(F, a)
             k == Scale(F, a)
             x == Number(F, a)
             s == Sign(F, a)
             e == Exp(F, a)
             b == BitLength(n)
             good == ToInteger(signed, w, m, x) = Converted(signed, w, s, RoundedMag(m, s, n, k), Part(n, k))
             out == ToInteger(signed, w, m, x) = Outside(signed, w, s)
  <1>1. /\ BitsAtMost(F.f + 1, n) /\ F.f + 1 < Widest /\ n \in Nat /\ k \in Int /\ b \in Nat
        /\ n = 0 <=> IsZero(F, a)
        /\ e = 0 => b + k < 0
        /\ e # 0 => b = F.f + 1 /\ n = Frac(F, a) + Hidden(F) /\ b + k = e - Bias(F) + 1
        /\ IsSigned(x, s, n, x.k)
        /\ e # 0 => x.k = k
        /\ e = 0 => b + x.k < 0
    BY OperandParts
  <1>2. /\ b + x.k <= w + 2 => ToInteger(signed, w, m, x) = Converted(signed, w, s, RoundedMag(m, s, n, x.k), Part(n, x.k))
        /\ n # 0 /\ b + x.k >= w + 1 => out
    BY <1>1, ReferenceIs
  <1>3. w \in Nat /\ w >= 2 /\ Bias(F) \in Nat /\ e \in Nat /\ x.k \in Int
    <2>1. W(F64) \in Nat
      BY FormatWidths
    <2>2. Bias(F) \in Nat /\ e \in Nat
      BY FieldPlaces, Unpacked
    <2>3. x.k \in Int
      BY <1>1 DEF IsSigned
    <2>4. QED
      BY <2>1, <2>2, <2>3
  <1> HIDE DEF n, k, s, x, e, b, out
  <1>4. ASSUME e # 0 PROVE (e - Bias(F) <= w => good) /\ (e - Bias(F) >= w => out)
    <2>1. x.k = k /\ b + x.k = e - Bias(F) + 1 /\ b >= 1 /\ F.f \in Nat
      BY <1>1, <1>3, <1>4, FormatWidths DEF Formats
    <2>2. n # 0
      BY <1>1, <2>1, LengthBounds DEF b
    <2>3. e - Bias(F) <= w => b + x.k <= w + 2
      BY <1>3, <2>1
    <2>4. e - Bias(F) >= w => b + x.k >= w + 1
      BY <1>3, <2>1
    <2>5. QED
      BY <1>2, <2>1, <2>2, <2>3, <2>4
  <1>5. ASSUME e = 0 PROVE good /\ ~(e - Bias(F) >= w)
    <2>1. b + k < 0 /\ b + x.k < 0 /\ b + x.k <= w + 2
      BY <1>1, <1>3, <1>5
    <2>2. ~(k >= 0) /\ ~(x.k >= 0)
      BY <1>1, <1>3, <2>1
    <2>3. Tiny(n, k) /\ Tiny(n, x.k)
      BY <2>1 DEF Tiny, b
    <2>4. Whole(n, k) = Whole(n, x.k) /\ Part(n, k) = Part(n, x.k)
      BY <2>2, <2>3 DEF Whole, Part
    <2>5. RoundedMag(m, s, n, k) = RoundedMag(m, s, n, x.k)
      BY <2>4 DEF RoundedMag
    <2>6. ~(e - Bias(F) >= w)
      BY <1>3, <1>5
    <2>7. QED
      BY <1>2, <2>1, <2>4, <2>5, <2>6
  <1>6. QED
    BY <1>4, <1>5 DEF n, k, s, x, e, out

(* The same, whatever the size, as long as it can be written out.          *)
LEMMA OperandWritten ==
  ASSUME NEW F \in Formats, NEW a \in Patterns(F), NEW m \in Modes, NEW w \in 2..W(F64), NEW signed \in BOOLEAN,
         Exp(F, a) - Bias(F) + 1 <= Widest
  PROVE  LET n == SigOf(F, a)
             k == Scale(F, a)
             mag == RoundedMag(m, Sign(F, a), n, k)
         IN  /\ mag \in Nat /\ Part(n, k) \in 0..3
             /\ ToInteger(signed, w, m, Number(F, a)) = Converted(signed, w, Sign(F, a), mag, Part(n, k))
  <1> DEFINE n == SigOf(F, a)
             k == Scale(F, a)
             s == Sign(F, a)
             mag == RoundedMag(m, s, n, k)
             e == Exp(F, a)
             t == BitLength(n) + k
  <1>1. /\ BitsAtMost(F.f + 1, n) /\ n \in Nat /\ k \in Int /\ BitLength(n) \in Nat
        /\ e = 0 => t < 0
        /\ e # 0 => BitLength(n) = F.f + 1 /\ t = e - Bias(F) + 1
    BY OperandParts
  <1>2. /\ w \in Nat /\ w >= 2 /\ Bias(F) \in Nat /\ e \in Nat /\ s \in {0, 1} /\ Widest \in Nat /\ w \in 2..Widest /\ F.f \in Nat
    BY FormatWidths, FieldPlaces, Unpacked DEF Widest, Formats
  <1>3. t \in Int /\ t <= Widest
    BY <1>1, <1>2
  <1>4. /\ mag \in Nat /\ Part(n, k) \in 0..3
        /\ n # 0 /\ t >= w + 1 => mag >= 2 ^ w
    BY <1>1, <1>2, <1>3, MagnitudeRounded
  <1>5. /\ e - Bias(F) <= w => ToInteger(signed, w, m, Number(F, a)) = Converted(signed, w, s, mag, Part(n, k))
        /\ e - Bias(F) >= w => ToInteger(signed, w, m, Number(F, a)) = Outside(signed, w, s)
    BY OperandConverted
  <1> HIDE DEF n, k, s, mag, e, t
  <1>6. ASSUME e - Bias(F) >= w PROVE ToInteger(signed, w, m, Number(F, a)) = Converted(signed, w, s, mag, Part(n, k))
    <2>1. e # 0
      BY <1>2, <1>6
    <2>2. t >= w + 1 /\ BitLength(n) # 0
      BY <1>1, <1>2, <1>6, <2>1
    <2>3. n # 0
      BY <1>1, <2>2, LengthBounds
    <2>4. ~Fits(signed, w, WithSign(s, mag))
      BY <1>2, <1>4, <2>2, <2>3, TooLong
    <2>5. QED
      BY <1>5, <1>6, <2>4 DEF Converted
  <1>7. QED
    BY <1>2, <1>4, <1>5, <1>6 DEF n, k, s, mag, e

(* What a conversion is to return.                                         *)
Wanted(F, signed, w, m, a) ==
  IF Finite(F, a) THEN ToInteger(signed, w, m, Number(F, a)) ELSE Outside(signed, w, Sign(F, a))

(* Operands the routines refuse without looking at their digits.           *)
LEMMA RefusedAsWanted ==
  ASSUME NEW F \in Formats, NEW a \in Patterns(F), NEW m \in Modes, NEW w \in 2..W(F64), NEW signed \in BOOLEAN,
         NEW exact \in BOOLEAN, ~Finite(F, a) \/ Exp(F, a) - Bias(F) >= w
  PROVE  /\ OnRequest(exact, Wanted(F, signed, w, m, a)) = Outside(signed, w, Sign(F, a))
         /\ signed => Outside(signed, w, Sign(F, a)) = Clamp(w, Sign(F, a))
         /\ ~signed => Outside(signed, w, Sign(F, a)) = Ret(UIntMax(w), {"invalid"})
  <1>1. Wanted(F, signed, w, m, a) = Outside(signed, w, Sign(F, a))
    BY OperandConverted DEF Wanted
  <1>2. OnRequest(exact, Outside(signed, w, Sign(F, a))) = Outside(signed, w, Sign(F, a))
    BY DEF OnRequest, Outside, Ret
  <1>3. Sign(F, a) \in {0, 1}
    BY Unpacked
  <1>4. QED
    BY <1>1, <1>2, <1>3 DEF Outside, Clamp, Least, Greatest

(* An operand placed by lead for 32 bits and IntGuard below the point: no  *)
(* bit is lost above, and one too big for the word is there at once.       *)
Suits32(F, lead) ==
  /\ lead \in Nat /\ F.f + 1 + lead + IntGuard <= Widest
  /\ W(F32) + IntGuard <= F.f + lead
  /\ F.f + lead <= IntGuard + Bias(F) + 1

(* A 32-bit word with IntGuard bits below its point, rounded and checked,  *)
(* is what is wanted.                                                      *)
LEMMA Word32 ==
  ASSUME NEW F \in Formats, NEW a \in Patterns(F), NEW m \in Modes, NEW lead, Suits32(F, lead), NEW exact \in BOOLEAN
  PROVE  LET w == W(F32)
             s == Sign(F, a)
             y == Fixed32(F, lead, a)
         IN  /\ softfloat_roundPackToI32(s, y, m, exact) = OnRequest(exact, Wanted(F, TRUE, w, m, a))
             /\ softfloat_roundPackToUI32(s, y, m, exact) = OnRequest(exact, Wanted(F, FALSE, w, m, a))
  <1> DEFINE w == W(F32)
             g == IntGuard
             s == Sign(F, a)
             e == Exp(F, a)
             sig == SigOf(F, a)
             x == sig * 2 ^ lead
             n == lead + F.f - g + Bias(F) - e
             y == Fixed32(F, lead, a)
             inc == RoundIncrement(m, s, g)
             mag == RoundSig(m, y, inc, g)
             over == y + inc >= 2 ^ (w + g)
             Right == /\ softfloat_roundPackToI32(s, y, m, exact) = OnRequest(exact, Wanted(F, TRUE, w, m, a))
                      /\ softfloat_roundPackToUI32(s, y, m, exact) = OnRequest(exact, Wanted(F, FALSE, w, m, a))
  <1>1. /\ w \in Nat /\ w \in 2..W(F64) /\ w \in 2..Widest /\ g \in Nat /\ g >= 2 /\ F.f \in Nat /\ F.f >= 2 /\ Widest \in Nat
        /\ lead \in Nat /\ F.f + 1 + lead + g <= Widest /\ w + g <= F.f + lead /\ F.f + lead <= g + Bias(F) + 1
        /\ F32 \in Formats /\ W(F32) >= 7
    BY FormatWidths DEF Widest, Formats, Suits32
  <1>2. /\ Bias(F) \in Nat /\ Bias(F) >= 7 /\ ExpMax(F) = 2 * Bias(F) + 1 /\ e \in 0..ExpMax(F) /\ s \in {0, 1} /\ e \in Nat
    BY FieldPlaces, Unpacked
  <1>3. /\ BitsAtMost(F.f + 1, sig) /\ sig \in Nat
        /\ e # 0 => BitLength(sig) = F.f + 1
        /\ Scale(F, a) = e - Bias(F) - F.f
    BY OperandParts DEF Scale
  <1>4. /\ x \in Nat /\ BitsAtMost(F.f + 1 + lead, x) /\ lead \in 0..Widest
        /\ sig # 0 => BitLength(x) = BitLength(sig) + lead
    BY <1>1, <1>3, ScaledLength
  <1>5. y = IF n > 0 THEN ShiftRightJam(x, n) ELSE x
    BY DEF Fixed32, softfloat_shift64RightJam
  <1>6. /\ softfloat_roundPackToI32(s, y, m, exact) =
             LET z == Signed(w, WithSign(s, mag))
             IN  IF over \/ (z # 0 /\ Bool(z < 0) # s) THEN Clamp(w, s) ELSE Ret(z, Inexact(exact, y % 2 ^ g # 0))
        /\ softfloat_roundPackToUI32(s, y, m, exact) =
             IF over \/ (s = 1 /\ mag # 0) THEN Ret(UIntMax(w), {"invalid"}) ELSE Ret(mag, Inexact(exact, y % 2 ^ g # 0))
    BY DEF softfloat_roundPackToI32, softfloat_roundPackToUI32, WithSign
  <1>7. /\ w + g \in 0..Widest /\ 2 ^ (w + g) = 2 ^ w * 2 ^ g /\ 2 ^ w \in Nat /\ 2 ^ w % 2 = 0 /\ 2 ^ g \in Nat \ {0} /\ g \in 1..Widest
    <2>1. w + g \in 0..Widest /\ w \in 0..Widest /\ g \in 0..Widest /\ g \in 1..Widest /\ w + g <= Widest
      BY <1>1
    <2>2. QED
      BY <1>1, <2>1, PowerSum, Powers, WordBounds
  <1> HIDE DEF x, y, inc, mag, over, sig, e, s, w
  <1>8. ASSUME n > 0 PROVE Right
    <2> DEFINE k == Scale(F, a)
               big == RoundedMag(m, s, sig, k)
               q == Part(sig, k)
    <2>1. n \in Nat \ {0} /\ -(n + g) = k - lead /\ k \in Int /\ k <= Widest /\ e - Bias(F) + 1 <= Widest /\ e < ExpMax(F)
      BY <1>1, <1>2, <1>3, <1>8
    <2>2. y = ShiftRightJam(x, n)
      BY <1>5, <1>8
    <2>3. y \in Nat /\ y \div 2 ^ g = Whole(x, -(n + g)) /\ Rest(y % 2 ^ g, 2 ^ g) = Part(x, -(n + g))
      <3> DEFINE v == F.f + 1 + lead
                 o == n
      <3>1. BitsAtMost(v, x) /\ v + g <= Widest /\ o \in Nat \ {0}
        BY <1>1, <1>4, <2>1
      <3>2. g <= Widest /\ (o <= BitLength(x) => o + g <= Widest)
        <4>1. BitLength(x) \in 0..v /\ v \in Nat /\ Widest \in Nat
          BY <1>1, <3>1, LengthBounds
        <4> HIDE DEF v, o
        <4>2. QED
          BY <1>1, <3>1, <4>1
      <3> HIDE DEF v, o
      <3>3. LET z == ShiftRightJam(x, o)
            IN  z \in Nat /\ z \div 2 ^ g = Whole(x, -(o + g)) /\ Rest(z % 2 ^ g, 2 ^ g) = Part(x, -(o + g))
        BY <1>1, <3>1, <3>2, JamParts
      <3>4. QED
        BY <2>2, <3>3 DEF o
    <2>4. Whole(x, k - lead) = Whole(sig, k) /\ Part(x, k - lead) = Part(sig, k)
      <3>1. F.f + 1 + lead <= Widest
        BY <1>1
      <3>2. QED
        BY <1>1, <1>3, <2>1, <3>1, ScaledParts DEF x
    <2> HIDE DEF n, k
    <2> DEFINE i == y \div 2 ^ g
               c == Rest(y % 2 ^ g, 2 ^ g)
    <2>5. i = Whole(sig, k) /\ c = q
      BY <2>1, <2>3, <2>4
    <2>6. /\ RoundSig(m, y, inc, g) = i + Bool(RoundsUp(m, s, i, c))
          /\ y + inc >= 2 ^ w * 2 ^ g <=> i + Bool(RoundsUp(m, s, i, c)) >= 2 ^ w
          /\ y % 2 ^ g # 0 <=> c # 0
      <3> DEFINE t == 2 ^ w
      <3>1. t \in Nat /\ t % 2 = 0
        BY <1>7
      <3> HIDE DEF t
      <3>2. /\ RoundSig(m, y, inc, g) = i + Bool(RoundsUp(m, s, i, c))
            /\ y + inc >= t * 2 ^ g <=> i + Bool(RoundsUp(m, s, i, c)) >= t
            /\ y % 2 ^ g # 0 <=> c # 0
        BY <1>2, <1>7, <2>3, <3>1, RoundSigIs DEF inc
      <3>3. QED
        BY <3>2 DEF t
    <2> HIDE DEF i, c
    <2>7. mag = big /\ (over <=> big >= 2 ^ w) /\ (y % 2 ^ g # 0 <=> q # 0)
      BY <1>7, <2>5, <2>6 DEF mag, over, RoundedMag
    <2> HIDE DEF q, big
    <2>8. /\ big \in Nat /\ q \in 0..3
          /\ \A d \in BOOLEAN : ToInteger(d, w, m, Number(F, a)) = Converted(d, w, s, big, q)
      BY <1>1, <2>1, OperandWritten DEF big, q, k, s, sig, e
    <2>9. \A d \in BOOLEAN : Wanted(F, d, w, m, a) = Converted(d, w, s, big, q)
      BY <1>2, <2>1, <2>8 DEF Wanted, Finite, e
    <2>11. Inexact(exact, y % 2 ^ g # 0) = Inexact(exact, q # 0)
      BY <2>7 DEF Inexact
    <2>12. (LET z == Signed(w, WithSign(s, big))
            IN  (IF over \/ (z # 0 /\ Bool(z < 0) # s) THEN Clamp(w, s) ELSE Ret(z, Inexact(exact, q # 0))))
              = OnRequest(exact, Converted(TRUE, w, s, big, q))
      <3> DEFINE given(p) == LET z == Signed(w, WithSign(s, big))
                             IN  IF p \/ (z # 0 /\ Bool(z < 0) # s) THEN Clamp(w, s) ELSE Ret(z, Inexact(exact, q # 0))
      <3>1. given(big >= 2 ^ w) = OnRequest(exact, Converted(TRUE, w, s, big, q))
        <4>1. EndOfSigned(w, s, big, q, exact)
          BY <1>1, <1>2, <2>8, EndsSigned
        <4>2. QED
          BY <4>1 DEF EndOfSigned
      <3>2. given(over) = given(big >= 2 ^ w)
        BY <2>7
      <3>3. QED
        BY <3>1, <3>2
    <2>13. (IF over \/ (s = 1 /\ big # 0) THEN Ret(UIntMax(w), {"invalid"}) ELSE Ret(big, Inexact(exact, q # 0)))
              = OnRequest(exact, Converted(FALSE, w, s, big, q))
      <3> DEFINE given(p) == IF p \/ (s = 1 /\ big # 0) THEN Ret(UIntMax(w), {"invalid"})
                             ELSE Ret(big, Inexact(exact, q # 0))
      <3>1. given(big >= 2 ^ w) = OnRequest(exact, Converted(FALSE, w, s, big, q))
        <4>1. EndOfUnsigned(w, s, big, q, exact)
          BY <1>1, <1>2, <2>8, EndsUnsigned
        <4>2. QED
          BY <4>1 DEF EndOfUnsigned
      <3>2. given(over) = given(big >= 2 ^ w)
        BY <2>7
      <3>3. QED
        BY <3>1, <3>2
    <2>14. QED
      BY <1>6, <2>7, <2>9, <2>11, <2>12, <2>13
  <1>9. ASSUME ~(n > 0) PROVE Right
    <2>1. e - Bias(F) >= w /\ e # 0
      BY <1>1, <1>2, <1>9
    <2>2. y = x
      BY <1>5, <1>9
    <2>3. BitLength(sig) = F.f + 1 /\ sig # 0
      <3>1. BitLength(sig) = F.f + 1 /\ BitLength(sig) # 0
        BY <1>1, <1>3, <2>1
      <3>2. QED
        BY <1>3, <3>1, LengthBounds
    <2>4. BitLength(x) = F.f + 1 + lead /\ BitLength(x) - 1 = F.f + lead /\ BitLength(x) # 0
      BY <1>1, <1>4, <2>3
    <2>5. 2 ^ (F.f + lead) <= x
      BY <1>4, <2>4, LengthBounds
    <2>6. 2 ^ (w + g) <= 2 ^ (F.f + lead)
      <3>1. w + g \in 0..Widest /\ F.f + lead \in 0..Widest
        BY <1>1
      <3>2. QED
        BY <1>1, <3>1, PowerOrder
    <2>7. inc \in Nat
      <3>1. 2 ^ (g - 1) \in Nat /\ 2 ^ g - 1 \in Nat
        <4>1. g - 1 \in 0..Widest /\ g \in 0..Widest
          BY <1>1
        <4>2. QED
          BY <4>1, Powers
      <3>2. QED
        BY <3>1 DEF inc, RoundIncrement
    <2>8. over
      <3>1. 2 ^ (w + g) \in Nat /\ 2 ^ (F.f + lead) \in Nat
        <4>1. F.f + lead \in 0..Widest
          BY <1>1
        <4>2. QED
          BY <1>7, <4>1, Powers
      <3>2. QED
        BY <1>4, <2>2, <2>5, <2>6, <2>7, <3>1 DEF over
    <2>9. \A d \in BOOLEAN :
             /\ OnRequest(exact, Wanted(F, d, w, m, a)) = Outside(d, w, s)
             /\ d => Outside(d, w, s) = Clamp(w, s)
             /\ ~d => Outside(d, w, s) = Ret(UIntMax(w), {"invalid"})
      BY <1>1, <2>1, RefusedAsWanted DEF e, s
    <2>10. QED
      BY <1>6, <2>8, <2>9
  <1>10. QED
    BY <1>8, <1>9 DEF w, s, y

-----------------------------------------------------------------------------
(* Words of 64 bits.                                                       *)

(* softfloat_shift64ExtraRightJam: the word is the whole part, the extra   *)
(* word has the class of the rest.                                         *)
LEMMA ExtraParts ==
  ASSUME NEW x, BitsAtMost(W(F64), x), NEW n \in Nat \ {0}
  PROVE  LET z == softfloat_shift64ExtraRightJam(x, n)
         IN  /\ z.v \in Nat /\ z.v = Whole(x, -n)
             /\ z.extra \in Nat /\ z.extra < 2 ^ W(F64)
             /\ Rest(z.extra, 2 ^ W(F64)) = Part(x, -n)
  <1> DEFINE w == W(F64)
             t == 2 ^ w
             z == softfloat_shift64ExtraRightJam(x, n)
             Right == /\ z.v \in Nat /\ z.v = Whole(x, -n)
                      /\ z.extra \in Nat /\ z.extra < t
                      /\ Rest(z.extra, t) = Part(x, -n)
  <1>1. w \in Nat /\ w >= 7 /\ w \in 0..Widest /\ w \in 2..Widest /\ Widest \in Nat /\ x \in Nat /\ x < t /\ t \in Nat \ {0} /\ w <= Widest
    <2>1. w \in Nat /\ w >= 7 /\ Widest \in Nat /\ Widest = w + 2
      BY FormatWidths DEF Widest
    <2>2. w \in 0..Widest /\ x \in Nat /\ x < t
      BY <2>1 DEF BitsAtMost
    <2>3. QED
      BY <2>1, <2>2, Powers
  <1>2. t >= 4
    BY <1>1, WordBounds
  <1>3. z = IF n < w THEN [v |-> x \div 2 ^ n, extra |-> (x % 2 ^ n) * 2 ^ (w - n)]
            ELSE [v |-> 0, extra |-> IF n = w THEN x ELSE Bool(x # 0)]
    BY DEF softfloat_shift64ExtraRightJam
  <1>4. BitLength(x) \in 0..w
    BY LengthBounds
  <1> HIDE DEF w, t, z
  <1>5. ASSUME n < w PROVE Right
    <2> DEFINE d == 2 ^ n
               p == 2 ^ (w - n)
               r == x % d
               i == x \div d
    <2>1. n \in 0..Widest /\ n \in Nat /\ w - n \in Nat /\ w - n \in 0..Widest /\ n + (w - n) = w
      BY <1>1, <1>5
    <2>2. d \in Nat \ {0} /\ p \in Nat \ {0} /\ t = d * p
      BY <1>1, <2>1, PowerSum, Powers DEF t
    <2>3. Whole(x, -n) = i /\ Part(x, -n) = Rest(r, d)
      BY <2>1, PartsByDivision
    <2>4. z.v = i /\ z.extra = r * p
      BY <1>3, <1>5
    <2> HIDE DEF d, p
    <2>5. x = r + d * i /\ r \in Int /\ 0 <= r /\ r < d /\ i \in Int
      <3>1. x \in Int
        BY <1>1
      <3>2. QED
        BY <2>2, <3>1, Division
    <2> HIDE DEF r, i
    <2>6. i >= 0
      <3>1. i <= -1 => d * i <= -d
        BY <2>2, <2>5
      <3>2. d * i \in Int
        BY <2>2, <2>5
      <3>3. QED
        BY <1>1, <2>2, <2>5, <3>1, <3>2
    <2>7. r * p \in Nat /\ r * p < d * p
      BY <2>2, <2>5
    <2>8. Rest(r * p, d * p) = Rest(r, d)
      BY <2>2, <2>5, ScaledRest
    <2>9. QED
      BY <2>2, <2>3, <2>4, <2>5, <2>6, <2>7, <2>8
  <1>6. ASSUME n = w PROVE Right
    <2>1. Whole(x, -n) = x \div t /\ Part(x, -n) = Rest(x % t, t)
      BY <1>1, <1>6, PartsByDivision DEF t
    <2>2. x \div t = 0 /\ x % t = x
      BY <1>1, BelowDivisor
    <2>3. z.v = 0 /\ z.extra = x
      BY <1>1, <1>3, <1>6
    <2>4. QED
      BY <1>1, <2>1, <2>2, <2>3
  <1>7. ASSUME n > w PROVE Right
    <2>1. ~(n < w) /\ n # w
      BY <1>1, <1>7
    <2>2. z.v = 0 /\ z.extra = Bool(x # 0) /\ Bool(x # 0) \in {0, 1}
      BY <1>3, <2>1 DEF Bool
    <2>3. ~(-n >= 0) /\ BitLength(x) + (-n) < 0
      BY <1>1, <1>4, <1>7
    <2>4. Whole(x, -n) = 0 /\ Part(x, -n) = Bool(x # 0)
      BY <2>3 DEF Whole, Part, Tiny
    <2>5. \A o \in {0, 1} : Rest(o, t) = o
      BY <1>1, <1>2 DEF Rest
    <2>6. QED
      BY <1>1, <1>2, <2>2, <2>4, <2>5
  <1>8. QED
    <2>1. n < w \/ n = w \/ n > w
      BY <1>1
    <2>2. QED
      BY <1>5, <1>6, <1>7, <2>1 DEF w, t, z

(* Rounding by the extra word.                                             *)
LEMMA Round64Is ==
  ASSUME NEW x, x.v \in Nat, x.extra \in Nat, x.extra < 2 ^ W(F64), NEW m \in Modes, NEW s \in {0, 1}
  PROVE  LET q == Rest(x.extra, 2 ^ W(F64))
         IN  /\ Round64(s, x, m) = x.v + Bool(RoundsUp(m, s, x.v, q))
             /\ x.extra # 0 <=> q # 0
             /\ q \in 0..3
  <1> DEFINE t == 2 ^ W(F64)
             h == TopBit(F64)
             i == x.v
             r == x.extra
             q == Rest(r, t)
             up == IF m \in {"near_even", "near_maxMag"} THEN r >= h
                   ELSE m = (IF s = 1 THEN "min" ELSE "max") /\ r # 0
             Right == Round64(s, x, m) = i + Bool(RoundsUp(m, s, i, q))
  <1>1. h \in Nat /\ t = 2 * h /\ h >= 1
    <2>1. F64 \in Formats
      BY DEF Formats
    <2>2. h \in Nat /\ t = 2 * h
      BY <2>1, FieldPlaces
    <2>3. t \in Nat \ {0}
      <3>1. W(F64) \in 0..Widest
        BY FormatWidths DEF Widest
      <3>2. QED
        BY <3>1, Powers
    <2>4. QED
      BY <2>2, <2>3
  <1>2. Round64(s, x, m) = IF ~up THEN i ELSE (i + 1) - (IF m = "near_even" /\ r = h THEN (i + 1) % 2 ELSE 0)
    BY DEF Round64
  <1>3. i \in Nat /\ r \in Nat /\ r < t
    OBVIOUS
  <1> HIDE DEF t, h, i, r
  <1>4. q \in 0..3 /\ (r # 0 <=> q # 0) /\ (q = 3 <=> r > h) /\ (q = 2 <=> r = h)
    <2>1. q = IF r = 0 THEN 0 ELSE IF r < h THEN 1 ELSE IF r = h THEN 2 ELSE 3
      BY <1>1, <1>3 DEF Rest
    <2> HIDE DEF q
    <2>2. QED
      BY <1>1, <1>3, <2>1
  <1> HIDE DEF q
  <1>5. ASSUME m = "near_even" PROVE Right
    <2>1. (up <=> r >= h) /\ (RoundsUp(m, s, i, q) <=> q = 3 \/ (q = 2 /\ i % 2 = 1))
      BY <1>5 DEF RoundsUp
    <2> HIDE DEF up
    <2>2. i % 2 = 0 \/ i % 2 = 1
      BY <1>3
    <2>3. (i % 2 = 0 => (i + 1) % 2 = 1) /\ (i % 2 = 1 => (i + 1) % 2 = 0)
      BY <1>3
    <2>4. CASE r < h
      BY <1>1, <1>2, <1>3, <1>4, <1>5, <2>1, <2>4 DEF Bool
    <2>5. CASE r = h
      <3>1. CASE i % 2 = 0
        BY <1>1, <1>2, <1>3, <1>4, <1>5, <2>1, <2>3, <2>5, <3>1 DEF Bool
      <3>2. CASE i % 2 = 1
        BY <1>1, <1>2, <1>3, <1>4, <1>5, <2>1, <2>3, <2>5, <3>2 DEF Bool
      <3>3. QED
        BY <2>2, <3>1, <3>2
    <2>6. CASE r > h
      BY <1>1, <1>2, <1>3, <1>4, <1>5, <2>1, <2>6 DEF Bool
    <2>7. QED
      BY <1>1, <1>3, <2>4, <2>5, <2>6
  <1>6. ASSUME m # "near_even" PROVE Right
    <2>1. up <=> RoundsUp(m, s, i, q)
      <3>1. CASE m = "near_maxMag"
        <4>1. (up <=> r >= h) /\ (RoundsUp(m, s, i, q) <=> q \in {2, 3})
          BY <3>1 DEF RoundsUp
        <4>2. QED
          BY <1>1, <1>3, <1>4, <4>1
      <3>2. CASE m # "near_maxMag"
        BY <1>4, <1>6, <3>2 DEF RoundsUp, AwayFromZero
      <3>3. QED
        BY <3>1, <3>2
    <2> HIDE DEF up
    <2>2. Bool(up) = Bool(RoundsUp(m, s, i, q))
      BY <2>1 DEF Bool
    <2>3. Round64(s, x, m) = i + Bool(up)
      BY <1>2, <1>3, <1>6 DEF Bool
    <2>4. QED
      BY <2>2, <2>3
  <1>7. QED
    BY <1>4, <1>5, <1>6 DEF t, q, i, r

(* An operand placed by lead for a word of 64 bits and one more below.     *)
Suits64(F, lead) ==
  /\ lead \in Nat /\ F.f + 1 + lead <= W(F64)
  /\ W(F64) <= Bias(F) + 1

(* The word and the word below it, of an operand that is not too big.      *)
LEMMA FixedParts ==
  ASSUME NEW F \in Formats, NEW a \in Patterns(F), NEW lead, Suits64(F, lead), ~TooBig64(F, a)
  PROVE  LET y == Fixed64(F, lead, a)
         IN  /\ y.v \in Nat /\ y.v = Whole(SigOf(F, a), Scale(F, a))
             /\ y.extra \in Nat /\ y.extra < 2 ^ W(F64)
             /\ Rest(y.extra, 2 ^ W(F64)) = Part(SigOf(F, a), Scale(F, a))
             /\ Finite(F, a) /\ Exp(F, a) - Bias(F) + 1 <= Widest
  <1> DEFINE w == W(F64)
             e == Exp(F, a)
             k == Scale(F, a)
             sig == SigOf(F, a)
             x == sig * 2 ^ lead
             n == lead + F.f + Bias(F) - e
             y == Fixed64(F, lead, a)
             Right == /\ y.v \in Nat /\ y.v = Whole(sig, k)
                      /\ y.extra \in Nat /\ y.extra < 2 ^ w
                      /\ Rest(y.extra, 2 ^ w) = Part(sig, k)
  <1>1. /\ w \in Nat /\ F.f \in Nat /\ F.f >= 2 /\ Widest \in Nat /\ Widest = w + 2 /\ lead \in Nat
        /\ F.f + 1 + lead <= w /\ w <= Bias(F) + 1
    BY FormatWidths DEF Widest, Formats, Suits64
  <1>2. /\ Bias(F) \in Nat /\ Bias(F) >= 7 /\ ExpMax(F) = 2 * Bias(F) + 1 /\ e \in 0..ExpMax(F) /\ e \in Nat
    BY FieldPlaces, Unpacked
  <1>3. e <= Bias(F) + w - 1
    <2>1. ~(e > Bias(F) + w - 1)
      BY DEF TooBig64
    <2>2. QED
      BY <1>1, <1>2, <2>1
  <1>4. Finite(F, a) /\ e - Bias(F) + 1 <= Widest
    BY <1>1, <1>2, <1>3 DEF Finite
  <1>5. BitsAtMost(F.f + 1, sig) /\ sig \in Nat /\ k = e - Bias(F) - F.f /\ k \in Int
    BY OperandParts DEF Scale
  <1>6. y = IF n > 0 THEN softfloat_shift64ExtraRightJam(x, n) ELSE [v |-> sig * 2 ^ (lead - n), extra |-> 0]
    BY DEF Fixed64
  <1>7. 2 ^ w \in Nat \ {0}
    <2>1. w \in 0..Widest
      BY <1>1
    <2>2. QED
      BY <2>1, Powers
  <1> HIDE DEF x, y, sig, e, k, w
  <1>8. ASSUME n > 0 PROVE Right
    <2>1. n \in Nat \ {0} /\ -n = k - lead /\ k <= Widest
      BY <1>1, <1>2, <1>5, <1>8
    <2>2. BitsAtMost(w, x)
      <3> DEFINE v == F.f + 1
      <3>1. v \in Nat /\ v + lead <= w /\ v + lead <= Widest /\ BitsAtMost(v, sig) /\ v + lead \in 0..Widest /\ w \in 0..Widest
        BY <1>1, <1>5
      <3> HIDE DEF v
      <3>2. BitsAtMost(v + lead, x)
        BY <1>1, <3>1, ScaledLength DEF x
      <3>3. 2 ^ (v + lead) <= 2 ^ w /\ 2 ^ (v + lead) \in Nat
        BY <3>1, PowerOrder, Powers
      <3>4. QED
        BY <1>7, <3>1, <3>2, <3>3 DEF BitsAtMost
    <2>3. Whole(x, k - lead) = Whole(sig, k) /\ Part(x, k - lead) = Part(sig, k)
      <3>1. F.f + 1 + lead <= Widest
        BY <1>1
      <3>2. QED
        BY <1>1, <1>5, <2>1, <3>1, ScaledParts DEF x
    <2>4. y = softfloat_shift64ExtraRightJam(x, n)
      BY <1>6, <1>8
    <2> HIDE DEF n
    <2>5. /\ y.v \in Nat /\ y.v = Whole(x, -n) /\ y.extra \in Nat /\ y.extra < 2 ^ w
          /\ Rest(y.extra, 2 ^ w) = Part(x, -n)
      BY <2>1, <2>2, <2>4, ExtraParts DEF w
    <2>6. QED
      BY <2>1, <2>3, <2>5
  <1>9. ASSUME ~(n > 0) PROVE Right
    <2>1. lead - n = k /\ k >= 0 /\ k \in 0..Widest
      BY <1>1, <1>2, <1>3, <1>5, <1>9
    <2>2. y.v = sig * 2 ^ k /\ y.extra = 0
      BY <1>6, <1>9, <2>1
    <2>3. Whole(sig, k) = sig * 2 ^ k /\ Part(sig, k) = 0
      BY <2>1 DEF Whole, Part
    <2>4. 2 ^ k \in Nat
      BY <2>1, Powers
    <2>5. Rest(0, 2 ^ w) = 0
      BY DEF Rest
    <2>6. QED
      BY <1>5, <1>7, <2>2, <2>3, <2>4, <2>5
  <1>10. QED
    BY <1>4, <1>8, <1>9 DEF w, e, k, sig, y

(* A 64-bit word with its extra word, rounded and checked, is what is      *)
(* wanted.                                                                 *)
LEMMA Word64 ==
  ASSUME NEW F \in Formats, NEW a \in Patterns(F), NEW m \in Modes, NEW lead, Suits64(F, lead), NEW exact \in BOOLEAN
  PROVE  LET w == W(F64)
             s == Sign(F, a)
             y == Fixed64(F, lead, a)
         IN  /\ (IF TooBig64(F, a) THEN Clamp(w, s) ELSE softfloat_roundPackToI64(s, y, m, exact))
                  = OnRequest(exact, Wanted(F, TRUE, w, m, a))
             /\ (IF TooBig64(F, a) THEN Ret(UIntMax(w), {"invalid"}) ELSE softfloat_roundPackToUI64(s, y, m, exact))
                  = OnRequest(exact, Wanted(F, FALSE, w, m, a))
  <1> DEFINE w == W(F64)
             s == Sign(F, a)
             y == Fixed64(F, lead, a)
             n == SigOf(F, a)
             k == Scale(F, a)
             big == RoundedMag(m, s, n, k)
             q == Part(n, k)
             mag == Round64(s, y, m)
             over == mag > UIntMax(w)
             Right == /\ (IF TooBig64(F, a) THEN Clamp(w, s) ELSE softfloat_roundPackToI64(s, y, m, exact))
                           = OnRequest(exact, Wanted(F, TRUE, w, m, a))
                      /\ (IF TooBig64(F, a) THEN Ret(UIntMax(w), {"invalid"}) ELSE softfloat_roundPackToUI64(s, y, m, exact))
                           = OnRequest(exact, Wanted(F, FALSE, w, m, a))
  <1>1. w \in Nat /\ w \in 2..W(F64) /\ w \in 2..Widest /\ Widest \in Nat
    BY FormatWidths DEF Widest
  <1>2. /\ Bias(F) \in Nat /\ Bias(F) >= 7 /\ ExpMax(F) = 2 * Bias(F) + 1 /\ Exp(F, a) \in Nat /\ s \in {0, 1}
    BY FieldPlaces, Unpacked
  <1>3. /\ softfloat_roundPackToI64(s, y, m, exact) =
             LET z == Signed(w, WithSign(s, mag))
             IN  IF over \/ (z # 0 /\ Bool(z < 0) # s) THEN Clamp(w, s) ELSE Ret(z, IF exact /\ y.extra # 0 THEN {"inexact"} ELSE {})
        /\ softfloat_roundPackToUI64(s, y, m, exact) =
             IF over \/ (s = 1 /\ mag # 0) THEN Ret(UIntMax(w), {"invalid"}) ELSE Ret(mag, IF exact /\ y.extra # 0 THEN {"inexact"} ELSE {})
    BY DEF softfloat_roundPackToI64, softfloat_roundPackToUI64, WithSign, Inexact
  <1>4. ASSUME TooBig64(F, a) PROVE Right
    <2>1. Exp(F, a) - Bias(F) >= w
      BY <1>1, <1>2, <1>4 DEF TooBig64
    <2>2. \A d \in BOOLEAN :
             /\ OnRequest(exact, Wanted(F, d, w, m, a)) = Outside(d, w, s)
             /\ d => Outside(d, w, s) = Clamp(w, s)
             /\ ~d => Outside(d, w, s) = Ret(UIntMax(w), {"invalid"})
      <3> HIDE DEF w
      <3>1. QED
        BY <1>1, <2>1, RefusedAsWanted
    <2> HIDE DEF w, s, y
    <2>3. QED
      BY <1>4, <2>2
  <1>5. ASSUME ~TooBig64(F, a) PROVE Right
    <2>1. /\ y.v \in Nat /\ y.v = Whole(n, k) /\ y.extra \in Nat /\ y.extra < 2 ^ w
          /\ Rest(y.extra, 2 ^ w) = q /\ Finite(F, a) /\ Exp(F, a) - Bias(F) + 1 <= Widest
      BY <1>5, FixedParts
    <2>2. /\ mag = y.v + Bool(RoundsUp(m, s, y.v, Rest(y.extra, 2 ^ w)))
          /\ y.extra # 0 <=> Rest(y.extra, 2 ^ w) # 0
      <3> HIDE DEF y
      <3>1. QED
        BY <1>2, <2>1, Round64Is
    <2>3. mag = big /\ (y.extra # 0 <=> q # 0)
      BY <2>1, <2>2 DEF RoundedMag
    <2>4. /\ big \in Nat /\ q \in 0..3
          /\ \A d \in BOOLEAN : ToInteger(d, w, m, Number(F, a)) = Converted(d, w, s, big, q)
      <3> HIDE DEF w
      <3>1. QED
        BY <1>1, <2>1, OperandWritten
    <2>5. over <=> big >= 2 ^ w
      <3>1. UIntMax(w) = 2 ^ w - 1 /\ 2 ^ w \in Nat
        <4>1. w \in 0..Widest
          BY <1>1
        <4>2. QED
          BY <4>1, Powers DEF UIntMax
      <3> HIDE DEF w, mag, big
      <3>2. QED
        BY <2>3, <2>4, <3>1
    <2> HIDE DEF w, s, y, n, k, big, q, mag, over
    <2>6. \A d \in BOOLEAN : Wanted(F, d, w, m, a) = Converted(d, w, s, big, q)
      BY <2>1, <2>4 DEF Wanted
    <2>8. EndOfSigned(w, s, big, q, exact) /\ EndOfUnsigned(w, s, big, q, exact)
      <3>1. w \in 2..Widest /\ s \in {0, 1} /\ big \in Nat /\ q \in 0..3
        BY <1>1, <1>2, <2>4
      <3>2. EndOfSigned(w, s, big, q, exact)
        BY <3>1, EndsSigned
      <3>3. EndOfUnsigned(w, s, big, q, exact)
        BY <3>1, EndsUnsigned
      <3>4. QED
        BY <3>2, <3>3
    <2>9. softfloat_roundPackToI64(s, y, m, exact) = OnRequest(exact, Converted(TRUE, w, s, big, q))
      <3> DEFINE given(p) == LET z == Signed(w, WithSign(s, big))
                             IN  IF p \/ (z # 0 /\ Bool(z < 0) # s) THEN Clamp(w, s)
                                 ELSE Ret(z, IF exact /\ q # 0 THEN {"inexact"} ELSE {})
      <3> DEFINE wanted == OnRequest(exact, Converted(TRUE, w, s, big, q))
      <3>1. given(big >= 2 ^ w) = wanted
        BY <2>8 DEF EndOfSigned, Inexact
      <3>2. given(over) = given(big >= 2 ^ w)
        BY <2>5
      <3>3. softfloat_roundPackToI64(s, y, m, exact) = given(over)
        BY <1>3, <2>3
      <3> HIDE DEF given, wanted
      <3>4. softfloat_roundPackToI64(s, y, m, exact) = wanted
        BY <3>1, <3>2, <3>3
      <3>5. QED
        BY <3>4 DEF wanted
    <2>10. softfloat_roundPackToUI64(s, y, m, exact) = OnRequest(exact, Converted(FALSE, w, s, big, q))
      <3> DEFINE given(p) == IF p \/ (s = 1 /\ big # 0) THEN Ret(UIntMax(w), {"invalid"})
                             ELSE Ret(big, IF exact /\ q # 0 THEN {"inexact"} ELSE {})
      <3> DEFINE wanted == OnRequest(exact, Converted(FALSE, w, s, big, q))
      <3>1. given(big >= 2 ^ w) = wanted
        BY <2>8 DEF EndOfUnsigned, Inexact
      <3>2. given(over) = given(big >= 2 ^ w)
        BY <2>5
      <3>3. softfloat_roundPackToUI64(s, y, m, exact) = given(over)
        BY <1>3, <2>3
      <3> HIDE DEF given, wanted
      <3>4. softfloat_roundPackToUI64(s, y, m, exact) = wanted
        BY <3>1, <3>2, <3>3
      <3>5. QED
        BY <3>4 DEF wanted
    <2>11. QED
      BY <1>5, <2>6, <2>9, <2>10
  <1>6. QED
    BY <1>4, <1>5

-----------------------------------------------------------------------------
(* Truncating conversions.                                                 *)

(* What a truncating conversion is to return: of a NaN, the positive bound.*)
WantedTrunc(F, signed, w, a) ==
  IF Finite(F, a) THEN ToInteger(signed, w, "minMag", Number(F, a))
  ELSE Outside(signed, w, IF IsNaN(F, a) THEN 0 ELSE Sign(F, a))

(* The parts as the truncating routines take them.                         *)
LEMMA TruncatedParts ==
  ASSUME NEW F \in Formats, NEW a \in Patterns(F), Exp(F, a) - Bias(F) + 1 <= Widest
  PROVE  LET n == SigOf(F, a)
             k == Scale(F, a)
             e == Exp(F, a)
             t == e - Bias(F) + 1
         IN  /\ Whole(n, k) \in Nat /\ Part(n, k) \in 0..3
             /\ e < Bias(F) => Whole(n, k) = 0 /\ (Part(n, k) # 0 <=> ~IsZero(F, a))
             /\ e >= Bias(F) => /\ Trunc(F, a) = Whole(n, k)
                                /\ TruncInexact(F, a) <=> Part(n, k) # 0
                                /\ 2 ^ (t - 1) <= Whole(n, k) /\ Whole(n, k) < 2 ^ t
  <1> DEFINE n == SigOf(F, a)
             k == Scale(F, a)
             e == Exp(F, a)
             t == e - Bias(F) + 1
             b == BitLength(n)
  <1>1. /\ BitsAtMost(F.f + 1, n) /\ n \in Nat /\ k \in Int /\ b \in Nat
        /\ n = 0 <=> IsZero(F, a)
        /\ e = 0 => b + k < 0
        /\ e # 0 => b = F.f + 1 /\ b + k = t
        /\ k = e - Bias(F) - F.f
    BY OperandParts DEF Scale
  <1>2. Bias(F) \in Nat /\ Bias(F) >= 7 /\ e \in Nat /\ Widest \in Nat /\ F.f \in Nat /\ F.f >= 2 /\ t <= Widest /\ F.f <= Widest
    BY FormatWidths, FieldPlaces, Unpacked DEF Widest, Formats
  <1>3. b + k \in Int /\ b + k <= Widest
    BY <1>1, <1>2
  <1>4. /\ Whole(n, k) \in Nat /\ Part(n, k) \in 0..3
        /\ b + k >= 0 => Whole(n, k) < 2 ^ (b + k)
        /\ n # 0 /\ b + k >= 1 => 2 ^ ((b + k) - 1) <= Whole(n, k)
        /\ n # 0 /\ b + k <= 0 => Whole(n, k) = 0 /\ Part(n, k) # 0
        /\ n = 0 => Whole(n, k) = 0 /\ Part(n, k) = 0
    BY <1>1, <1>3, WholeBounds
  <1>5. /\ Trunc(F, a) = IF k >= 0 THEN n * 2 ^ k ELSE n \div 2 ^ (-k)
        /\ TruncInexact(F, a) <=> -k > 0 /\ n % 2 ^ (-k) # 0
    <2>1. Bias(F) + F.f - e = -k /\ e - Bias(F) - F.f = k
      BY <1>1, <1>2
    <2>2. Trunc(F, a) = IF k >= 0 THEN n * 2 ^ k ELSE n \div 2 ^ (-k)
      BY <2>1 DEF Trunc
    <2>3. TruncInexact(F, a) <=> -k > 0 /\ n % 2 ^ (-k) # 0
      BY <2>1 DEF TruncInexact
    <2>4. QED
      BY <2>2, <2>3
  <1>6. ASSUME e < Bias(F) PROVE Whole(n, k) = 0 /\ (Part(n, k) # 0 <=> ~IsZero(F, a))
    <2>1. b + k <= 0
      BY <1>1, <1>2, <1>6
    <2>2. QED
      BY <1>1, <1>4, <2>1
  <1>7. ASSUME e >= Bias(F)
        PROVE  /\ Trunc(F, a) = Whole(n, k) /\ (TruncInexact(F, a) <=> Part(n, k) # 0)
               /\ 2 ^ (t - 1) <= Whole(n, k) /\ Whole(n, k) < 2 ^ t
    <2>1. e # 0 /\ b + k = t /\ t >= 1 /\ b = F.f + 1 /\ -k <= F.f
      BY <1>1, <1>2, <1>7
    <2>2. n # 0
      BY <1>1, <1>2, <2>1, LengthBounds
    <2>3. 2 ^ (t - 1) <= Whole(n, k) /\ Whole(n, k) < 2 ^ t
      BY <1>2, <1>4, <2>1, <2>2
    <2>4. CASE k >= 0
      BY <1>1, <1>5, <2>3, <2>4 DEF Whole, Part
    <2>5. CASE ~(k >= 0)
      <3> DEFINE j == -k
                 d == 2 ^ j
      <3>1. j \in 0..Widest /\ -j = k /\ j > 0
        BY <1>1, <1>2, <2>1, <2>5
      <3>2. Whole(n, -j) = n \div d /\ Part(n, -j) = Rest(n % d, d)
        BY <1>1, <3>1, PartsByDivision
      <3>3. Rest(n % d, d) # 0 <=> n % d # 0
        BY DEF Rest
      <3>4. QED
        BY <1>5, <2>3, <2>5, <3>1, <3>2, <3>3
    <2>6. QED
      BY <2>3, <2>4, <2>5
  <1>8. QED
    BY <1>4, <1>6, <1>7

(* The reference, truncating.                                              *)
LEMMA TruncatedIs ==
  ASSUME NEW F \in Formats, NEW a \in Patterns(F), Exp(F, a) - Bias(F) + 1 <= Widest,
         NEW w \in 2..W(F64), NEW signed \in BOOLEAN
  PROVE  ToInteger(signed, w, "minMag", Number(F, a))
           = Converted(signed, w, Sign(F, a), Whole(SigOf(F, a), Scale(F, a)), Part(SigOf(F, a), Scale(F, a)))
  <1> DEFINE n == SigOf(F, a)
             k == Scale(F, a)
             s == Sign(F, a)
  <1>1. ToInteger(signed, w, "minMag", Number(F, a)) = Converted(signed, w, s, RoundedMag("minMag", s, n, k), Part(n, k))
    <2>1. "minMag" \in Modes
      BY DEF Modes
    <2>2. QED
      BY <2>1, OperandWritten
  <1>2. s \in {0, 1}
    BY Unpacked
  <1>3. RoundedMag("minMag", s, n, k) = Whole(n, k)
    <2>1. ~RoundsUp("minMag", s, Whole(n, k), Part(n, k))
      BY <1>2 DEF RoundsUp, AwayFromZero
    <2>2. Whole(n, k) \in Nat
      BY TruncatedParts
    <2> HIDE DEF n, k, s
    <2>3. QED
      BY <2>1, <2>2 DEF RoundedMag, Bool
  <1>4. QED
    BY <1>1, <1>3

(* A number in range is returned, one out of range refused.                *)
LEMMA InRange ==
  ASSUME NEW w, NEW s, NEW mag, NEW q, NEW exact \in BOOLEAN, NEW signed \in BOOLEAN
  PROVE  /\ Fits(signed, w, WithSign(s, mag)) =>
               OnRequest(exact, Converted(signed, w, s, mag, q)) = Ret(WithSign(s, mag), Inexact(exact, q # 0))
         /\ ~Fits(signed, w, WithSign(s, mag)) =>
               OnRequest(exact, Converted(signed, w, s, mag, q)) = Outside(signed, w, s)
  <1>1. OnRequest(exact, Outside(signed, w, s)) = Outside(signed, w, s)
    BY DEF OnRequest, Outside, Ret
  <1>2. \A z : OnRequest(exact, Ret(z, IF q = 0 THEN {} ELSE {"inexact"})) = Ret(z, Inexact(exact, q # 0))
    BY DEF OnRequest, Ret, Inexact
  <1>3. QED
    BY <1>1, <1>2 DEF Converted

(* Operands the truncating routines refuse.                                *)
LEMMA RefusedTruncated ==
  ASSUME NEW F \in Formats, NEW a \in Patterns(F), NEW w \in 2..W(F64), NEW signed \in BOOLEAN,
         NEW exact \in BOOLEAN, ~Finite(F, a) \/ Exp(F, a) - Bias(F) >= w
  PROVE  LET s == IF IsNaN(F, a) THEN 0 ELSE Sign(F, a)
         IN  /\ OnRequest(exact, WantedTrunc(F, signed, w, a)) = Outside(signed, w, s)
             /\ signed => Outside(signed, w, s) = Clamp(w, s)
             /\ ~signed => Outside(signed, w, s) = Ret(UIntMax(w), {"invalid"})
  <1> DEFINE s == IF IsNaN(F, a) THEN 0 ELSE Sign(F, a)
  <1>1. WantedTrunc(F, signed, w, a) = Outside(signed, w, s)
    <2>1. CASE ~Finite(F, a)
      BY <2>1 DEF WantedTrunc
    <2>2. CASE Finite(F, a)
      <3>1. s = Sign(F, a)
        BY <2>2 DEF IsNaN, Finite
      <3>2. "minMag" \in Modes /\ Exp(F, a) - Bias(F) >= w
        BY <2>2 DEF Modes
      <3>3. ToInteger(signed, w, "minMag", Number(F, a)) = Outside(signed, w, Sign(F, a))
        BY <3>2, OperandConverted
      <3> HIDE DEF s
      <3>4. QED
        BY <2>2, <3>1, <3>3 DEF WantedTrunc
    <2>3. QED
      BY <2>1, <2>2
  <1>3. s \in {0, 1}
    BY Unpacked
  <1> HIDE DEF s
  <1>2. OnRequest(exact, Outside(signed, w, s)) = Outside(signed, w, s)
    BY DEF OnRequest, Outside, Ret
  <1>4. /\ signed => Outside(signed, w, s) = Clamp(w, s)
        /\ ~signed => Outside(signed, w, s) = Ret(UIntMax(w), {"invalid"})
    BY <1>3 DEF Outside, Clamp, Least, Greatest
  <1>5. QED
    BY <1>1, <1>2, <1>4 DEF s

(* Integers of w bits are within the range of the format.                  *)
SuitsTrunc(F, w) == w \in 2..W(F64) /\ w <= Bias(F) + 1

(* The truncating conversions to unsigned integers.                        *)
LEMMA TruncUnsigned ==
  ASSUME NEW F \in Formats, NEW a \in Patterns(F), NEW w, SuitsTrunc(F, w), NEW exact \in BOOLEAN
  PROVE  TruncToUI(F, w, a, exact) = OnRequest(exact, WantedTrunc(F, FALSE, w, a))
  <1> DEFINE e == Exp(F, a)
             s == Sign(F, a)
             n == SigOf(F, a)
             k == Scale(F, a)
             i == Whole(n, k)
             q == Part(n, k)
             fl == Inexact(exact, q # 0)
             wanted == OnRequest(exact, WantedTrunc(F, FALSE, w, a))
             no == Ret(UIntMax(w), {"invalid"})
  <1>1. w \in 2..W(F64) /\ w \in Nat /\ w >= 2 /\ w \in 2..Widest /\ Widest \in Nat /\ Widest = W(F64) + 2 /\ w <= W(F64) /\ w <= Bias(F) + 1
        /\ W(F64) \in Nat
    BY FormatWidths DEF SuitsTrunc, Widest
  <1>2. Bias(F) \in Nat /\ ExpMax(F) = 2 * Bias(F) + 1 /\ e \in 0..ExpMax(F) /\ e \in Nat /\ s \in {0, 1}
    BY FieldPlaces, Unpacked
  <1>3. e - Bias(F) >= w \/ ~Finite(F, a) => wanted = no
    <2> DEFINE d == FALSE
    <2>1. d \in BOOLEAN /\ ~d
      OBVIOUS
    <2> HIDE DEF d
    <2>2. e - Bias(F) >= w \/ ~Finite(F, a) => OnRequest(exact, WantedTrunc(F, d, w, a)) = no
      BY <1>1, <2>1, RefusedTruncated
    <2>3. QED
      BY <2>2 DEF d
  <1>4. e - Bias(F) < w => Finite(F, a)
    BY <1>1, <1>2 DEF Finite
  <1>5. ASSUME e - Bias(F) < w
        PROVE  /\ i < 2 ^ w /\ (s = 0 \/ i = 0) => wanted = Ret(i, fl)
               /\ ~(i < 2 ^ w /\ (s = 0 \/ i = 0)) => wanted = no
    <2> DEFINE d == FALSE
    <2>1. d \in BOOLEAN /\ ~d
      OBVIOUS
    <2>2. e - Bias(F) + 1 <= Widest
      BY <1>1, <1>2, <1>5
    <2>3. i \in Nat
      BY <2>2, TruncatedParts
    <2>4. Fits(d, w, WithSign(s, i)) <=> i < 2 ^ w /\ (s = 0 \/ i = 0)
      <3> HIDE DEF i, s
      <3>1. QED
        BY <1>1, <1>2, <2>3, UnsignedFits
    <2> HIDE DEF d
    <2>5. WantedTrunc(F, d, w, a) = Converted(d, w, s, i, q)
      BY <1>1, <1>4, <1>5, <2>1, <2>2, TruncatedIs DEF WantedTrunc
    <2> HIDE DEF i, s, q
    <2>6. /\ Fits(d, w, WithSign(s, i)) =>
                OnRequest(exact, Converted(d, w, s, i, q)) = Ret(WithSign(s, i), Inexact(exact, q # 0))
          /\ ~Fits(d, w, WithSign(s, i)) =>
                OnRequest(exact, Converted(d, w, s, i, q)) = Outside(d, w, s)
      BY <2>1, InRange
    <2>7. Outside(d, w, s) = no
      BY <2>1 DEF Outside, Greatest
    <2>8. s = 0 \/ i = 0 => WithSign(s, i) = i
      <3>1. s = 0 => WithSign(s, i) = i
        BY DEF WithSign
      <3>2. i <= 0 => WithSign(s, i) = i
        BY <2>3 DEF WithSign
      <3>3. QED
        BY <2>3, <3>1, <3>2
    <2> DEFINE got == OnRequest(exact, WantedTrunc(F, d, w, a))
    <2>9. /\ i < 2 ^ w /\ (s = 0 \/ i = 0) => got = Ret(i, Inexact(exact, q # 0))
          /\ ~(i < 2 ^ w /\ (s = 0 \/ i = 0)) => got = no
      BY <2>4, <2>5, <2>6, <2>7, <2>8
    <2>10. got = wanted
      BY DEF d
    <2> HIDE DEF got, wanted, no
    <2>11. QED
      BY <2>9, <2>10
  <1> HIDE DEF wanted, no, fl
  <1>6. CASE e < Bias(F)
    <2>1. e - Bias(F) < w /\ e - Bias(F) + 1 <= Widest
      BY <1>1, <1>2, <1>6
    <2>2. i = 0 /\ (q # 0 <=> ~IsZero(F, a))
      BY <1>6, <2>1, TruncatedParts
    <2>3. 0 < 2 ^ w
      BY <1>1, Powers
    <2>4. wanted = Ret(i, fl)
      <3> HIDE DEF i, s, q
      <3>1. i < 2 ^ w /\ (s = 0 \/ i = 0)
        BY <2>2, <2>3
      <3>2. QED
        BY <1>5, <2>1, <3>1
    <2>5. TruncToUI(F, w, a, exact) = Ret(0, Inexact(exact, ~IsZero(F, a)))
      BY <1>1, <1>2, <1>6 DEF TruncToUI
    <2>6. Inexact(exact, ~IsZero(F, a)) = fl
      BY <2>2 DEF Inexact, fl
    <2> HIDE DEF i
    <2>7. QED
      BY <2>2, <2>4, <2>5, <2>6 DEF wanted
  <1>7. CASE e >= Bias(F) /\ (s = 1 \/ e > Bias(F) + w - 1)
    <2>1. TruncToUI(F, w, a, exact) = no
      BY <1>1, <1>2, <1>7 DEF TruncToUI, no
    <2>2. wanted = no
      <3>1. CASE e > Bias(F) + w - 1
        <4>1. e - Bias(F) >= w
          BY <1>1, <1>2, <3>1
        <4>2. QED
          BY <1>3, <4>1
      <3>2. CASE ~(e > Bias(F) + w - 1)
        <4>1. e - Bias(F) < w /\ e - Bias(F) + 1 <= Widest /\ (e - Bias(F) + 1) - 1 \in 0..Widest /\ s = 1
          BY <1>1, <1>2, <1>7, <3>2
        <4>2. 2 ^ ((e - Bias(F) + 1) - 1) <= i /\ i \in Nat
          BY <1>7, <4>1, TruncatedParts
        <4>3. 2 ^ ((e - Bias(F) + 1) - 1) \in Nat \ {0}
          BY <4>1, Powers
        <4>4. i # 0
          BY <4>2, <4>3
        <4>5. QED
          BY <1>5, <4>1, <4>4
      <3>3. QED
        BY <3>1, <3>2
    <2>3. QED
      BY <2>1, <2>2 DEF wanted
  <1>8. CASE e >= Bias(F) /\ s = 0 /\ ~(e > Bias(F) + w - 1)
    <2>1. e - Bias(F) < w /\ e - Bias(F) + 1 <= Widest /\ e - Bias(F) + 1 <= w /\ e - Bias(F) + 1 \in 0..Widest /\ w \in 0..Widest
      BY <1>1, <1>2, <1>8
    <2>2. /\ Trunc(F, a) = i /\ (TruncInexact(F, a) <=> q # 0) /\ i < 2 ^ (e - Bias(F) + 1) /\ i \in Nat
      BY <1>8, <2>1, TruncatedParts
    <2>3. i < 2 ^ w
      <3>1. 2 ^ (e - Bias(F) + 1) <= 2 ^ w /\ 2 ^ (e - Bias(F) + 1) \in Nat /\ 2 ^ w \in Nat
        BY <2>1, PowerOrder, Powers
      <3>2. QED
        BY <2>2, <3>1
    <2>4. wanted = Ret(i, fl)
      BY <1>5, <1>8, <2>1, <2>3
    <2>5. TruncToUI(F, w, a, exact) = Ret(Trunc(F, a), Inexact(exact, TruncInexact(F, a)))
      <3>1. ~(e < Bias(F)) /\ ~(Sign(F, a) = 1 \/ Exp(F, a) > Bias(F) + w - 1)
        BY <1>1, <1>2, <1>8
      <3>2. QED
        BY <3>1 DEF TruncToUI
    <2>6. Inexact(exact, TruncInexact(F, a)) = fl
      BY <2>2 DEF Inexact, fl
    <2>7. QED
      BY <2>2, <2>4, <2>5, <2>6 DEF wanted
  <1>9. QED
    <2>1. e < Bias(F) \/ e >= Bias(F)
      BY <1>2
    <2>2. QED
      BY <1>2, <1>6, <1>7, <1>8, <2>1

(* The range of signed integers is not symmetric.                          *)
LEMMA SignedRange ==
  ASSUME NEW w \in 2..Widest, NEW s \in {0, 1}, NEW i \in Nat
  PROVE  Fits(TRUE, w, WithSign(s, i)) <=> (s = 0 /\ i < 2 ^ (w - 1)) \/ (s = 1 /\ i <= 2 ^ (w - 1))
  <1> DEFINE p == 2 ^ (w - 1)
  <1>1. p \in Nat /\ p >= 2 /\ IntMin(w) = -p /\ IntMax(w) = p - 1
    BY WordBounds
  <1> HIDE DEF p
  <1>2. CASE s = 0
    <2>1. WithSign(s, i) = i
      BY <1>2 DEF WithSign
    <2>2. QED
      BY <1>1, <1>2, <2>1 DEF Fits, Least, Greatest, p
  <1>3. CASE s = 1
    <2>1. WithSign(s, i) = -i
      BY <1>3 DEF WithSign
    <2>2. QED
      BY <1>1, <1>3, <2>1 DEF Fits, Least, Greatest, p
  <1>4. QED
    BY <1>2, <1>3

(* What is wanted of an operand that can be written out.                   *)
LEMMA WantedSigned ==
  ASSUME NEW F \in Formats, NEW a \in Patterns(F), NEW w, SuitsTrunc(F, w), NEW exact \in BOOLEAN
  PROVE  LET s == Sign(F, a)
             i == Whole(SigOf(F, a), Scale(F, a))
             q == Part(SigOf(F, a), Scale(F, a))
             nan == IF IsNaN(F, a) THEN 0 ELSE s
             wanted == OnRequest(exact, WantedTrunc(F, TRUE, w, a))
         IN  /\ Exp(F, a) - Bias(F) >= w => wanted = Clamp(w, nan)
             /\ Exp(F, a) - Bias(F) < w =>
                  /\ Finite(F, a) /\ nan = s
                  /\ Fits(TRUE, w, WithSign(s, i)) => wanted = Ret(WithSign(s, i), Inexact(exact, q # 0))
                  /\ ~Fits(TRUE, w, WithSign(s, i)) => wanted = Clamp(w, s)
  <1> DEFINE e == Exp(F, a)
             s == Sign(F, a)
             i == Whole(SigOf(F, a), Scale(F, a))
             q == Part(SigOf(F, a), Scale(F, a))
             nan == IF IsNaN(F, a) THEN 0 ELSE s
             d == TRUE
             wanted == OnRequest(exact, WantedTrunc(F, d, w, a))
  <1>1. w \in 2..W(F64) /\ w \in Nat /\ w \in 2..Widest /\ Widest \in Nat /\ Widest = W(F64) + 2 /\ w <= W(F64) /\ w <= Bias(F) + 1
        /\ W(F64) \in Nat
    BY FormatWidths DEF SuitsTrunc, Widest
  <1>2. Bias(F) \in Nat /\ ExpMax(F) = 2 * Bias(F) + 1 /\ e \in 0..ExpMax(F) /\ e \in Nat /\ s \in {0, 1}
    BY FieldPlaces, Unpacked
  <1>3. d \in BOOLEAN /\ d
    OBVIOUS
  <1> HIDE DEF d
  <1>4. e - Bias(F) >= w => wanted = Clamp(w, nan)
    BY <1>1, <1>3, RefusedTruncated
  <1>5. ASSUME e - Bias(F) < w
        PROVE  /\ Finite(F, a) /\ nan = s
               /\ Fits(d, w, WithSign(s, i)) => wanted = Ret(WithSign(s, i), Inexact(exact, q # 0))
               /\ ~Fits(d, w, WithSign(s, i)) => wanted = Clamp(w, s)
    <2>1. Finite(F, a)
      BY <1>1, <1>2, <1>5 DEF Finite
    <2>2. nan = s
      BY <2>1 DEF Finite, IsNaN
    <2>3. e - Bias(F) + 1 <= Widest
      BY <1>1, <1>2, <1>5
    <2>4. WantedTrunc(F, d, w, a) = Converted(d, w, s, i, q)
      BY <1>1, <1>3, <2>1, <2>3, TruncatedIs DEF WantedTrunc
    <2> HIDE DEF i, s, q
    <2> DEFINE got == OnRequest(exact, Converted(d, w, s, i, q))
    <2>8. /\ Fits(d, w, WithSign(s, i)) => got = Ret(WithSign(s, i), Inexact(exact, q # 0))
          /\ ~Fits(d, w, WithSign(s, i)) => got = Outside(d, w, s)
      <3>1. d \in BOOLEAN
        BY <1>3
      <3>2. QED
        BY <3>1, InRange
    <2>9. wanted = got
      BY <2>4
    <2> HIDE DEF wanted, got
    <2>5. /\ Fits(d, w, WithSign(s, i)) => wanted = Ret(WithSign(s, i), Inexact(exact, q # 0))
          /\ ~Fits(d, w, WithSign(s, i)) => wanted = Outside(d, w, s)
      BY <2>8, <2>9
    <2>6. Outside(d, w, s) = Clamp(w, s)
      BY <1>2, <1>3 DEF Outside, Clamp, Least, Greatest
    <2>10. QED
      BY <2>1, <2>2, <2>5, <2>6
  <1>6. QED
    BY <1>4, <1>5 DEF d

(* The truncating conversions to signed integers that tell the least       *)
(* integer from its pattern.                                               *)
LEMMA TruncSigned ==
  ASSUME NEW F \in Formats, NEW a \in Patterns(F), NEW w, SuitsTrunc(F, w), w - 1 >= F.f, NEW exact \in BOOLEAN
  PROVE  TruncToI(F, w, a, exact) = OnRequest(exact, WantedTrunc(F, TRUE, w, a))
  <1> DEFINE e == Exp(F, a)
             s == Sign(F, a)
             n == SigOf(F, a)
             k == Scale(F, a)
             i == Whole(n, k)
             q == Part(n, k)
             p == 2 ^ (w - 1)
             nan == IF IsNaN(F, a) THEN 0 ELSE s
             wanted == OnRequest(exact, WantedTrunc(F, TRUE, w, a))
             fit == Fits(TRUE, w, WithSign(s, i))
             given == TruncToI(F, w, a, exact)
  <1>1. /\ w \in 2..W(F64) /\ w \in Nat /\ w >= 2 /\ w \in 2..Widest /\ Widest \in Nat /\ Widest = W(F64) + 2 /\ w <= W(F64) /\ w <= Bias(F) + 1
        /\ W(F64) \in Nat /\ F.f \in Nat /\ w - 1 >= F.f /\ F.f >= 2
    BY FormatWidths DEF SuitsTrunc, Widest, Formats
  <1>2. Bias(F) \in Nat /\ ExpMax(F) = 2 * Bias(F) + 1 /\ e \in 0..ExpMax(F) /\ e \in Nat /\ s \in {0, 1}
    BY FieldPlaces, Unpacked
  <1>3. /\ e - Bias(F) >= w => wanted = Clamp(w, nan)
        /\ e - Bias(F) < w => /\ Finite(F, a) /\ nan = s
                              /\ fit => wanted = Ret(WithSign(s, i), Inexact(exact, q # 0))
                              /\ ~fit => wanted = Clamp(w, s)
    BY WantedSigned
  <1>4. p \in Nat /\ p >= 2 /\ 2 ^ w = 2 * p /\ IntMin(w) = -p
    BY <1>1, WordBounds
  <1>5. e - Bias(F) < w => /\ i \in Nat /\ q \in 0..3
                           /\ fit <=> (s = 0 /\ i < p) \/ (s = 1 /\ i <= p)
    <2>1. SUFFICES ASSUME e - Bias(F) < w
                   PROVE i \in Nat /\ q \in 0..3 /\ (fit <=> (s = 0 /\ i < p) \/ (s = 1 /\ i <= p))
      OBVIOUS
    <2>2. e - Bias(F) + 1 <= Widest
      BY <1>1, <1>2, <2>1
    <2>3. i \in Nat /\ q \in 0..3
      BY <2>2, TruncatedParts
    <2> HIDE DEF i, s
    <2>4. fit <=> (s = 0 /\ i < p) \/ (s = 1 /\ i <= p)
      BY <1>1, <1>2, <2>3, SignedRange
    <2>5. QED
      BY <2>3, <2>4
  <1>6. /\ e < Bias(F) => given = Ret(0, Inexact(exact, ~IsZero(F, a)))
        /\ e >= Bias(F) + w - 1 => given = IF a = Pack(F, 1, Bias(F) + w - 1, 0) THEN Ret(IntMin(w), {}) ELSE Clamp(w, nan)
        /\ e >= Bias(F) /\ e < Bias(F) + w - 1 => given = Ret(IF s = 1 THEN -Trunc(F, a) ELSE Trunc(F, a), Inexact(exact, TruncInexact(F, a)))
    BY <1>1, <1>2 DEF TruncToI
  <1> HIDE DEF wanted, fit, given, p
  <1>7. CASE e < Bias(F)
    <2>1. e - Bias(F) < w /\ e - Bias(F) + 1 <= Widest
      BY <1>1, <1>2, <1>7
    <2>2. i = 0 /\ (q # 0 <=> ~IsZero(F, a))
      BY <1>7, <2>1, TruncatedParts
    <2> HIDE DEF i, q, s
    <2>3. fit
      BY <1>2, <1>4, <1>5, <2>1, <2>2
    <2>4. WithSign(s, i) = 0
      <3>1. \A o \in Nat : o <= 0 => WithSign(s, o) = 0
        BY DEF WithSign
      <3>2. QED
        BY <2>2, <3>1
    <2>5. wanted = Ret(0, Inexact(exact, q # 0))
      BY <1>3, <2>1, <2>3, <2>4
    <2>6. Inexact(exact, ~IsZero(F, a)) = Inexact(exact, q # 0)
      BY <2>2 DEF Inexact
    <2>7. given = wanted
      BY <1>6, <1>7, <2>5, <2>6
    <2>8. QED
      BY <2>7 DEF given, wanted
  <1>8. CASE e >= Bias(F) /\ e < Bias(F) + w - 1
    <2>1. /\ e - Bias(F) < w /\ e - Bias(F) + 1 <= Widest /\ e - Bias(F) + 1 <= w - 1 /\ e - Bias(F) + 1 \in 0..Widest
          /\ w - 1 \in 0..Widest
      BY <1>1, <1>2, <1>8
    <2>2. Trunc(F, a) = i /\ (TruncInexact(F, a) <=> q # 0) /\ i < 2 ^ (e - Bias(F) + 1) /\ i \in Nat
      BY <1>8, <2>1, TruncatedParts
    <2>3. i < p
      <3>1. 2 ^ (e - Bias(F) + 1) <= p /\ 2 ^ (e - Bias(F) + 1) \in Nat
        BY <2>1, PowerOrder, Powers DEF p
      <3>2. QED
        BY <1>4, <2>2, <3>1
    <2>4. Inexact(exact, TruncInexact(F, a)) = Inexact(exact, q # 0)
      BY <2>2 DEF Inexact
    <2> HIDE DEF i, q, s
    <2>5. fit
      BY <1>2, <1>4, <1>5, <2>1, <2>2, <2>3
    <2>6. wanted = Ret(WithSign(s, i), Inexact(exact, q # 0))
      BY <1>3, <2>1, <2>5
    <2>7. given = wanted
      BY <1>6, <1>8, <2>2, <2>4, <2>6 DEF WithSign
    <2>8. QED
      BY <2>7 DEF given, wanted
  <1>9. CASE e >= Bias(F) + w - 1
    <2> DEFINE o == Pack(F, 1, Bias(F) + w - 1, 0)
               h == Hidden(F)
    <2>1. /\ Sign(F, o) = 1 /\ Exp(F, o) = Bias(F) + w - 1 /\ Frac(F, o) = 0 /\ h \in Nat /\ h >= 4
      <3>1. Bias(F) + w - 1 \in 0..ExpMax(F) /\ 0 \in 0..(Hidden(F) - 1) /\ h \in Nat /\ h >= 4 /\ 1 \in {0, 1}
        BY <1>1, <1>2, FieldPlaces
      <3>2. QED
        BY <3>1, Packed
    <2>2. CASE e - Bias(F) >= w
      <3>1. e # Bias(F) + w - 1
        BY <1>1, <1>2, <2>2
      <3>2. a # o
        BY <2>1, <3>1
      <3>3. given = wanted
        BY <1>3, <1>6, <1>9, <2>2, <3>2
      <3>4. QED
        BY <3>3 DEF given, wanted
    <2>3. CASE e = Bias(F) + w - 1
      <3>1. e - Bias(F) < w /\ e - Bias(F) + 1 = w /\ w <= Widest /\ e >= Bias(F) /\ e # 0
        BY <1>1, <1>2, <2>3
      <3>2. p <= i /\ i < 2 * p /\ i \in Nat
        <4>1. 2 ^ ((e - Bias(F) + 1) - 1) <= i /\ i < 2 ^ (e - Bias(F) + 1) /\ i \in Nat
          BY <3>1, TruncatedParts
        <4>2. QED
          BY <1>4, <3>1, <4>1 DEF p
      <3>3. k = w - 1 - F.f /\ k >= 0 /\ k \in 0..Widest /\ n = Frac(F, a) + h /\ Frac(F, a) \in 0..(h - 1)
        BY <1>1, <1>2, <2>3, <3>1, OperandParts, Unpacked DEF Scale
      <3>4. i = n * 2 ^ k /\ q = 0 /\ 2 ^ k \in Nat \ {0}
        BY <3>3, Powers DEF Whole, Part
      <3>5. p = h * 2 ^ k
        <4>1. F.f \in Nat /\ k \in Nat /\ F.f + k <= Widest /\ F.f + k = w - 1
          BY <1>1, <3>3
        <4> HIDE DEF k
        <4>2. 2 ^ (w - 1) = 2 ^ F.f * 2 ^ k
          BY <4>1, PowerSum
        <4>3. QED
          BY <4>2 DEF p, Hidden
      <3>6. Frac(F, a) = 0 <=> i = p
        <4> DEFINE f == Frac(F, a)
                   d == 2 ^ k
        <4>1. f \in Nat /\ d \in Nat \ {0} /\ h \in Nat /\ i = (f + h) * d /\ p = h * d
          BY <2>1, <3>3, <3>4, <3>5
        <4> HIDE DEF f, d, h, i
        <4>2. (f + h) * d = f * d + h * d /\ f * d \in Int /\ h * d \in Int
          BY <4>1
        <4>3. f <= 0 => f * d = 0
          BY <4>1
        <4>4. f >= 1 => f * d >= d
          BY <4>1
        <4>5. f = 0 <=> i = p
          BY <4>1, <4>2, <4>3, <4>4
        <4>6. QED
          BY <4>5 DEF f
      <3>7. a = o <=> s = 1 /\ Frac(F, a) = 0
        <4>1. a = Pack(F, s, e, Frac(F, a))
          BY Unpacked
        <4>2. QED
          BY <2>1, <2>3, <4>1
      <3> HIDE DEF i, q, s, o
      <3>8. fit <=> a = o
        BY <1>2, <1>4, <1>5, <3>1, <3>2, <3>6, <3>7
      <3>9. CASE fit
        <4>1. wanted = Ret(WithSign(s, i), Inexact(exact, q # 0))
          BY <1>3, <3>1, <3>9
        <4>2. WithSign(s, i) = IntMin(w)
          BY <1>4, <3>6, <3>7, <3>8, <3>9 DEF WithSign
        <4>3. Inexact(exact, q # 0) = {}
          BY <3>4 DEF Inexact
        <4>4. given = wanted
          BY <1>6, <1>9, <3>8, <3>9, <4>1, <4>2, <4>3 DEF o
        <4>5. QED
          BY <4>4 DEF given, wanted
      <3>10. CASE ~fit
        <4>1. given = wanted
          BY <1>3, <1>6, <1>9, <3>1, <3>8, <3>10 DEF o
        <4>2. QED
          BY <4>1 DEF given, wanted
      <3>11. QED
        BY <3>9, <3>10
    <2>4. e - Bias(F) >= w \/ e = Bias(F) + w - 1
      BY <1>1, <1>2, <1>9
    <2>5. QED
      BY <2>2, <2>3, <2>4
  <1>10. QED
    <2>1. e < Bias(F) \/ (e >= Bias(F) /\ e < Bias(F) + w - 1) \/ e >= Bias(F) + w - 1
      BY <1>1, <1>2
    <2>2. QED
      BY <1>7, <1>8, <1>9, <2>1

(* f64_to_i32_r_minMag, which truncates to a word and looks at the sign it *)
(* gets.                                                                   *)
LEMMA TruncToWord ==
  ASSUME NEW a \in Patterns(F64), SuitsTrunc(F64, W(F32)), NEW exact \in BOOLEAN
  PROVE  f64_to_i32_r_minMag(a, exact) = OnRequest(exact, WantedTrunc(F64, TRUE, W(F32), a))
  <1> DEFINE w == W(F32)
             e == Exp(F64, a)
             s == Sign(F64, a)
             n == SigOf(F64, a)
             k == Scale(F64, a)
             i == Whole(n, k)
             q == Part(n, k)
             nan == IF IsNaN(F64, a) THEN 0 ELSE s
             z == Signed(w, IF nan = 1 THEN -Trunc(F64, a) ELSE Trunc(F64, a))
             wanted == OnRequest(exact, WantedTrunc(F64, TRUE, w, a))
             fit == Fits(TRUE, w, WithSign(s, i))
             given == f64_to_i32_r_minMag(a, exact)
  <1>1. /\ w \in 2..W(F64) /\ w \in Nat /\ w >= 2 /\ w \in 2..Widest /\ Widest \in Nat /\ Widest = W(F64) + 2 /\ w <= W(F64)
        /\ w <= Bias(F64) + 1 /\ W(F64) \in Nat /\ F64 \in Formats
    BY FormatWidths DEF SuitsTrunc, Widest, Formats
  <1>2. Bias(F64) \in Nat /\ ExpMax(F64) = 2 * Bias(F64) + 1 /\ e \in 0..ExpMax(F64) /\ e \in Nat /\ s \in {0, 1} /\ nan \in {0, 1}
    BY <1>1, FieldPlaces, Unpacked
  <1>3. /\ e - Bias(F64) >= w => wanted = Clamp(w, nan)
        /\ e - Bias(F64) < w => /\ Finite(F64, a) /\ nan = s
                                /\ fit => wanted = Ret(WithSign(s, i), Inexact(exact, q # 0))
                                /\ ~fit => wanted = Clamp(w, s)
    BY <1>1, WantedSigned
  <1>4. 2 ^ (w - 1) \in Nat \ {0}
    <2>1. w - 1 \in 0..Widest
      BY <1>1
    <2>2. QED
      BY <2>1, Powers
  <1>5. e - Bias(F64) < w =>
          /\ i \in Nat /\ q \in 0..3
          /\ fit <=> (s = 0 /\ i < 2 ^ (w - 1)) \/ (s = 1 /\ i <= 2 ^ (w - 1))
    <2>1. SUFFICES ASSUME e - Bias(F64) < w
                   PROVE  /\ i \in Nat /\ q \in 0..3
                          /\ fit <=> (s = 0 /\ i < 2 ^ (w - 1)) \/ (s = 1 /\ i <= 2 ^ (w - 1))
      OBVIOUS
    <2>2. e - Bias(F64) + 1 <= Widest
      BY <1>1, <1>2, <2>1
    <2>3. i \in Nat /\ q \in 0..3
      BY <1>1, <2>2, TruncatedParts
    <2> HIDE DEF i, s
    <2>4. fit <=> (s = 0 /\ i < 2 ^ (w - 1)) \/ (s = 1 /\ i <= 2 ^ (w - 1))
      BY <1>1, <1>2, <2>3, SignedRange
    <2>5. QED
      BY <2>3, <2>4
  <1>6. /\ e < Bias(F64) => given = Ret(0, Inexact(exact, ~IsZero(F64, a)))
        /\ e > Bias(F64) + w - 1 => given = Clamp(w, nan)
        /\ e >= Bias(F64) /\ e <= Bias(F64) + w - 1 =>
             given = IF Bool(z < 0) # nan THEN Clamp(w, nan) ELSE Ret(z, Inexact(exact, TruncInexact(F64, a)))
    BY <1>1, <1>2 DEF f64_to_i32_r_minMag
  <1> HIDE DEF wanted, fit, given
  <1>7. CASE e < Bias(F64)
    <2>1. e - Bias(F64) < w /\ e - Bias(F64) + 1 <= Widest
      BY <1>1, <1>2, <1>7
    <2>2. i = 0 /\ (q # 0 <=> ~IsZero(F64, a))
      BY <1>1, <1>7, <2>1, TruncatedParts
    <2> HIDE DEF i, q, s
    <2>3. fit
      BY <1>2, <1>4, <1>5, <2>1, <2>2
    <2>4. WithSign(s, i) = 0
      <3>1. \A o \in Nat : o <= 0 => WithSign(s, o) = 0
        BY DEF WithSign
      <3>2. QED
        BY <2>2, <3>1
    <2>5. wanted = Ret(0, Inexact(exact, q # 0))
      BY <1>3, <2>1, <2>3, <2>4
    <2>6. Inexact(exact, ~IsZero(F64, a)) = Inexact(exact, q # 0)
      BY <2>2 DEF Inexact
    <2>7. given = wanted
      BY <1>6, <1>7, <2>5, <2>6
    <2>8. QED
      BY <2>7 DEF given, wanted
  <1>8. CASE e >= Bias(F64) /\ e <= Bias(F64) + w - 1
    <2>1. /\ e - Bias(F64) < w /\ e - Bias(F64) + 1 <= Widest /\ e - Bias(F64) + 1 <= w /\ e - Bias(F64) + 1 \in 0..Widest
          /\ w \in 0..Widest /\ (e - Bias(F64) + 1) - 1 \in 0..Widest
      BY <1>1, <1>2, <1>8
    <2>2. /\ Trunc(F64, a) = i /\ (TruncInexact(F64, a) <=> q # 0) /\ i < 2 ^ (e - Bias(F64) + 1) /\ i \in Nat
          /\ 2 ^ ((e - Bias(F64) + 1) - 1) <= i
      BY <1>1, <1>8, <2>1, TruncatedParts
    <2>3. i < 2 ^ w
      <3>1. 2 ^ (e - Bias(F64) + 1) <= 2 ^ w /\ 2 ^ (e - Bias(F64) + 1) \in Nat /\ 2 ^ w \in Nat
        BY <2>1, PowerOrder, Powers
      <3>2. QED
        BY <2>2, <3>1
    <2>4. i # 0
      <3>1. 2 ^ ((e - Bias(F64) + 1) - 1) \in Nat \ {0}
        BY <2>1, Powers
      <3>2. QED
        BY <2>2, <3>1
    <2>5. Inexact(exact, TruncInexact(F64, a)) = Inexact(exact, q # 0)
      BY <2>2 DEF Inexact
    <2>6. nan = s
      BY <1>3, <2>1
    <2>7. z = Signed(w, WithSign(s, i))
      BY <2>2, <2>6 DEF WithSign
    <2> HIDE DEF i, q, s, z, nan
    <2>8. /\ fit => z = WithSign(s, i) /\ Bool(z < 0) = s
          /\ ~fit => Bool(z < 0) # s
      <3>1. /\ fit => Signed(w, WithSign(s, i)) = WithSign(s, i) /\ (i # 0 => Bool(Signed(w, WithSign(s, i)) < 0) = s)
            /\ ~fit => i # 0 /\ Bool(Signed(w, WithSign(s, i)) < 0) # s
        <4>1. w \in 2..Widest /\ s \in {0, 1} /\ i \in Nat /\ i < 2 ^ w
          BY <1>1, <1>2, <2>2, <2>3
        <4> HIDE DEF w
        <4>2. QED
          BY <4>1, SignedFits DEF fit
      <3>2. QED
        BY <2>4, <2>7, <3>1
    <2>9. given = wanted
      BY <1>3, <1>6, <1>8, <2>1, <2>5, <2>6, <2>8
    <2>10. QED
      BY <2>9 DEF given, wanted
  <1>9. CASE e > Bias(F64) + w - 1
    <2>1. e - Bias(F64) >= w
      BY <1>1, <1>2, <1>9
    <2>2. given = wanted
      BY <1>3, <1>6, <1>9, <2>1
    <2>3. QED
      BY <2>2 DEF given, wanted
  <1>10. QED
    <2>1. e < Bias(F64) \/ (e >= Bias(F64) /\ e <= Bias(F64) + w - 1) \/ e > Bias(F64) + w - 1
      BY <1>1, <1>2
    <2>2. QED
      BY <1>7, <1>8, <1>9, <2>1

-----------------------------------------------------------------------------
(* All conversions to integers.                                            *)

(* What the conversions between numbers and integers rely on: a 32-bit     *)
(* integer with the bits below its point fits the fraction of a double and *)
(* a shifted single, and every integer is in the range of both formats.    *)
IntegerWidths ==
  /\ IntGuard <= ExpBits32 /\ IntGuard <= FracBits32 /\ W(F32) + IntGuard <= FracBits64
  /\ 2 ^ (ExpBits32 - 1) > W(F64) + 1

(* Then each routine has the room it needs.                                *)
LEMMA WidthsSuit ==
  ASSUME IntegerWidths
  PROVE  /\ Suits32(F32, W(F32)) /\ Suits32(F64, 0)
         /\ Suits64(F32, Lead64) /\ Suits64(F64, 0)
         /\ \A F \in Formats : /\ SuitsTrunc(F, W(F32)) /\ SuitsTrunc(F, W(F64))
                               /\ Bias(F) > W(F64)
         /\ W(F32) - 1 >= F32.f /\ W(F64) - 1 >= F32.f /\ W(F64) - 1 >= F64.f
  <1>1. /\ ExpBits32 \in Nat /\ FracBits32 \in Nat /\ ExpBits64 \in Nat /\ FracBits64 \in Nat /\ IntGuard \in Nat
        /\ ExpBits32 >= 4 /\ FracBits32 >= 2 /\ IntGuard >= 2
        /\ W(F64) = 2 * W(F32) /\ W(F32) = 1 + ExpBits32 + FracBits32 /\ W(F64) = 1 + ExpBits64 + FracBits64
        /\ ExpBits64 > ExpBits32 /\ FracBits64 >= ExpBits32 + FracBits32
        /\ F32.e = ExpBits32 /\ F32.f = FracBits32 /\ F64.e = ExpBits64 /\ F64.f = FracBits64
        /\ 2 ^ (ExpBits64 - 1) > 2 ^ (ExpBits32 - 1) + FracBits32
    BY FormatAssumption DEF W, F32, F64
  <1> DEFINE p == 2 ^ (ExpBits32 - 1)
             q == 2 ^ (ExpBits64 - 1)
  <1>2. p \in Nat /\ q \in Nat
    <2>1. ExpBits32 - 1 \in 0..Widest /\ ExpBits64 - 1 \in 0..Widest
      BY <1>1 DEF Widest
    <2>2. QED
      BY <2>1, Powers
  <1>3. Bias(F32) = p - 1 /\ Bias(F64) = q - 1
    BY <1>1 DEF Bias
  <1>4. q > p + FracBits32 /\ p > W(F64) + 1 /\ IntGuard <= ExpBits32 /\ IntGuard <= FracBits32 /\ W(F32) + IntGuard <= FracBits64
    BY <1>1 DEF IntegerWidths
  <1> HIDE DEF p, q
  <1>5. Suits32(F32, W(F32)) /\ Suits32(F64, 0)
    BY <1>1, <1>2, <1>3, <1>4 DEF Suits32, Widest
  <1>6. Suits64(F32, Lead64) /\ Suits64(F64, 0)
    BY <1>1, <1>2, <1>3, <1>4 DEF Suits64, Lead64
  <1>7. ASSUME NEW F \in Formats PROVE SuitsTrunc(F, W(F32)) /\ SuitsTrunc(F, W(F64)) /\ Bias(F) > W(F64)
    BY <1>1, <1>2, <1>3, <1>4 DEF Formats, SuitsTrunc
  <1>8. QED
    BY <1>1, <1>5, <1>6, <1>7

(* The rounding conversions to 32 bits, by their names in the code.        *)
LEMMA RoundedTo32 ==
  ASSUME IntegerWidths, NEW m \in Modes, NEW exact \in BOOLEAN
  PROVE  /\ \A a \in Patterns(F32) :
              /\ f32_to_i32(a, m, exact) = OnRequest(exact, Wanted(F32, TRUE, W(F32), m, a))
              /\ f32_to_ui32(a, m, exact) = OnRequest(exact, Wanted(F32, FALSE, W(F32), m, a))
         /\ \A a \in Patterns(F64) :
              /\ f64_to_i32(a, m, exact) = OnRequest(exact, Wanted(F64, TRUE, W(F32), m, a))
              /\ f64_to_ui32(a, m, exact) = OnRequest(exact, Wanted(F64, FALSE, W(F32), m, a))
  <1>1. F32 \in Formats /\ F64 \in Formats
    BY DEF Formats
  <1>2. Suits32(F32, W(F32)) /\ Suits32(F64, 0)
    BY WidthsSuit
  <1>3. ASSUME NEW a \in Patterns(F32)
        PROVE  /\ f32_to_i32(a, m, exact) = OnRequest(exact, Wanted(F32, TRUE, W(F32), m, a))
               /\ f32_to_ui32(a, m, exact) = OnRequest(exact, Wanted(F32, FALSE, W(F32), m, a))
    BY <1>1, <1>2, Word32, Zenon DEF f32_to_i32, f32_to_ui32
  <1>4. ASSUME NEW a \in Patterns(F64)
        PROVE  /\ f64_to_i32(a, m, exact) = OnRequest(exact, Wanted(F64, TRUE, W(F32), m, a))
               /\ f64_to_ui32(a, m, exact) = OnRequest(exact, Wanted(F64, FALSE, W(F32), m, a))
    BY <1>1, <1>2, Word32, Zenon DEF f64_to_i32, f64_to_ui32
  <1>5. QED
    BY <1>3, <1>4, Zenon

(* The rounding conversions to 64 bits.                                    *)
LEMMA RoundedTo64 ==
  ASSUME IntegerWidths, NEW m \in Modes, NEW exact \in BOOLEAN
  PROVE  /\ \A a \in Patterns(F32) :
              /\ f32_to_i64(a, m, exact) = OnRequest(exact, Wanted(F32, TRUE, W(F64), m, a))
              /\ f32_to_ui64(a, m, exact) = OnRequest(exact, Wanted(F32, FALSE, W(F64), m, a))
         /\ \A a \in Patterns(F64) :
              /\ f64_to_i64(a, m, exact) = OnRequest(exact, Wanted(F64, TRUE, W(F64), m, a))
              /\ f64_to_ui64(a, m, exact) = OnRequest(exact, Wanted(F64, FALSE, W(F64), m, a))
  <1>1. F32 \in Formats /\ F64 \in Formats
    BY DEF Formats
  <1>2. Suits64(F32, Lead64) /\ Suits64(F64, 0)
    BY WidthsSuit
  <1>3. ASSUME NEW a \in Patterns(F32)
        PROVE  /\ f32_to_i64(a, m, exact) = OnRequest(exact, Wanted(F32, TRUE, W(F64), m, a))
               /\ f32_to_ui64(a, m, exact) = OnRequest(exact, Wanted(F32, FALSE, W(F64), m, a))
    BY <1>1, <1>2, Word64, Zenon DEF f32_to_i64, f32_to_ui64
  <1>4. ASSUME NEW a \in Patterns(F64)
        PROVE  /\ f64_to_i64(a, m, exact) = OnRequest(exact, Wanted(F64, TRUE, W(F64), m, a))
               /\ f64_to_ui64(a, m, exact) = OnRequest(exact, Wanted(F64, FALSE, W(F64), m, a))
    BY <1>1, <1>2, Word64, Zenon DEF f64_to_i64, f64_to_ui64
  <1>5. QED
    BY <1>3, <1>4, Zenon

(* The truncating conversions.                                             *)
LEMMA TruncatedTo ==
  ASSUME IntegerWidths, NEW exact \in BOOLEAN
  PROVE  /\ \A a \in Patterns(F32) :
              /\ f32_to_i32_r_minMag(a, exact) = OnRequest(exact, WantedTrunc(F32, TRUE, W(F32), a))
              /\ f32_to_ui32_r_minMag(a, exact) = OnRequest(exact, WantedTrunc(F32, FALSE, W(F32), a))
              /\ f32_to_i64_r_minMag(a, exact) = OnRequest(exact, WantedTrunc(F32, TRUE, W(F64), a))
              /\ f32_to_ui64_r_minMag(a, exact) = OnRequest(exact, WantedTrunc(F32, FALSE, W(F64), a))
         /\ \A a \in Patterns(F64) :
              /\ f64_to_i32_r_minMag(a, exact) = OnRequest(exact, WantedTrunc(F64, TRUE, W(F32), a))
              /\ f64_to_ui32_r_minMag(a, exact) = OnRequest(exact, WantedTrunc(F64, FALSE, W(F32), a))
              /\ f64_to_i64_r_minMag(a, exact) = OnRequest(exact, WantedTrunc(F64, TRUE, W(F64), a))
              /\ f64_to_ui64_r_minMag(a, exact) = OnRequest(exact, WantedTrunc(F64, FALSE, W(F64), a))
  <1>1. F32 \in Formats /\ F64 \in Formats
    BY DEF Formats
  <1>2. /\ \A F \in Formats : SuitsTrunc(F, W(F32)) /\ SuitsTrunc(F, W(F64))
        /\ W(F32) - 1 >= F32.f /\ W(F64) - 1 >= F32.f /\ W(F64) - 1 >= F64.f
    BY WidthsSuit
  <1>3. ASSUME NEW a \in Patterns(F32)
        PROVE  /\ f32_to_i32_r_minMag(a, exact) = OnRequest(exact, WantedTrunc(F32, TRUE, W(F32), a))
               /\ f32_to_ui32_r_minMag(a, exact) = OnRequest(exact, WantedTrunc(F32, FALSE, W(F32), a))
               /\ f32_to_i64_r_minMag(a, exact) = OnRequest(exact, WantedTrunc(F32, TRUE, W(F64), a))
               /\ f32_to_ui64_r_minMag(a, exact) = OnRequest(exact, WantedTrunc(F32, FALSE, W(F64), a))
    <2>1. TruncToI(F32, W(F32), a, exact) = OnRequest(exact, WantedTrunc(F32, TRUE, W(F32), a))
      BY <1>1, <1>2, TruncSigned, Zenon
    <2>2. TruncToI(F32, W(F64), a, exact) = OnRequest(exact, WantedTrunc(F32, TRUE, W(F64), a))
      BY <1>1, <1>2, TruncSigned, Zenon
    <2>3. TruncToUI(F32, W(F32), a, exact) = OnRequest(exact, WantedTrunc(F32, FALSE, W(F32), a))
      BY <1>1, <1>2, TruncUnsigned, Zenon
    <2>4. TruncToUI(F32, W(F64), a, exact) = OnRequest(exact, WantedTrunc(F32, FALSE, W(F64), a))
      BY <1>1, <1>2, TruncUnsigned, Zenon
    <2>5. QED
      BY <2>1, <2>2, <2>3, <2>4, Zenon
         DEF f32_to_i32_r_minMag, f32_to_i64_r_minMag, f32_to_ui32_r_minMag, f32_to_ui64_r_minMag
  <1>4. ASSUME NEW a \in Patterns(F64)
        PROVE  /\ f64_to_i32_r_minMag(a, exact) = OnRequest(exact, WantedTrunc(F64, TRUE, W(F32), a))
               /\ f64_to_ui32_r_minMag(a, exact) = OnRequest(exact, WantedTrunc(F64, FALSE, W(F32), a))
               /\ f64_to_i64_r_minMag(a, exact) = OnRequest(exact, WantedTrunc(F64, TRUE, W(F64), a))
               /\ f64_to_ui64_r_minMag(a, exact) = OnRequest(exact, WantedTrunc(F64, FALSE, W(F64), a))
    <2>1. f64_to_i32_r_minMag(a, exact) = OnRequest(exact, WantedTrunc(F64, TRUE, W(F32), a))
      BY <1>1, <1>2, TruncToWord, Zenon
    <2>2. TruncToI(F64, W(F64), a, exact) = OnRequest(exact, WantedTrunc(F64, TRUE, W(F64), a))
      BY <1>1, <1>2, TruncSigned, Zenon
    <2>3. TruncToUI(F64, W(F32), a, exact) = OnRequest(exact, WantedTrunc(F64, FALSE, W(F32), a))
      BY <1>1, <1>2, TruncUnsigned, Zenon
    <2>4. TruncToUI(F64, W(F64), a, exact) = OnRequest(exact, WantedTrunc(F64, FALSE, W(F64), a))
      BY <1>1, <1>2, TruncUnsigned, Zenon
    <2>5. QED
      BY <2>1, <2>2, <2>3, <2>4, Zenon DEF f64_to_i64_r_minMag, f64_to_ui32_r_minMag, f64_to_ui64_r_minMag
  <1>5. QED
    BY <1>3, <1>4, Zenon

-----------------------------------------------------------------------------
(* Rounding to an integral number, in the pattern itself.                  *)

(* Rounding of a pattern at the place of d.                                *)
DigitsAt(d, t, B, y) ==
  d \in Nat \ {0} /\ t \in Int /\ B \in Int /\ 0 <= t /\ t < d /\ y = t + d * B

(* Clearing the digits below d leaves a multiple of d.                     *)
LEMMA FloorAt ==
  ASSUME NEW d, NEW t, NEW B, NEW y, DigitsAt(d, t, B, y)
  PROVE  y % d = t /\ y - (y % d) = d * B
  <1>0. d \in Nat \ {0} /\ t \in Int /\ B \in Int /\ 0 <= t /\ t < d /\ y = t + d * B
    BY DEF DigitsAt
  <1>1. (t + d * B) % d = t
    BY <1>0, Divides
  <1>2. d * B \in Int
    BY <1>0
  <1>3. QED
    BY <1>0, <1>1, <1>2

(* x is A steps of d = 2 h and r more.                                     *)
AtPlace(d, h, A, r, x) ==
  d \in Nat \ {0} /\ h \in Nat \ {0} /\ d = 2 * h /\ A \in Nat /\ r \in Nat /\ r < d /\ x = r + d * A

(* Adding half a step and clearing: up from half a step on; a tie shows as *)
(* an exact multiple.                                                      *)
LEMMA HalfUp ==
  ASSUME NEW d, NEW h, NEW A, NEW r, NEW x, AtPlace(d, h, A, r, x)
  PROVE  LET y == x + h
         IN  /\ y - (y % d) = d * (A + Bool(2 * r >= d))
             /\ y % d = 0 <=> 2 * r = d
             /\ d \div 2 = h
  <1>1. d \in Nat \ {0} /\ h \in Nat \ {0} /\ d = 2 * h /\ A \in Nat /\ r \in Nat /\ r < d /\ x = r + d * A
    BY DEF AtPlace
  <1> DEFINE t == IF 2 * r >= d THEN r + h - d ELSE r + h
             B == A + Bool(2 * r >= d)
  <1>2. t \in Int /\ 0 <= t /\ t < d /\ B \in Int /\ (t = 0 <=> 2 * r = d)
    BY <1>1 DEF Bool
  <1>3. x + h = t + d * B
    <2>1. d * (A + 1) = d * A + d /\ d * A \in Int /\ d * (A + 0) = d * A
      BY <1>1
    <2>2. CASE 2 * r >= d
      BY <1>1, <2>1, <2>2 DEF Bool
    <2>3. CASE ~(2 * r >= d)
      BY <1>1, <2>1, <2>3 DEF Bool
    <2>4. QED
      BY <2>2, <2>3
  <1> HIDE DEF t, B
  <1>4. (x + h) % d = t /\ (x + h) - ((x + h) % d) = d * B
    <2>1. DigitsAt(d, t, B, x + h)
      BY <1>1, <1>2, <1>3 DEF DigitsAt
    <2>2. QED
      BY <2>1, FloorAt
  <1>5. d \div 2 = h
    BY <1>1
  <1>6. QED
    BY <1>2, <1>4, <1>5 DEF B

(* A tie cleared at two steps goes to the even one.                        *)
LEMMA TieToEven ==
  ASSUME NEW d, NEW h, NEW A, NEW r, NEW x, AtPlace(d, h, A, r, x), 2 * r = d
  PROVE  LET y == x + h
             z == y - (y % (2 * d))
         IN  z - (z % d) = d * (A + Bool(A % 2 = 1))
  <1>1. d \in Nat \ {0} /\ h \in Nat \ {0} /\ d = 2 * h /\ A \in Nat /\ r \in Nat /\ r < d /\ x = r + d * A
    BY DEF AtPlace
  <1> DEFINE y == x + h
             z == y - (y % (2 * d))
             B == A + Bool(A % 2 = 1)
             C == B \div 2
             t == IF A % 2 = 1 THEN 0 ELSE d
  <1>2. B \in Int /\ B = 2 * C /\ C \in Int /\ t \in Int /\ 0 <= t /\ t < 2 * d /\ 2 * d \in Nat \ {0}
    BY <1>1 DEF Bool
  <1>3. y = t + (2 * d) * C
    <2>1. d * (A + 1) = d * A + d /\ d * A \in Int /\ d * (A + 0) = d * A
      BY <1>1
    <2>2. y = d * A + d
      BY <1>1, <2>1
    <2>3. (2 * d) * C = d * B
      <3> HIDE DEF B, C
      <3>1. (2 * d) * C = d * (2 * C)
        BY <1>1, <1>2
      <3>2. QED
        BY <1>2, <3>1
    <2> HIDE DEF y, C
    <2>4. CASE A % 2 = 1
      <3>1. B = A + 1 /\ t = 0
        BY <2>4 DEF Bool
      <3> HIDE DEF B, t
      <3>2. QED
        BY <2>1, <2>2, <2>3, <3>1
    <2>5. CASE ~(A % 2 = 1)
      <3>1. B = A + 0 /\ t = d
        BY <2>5 DEF Bool
      <3> HIDE DEF B, t
      <3>2. QED
        BY <1>1, <2>1, <2>2, <2>3, <3>1
    <2>6. QED
      BY <2>4, <2>5
  <1>4. z = (2 * d) * C
    <2> HIDE DEF t, C, y
    <2>1. DigitsAt(2 * d, t, C, y)
      BY <1>2, <1>3 DEF DigitsAt
    <2>2. y - (y % (2 * d)) = (2 * d) * C
      BY <2>1, FloorAt
    <2>3. QED
      BY <2>2
  <1>5. z = 0 + d * B
    <2> HIDE DEF B, C, z
    <2>1. (2 * d) * C = d * (2 * C) /\ d * B \in Int
      BY <1>1, <1>2
    <2>2. QED
      BY <1>2, <1>4, <2>1
  <1> HIDE DEF z, B
  <1>6. z - (z % d) = d * B
    <2>1. DigitsAt(d, 0, B, z)
      BY <1>1, <1>2, <1>5 DEF DigitsAt
    <2>2. QED
      BY <2>1, FloorAt
  <1>7. QED
    BY <1>6 DEF z, B

(* Adding all but one and clearing: up unless exact.                       *)
LEMMA AllUp ==
  ASSUME NEW d, NEW h, NEW A, NEW r, NEW x, AtPlace(d, h, A, r, x)
  PROVE  LET y == x + (d - 1)
         IN  y - (y % d) = d * (A + Bool(r # 0))
  <1>1. d \in Nat \ {0} /\ h \in Nat \ {0} /\ d = 2 * h /\ A \in Nat /\ r \in Nat /\ r < d /\ x = r + d * A
    BY DEF AtPlace
  <1> DEFINE t == IF r # 0 THEN r - 1 ELSE d - 1
             B == A + Bool(r # 0)
  <1>2. t \in Int /\ 0 <= t /\ t < d /\ B \in Int
    BY <1>1 DEF Bool
  <1>3. x + (d - 1) = t + d * B
    <2>1. d * (A + 1) = d * A + d /\ d * A \in Int /\ d * (A + 0) = d * A
      BY <1>1
    <2>2. CASE r # 0
      BY <1>1, <2>1, <2>2 DEF Bool
    <2>3. CASE r = 0
      BY <1>1, <2>1, <2>3 DEF Bool
    <2>4. QED
      BY <2>2, <2>3
  <1> HIDE DEF t, B
  <1>4. (x + (d - 1)) - ((x + (d - 1)) % d) = d * B
    <2>1. DigitsAt(d, t, B, x + (d - 1))
      BY <1>1, <1>2, <1>3 DEF DigitsAt
    <2>2. QED
      BY <2>1, FloorAt
  <1>5. QED
    BY <1>4 DEF B

(* The routine's arithmetic on the word, as it is written.                 *)
PlaceRounded(m, s, x, d) ==
  LET inc == CASE m \in {"near_even", "near_maxMag"} -> d \div 2
               [] m \in {"min", "max"} /\ Xor(s, Bool(m = "max")) = 1 -> d - 1
               [] OTHER -> 0
      z0 == x + inc
      z1 == IF m = "near_even" /\ z0 % d = 0 THEN z0 - (z0 % (2 * d)) ELSE z0
  IN  z1 - (z1 % d)

(* Rounding at a place is rounding the number of steps.                    *)
LEMMA PlaceRoundedIs ==
  ASSUME NEW d, NEW h, NEW A, NEW r, NEW x, AtPlace(d, h, A, r, x), NEW m \in Modes, NEW s \in {0, 1}
  PROVE  PlaceRounded(m, s, x, d) = d * (A + Bool(RoundsUp(m, s, A, Rest(r, d))))
  <1>1. d \in Nat \ {0} /\ h \in Nat \ {0} /\ d = 2 * h /\ A \in Nat /\ r \in Nat /\ r < d /\ x = r + d * A
    BY DEF AtPlace
  <1> DEFINE y == x + h
             q == Rest(r, d)
             given == PlaceRounded(m, s, x, d)
  <1>2. /\ y - (y % d) = d * (A + Bool(2 * r >= d))
        /\ y % d = 0 <=> 2 * r = d
        /\ d \div 2 = h
    BY HalfUp
  <1>3. /\ q = 0 <=> r = 0
        /\ q = 2 <=> 2 * r = d
        /\ q = 3 <=> 2 * r > d
        /\ q \in 0..3
    BY <1>1 DEF Rest
  <1>4. CASE m = "near_maxMag"
    <2>1. given = y - (y % d)
      BY <1>2, <1>4 DEF PlaceRounded
    <2>2. RoundsUp(m, s, A, q) <=> 2 * r >= d
      BY <1>1, <1>3, <1>4 DEF RoundsUp
    <2> HIDE DEF q, given, y
    <2>3. given = d * (A + Bool(RoundsUp(m, s, A, q)))
      BY <1>2, <2>1, <2>2 DEF Bool
    <2>4. QED
      BY <2>3 DEF given, q
  <1>5. CASE m = "near_even"
    <2>1. given = IF 2 * r = d THEN (y - (y % (2 * d))) - ((y - (y % (2 * d))) % d) ELSE y - (y % d)
      BY <1>2, <1>5 DEF PlaceRounded
    <2>2. RoundsUp(m, s, A, q) <=> 2 * r > d \/ (2 * r = d /\ A % 2 = 1)
      BY <1>1, <1>3, <1>5 DEF RoundsUp
    <2>3. 2 * r = d => (y - (y % (2 * d))) - ((y - (y % (2 * d))) % d) = d * (A + Bool(A % 2 = 1))
      BY TieToEven
    <2> HIDE DEF q, given, y
    <2>4. given = d * (A + Bool(RoundsUp(m, s, A, q)))
      BY <1>1, <1>2, <2>1, <2>2, <2>3 DEF Bool
    <2>5. QED
      BY <2>4 DEF given, q
  <1>6. CASE m \in {"min", "max"} /\ AwayFromZero(m, s)
    <2>1. given = (x + (d - 1)) - ((x + (d - 1)) % d)
      BY <1>6 DEF PlaceRounded, AwayFromZero, Xor, Bool
    <2>2. RoundsUp(m, s, A, q) <=> r # 0
      BY <1>3, <1>6 DEF RoundsUp
    <2>3. (x + (d - 1)) - ((x + (d - 1)) % d) = d * (A + Bool(r # 0))
      BY AllUp
    <2> HIDE DEF q, given
    <2>4. given = d * (A + Bool(RoundsUp(m, s, A, q)))
      BY <2>1, <2>2, <2>3 DEF Bool
    <2>5. QED
      BY <2>4 DEF given, q
  <1>7. CASE m \in {"min", "max", "minMag"} /\ ~AwayFromZero(m, s)
    <2>1. given = (x + 0) - ((x + 0) % d)
      BY <1>7 DEF PlaceRounded, AwayFromZero, Xor, Bool
    <2>2. ~RoundsUp(m, s, A, q)
      BY <1>7 DEF RoundsUp
    <2>3. d * A \in Int /\ x + 0 = r + d * A /\ r \in Int /\ A \in Int /\ 0 <= r
      BY <1>1
    <2>4. (x + 0) - ((x + 0) % d) = d * A
      <3>1. DigitsAt(d, r, A, x + 0)
        BY <1>1, <2>3 DEF DigitsAt
      <3>2. QED
        BY <3>1, FloorAt
    <2> HIDE DEF q, given
    <2>5. given = d * (A + Bool(RoundsUp(m, s, A, q)))
      BY <1>1, <2>1, <2>2, <2>4 DEF Bool
    <2>6. QED
      BY <2>5 DEF given, q
  <1>8. m = "minMag" => ~AwayFromZero(m, s)
    BY DEF AwayFromZero
  <1>9. QED
    BY <1>4, <1>5, <1>6, <1>7, <1>8 DEF Modes

(* Two ways to write an integer are one number.                            *)
LEMMA SameMagnitude ==
  ASSUME NEW u, NEW n, BitsAtMost(u, n), NEW v, NEW p, BitsAtMost(v, p), NEW j \in Nat, v + j <= Widest,
         n = p * 2 ^ j
  PROVE  CompareMag(Num(n, -j), Num(p, 0)) = 0
  <1>1. n \in Nat /\ p \in Nat /\ BitLength(n) \in Nat /\ BitLength(p) \in Nat /\ j \in 0..Widest
    <2>1. v \in 0..Widest /\ n \in Nat /\ p \in Nat /\ Widest \in Nat
      BY FormatWidths DEF BitsAtMost
    <2>2. BitLength(n) \in Nat /\ BitLength(p) \in Nat
      BY LengthBounds
    <2>3. QED
      BY <2>1, <2>2
  <1>2. Abs(n) = n /\ Abs(p) = p
    BY <1>1 DEF Abs
  <1>3. /\ p # 0 => BitLength(n) = BitLength(p) + j /\ n # 0
        /\ p = 0 => n = 0
    BY ScaledLength
  <1>4. CASE p <= 0
    <2>1. n = 0 /\ p = 0
      BY <1>1, <1>3, <1>4
    <2>2. CompareMag(Num(n, -j), Num(p, 0)) = SignOf(n - p)
      BY <1>2, <2>1 DEF CompareMag, Num
    <2>3. QED
      BY <2>1, <2>2 DEF SignOf
  <1>5. CASE p > 0
    <2>1. n # 0 /\ p # 0 /\ BitLength(n) + (-j) = BitLength(p) + 0
      BY <1>1, <1>3, <1>5
    <2>2. TopOf(Num(n, -j)) = TopOf(Num(p, 0))
      BY <1>2, <2>1 DEF TopOf, Num
    <2> DEFINE k == IF -j < 0 THEN -j ELSE 0
    <2>3. k = -j /\ -j - k = 0 /\ 0 - k = j
      BY <1>1
    <2>4. CompareMag(Num(n, -j), Num(p, 0)) = SignOf(n * 2 ^ (-j - k) - p * 2 ^ (0 - k))
      BY <1>2, <2>1, <2>2 DEF CompareMag, Num
    <2> HIDE DEF k
    <2>5. 2 ^ 0 = 1 /\ n * 1 = n
      BY <1>1, Powers
    <2>6. n * 2 ^ (-j - k) = n /\ p * 2 ^ (0 - k) = n
      BY <2>3, <2>5
    <2>7. CompareMag(Num(n, -j), Num(p, 0)) = SignOf(n - n)
      BY <2>4, <2>6
    <2>8. QED
      BY <1>1, <2>7 DEF SignOf
  <1>6. QED
    BY <1>1, <1>4, <1>5

(* Equal magnitudes with one sign are one number.                          *)
LEMMA SameNumber ==
  ASSUME NEW n \in Nat, NEW p \in Nat, NEW k \in Int, n = 0 <=> p = 0, NEW s \in {0, 1},
         CompareMag(Num(n, k), Num(p, 0)) = 0
  PROVE  Cmp(Num(WithSign(s, n), k), Num(WithSign(s, p), 0)) = 0
  <1> DEFINE x == Num(WithSign(s, n), k)
             y == Num(WithSign(s, p), 0)
  <1>1. /\ Abs(WithSign(s, n)) = n /\ Abs(WithSign(s, p)) = p /\ Abs(n) = n /\ Abs(p) = p
        /\ WithSign(s, n) \in Int /\ WithSign(s, p) \in Int
        /\ WithSign(s, n) = 0 <=> n = 0
        /\ WithSign(s, p) = 0 <=> p = 0
        /\ SignOf(WithSign(s, n)) = SignOf(WithSign(s, p)) /\ SignOf(WithSign(s, n)) \in Int
    BY DEF Abs, WithSign, SignOf
  <1>2. x.n = WithSign(s, n) /\ x.k = k /\ y.n = WithSign(s, p) /\ y.k = 0
    BY DEF Num
  <1>3. Num(n, k).n = n /\ Num(n, k).k = k /\ Num(p, 0).n = p /\ Num(p, 0).k = 0
    BY DEF Num
  <1> HIDE DEF x, y
  <1>4. TopOf(x) = TopOf(Num(n, k)) /\ TopOf(y) = TopOf(Num(p, 0))
    BY <1>1, <1>2, <1>3 DEF TopOf
  <1>5. CompareMag(x, y) = CompareMag(Num(n, k), Num(p, 0))
    BY <1>1, <1>2, <1>3, <1>4 DEF CompareMag
  <1>6. Cmp(x, y) = SignOf(x.n) * CompareMag(x, y)
    BY <1>1, <1>2 DEF Cmp
  <1>7. Cmp(x, y) = 0
    BY <1>1, <1>2, <1>5, <1>6
  <1>8. QED
    BY <1>7 DEF x, y

(* The fields above those that are rounded do not change the parity of the *)
(* last place kept.                                                        *)
LEMMA PatternBase ==
  ASSUME NEW F \in Formats, NEW s \in {0, 1}, NEW e \in Nat, Bias(F) <= e, e < Bias(F) + F.f
  PROVE  \E D \in Nat : s * TopBit(F) + (e - 1) * Hidden(F) = 2 ^ (Bias(F) + F.f - e) * (2 * D)
  <1> DEFINE h == Hidden(F)
             g == e - Bias(F)
             j == Bias(F) + F.f - e
             d == 2 ^ j
             v == s * (2 * Bias(F) + 2) + (e - 1)
             hb == 2 ^ (F.e - 2)
  <1>1. /\ Bias(F) \in Nat /\ Bias(F) >= 7 /\ h \in Nat /\ h >= 4 /\ F.f \in Nat /\ F.e \in Nat /\ F.e >= 4
        /\ TopBit(F) = (ExpMax(F) + 1) * h /\ ExpMax(F) = 2 * Bias(F) + 1
        /\ Widest \in Nat /\ F.e <= Widest /\ F.f <= Widest
    BY FieldPlaces, FormatWidths DEF Widest, Formats
  <1>2. hb \in Nat \ {0} /\ Bias(F) = 2 * hb - 1
    <2>1. F.e - 1 \in 0..Widest /\ F.e - 2 \in 0..Widest /\ F.e - 1 # 0 /\ (F.e - 1) - 1 = F.e - 2
      BY <1>1
    <2>2. 2 ^ (F.e - 1) = 2 * hb
      BY <2>1, PowerStep
    <2>3. QED
      BY <2>1, <2>2, Powers DEF Bias
  <1>3. s * TopBit(F) + (e - 1) * h = v * h /\ v \in Nat
    <2>1. (2 * Bias(F) + 1) + 1 = 2 * Bias(F) + 2 /\ s * ((2 * Bias(F) + 2) * h) = (s * (2 * Bias(F) + 2)) * h
      BY <1>1
    <2>2. (s * (2 * Bias(F) + 2) + (e - 1)) * h = (s * (2 * Bias(F) + 2)) * h + (e - 1) * h
      BY <1>1
    <2>3. v \in Nat
      BY <1>1
    <2>4. QED
      BY <1>1, <2>1, <2>2, <2>3
  <1>4. CASE e = Bias(F)
    <2> DEFINE D == s * (Bias(F) + 1) + (hb - 1)
    <2>1. j = F.f /\ d = h
      BY <1>1, <1>4 DEF Hidden
    <2>2. D \in Nat /\ v = 2 * D
      BY <1>1, <1>2, <1>4
    <2> HIDE DEF D, v, h, d
    <2>3. v * h = h * (2 * D)
      BY <1>1, <2>2
    <2>4. s * TopBit(F) + (e - 1) * h = d * (2 * D)
      BY <1>3, <2>1, <2>3
    <2>5. QED
      BY <2>2, <2>4 DEF d, h
  <1>5. CASE e # Bias(F)
    <2> DEFINE r == 2 ^ (g - 1)
               D == r * v
    <2>1. g \in Nat /\ g >= 1 /\ g \in 0..Widest /\ g - 1 \in 0..Widest /\ j \in Nat /\ j + g = F.f /\ j \in 0..Widest
      BY <1>1, <1>5
    <2>2. 2 ^ g = 2 * r /\ r \in Nat /\ d \in Nat
      BY <2>1, PowerStep, Powers
    <2>3. h = d * (2 * r)
      <3>1. 2 ^ (j + g) = 2 ^ j * 2 ^ g
        BY <1>1, <2>1, PowerSum
      <3>2. QED
        BY <2>1, <2>2, <3>1 DEF Hidden
    <2> HIDE DEF v, h, d, r
    <2>4. v * (d * (2 * r)) = d * (2 * (r * v)) /\ D \in Nat
      BY <1>3, <2>2
    <2>5. s * TopBit(F) + (e - 1) * h = d * (2 * D)
      BY <1>3, <2>3, <2>4
    <2>6. QED
      BY <2>4, <2>5 DEF d, h
  <1>6. QED
    BY <1>4, <1>5

(* A pattern that stands for an integer.                                   *)
StandsAt(F, s, e, mag, z) ==
  /\ s \in {0, 1} /\ e \in Nat /\ Bias(F) <= e /\ e <= Bias(F) + F.f /\ e <= ExpMax(F)
  /\ mag \in Nat /\ 2 ^ (e - Bias(F)) <= mag /\ mag < 2 ^ (e - Bias(F) + 1)
  /\ z = s * TopBit(F) + (e - 1) * Hidden(F) + 2 ^ (Bias(F) + F.f - e) * mag

(* Such a pattern, the carry into the exponent included, is the integer.   *)
LEMMA IntegralPattern ==
  ASSUME NEW F \in Formats, NEW s, NEW e, NEW mag, NEW z, StandsAt(F, s, e, mag, z)
  PROVE  /\ z \in Patterns(F) /\ Sign(F, z) = s
         /\ Cmp(Number(F, z), Num(WithSign(s, mag), 0)) = 0
  <1> DEFINE h == Hidden(F)
             g == e - Bias(F)
             j == Bias(F) + F.f - e
             d == 2 ^ j
             p == 2 ^ g
             n == d * mag
             fr == n - h
  <1>0. /\ s \in {0, 1} /\ e \in Nat /\ Bias(F) <= e /\ e <= Bias(F) + F.f /\ e <= ExpMax(F)
        /\ mag \in Nat /\ p <= mag /\ mag < 2 ^ (g + 1)
    BY DEF StandsAt
  <1>1. /\ Bias(F) \in Nat /\ Bias(F) >= 7 /\ h \in Nat /\ h >= 4 /\ F.f \in Nat /\ F.f + 2 <= Widest /\ Widest \in Nat
        /\ ExpMax(F) = 2 * Bias(F) + 1
    BY FieldPlaces, FormatWidths DEF Widest, Formats
  <1>2. /\ g \in Nat /\ j \in Nat /\ j + g = F.f /\ g \in 0..Widest /\ j \in 0..Widest /\ g + 1 \in 0..Widest
        /\ (g + 1) - 1 = g /\ g + 1 # 0
    BY <1>0, <1>1
  <1>3. h = d * p /\ d \in Nat \ {0} /\ p \in Nat \ {0} /\ 2 ^ (g + 1) = 2 * p
    <2>1. 2 ^ (j + g) = 2 ^ j * 2 ^ g
      BY <1>1, <1>2, PowerSum
    <2>2. QED
      BY <1>2, <2>1, Powers, PowerStep DEF Hidden
  <1>4. mag < 2 * p /\ p <= mag /\ mag \in Nat
    BY <1>0, <1>3
  <1>5. n \in Nat /\ h <= n /\ n < 2 * h
    <2> HIDE DEF h, d, p
    <2>1. d * p <= d * mag /\ d * mag \in Nat
      BY <1>3, <1>4
    <2>2. d * (mag + 1) <= d * (2 * p)
      BY <1>3, <1>4
    <2>3. d * (mag + 1) = d * mag + d /\ d * (2 * p) = 2 * (d * p)
      BY <1>3, <1>4
    <2>4. QED
      BY <1>3, <2>1, <2>2, <2>3
  <1>6. fr \in 0..(h - 1) /\ e \in 0..ExpMax(F) /\ (e - 1) * h + n = e * h + fr
    <2> HIDE DEF n, h
    <2>1. (e - 1) * h = e * h - h /\ e * h \in Int
      BY <1>0, <1>1
    <2>2. QED
      BY <1>0, <1>1, <1>5, <2>1
  <1>7. z = Pack(F, s, e, fr) /\ Sign(F, Pack(F, s, e, fr)) = s /\ Exp(F, Pack(F, s, e, fr)) = e
        /\ Frac(F, Pack(F, s, e, fr)) = fr /\ Pack(F, s, e, fr) \in Patterns(F)
    <2>1. /\ Pack(F, s, e, fr) = s * TopBit(F) + e * h + fr /\ Pack(F, s, e, fr) \in Patterns(F)
          /\ Sign(F, Pack(F, s, e, fr)) = s /\ Exp(F, Pack(F, s, e, fr)) = e /\ Frac(F, Pack(F, s, e, fr)) = fr
      <3> HIDE DEF fr
      <3>1. QED
        BY <1>0, <1>6, Packed
    <2>2. TopBit(F) \in Nat /\ s * TopBit(F) \in Nat /\ (e - 1) * h \in Int /\ e * h \in Int
      BY <1>0, <1>1, FieldPlaces
    <2>3. z = s * TopBit(F) + (e - 1) * h + n
      BY DEF StandsAt
    <2> HIDE DEF n, h
    <2>4. z = s * TopBit(F) + e * h + fr
      BY <1>1, <1>5, <1>6, <2>2, <2>3
    <2>5. QED
      BY <2>1, <2>4
  <1>8. /\ SigOf(F, z) = n /\ Scale(F, z) = -j /\ Exp(F, z) # 0
    BY <1>0, <1>1, <1>5, <1>7 DEF SigOf, Scale
  <1>9. Number(F, z) = Num(WithSign(s, n), -j) /\ BitsAtMost(F.f + 1, n)
    BY <1>7, <1>8, OperandParts DEF IsSigned
  <1>10. BitsAtMost(g + 1, mag)
    BY <1>0, <1>2 DEF BitsAtMost
  <1>11. n = mag * 2 ^ j
    BY <1>0, <1>3
  <1>12. n = 0 <=> mag = 0
    BY <1>1, <1>3, <1>4, <1>5
  <1> HIDE DEF n, g, j
  <1>13. CompareMag(Num(n, -j), Num(mag, 0)) = 0
    BY <1>1, <1>2, <1>9, <1>10, <1>11, SameMagnitude
  <1>14. Cmp(Num(WithSign(s, n), -j), Num(WithSign(s, mag), 0)) = 0
    BY <1>0, <1>2, <1>5, <1>12, <1>13, SameNumber
  <1>15. QED
    BY <1>7, <1>9, <1>14

(* Rounding in the pattern, where the number has both whole bits and a     *)
(* fraction: the carry out of the fraction makes the exponent right.       *)
LEMMA RoundedInPattern ==
  ASSUME NEW F \in Formats, NEW a \in Patterns(F), Bias(F) > F.f, NEW m \in Modes,
         Bias(F) <= Exp(F, a), Exp(F, a) < Bias(F) + F.f
  PROVE  LET s == Sign(F, a)
             e == Exp(F, a)
             n == SigOf(F, a)
             z == PlaceRounded(m, s, a, 2 ^ (Bias(F) + F.f - e))
         IN  /\ z \in Patterns(F) /\ Sign(F, z) = s
             /\ Cmp(Number(F, z), Num(WithSign(s, RoundedMag(m, s, n, Scale(F, a))), 0)) = 0
             /\ z # a <=> Part(n, Scale(F, a)) # 0
  <1> DEFINE s == Sign(F, a)
             e == Exp(F, a)
             n == SigOf(F, a)
             h == Hidden(F)
             g == e - Bias(F)
             j == Bias(F) + F.f - e
             d == 2 ^ j
             hd == 2 ^ (j - 1)
             p == 2 ^ g
             i == n \div d
             r == n % d
             base == s * TopBit(F) + (e - 1) * h
             z == PlaceRounded(m, s, a, d)
             q == Rest(r, d)
             mag == i + Bool(RoundsUp(m, s, i, q))
  <1>1. /\ Bias(F) \in Nat /\ Bias(F) >= 7 /\ h \in Nat /\ h >= 4 /\ F.f \in Nat /\ F.f + 2 <= Widest /\ Widest \in Nat
        /\ ExpMax(F) = 2 * Bias(F) + 1 /\ TopBit(F) \in Nat
    BY FieldPlaces, FormatWidths DEF Widest, Formats
  <1>2. /\ s \in {0, 1} /\ e \in Nat /\ e # 0 /\ a = s * TopBit(F) + e * h + Frac(F, a) /\ Frac(F, a) \in 0..(h - 1)
        /\ n = Frac(F, a) + h /\ n \in Nat /\ BitsAtMost(F.f + 1, n) /\ Scale(F, a) = -j
    BY <1>1, Unpacked, OperandParts DEF Scale
  <1>3. /\ g \in Nat /\ j \in Nat /\ j >= 1 /\ j + g = F.f /\ g \in 0..Widest /\ j \in 0..Widest /\ j - 1 \in 0..Widest
        /\ g + 1 \in 0..Widest /\ (g + 1) - 1 = g
    BY <1>1, <1>2
  <1>4. h = d * p /\ d \in Nat \ {0} /\ p \in Nat \ {0} /\ 2 ^ (g + 1) = 2 * p /\ d = 2 * hd /\ hd \in Nat \ {0}
    <2>1. 2 ^ (j + g) = 2 ^ j * 2 ^ g
      BY <1>1, <1>3, PowerSum
    <2>2. QED
      BY <1>3, <2>1, Powers, PowerStep DEF Hidden
  <1>5. a = base + n
    <2>1. (e - 1) * h = e * h - h /\ e * h \in Int /\ s * TopBit(F) \in Int
      BY <1>1, <1>2
    <2> HIDE DEF h, e, s
    <2>2. QED
      BY <1>1, <1>2, <2>1
  <1>6. n = r + d * i /\ r \in Nat /\ r < d /\ i \in Int
    <2> HIDE DEF n, d
    <2>1. n \in Int /\ d \in Nat \ {0}
      BY <1>2, <1>4
    <2>2. QED
      BY <2>1, Division
  <1>7. p <= i /\ i < 2 * p /\ i \in Nat
    <2>1. h <= n /\ n < 2 * h
      BY <1>1, <1>2
    <2> HIDE DEF h, d, p, n, i, r
    <2>2. i + 1 <= p => d * (i + 1) <= d * p
      BY <1>4, <1>6
    <2>3. i >= 2 * p => d * i >= d * (2 * p)
      <3> DEFINE t == 2 * p
      <3>1. t \in Nat
        BY <1>4
      <3> HIDE DEF t
      <3>2. i >= t => d * i >= d * t
        BY <1>4, <1>6, <3>1
      <3>3. QED
        BY <3>2 DEF t
    <2>4. d * (i + 1) = d * i + d /\ d * i \in Int
      BY <1>4, <1>6
    <2>5. d * (2 * p) = 2 * (d * p) /\ d * p \in Int
      BY <1>4
    <2>6. ~(i + 1 <= p)
      BY <1>4, <1>6, <2>1, <2>2, <2>4, <2>5
    <2>7. ~(i >= 2 * p)
      BY <1>4, <1>6, <2>1, <2>3, <2>4, <2>5
    <2>8. QED
      BY <1>4, <1>6, <2>6, <2>7
  <1>8. PICK D \in Nat : base = d * (2 * D)
    BY <1>2, PatternBase
  <1> DEFINE A == 2 * D + i
  <1>9. A \in Nat /\ (A % 2 = 1 <=> i % 2 = 1) /\ AtPlace(d, hd, A, r, a)
    <2>1. d * A = d * (2 * D) + d * i
      <3> HIDE DEF i, d
      <3>1. QED
        BY <1>4, <1>7
    <2> HIDE DEF i, r, d, hd, n, base
    <2>2. a = r + d * A
      <3>1. d * (2 * D) \in Int /\ d * i \in Int /\ d * A \in Int
        BY <1>4, <1>7
      <3> HIDE DEF A
      <3>2. QED
        BY <1>5, <1>6, <1>8, <2>1, <3>1
    <2>3. QED
      BY <1>4, <1>6, <1>7, <2>2 DEF AtPlace
  <1>10. z = d * (A + Bool(RoundsUp(m, s, A, q)))
    BY <1>2, <1>9, PlaceRoundedIs
  <1>11. RoundsUp(m, s, A, q) <=> RoundsUp(m, s, i, q)
    BY <1>9 DEF RoundsUp
  <1>12. mag \in Nat /\ i <= mag /\ mag <= i + 1 /\ z = base + d * mag
    <2> DEFINE o == Bool(RoundsUp(m, s, i, q))
    <2>1. o \in {0, 1}
      BY DEF Bool
    <2>2. Bool(RoundsUp(m, s, A, q)) = o
      BY <1>11 DEF Bool
    <2> HIDE DEF o, i, d, z, base
    <2>3. z = d * ((2 * D + i) + o)
      BY <1>10, <2>2
    <2>4. d * ((2 * D + i) + o) = d * (2 * D) + d * (i + o)
      BY <1>4, <1>7, <2>1
    <2>5. mag = i + o
      BY DEF o
    <2>6. QED
      BY <1>7, <1>8, <2>1, <2>3, <2>4, <2>5
  <1>13. Whole(n, -j) = i /\ Part(n, -j) = q
    BY <1>2, <1>3, PartsByDivision
  <1>14. RoundedMag(m, s, n, Scale(F, a)) = mag /\ Part(n, Scale(F, a)) = q
    BY <1>2, <1>13 DEF RoundedMag
  <1>15. z # a <=> q # 0
    <2>1. q = 0 <=> r = 0
      BY <1>4, <1>6 DEF Rest
    <2>2. r = 0 => mag = i
      <3>1. q = 0 => ~RoundsUp(m, s, i, q)
        BY DEF RoundsUp
      <3> HIDE DEF q, i
      <3>2. QED
        BY <1>7, <2>1, <3>1 DEF Bool
    <2> HIDE DEF q, mag, i, r, d, z, base, n
    <2>3. mag = i \/ mag = i + 1
      BY <1>7, <1>12
    <2>4. d * (i + 1) = d * i + d /\ d * i \in Int /\ d * mag \in Int /\ base \in Int
      BY <1>4, <1>7, <1>8, <1>12
    <2>5. CASE mag = i
      BY <1>4, <1>5, <1>6, <1>12, <2>1, <2>2, <2>4, <2>5
    <2>6. CASE mag = i + 1
      BY <1>4, <1>5, <1>6, <1>7, <1>12, <2>1, <2>2, <2>4, <2>6
    <2>7. QED
      BY <2>3, <2>5, <2>6
  <1>16. /\ z \in Patterns(F) /\ Sign(F, z) = s
         /\ Cmp(Number(F, z), Num(WithSign(s, mag), 0)) = 0
    <2>1. CASE mag < 2 * p
      <3>1. 2 ^ (e - Bias(F)) <= mag /\ mag < 2 ^ (e - Bias(F) + 1) /\ e <= Bias(F) + F.f /\ e <= ExpMax(F)
        BY <1>1, <1>2, <1>4, <1>7, <1>12, <2>1
      <3>2. z = s * TopBit(F) + (e - 1) * Hidden(F) + 2 ^ (Bias(F) + F.f - e) * mag
        BY <1>12
      <3>3. StandsAt(F, s, e, mag, z)
        BY <1>1, <1>2, <1>12, <3>1, <3>2 DEF StandsAt
      <3>4. QED
        BY <3>3, IntegralPattern
    <2>2. CASE mag = 2 * p
      <3> DEFINE x == e + 1
      <3>1. x \in Nat /\ Bias(F) <= x /\ x <= Bias(F) + F.f /\ x <= ExpMax(F) /\ x - Bias(F) = g + 1
            /\ Bias(F) + F.f - x = j - 1 /\ x - 1 = e /\ g + 2 \in 0..Widest /\ g + 2 # 0 /\ (g + 2) - 1 = g + 1
            /\ x - Bias(F) + 1 = g + 2
        BY <1>1, <1>2, <1>3
      <3>2. 2 ^ (g + 2) = 2 * 2 ^ (g + 1)
        BY <3>1, PowerStep
      <3>3. 2 ^ (x - Bias(F)) <= mag /\ mag < 2 ^ (x - Bias(F) + 1)
        BY <1>4, <2>2, <3>1, <3>2
      <3>4. z = s * TopBit(F) + (x - 1) * Hidden(F) + 2 ^ (Bias(F) + F.f - x) * mag
        <4>1. d * mag = h + hd * mag
          <5> HIDE DEF d, hd, p, h, mag
          <5>1. d * mag = 2 * (d * p) /\ hd * mag = (2 * hd) * p
            BY <1>4, <2>2
          <5>2. QED
            BY <1>4, <5>1
        <4>2. (e - 1) * h = e * h - h /\ e * h \in Int /\ s * TopBit(F) \in Int /\ hd * mag \in Int
          BY <1>1, <1>2, <1>4, <1>12
        <4>3. z = s * TopBit(F) + (e - 1) * h + d * mag
          BY <1>12
        <4> HIDE DEF d, hd, h, mag, z, e, s
        <4>4. z = s * TopBit(F) + e * h + hd * mag
          BY <1>1, <4>1, <4>2, <4>3
        <4>5. QED
          BY <3>1, <4>4 DEF h, hd
      <3> HIDE DEF x, e, s, mag, z
      <3>5. StandsAt(F, s, x, mag, z)
        BY <1>2, <1>12, <3>1, <3>3, <3>4 DEF StandsAt
      <3>6. QED
        BY <3>5, IntegralPattern
    <2>3. mag < 2 * p \/ mag = 2 * p
      <3> HIDE DEF p, mag, i
      <3>1. QED
        BY <1>4, <1>7, <1>12
    <2>4. QED
      BY <2>1, <2>2, <2>3
  <1>17. QED
    BY <1>14, <1>15, <1>16

(* A zero of either sign is the number zero.                               *)
LEMMA ZeroNumber ==
  ASSUME NEW F \in Formats, NEW z \in Patterns(F), IsZero(F, z)
  PROVE  Cmp(Number(F, z), Num(WithSign(Sign(F, z), 0), 0)) = 0
  <1> DEFINE x == Number(F, z)
             s == Sign(F, z)
  <1>1. x = Num(WithSign(s, 0), x.k) /\ s \in {0, 1} /\ x.k \in Int
    <2>1. IsSigned(x, s, SigOf(F, z), x.k) /\ SigOf(F, z) = 0
      BY OperandParts
    <2>2. QED
      BY <2>1 DEF IsSigned
  <1> HIDE DEF x, s
  <1>2. CompareMag(Num(0, x.k), Num(0, 0)) = 0
    BY DEF CompareMag, Num, Abs, SignOf
  <1>3. Cmp(Num(WithSign(s, 0), x.k), Num(WithSign(s, 0), 0)) = 0
    BY <1>1, <1>2, SameNumber
  <1>4. QED
    BY <1>1, <1>3 DEF x, s

(* The reference's rounding of a number that has a fraction in its format. *)
LEMMA IntegralReference ==
  ASSUME NEW F \in Formats, NEW a \in Patterns(F), NEW m \in Modes, Exp(F, a) < Bias(F) + F.f
  PROVE  LET x == Number(F, a)
             n == SigOf(F, a)
             s == Sign(F, a)
             r == Rounded(m, Manageable(W(F), x))
         IN  /\ r.z = WithSign(s, RoundedMag(m, s, n, x.k))
             /\ r.exact \in BOOLEAN /\ (r.exact <=> Part(n, x.k) = 0)
             /\ BitsAtMost(F.f + 1, n) /\ n \in Nat /\ x.k \in Int /\ s \in {0, 1}
             /\ n = 0 <=> IsZero(F, a)
             /\ Exp(F, a) # 0 => x.k = Scale(F, a) /\ BitLength(n) + x.k = Exp(F, a) - Bias(F) + 1
             /\ Exp(F, a) = 0 => BitLength(n) + x.k < 0
  <1> DEFINE x == Number(F, a)
             n == SigOf(F, a)
             s == Sign(F, a)
             r == Rounded(m, Manageable(W(F), x))
  <1>1. /\ BitsAtMost(F.f + 1, n) /\ F.f + 1 < Widest /\ n \in Nat /\ BitLength(n) \in Nat
        /\ n = 0 <=> IsZero(F, a)
        /\ IsSigned(x, s, n, x.k) /\ x.k \in Int /\ s \in {0, 1}
        /\ Exp(F, a) # 0 => x.k = Scale(F, a) /\ BitLength(n) + x.k = Exp(F, a) - Bias(F) + 1
        /\ Exp(F, a) = 0 => BitLength(n) + x.k < 0
    BY OperandParts DEF IsSigned
  <1>2. W(F) \in 2..W(F64) /\ W(F) = 1 + F.e + F.f /\ F.e \in Nat /\ F.f \in Nat /\ Bias(F) \in Nat /\ Exp(F, a) \in Nat
        /\ W(F) \in Nat
    BY FormatWidths, FieldPlaces, Unpacked DEF Formats
  <1>3. BitLength(n) + x.k <= W(F) + 2
    BY <1>1, <1>2
  <1> HIDE DEF x, n, s
  <1>4. /\ r.z = WithSign(s, RoundedMag(m, s, n, x.k))
        /\ r.exact <=> Part(n, x.k) = 0
        /\ r.exact \in BOOLEAN
    BY <1>1, <1>2, <1>3, RoundedIs
  <1>5. QED
    BY <1>1, <1>4 DEF x, n, s

(* A number less than one in magnitude rounds to zero or to one.           *)
LEMMA BelowOne ==
  ASSUME NEW F \in Formats, NEW a \in Patterns(F), NEW m \in Modes, Exp(F, a) < Bias(F), ~IsZero(F, a)
  PROVE  LET n == SigOf(F, a)
             k == Number(F, a).k
             s == Sign(F, a)
             e == Exp(F, a)
             up == CASE m = "near_even" -> e = Bias(F) - 1 /\ Frac(F, a) # 0
                     [] m = "near_maxMag" -> e = Bias(F) - 1
                     [] m = "min" -> s = 1
                     [] m = "max" -> s = 0
                     [] OTHER -> FALSE
         IN  Part(n, k) # 0 /\ RoundedMag(m, s, n, k) = Bool(up)
  <1> DEFINE n == SigOf(F, a)
             k == Number(F, a).k
             s == Sign(F, a)
             e == Exp(F, a)
             q == Part(n, k)
             h == Hidden(F)
  <1>1. /\ BitsAtMost(F.f + 1, n) /\ n \in Nat /\ k \in Int /\ s \in {0, 1} /\ n # 0 /\ BitLength(n) \in Nat
        /\ e # 0 => k = Scale(F, a) /\ BitLength(n) + k = e - Bias(F) + 1
        /\ e = 0 => BitLength(n) + k < 0
    <2>1. /\ BitsAtMost(F.f + 1, n) /\ n \in Nat /\ BitLength(n) \in Nat
          /\ n = 0 <=> IsZero(F, a)
          /\ IsSigned(Number(F, a), s, n, k)
          /\ e # 0 => k = Scale(F, a) /\ BitLength(n) + k = e - Bias(F) + 1
          /\ e = 0 => BitLength(n) + k < 0
      BY OperandParts
    <2>2. k \in Int /\ s \in {0, 1}
      BY <2>1 DEF IsSigned
    <2>3. QED
      BY <2>1, <2>2
  <1>2. /\ e \in Nat /\ Bias(F) \in Nat /\ Bias(F) >= 7 /\ h \in Nat /\ h >= 4 /\ F.f \in Nat /\ F.f + 2 <= Widest /\ Widest \in Nat
        /\ Frac(F, a) \in 0..(h - 1)
    BY FormatWidths, FieldPlaces, Unpacked DEF Formats, Widest
  <1>3. BitLength(n) + k \in Int /\ BitLength(n) + k <= 0 /\ BitLength(n) + k <= Widest
    BY <1>1, <1>2
  <1>4. Whole(n, k) = 0 /\ q # 0 /\ q \in 0..3
    <2> HIDE DEF n, k
    <2>1. QED
      BY <1>1, <1>3, WholeBounds
  <1>5. e # Bias(F) - 1 => q = 1
    <2>1. SUFFICES ASSUME e # Bias(F) - 1 PROVE q = 1
      OBVIOUS
    <2>2. BitLength(n) + k < 0 /\ k < 0
      BY <1>1, <1>2, <2>1
    <2> HIDE DEF n, k
    <2>3. Tiny(n, k)
      BY <2>2 DEF Tiny
    <2>4. QED
      BY <1>1, <2>2, <2>3 DEF Part, Bool
  <1>6. e = Bias(F) - 1 => q = IF Frac(F, a) = 0 THEN 2 ELSE 3
    <2>1. SUFFICES ASSUME e = Bias(F) - 1 PROVE q = IF Frac(F, a) = 0 THEN 2 ELSE 3
      OBVIOUS
    <2> DEFINE j == F.f + 1
               d == 2 ^ j
    <2>2. e # 0 /\ k = -j /\ n = Frac(F, a) + h /\ j \in 0..Widest /\ j # 0 /\ j - 1 = F.f
      BY <1>1, <1>2, <2>1 DEF Scale, SigOf
    <2>3. d = 2 * h
      BY <1>2, <2>2, PowerStep DEF Hidden
    <2>4. Part(n, -j) = Rest(n % d, d)
      <3> HIDE DEF n
      <3>1. QED
        BY <1>1, <2>2, PartsByDivision
    <2>5. n % d = n
      <3>1. n \in Nat /\ d \in Nat \ {0} /\ n < d
        BY <1>2, <2>2, <2>3
      <3> HIDE DEF n, d
      <3>2. QED
        BY <3>1, BelowDivisor
    <2>6. q = Rest(n, d)
      <3> HIDE DEF n, d
      <3>1. QED
        BY <2>2, <2>4, <2>5
    <2> HIDE DEF q, d, n
    <2>7. Rest(n, d) = IF Frac(F, a) = 0 THEN 2 ELSE 3
      BY <1>2, <2>2, <2>3 DEF Rest
    <2>8. QED
      BY <2>6, <2>7
  <1> DEFINE up == CASE m = "near_even" -> e = Bias(F) - 1 /\ Frac(F, a) # 0
                     [] m = "near_maxMag" -> e = Bias(F) - 1
                     [] m = "min" -> s = 1
                     [] m = "max" -> s = 0
                     [] OTHER -> FALSE
  <1>7. RoundsUp(m, s, 0, q) <=> up
    <2> HIDE DEF q, e, s
    <2>1. q = 3 <=> e = Bias(F) - 1 /\ Frac(F, a) # 0
      BY <1>5, <1>6
    <2>2. q \in {2, 3} <=> e = Bias(F) - 1
      BY <1>5, <1>6
    <2>3. QED
      BY <1>1, <1>4, <2>1, <2>2 DEF RoundsUp, AwayFromZero, Modes
  <1> HIDE DEF up, n, k, s
  <1>8. RoundedMag(m, s, n, k) = 0 + Bool(RoundsUp(m, s, 0, q))
    BY <1>4 DEF RoundedMag
  <1>9. RoundedMag(m, s, n, k) = Bool(up)
    BY <1>7, <1>8 DEF Bool
  <1>10. QED
    BY <1>4, <1>9 DEF up, n, k, s

(* Rounding to an integral number, as the property wants it of v.          *)
IntegralWanted(F, m, exact, a, v) ==
  LET x == Number(F, a)
      r == Rounded(m, Manageable(W(F), x))
  IN  /\ Sign(F, v.v) = Sign(F, a)
      /\ Cmp(Number(F, v.v), Num(r.z, 0)) = 0
      /\ v.fl = IF exact /\ ~r.exact THEN {"inexact"} ELSE {}

(* The property, from the parts of the operand.                            *)
LEMMA WantedByParts ==
  ASSUME NEW F \in Formats, NEW a \in Patterns(F), NEW m \in Modes, Exp(F, a) < Bias(F) + F.f,
         NEW exact \in BOOLEAN, NEW z, NEW fl,
         Sign(F, z) = Sign(F, a),
         Cmp(Number(F, z), Num(WithSign(Sign(F, a), RoundedMag(m, Sign(F, a), SigOf(F, a), Number(F, a).k)), 0)) = 0,
         fl = IF exact /\ Part(SigOf(F, a), Number(F, a).k) # 0 THEN {"inexact"} ELSE {}
  PROVE  IntegralWanted(F, m, exact, a, Ret(z, fl))
  <1> DEFINE x == Number(F, a)
             r == Rounded(m, Manageable(W(F), x))
  <1>1. /\ r.z = WithSign(Sign(F, a), RoundedMag(m, Sign(F, a), SigOf(F, a), x.k))
        /\ r.exact \in BOOLEAN /\ (r.exact <=> Part(SigOf(F, a), x.k) = 0)
    BY IntegralReference
  <1>2. Ret(z, fl).v = z /\ Ret(z, fl).fl = fl
    BY DEF Ret
  <1> HIDE DEF r
  <1>3. Sign(F, z) = Sign(F, a) /\ Cmp(Number(F, z), Num(r.z, 0)) = 0 /\ fl = IF exact /\ ~r.exact THEN {"inexact"} ELSE {}
    BY <1>1
  <1>4. QED
    BY <1>2, <1>3 DEF IntegralWanted, r

(* f32_roundToInt and f64_roundToInt: a NaN is propagated, an integral or  *)
(* infinite operand is returned as it is, and any other is rounded.        *)
LEMMA IntegralRight ==
  ASSUME NEW F \in Formats, NEW a \in Patterns(F), Bias(F) > F.f, NEW m \in Modes, NEW exact \in BOOLEAN
  PROVE  LET v == RoundToInt(F, m, exact, a)
         IN  /\ IsNaN(F, a) => v = PropagateNaN(F, a, 0)
             /\ ~IsNaN(F, a) /\ (Number(F, a).k >= 0 \/ ~Finite(F, a)) => v = Ret(a, {})
             /\ Finite(F, a) /\ Number(F, a).k < 0 => IntegralWanted(F, m, exact, a, v)
  <1> DEFINE s == Sign(F, a)
             e == Exp(F, a)
             n == SigOf(F, a)
             k == Number(F, a).k
             v == RoundToInt(F, m, exact, a)
             d == 2 ^ (Bias(F) + F.f - e)
             z == PlaceRounded(m, s, a, d)
             up == CASE m = "near_even" -> e = Bias(F) - 1 /\ Frac(F, a) # 0
                     [] m = "near_maxMag" -> e = Bias(F) - 1
                     [] m = "min" -> s = 1
                     [] m = "max" -> s = 0
                     [] OTHER -> FALSE
             flag(p) == IF exact /\ p THEN {"inexact"} ELSE {}
  <1>1. /\ e \in Nat /\ Bias(F) \in Nat /\ Bias(F) >= 7 /\ F.f \in Nat /\ F.f >= 2 /\ ExpMax(F) = 2 * Bias(F) + 1 /\ s \in {0, 1}
        /\ e \in 0..ExpMax(F)
    BY FormatWidths, FieldPlaces, Unpacked DEF Formats
  <1>2. k \in Int /\ (k >= 0 <=> e >= Bias(F) + F.f) /\ (~Finite(F, a) => e >= Bias(F) + F.f)
    <2>1. k = Magnitude(F, a).k
      BY NumberIs
    <2>2. k = IF e = 0 THEN 1 - Bias(F) - F.f ELSE e - Bias(F) - F.f
      BY <2>1, MagnitudeTop
    <2>3. QED
      BY <1>1, <2>2 DEF Finite
  <1>3. /\ IsNaN(F, a) => v = PropagateNaN(F, a, 0)
        /\ ~IsNaN(F, a) /\ (e >= Bias(F) + F.f \/ IsZero(F, a)) => v = Ret(a, {})
        /\ ~IsNaN(F, a) /\ e < Bias(F) /\ ~IsZero(F, a) => v = Ret(Pack(F, s, IF up THEN Bias(F) ELSE 0, 0), flag(TRUE))
        /\ ~IsNaN(F, a) /\ e >= Bias(F) /\ e < Bias(F) + F.f /\ ~IsZero(F, a) => v = Ret(z, flag(z # a))
    <2> HIDE DEF up
    <2>1. v = CASE IsNaN(F, a) -> PropagateNaN(F, a, 0)
                [] ~IsNaN(F, a) /\ (e >= Bias(F) + F.f \/ IsZero(F, a)) -> Ret(a, {})
                [] e < Bias(F) /\ ~IsZero(F, a) -> Ret(Pack(F, s, IF up THEN Bias(F) ELSE 0, 0), flag(TRUE))
                [] OTHER -> Ret(z, flag(z # a))
      BY DEF RoundToInt, PlaceRounded, up
    <2> HIDE DEF v, z, d
    <2>2. IsNaN(F, a) => e >= Bias(F)
      BY <1>1 DEF IsNaN
    <2>3. e < Bias(F) => ~(e >= Bias(F) + F.f)
      BY <1>1
    <2> HIDE DEF e
    <2>4. QED
      BY <1>1, <2>1, <2>2, <2>3
  <1>4. ASSUME Finite(F, a), k < 0 PROVE IntegralWanted(F, m, exact, a, v)
    <2>1. e < Bias(F) + F.f /\ ~IsNaN(F, a)
      BY <1>1, <1>2, <1>4 DEF Finite, IsNaN
    <2>2. /\ BitsAtMost(F.f + 1, n) /\ n \in Nat
          /\ n = 0 <=> IsZero(F, a)
          /\ e # 0 => k = Scale(F, a)
      BY <2>1, IntegralReference
    <2>3. CASE IsZero(F, a)
      <3>1. v = Ret(a, {}) /\ n = 0
        BY <1>3, <2>1, <2>2, <2>3
      <3>2. Whole(0, k) = 0 /\ Part(0, k) = 0
        BY <1>2, <1>4 DEF Whole, Part, Tiny, Bool
      <3>3. RoundedMag(m, s, n, k) = 0 /\ Part(n, k) = 0
        BY <3>1, <3>2 DEF RoundedMag, RoundsUp, Bool
      <3>4. Cmp(Number(F, a), Num(WithSign(s, 0), 0)) = 0
        BY <2>3, ZeroNumber
      <3> HIDE DEF k, n, s, v
      <3>5. IntegralWanted(F, m, exact, a, Ret(a, {}))
        BY <2>1, <3>3, <3>4, WantedByParts DEF k, n, s
      <3>6. QED
        BY <3>1, <3>5 DEF v
    <2>4. CASE ~IsZero(F, a) /\ e < Bias(F)
      <3> DEFINE y == Pack(F, s, IF up THEN Bias(F) ELSE 0, 0)
      <3>1. v = Ret(y, flag(TRUE))
        BY <1>3, <2>1, <2>4
      <3>2. Part(n, k) # 0 /\ RoundedMag(m, s, n, k) = Bool(up)
        BY <2>4, BelowOne
      <3> HIDE DEF up
      <3>3. Sign(F, y) = s /\ Cmp(Number(F, y), Num(WithSign(s, Bool(up)), 0)) = 0
        <4> DEFINE h == Hidden(F)
        <4>1. h \in Nat /\ h >= 4 /\ 0 \in 0..(h - 1) /\ TopBit(F) \in Nat /\ 0 \in 0..ExpMax(F) /\ Bias(F) \in 0..ExpMax(F)
          BY <1>1, FieldPlaces
        <4>2. CASE up
          <5>1. Pack(F, s, Bias(F), 0) = s * TopBit(F) + Bias(F) * h + 0
            BY <1>1, <4>1, Packed
          <5>2. 2 ^ F.f * 1 = h /\ 2 ^ 0 = 1 /\ 2 ^ 1 = 2
            <6>1. 2 ^ 1 = 2
              BY FormatWidths, PowerStep, Powers
            <6>2. QED
              BY <4>1, <6>1, Powers DEF Hidden
          <5>3. (Bias(F) - 1) * h = Bias(F) * h - h /\ Bias(F) * h \in Int /\ s * TopBit(F) \in Int
            BY <1>1, <4>1
          <5>4. Bias(F) - Bias(F) = 0 /\ Bias(F) - Bias(F) + 1 = 1 /\ Bias(F) + F.f - Bias(F) = F.f
            BY <1>1
          <5>5. y = s * TopBit(F) + (Bias(F) - 1) * Hidden(F) + 2 ^ (Bias(F) + F.f - Bias(F)) * 1
            BY <4>1, <4>2, <5>1, <5>2, <5>3, <5>4
          <5>6. StandsAt(F, s, Bias(F), 1, y)
            <6> HIDE DEF y
            <6>3. 2 ^ (Bias(F) - Bias(F)) = 1 /\ 2 ^ (Bias(F) - Bias(F) + 1) = 2
              BY <5>2, <5>4, Zenon
            <6>1. 2 ^ (Bias(F) - Bias(F)) <= 1 /\ 1 < 2 ^ (Bias(F) - Bias(F) + 1)
              BY <6>3
            <6>2. QED
              BY <1>1, <5>5, <6>1 DEF StandsAt
          <5>7. Sign(F, y) = s /\ Cmp(Number(F, y), Num(WithSign(s, 1), 0)) = 0
            <6> HIDE DEF y
            <6>1. QED
              BY <5>6, IntegralPattern
          <5>8. Bool(up) = 1
            BY <4>2 DEF Bool
          <5> HIDE DEF y
          <5>9. QED
            BY <5>7, <5>8, Zenon
        <4>3. CASE ~up
          <5>1. y = Pack(F, s, 0, 0) /\ y \in Patterns(F) /\ Sign(F, y) = s /\ Exp(F, y) = 0 /\ Frac(F, y) = 0
            <6>1. y = Pack(F, s, 0, 0)
              BY <4>3
            <6>2. s \in {0, 1} /\ 0 \in 0..ExpMax(F) /\ 0 \in 0..(Hidden(F) - 1)
              BY <1>1, <4>1
            <6> HIDE DEF y, s
            <6>3. /\ Pack(F, s, 0, 0) \in Patterns(F) /\ Sign(F, Pack(F, s, 0, 0)) = s
                  /\ Exp(F, Pack(F, s, 0, 0)) = 0 /\ Frac(F, Pack(F, s, 0, 0)) = 0
              BY <6>2, Packed
            <6>4. QED
              BY <6>1, <6>3
          <5> HIDE DEF y
          <5>2. Cmp(Number(F, y), Num(WithSign(Sign(F, y), 0), 0)) = 0
            BY <5>1, ZeroNumber DEF IsZero
          <5>3. QED
            BY <4>3, <5>1, <5>2 DEF Bool
        <4>4. QED
          BY <4>2, <4>3
      <3> DEFINE o == Bool(up)
                 fl == flag(TRUE)
      <3>4. fl = IF exact /\ Part(n, k) # 0 THEN {"inexact"} ELSE {}
        BY <3>2
      <3> HIDE DEF y, o, k, n, s, v, fl
      <3>5. IntegralWanted(F, m, exact, a, Ret(y, fl))
        BY <2>1, <3>2, <3>3, <3>4, WantedByParts DEF k, n, s, o
      <3>6. QED
        BY <3>1, <3>5 DEF v, fl
    <2>5. CASE ~IsZero(F, a) /\ e >= Bias(F)
      <3>1. v = Ret(z, flag(z # a)) /\ k = Scale(F, a)
        BY <1>1, <1>3, <2>1, <2>2, <2>5
      <3>2. /\ z \in Patterns(F) /\ Sign(F, z) = s
            /\ Cmp(Number(F, z), Num(WithSign(s, RoundedMag(m, s, n, Scale(F, a))), 0)) = 0
            /\ z # a <=> Part(n, Scale(F, a)) # 0
        BY <2>1, <2>5, RoundedInPattern
      <3> DEFINE fl == flag(z # a)
      <3>3. fl = IF exact /\ Part(n, k) # 0 THEN {"inexact"} ELSE {}
        BY <3>1, <3>2
      <3>4. Cmp(Number(F, z), Num(WithSign(s, RoundedMag(m, s, n, k)), 0)) = 0
        BY <3>1, <3>2
      <3> HIDE DEF z, k, n, s, v, fl
      <3>5. IntegralWanted(F, m, exact, a, Ret(z, fl))
        BY <2>1, <3>2, <3>3, <3>4, WantedByParts DEF k, n, s
      <3>6. QED
        BY <3>1, <3>5 DEF v, fl
    <2>6. QED
      BY <1>1, <2>3, <2>4, <2>5
  <1>5. QED
    BY <1>1, <1>2, <1>3, <1>4

-----------------------------------------------------------------------------
(* Integers made floats.                                                   *)

(* Numbers of one sign are equal when their magnitudes are.                *)
LEMMA SignedOrder ==
  ASSUME NEW n \in Nat \ {0}, NEW p \in Nat \ {0}, NEW k \in Int, NEW s \in {0, 1}
  PROVE  Cmp(Num(WithSign(s, n), k), Num(WithSign(s, p), 0)) = 0 <=> CompareMag(Num(n, k), Num(p, 0)) = 0
  <1> DEFINE x == Num(WithSign(s, n), k)
             y == Num(WithSign(s, p), 0)
             c == CompareMag(x, y)
  <1>1. /\ Abs(WithSign(s, n)) = n /\ Abs(WithSign(s, p)) = p /\ Abs(n) = n /\ Abs(p) = p
        /\ WithSign(s, n) # 0 /\ WithSign(s, p) # 0
        /\ SignOf(WithSign(s, n)) = SignOf(WithSign(s, p)) /\ SignOf(WithSign(s, n)) \in {-1, 1}
    BY DEF Abs, WithSign, SignOf
  <1>2. x.n = WithSign(s, n) /\ x.k = k /\ y.n = WithSign(s, p) /\ y.k = 0
    BY DEF Num
  <1>3. Num(n, k).n = n /\ Num(n, k).k = k /\ Num(p, 0).n = p /\ Num(p, 0).k = 0
    BY DEF Num
  <1> HIDE DEF x, y
  <1>4. TopOf(x) = TopOf(Num(n, k)) /\ TopOf(y) = TopOf(Num(p, 0))
    BY <1>1, <1>2, <1>3 DEF TopOf
  <1>5. c = CompareMag(Num(n, k), Num(p, 0))
    BY <1>1, <1>2, <1>3, <1>4 DEF CompareMag
  <1>6. c \in {-1, 0, 1}
    BY DEF CompareMag, SignOf
  <1>7. Cmp(x, y) = SignOf(x.n) * c
    BY <1>1, <1>2 DEF Cmp
  <1> HIDE DEF c
  <1>8. Cmp(x, y) = 0 <=> c = 0
    <2>1. CASE SignOf(x.n) = 1
      BY <1>6, <1>7, <2>1
    <2>2. CASE SignOf(x.n) = -1
      BY <1>6, <1>7, <2>2
    <2>3. QED
      BY <1>1, <1>2, <2>1, <2>2
  <1>9. QED
    BY <1>5, <1>8 DEF x, y

(* An integer p of b bits cut to f + 1: the value kept is p exactly when   *)
(* nothing of it was cut off.                                              *)
LEMMA CutValue ==
  ASSUME NEW f \in Nat, f + 2 <= Widest, NEW p, BitsAtMost(BitLength(p), p), p # 0,
         NEW k \in Int, k = f + 1 - BitLength(p), NEW z, z \in {Whole(p, k), Whole(p, k) + 1},
         Part(p, k) = 0 => z = Whole(p, k)
  PROVE  /\ z \in Nat /\ 2 ^ f <= z /\ z <= 2 ^ (f + 1)
         /\ z < 2 ^ (f + 1) => (CompareMag(Num(z, -k), Num(p, 0)) = 0 <=> Part(p, k) = 0)
         /\ z = 2 ^ (f + 1) => Part(p, k) # 0 /\ CompareMag(Num(2 ^ f, 1 - k), Num(p, 0)) # 0
  <1> DEFINE b == BitLength(p)
             i == Whole(p, k)
             q == Part(p, k)
             h == 2 ^ f
  <1>1. /\ p \in Nat /\ b \in Nat /\ b <= Widest /\ Widest \in Nat /\ b + k = f + 1 /\ b # 0
    <2>1. p \in Nat /\ b \in 0..Widest /\ Widest \in Nat
      BY FormatWidths DEF BitsAtMost
    <2>2. b # 0
      BY LengthBounds
    <2>3. QED
      BY <2>1, <2>2
  <1>2. /\ f \in 0..Widest /\ f + 1 \in 0..Widest /\ f + 2 \in 0..Widest /\ f + 1 # 0 /\ (f + 1) - 1 = f
    BY <1>1
  <1>3. 2 ^ (f + 1) = 2 * h /\ h \in Nat \ {0}
    BY <1>2, PowerStep, Powers
  <1>4. i \in Nat /\ q \in 0..3 /\ h <= i /\ i < 2 * h
    <2> DEFINE t == f + 1
    <2>1. t \in Int /\ t = BitLength(p) + k /\ t <= Widest /\ t >= 1 /\ t - 1 = f /\ t >= 0
      BY <1>1, <1>2
    <2> HIDE DEF t
    <2>2. Whole(p, k) \in Nat /\ Part(p, k) \in 0..3 /\ Whole(p, k) < 2 ^ t /\ 2 ^ (t - 1) <= Whole(p, k)
      BY <2>1, WholeBounds
    <2>3. QED
      BY <1>3, <2>1, <2>2 DEF t
  <1>5. z \in Nat /\ h <= z /\ z <= 2 * h /\ (z = i \/ z = i + 1)
    BY <1>3, <1>4
  <1>6. Abs(p) = p /\ Abs(z) = z /\ Abs(h) = h
    BY <1>1, <1>3, <1>5 DEF Abs
  <1> HIDE DEF i, q, h
  <1>7. ASSUME z < 2 * h PROVE CompareMag(Num(z, -k), Num(p, 0)) = 0 <=> q = 0
    <2>1. BitLength(z) = f + 1
      <3>1. z < 2 ^ (f + 1) /\ 2 ^ ((f + 1) - 1) <= z
        BY <1>2, <1>3, <1>5, <1>7 DEF h
      <3>2. QED
        BY <1>2, <1>5, <3>1, BitLengthIs
    <2>2. TopOf(Num(z, -k)) = TopOf(Num(p, 0)) /\ z # 0
      <3>1. BitLength(z) + (-k) = b + 0
        BY <1>1, <2>1
      <3>2. QED
        BY <1>3, <1>5, <1>6, <3>1 DEF TopOf, Num
    <2> DEFINE l == IF -k < 0 THEN -k ELSE 0
    <2>3. CompareMag(Num(z, -k), Num(p, 0)) = SignOf(z * 2 ^ (-k - l) - p * 2 ^ (0 - l))
      BY <1>6, <2>2 DEF CompareMag, Num
    <2>4. \A x \in Int, y \in Int : SignOf(x - y) = 0 <=> x = y
      BY DEF SignOf
    <2>5. CASE k >= 0
      <3>1. l = -k /\ -k - l = 0 /\ 0 - l = k
        BY <2>5
      <3>2. i = p * 2 ^ k /\ q = 0
        BY <2>5 DEF Whole, Part, i, q
      <3> HIDE DEF l
      <3>3. z * 2 ^ (-k - l) = z * 1 /\ p * 2 ^ (0 - l) = i
        BY <3>1, <3>2, Powers
      <3>4. z = i
        BY <3>2 DEF q, i
      <3>5. SignOf(z * 1 - i) = 0
        BY <1>4, <2>4, <3>4
      <3>6. QED
        BY <2>3, <3>2, <3>3, <3>5
    <2>6. CASE k < 0
      <3> DEFINE j == -k
                 d == 2 ^ j
                 r == p % d
      <3>1. l = 0 /\ -k - l = j /\ 0 - l = 0 /\ j \in Nat /\ j \in 0..Widest /\ -j = k
        BY <1>1, <2>6
      <3>2. d \in Nat \ {0}
        BY <3>1, Powers
      <3>3. i = p \div d /\ q = Rest(r, d)
        <4>1. Whole(p, -j) = p \div 2 ^ j /\ Part(p, -j) = Rest(p % 2 ^ j, 2 ^ j)
          BY <1>1, <3>1, PartsByDivision
        <4>2. QED
          BY <3>1, <4>1 DEF i, q
      <3> HIDE DEF l, d
      <3>4. p = r + d * i /\ 0 <= r /\ r < d /\ r \in Int
        <4>1. p \in Int
          BY <1>1
        <4>2. QED
          BY <3>2, <3>3, <4>1, Division
      <3>5. q = 0 <=> r = 0
        BY <3>3 DEF Rest
      <3>6. z * 2 ^ (-k - l) = z * d /\ p * 2 ^ (0 - l) = p
        <4>1. p * 2 ^ 0 = p
          BY <1>1, Powers
        <4>2. QED
          BY <3>1, <4>1 DEF d
      <3> HIDE DEF r, j
      <3>7. z * d = p <=> q = 0
        <4>1. d * (i + 1) = d * i + d /\ d * i \in Int /\ z * d = d * z
          BY <1>4, <1>5, <3>2
        <4>2. q = 0 => z = i
          BY DEF q, i
        <4>3. CASE z = i
          BY <3>2, <3>4, <3>5, <4>1, <4>3
        <4>4. CASE z = i + 1
          BY <1>4, <3>2, <3>4, <3>5, <4>1, <4>2, <4>4
        <4>5. QED
          BY <1>5, <4>3, <4>4
      <3>8. CompareMag(Num(z, -k), Num(p, 0)) = SignOf(z * d - p)
        BY <2>3, <3>6
      <3>9. z * d \in Int /\ p \in Int
        BY <1>1, <1>5, <3>2
      <3>10. QED
        BY <2>4, <3>7, <3>8, <3>9
    <2>7. QED
      BY <2>5, <2>6
  <1>8. ASSUME z = 2 * h PROVE q # 0 /\ CompareMag(Num(h, 1 - k), Num(p, 0)) # 0
    <2>1. q # 0
      BY <1>4, <1>8 DEF q, i
    <2>2. BitLength(h) = f + 1
      <3>1. h < 2 ^ (f + 1) /\ 2 ^ ((f + 1) - 1) <= h /\ h \in Nat
        BY <1>2, <1>3 DEF h
      <3>2. QED
        BY <1>2, <3>1, BitLengthIs
    <2>3. TopOf(Num(h, 1 - k)) = b + 1 /\ TopOf(Num(p, 0)) = b /\ h # 0
      <3>1. BitLength(h) + (1 - k) = b + 1 /\ b + 0 = b /\ h # 0
        BY <1>1, <1>3, <2>2
      <3>2. QED
        BY <1>6, <3>1 DEF TopOf, Num
    <2>4. CompareMag(Num(h, 1 - k), Num(p, 0)) = SignOf((b + 1) - b)
      <3>1. b + 1 # b
        BY <1>1
      <3>2. QED
        BY <1>6, <2>3, <3>1 DEF CompareMag, Num
    <2>5. SignOf((b + 1) - b) # 0
      BY <1>1 DEF SignOf
    <2>6. QED
      BY <2>1, <2>4, <2>5
  <1>9. QED
    BY <1>3, <1>5, <1>7, <1>8 DEF i, q, h

(* Rounding and packing at an exponent that is neither tiny nor so large   *)
(* that the result could overflow.                                         *)
LEMMA RoundPackIs ==
  ASSUME NEW F \in Formats, NEW m \in Modes, NEW s \in {0, 1}, NEW exp \in Nat, exp <= ExpMax(F) - 3,
         NEW sig \in Nat
  PROVE  LET i == sig \div 2 ^ Guard(F)
             q == Rest(sig % 2 ^ Guard(F), 2 ^ Guard(F))
             z == i + Bool(RoundsUp(m, s, i, q))
         IN  RoundPack(F, m, s, exp, sig)
               = Ret(Pack(F, s, IF z = 0 THEN 0 ELSE exp, z), IF q # 0 THEN {"inexact"} ELSE {})
  <1> DEFINE g == Guard(F)
             i == sig \div 2 ^ g
             q == Rest(sig % 2 ^ g, 2 ^ g)
             z == i + Bool(RoundsUp(m, s, i, q))
             inc == RoundIncrement(m, s, g)
             over == \/ exp > ExpMax(F) - 2
                     \/ exp = ExpMax(F) - 2 /\ sig + inc >= TopBit(F)
  <1>1. g \in 1..Widest
    BY FormatWidths DEF Guard, Widest, Formats
  <1>2. RoundSig(m, sig, inc, g) = z /\ (sig % 2 ^ g # 0 <=> q # 0)
    <2>1. 0 \in Nat /\ 0 % 2 = 0
      OBVIOUS
    <2>2. QED
      BY <1>1, <2>1, RoundSigIs, Zenon
  <1>3. ExpMax(F) \in Nat
    BY FieldPlaces
  <1>4. ~over /\ ~(exp < 0)
    BY <1>3
  <1>5. RoundPack(F, m, s, exp, sig)
          = Ret(Pack(F, s, IF RoundSig(m, sig, inc, g) = 0 THEN 0 ELSE exp, RoundSig(m, sig, inc, g)),
                (IF sig % 2 ^ g # 0 THEN {"inexact"} ELSE {}) \union {})
    <2> DEFINE tiny == exp < 0
    <2>1. tiny = FALSE /\ over = FALSE
      BY <1>4
    <2>2. RoundPack(F, m, s, exp, sig) =
            LET sig1 == IF tiny THEN ShiftRightJam(sig, -exp) ELSE sig
                exp1 == IF tiny THEN 0 ELSE exp
                bits == sig1 % 2 ^ g
                w    == RoundSig(m, sig1, inc, g)
            IN  IF over
                THEN Ret(Pack(F, s, ExpMax(F), 0) - Bool(inc = 0), {"overflow", "inexact"})
                ELSE Ret(Pack(F, s, IF w = 0 THEN 0 ELSE exp1, w),
                         (IF bits # 0 THEN {"inexact"} ELSE {})
                         \union (IF tiny /\ bits # 0 THEN {"underflow"} ELSE {}))
      BY Zenon DEF RoundPack
    <2> HIDE DEF tiny, over, inc, g
    <2>3. QED
      BY <2>1, <2>2, Zenon
  <1> HIDE DEF q, z, inc, i
  <1>6. ((IF sig % 2 ^ g # 0 THEN {"inexact"} ELSE {}) \union {}) = (IF q # 0 THEN {"inexact"} ELSE {})
    BY <1>2
  <1>7. RoundPack(F, m, s, exp, sig) = Ret(Pack(F, s, IF z = 0 THEN 0 ELSE exp, z), IF q # 0 THEN {"inexact"} ELSE {})
    BY <1>2, <1>5, <1>6, Zenon
  <1>8. QED
    BY <1>7, Zenon DEF q, z, i

(* A significand with its leading bit, or one that rounding has carried to *)
(* the next power of two, packed one exponent below.                       *)
LEMMA PackedRound ==
  ASSUME NEW F \in Formats, NEW s \in {0, 1}, NEW exp \in Nat, exp <= ExpMax(F) - 3,
         NEW z \in Nat, Hidden(F) <= z, z <= 2 * Hidden(F)
  PROVE  LET u == Pack(F, s, exp, z)
         IN  /\ z < 2 * Hidden(F) => Number(F, u) = Num(WithSign(s, z), exp + 1 - Bias(F) - F.f)
             /\ z = 2 * Hidden(F) => Number(F, u) = Num(WithSign(s, Hidden(F)), exp + 2 - Bias(F) - F.f)
  <1> DEFINE u == Pack(F, s, exp, z)
  <1>1. /\ Hidden(F) \in Nat /\ Hidden(F) >= 4 /\ ExpMax(F) \in Nat /\ TopBit(F) \in Nat /\ Bias(F) \in Nat
        /\ F.f \in Nat
    BY FieldPlaces, FormatWidths DEF Formats
  <1>2. ASSUME NEW e \in 1..ExpMax(F), NEW f \in 0..(Hidden(F) - 1), e * Hidden(F) + f = exp * Hidden(F) + z,
               NEW n, n = f + Hidden(F), NEW k, k = e - Bias(F) - F.f
        PROVE  Number(F, u) = Num(WithSign(s, n), k)
    <2>1. u = Pack(F, s, e, f)
      <3>1. s * TopBit(F) + exp * Hidden(F) + z = s * TopBit(F) + e * Hidden(F) + f
        BY <1>1, <1>2
      <3>2. QED
        BY <3>1, Zenon DEF Pack, u
    <2>2. u \in Patterns(F) /\ Sign(F, u) = s /\ Exp(F, u) = e /\ Frac(F, u) = f
      BY <2>1, Packed
    <2>3. Magnitude(F, u) = Num(n, k)
      BY <1>2, <2>2, FieldPlaces DEF Magnitude
    <2>4. CASE s = 1
      BY <2>2, <2>3, <2>4 DEF Number, Minus, Num, WithSign
    <2>5. CASE s = 0
      BY <2>2, <2>3, <2>5 DEF Number, WithSign
    <2>6. QED
      BY <2>4, <2>5
  <1> HIDE DEF u
  <1>3. ASSUME z < 2 * Hidden(F) PROVE Number(F, u) = Num(WithSign(s, z), exp + 1 - Bias(F) - F.f)
    <2> DEFINE e == exp + 1
               f == z - Hidden(F)
               k == exp + 1 - Bias(F) - F.f
    <2>1. /\ e \in 1..ExpMax(F) /\ f \in 0..(Hidden(F) - 1) /\ z = f + Hidden(F) /\ k = e - Bias(F) - F.f
          /\ e * Hidden(F) + f = exp * Hidden(F) + z
      <3>1. (exp + 1) * Hidden(F) = exp * Hidden(F) + 1 * Hidden(F) /\ exp * Hidden(F) \in Int
        BY <1>1
      <3>2. e * Hidden(F) + f = exp * Hidden(F) + z
        BY <1>1, <1>3, <3>1
      <3>3. e \in 1..ExpMax(F) /\ f \in 0..(Hidden(F) - 1)
        BY <1>1, <1>3
      <3>4. z = f + Hidden(F) /\ k = e - Bias(F) - F.f
        BY <1>1
      <3>5. QED
        BY <3>2, <3>3, <3>4, Zenon
    <2> HIDE DEF e, f, k
    <2>2. Number(F, u) = Num(WithSign(s, z), k)
      BY <1>2, <2>1
    <2>3. QED
      BY <2>2 DEF k
  <1>4. ASSUME z = 2 * Hidden(F) PROVE Number(F, u) = Num(WithSign(s, Hidden(F)), exp + 2 - Bias(F) - F.f)
    <2> DEFINE e == exp + 2
               f == 0
               k == exp + 2 - Bias(F) - F.f
    <2>1. /\ e \in 1..ExpMax(F) /\ f \in 0..(Hidden(F) - 1) /\ Hidden(F) = f + Hidden(F) /\ k = e - Bias(F) - F.f
          /\ e * Hidden(F) + f = exp * Hidden(F) + z
      <3>1. (exp + 2) * Hidden(F) = exp * Hidden(F) + 2 * Hidden(F) /\ exp * Hidden(F) \in Int
        BY <1>1
      <3>2. e * Hidden(F) + f = exp * Hidden(F) + z
        BY <1>1, <1>4, <3>1
      <3>3. e \in 1..ExpMax(F) /\ f \in 0..(Hidden(F) - 1)
        BY <1>1, <1>4
      <3>4. Hidden(F) = f + Hidden(F) /\ k = e - Bias(F) - F.f
        BY <1>1
      <3>5. QED
        BY <3>2, <3>3, <3>4, Zenon
    <2> HIDE DEF e, f, k
    <2>2. Number(F, u) = Num(WithSign(s, Hidden(F)), k)
      BY <1>2, <2>1
    <2>3. QED
      BY <2>2 DEF k
  <1>5. QED
    BY <1>3, <1>4, Zenon DEF u

(* An integer of sign s and magnitude p as a float: what every routine     *)
(* gives for it.                                                           *)
Floated(F, m, s, p) ==
  LET b == BitLength(p)
      k == F.f + 1 - b
  IN  Ret(Pack(F, s, Bias(F) + b - 2, RoundedMag(m, s, p, k)), IF Part(p, k) # 0 THEN {"inexact"} ELSE {})

(* It says inexact exactly when it is another number.                      *)
LEMMA FloatedFlags ==
  ASSUME NEW F \in Formats, Bias(F) > W(F64), NEW m \in Modes, NEW s \in {0, 1},
         NEW w, NEW p, BitsAtMost(w, p), w <= W(F64), p # 0
  PROVE  LET v == Floated(F, m, s, p)
         IN  v.fl = IF Cmp(Number(F, v.v), Num(WithSign(s, p), 0)) = 0 THEN {} ELSE {"inexact"}
  <1> DEFINE b == BitLength(p)
             k == F.f + 1 - b
             z == RoundedMag(m, s, p, k)
             exp == Bias(F) + b - 2
             u == Pack(F, s, exp, z)
  <1>1. /\ F.f \in Nat /\ F.f >= 2 /\ F.f + 2 <= Widest /\ W(F64) \in Nat /\ W(F64) <= Widest /\ Widest \in Nat
        /\ Bias(F) \in Nat /\ ExpMax(F) = 2 * Bias(F) + 1 /\ Hidden(F) = 2 ^ F.f /\ Hidden(F) \in Nat
    <2>1. F.e >= 4 /\ F.e \in Nat /\ F.f >= 2 /\ F.f \in Nat /\ W(F) = 1 + F.e + F.f /\ W(F) <= W(F64) /\ W(F64) \in Nat
      BY FormatWidths DEF Formats
    <2>2. QED
      BY <2>1, FieldPlaces DEF Widest, Hidden
  <1>2. b \in 1..w /\ w \in Nat /\ w <= Widest /\ p \in Nat /\ k \in Int /\ BitsAtMost(b, p)
    <2>1. b \in 0..w /\ (b = 0 <=> p = 0) /\ p < 2 ^ b /\ b \in 0..Widest
      BY LengthBounds
    <2>2. w \in 0..Widest /\ p \in Nat
      BY DEF BitsAtMost
    <2>3. b \in 1..w /\ w \in Nat /\ w <= Widest /\ k \in Int
      BY <1>1, <2>1, <2>2
    <2>4. BitsAtMost(b, p)
      BY <2>1, <2>2 DEF BitsAtMost
    <2>5. QED
      BY <2>2, <2>3, <2>4
  <1>3. z \in {Whole(p, k), Whole(p, k) + 1} /\ (Part(p, k) = 0 => z = Whole(p, k)) /\ Part(p, k) \in 0..3
    <2>1. b + k = F.f + 1
      BY <1>1, <1>2
    <2>2. Whole(p, k) \in Nat /\ Part(p, k) \in 0..3
      <3>1. F.f + 1 \in Int /\ F.f + 1 = BitLength(p) + k /\ F.f + 1 <= Widest
        BY <1>1, <2>1
      <3> HIDE DEF k
      <3>2. QED
        BY <1>2, <3>1, WholeBounds
    <2>3. Part(p, k) = 0 => RoundsUp(m, s, Whole(p, k), Part(p, k)) = FALSE
      BY <2>2 DEF RoundsUp
    <2>4. QED
      BY <2>2, <2>3 DEF RoundedMag, Bool
  <1>4. exp \in Nat /\ exp <= ExpMax(F) - 3
    BY <1>1, <1>2
  <1> HIDE DEF z, u, exp
  <1>5. /\ z \in Nat /\ Hidden(F) <= z /\ z <= 2 * Hidden(F) /\ 2 ^ (F.f + 1) = 2 * Hidden(F)
        /\ z < 2 * Hidden(F) => (CompareMag(Num(z, -k), Num(p, 0)) = 0 <=> Part(p, k) = 0)
        /\ z = 2 * Hidden(F) => Part(p, k) # 0 /\ CompareMag(Num(Hidden(F), 1 - k), Num(p, 0)) # 0
    <2>1. /\ z \in Nat /\ 2 ^ F.f <= z /\ z <= 2 ^ (F.f + 1)
          /\ z < 2 ^ (F.f + 1) => (CompareMag(Num(z, -k), Num(p, 0)) = 0 <=> Part(p, k) = 0)
          /\ z = 2 ^ (F.f + 1) => Part(p, k) # 0 /\ CompareMag(Num(2 ^ F.f, 1 - k), Num(p, 0)) # 0
      BY <1>1, <1>2, <1>3, CutValue
    <2>2. 2 ^ (F.f + 1) = 2 * 2 ^ F.f
      <3> DEFINE n == F.f + 1
      <3>1. n \in 0..Widest /\ n # 0 /\ n - 1 = F.f
        BY <1>1
      <3> HIDE DEF n
      <3>2. 2 ^ n = 2 * 2 ^ (n - 1)
        BY <3>1, PowerStep
      <3>3. 2 ^ n = 2 * 2 ^ F.f
        BY <3>1, <3>2, Zenon
      <3>4. QED
        BY <3>3 DEF n
    <2>3. QED
      BY <1>1, <2>1, <2>2
  <1>6. Cmp(Number(F, u), Num(WithSign(s, p), 0)) = 0 <=> Part(p, k) = 0
    <2>1. CASE z < 2 * Hidden(F)
      <3>1. Number(F, u) = Num(WithSign(s, z), exp + 1 - Bias(F) - F.f)
        BY <1>4, <1>5, <2>1, PackedRound DEF u
      <3>2. exp + 1 - Bias(F) - F.f = -k /\ -k \in Int
        BY <1>1, <1>2 DEF exp
      <3>3. z \in Nat \ {0} /\ p \in Nat \ {0}
        BY <1>1, <1>2, <1>5, FieldPlaces
      <3>4. Cmp(Num(WithSign(s, z), -k), Num(WithSign(s, p), 0)) = 0 <=> CompareMag(Num(z, -k), Num(p, 0)) = 0
        <4> HIDE DEF k
        <4> QED BY <3>2, <3>3, SignedOrder
      <3>5. QED
        BY <1>5, <2>1, <3>1, <3>2, <3>4
    <2>2. CASE z = 2 * Hidden(F)
      <3>1. Number(F, u) = Num(WithSign(s, Hidden(F)), exp + 2 - Bias(F) - F.f)
        BY <1>4, <1>5, <2>2, PackedRound DEF u
      <3>2. exp + 2 - Bias(F) - F.f = 1 - k /\ 1 - k \in Int
        BY <1>1, <1>2 DEF exp
      <3>3. Hidden(F) \in Nat \ {0} /\ p \in Nat \ {0}
        BY <1>1, <1>2, FieldPlaces
      <3>4. Cmp(Num(WithSign(s, Hidden(F)), 1 - k), Num(WithSign(s, p), 0)) = 0
              <=> CompareMag(Num(Hidden(F), 1 - k), Num(p, 0)) = 0
        <4> HIDE DEF k
        <4> QED BY <3>2, <3>3, SignedOrder
      <3>5. QED
        BY <1>5, <2>2, <3>1, <3>2, <3>4
    <2>3. QED
      BY <1>1, <1>5, <2>1, <2>2
  <1>7. Floated(F, m, s, p) = Ret(u, IF Part(p, k) # 0 THEN {"inexact"} ELSE {})
    BY Zenon DEF Floated, u, exp, z
  <1>8. QED
    BY <1>6, <1>7 DEF Ret

(* A positive integer of the widest word, in the range of the format.      *)
Floatable(F, p) == p \in Nat /\ p # 0 /\ p < 2 ^ W(F64) /\ Bias(F) > W(F64)

(* Exponent and shift that an integer of that length is packed with.       *)
LEMMA FloatPlaces ==
  ASSUME NEW F \in Formats, NEW p, Floatable(F, p)
  PROVE  LET b == BitLength(p)
         IN  /\ b \in 1..W(F64) /\ p < 2 ^ b /\ p \in Nat /\ BitsAtMost(b, p) /\ BitsAtMost(W(F64), p)
             /\ F.e \in Nat /\ F.e >= 4 /\ F.f \in Nat /\ F.f >= 2 /\ W(F) = 1 + F.e + F.f /\ W(F) <= W(F64)
             /\ W(F64) \in Nat /\ Widest = W(F64) + 2 /\ Guard(F) = F.e - 1 /\ Guard(F) \in 1..Widest
             /\ Bias(F) \in Nat /\ Bias(F) + b - 2 \in Nat /\ Bias(F) + b - 2 <= ExpMax(F) - 3 /\ ExpMax(F) \in Nat
  <1> DEFINE b == BitLength(p)
  <1>1. /\ F.e \in Nat /\ F.e >= 4 /\ F.f \in Nat /\ F.f >= 2 /\ W(F) = 1 + F.e + F.f /\ W(F) <= W(F64)
        /\ W(F64) \in Nat /\ Widest = W(F64) + 2
    BY FormatWidths DEF Formats, Widest
  <1>2. BitsAtMost(W(F64), p)
    BY <1>1 DEF BitsAtMost, Floatable
  <1>3. b \in 0..W(F64) /\ p < 2 ^ b /\ p \in Nat /\ (b = 0 <=> p = 0)
    BY <1>2, LengthBounds DEF BitsAtMost
  <1>4. b \in 1..W(F64) /\ BitsAtMost(b, p)
    <2>1. b # 0
      BY <1>3 DEF Floatable
    <2> HIDE DEF b
    <2>2. b \in 1..W(F64) /\ b \in 0..Widest
      BY <1>1, <1>3, <2>1
    <2>3. QED
      BY <1>3, <2>2 DEF BitsAtMost
  <1>5. Guard(F) = F.e - 1 /\ Guard(F) \in 1..Widest
    BY <1>1 DEF Guard
  <1>6. Bias(F) \in Nat /\ ExpMax(F) = 2 * Bias(F) + 1 /\ Bias(F) > W(F64) /\ Bias(F) >= 7
    BY FieldPlaces DEF Floatable
  <1> HIDE DEF b
  <1>7. Bias(F) + b - 2 \in Nat /\ Bias(F) + b - 2 <= ExpMax(F) - 3 /\ ExpMax(F) \in Nat
    BY <1>1, <1>4, <1>6
  <1>8. QED
    BY <1>1, <1>2, <1>3, <1>4, <1>5, <1>6, <1>7 DEF b

(* An integer that fits the significand is packed as it is.                *)
LEMMA FloatedExactly ==
  ASSUME NEW F \in Formats, NEW p, Floatable(F, p), NEW m \in Modes, NEW s,
         NEW k \in Nat, k = F.f + 1 - BitLength(p)
  PROVE  Floated(F, m, s, p) = Ret(Pack(F, s, Bias(F) + BitLength(p) - 2, p * 2 ^ k), {})
  <1>1. Part(p, k) = 0 /\ Whole(p, k) = p * 2 ^ k
    BY DEF Part, Whole
  <1>2. RoundsUp(m, s, Whole(p, k), Part(p, k)) = FALSE
    BY <1>1 DEF RoundsUp
  <1>3. p * 2 ^ k \in Nat
    <2>1. k \in 0..Widest
      BY FloatPlaces
    <2>2. 2 ^ k \in Nat /\ p \in Nat
      BY <2>1, Powers DEF Floatable
    <2>3. QED
      BY <2>2
  <1>4. RoundedMag(m, s, p, k) = p * 2 ^ k
    BY <1>1, <1>2, <1>3 DEF RoundedMag, Bool
  <1>5. Floated(F, m, s, p)
          = Ret(Pack(F, s, Bias(F) + BitLength(p) - 2, RoundedMag(m, s, p, k)),
                IF Part(p, k) # 0 THEN {"inexact"} ELSE {})
    BY Zenon DEF Floated
  <1>6. QED
    BY <1>1, <1>4, <1>5

(* Any other is rounded: its quotient by the last place and what is left   *)
(* are those of the word that is rounded by its guard bits.                *)
LEMMA FloatedRounded ==
  ASSUME NEW F \in Formats, NEW p, Floatable(F, p), NEW m \in Modes, NEW s \in {0, 1},
         NEW k \in Int, k = F.f + 1 - BitLength(p), NEW sig \in Nat,
         sig \div 2 ^ Guard(F) = Whole(p, k),
         Rest(sig % 2 ^ Guard(F), 2 ^ Guard(F)) = Part(p, k)
  PROVE  RoundPack(F, m, s, Bias(F) + BitLength(p) - 2, sig) = Floated(F, m, s, p)
  <1> DEFINE z == RoundedMag(m, s, p, k)
             exp == Bias(F) + BitLength(p) - 2
  <1>1. Floated(F, m, s, p) = Ret(Pack(F, s, exp, z), IF Part(p, k) # 0 THEN {"inexact"} ELSE {})
    BY Zenon DEF Floated
  <1>2. z # 0
    <2> DEFINE t == F.f + 1
    <2>1. t \in Int /\ t = BitLength(p) + k /\ t <= Widest /\ BitsAtMost(W(F64), p) /\ p # 0
          /\ t >= 1 /\ t - 1 \in 0..Widest
      BY FloatPlaces DEF Floatable
    <2> HIDE DEF t
    <2>2. Whole(p, k) \in Nat /\ 2 ^ (t - 1) <= Whole(p, k)
      BY <2>1, WholeBounds
    <2>3. 2 ^ (t - 1) \in Nat \ {0}
      BY <2>1, Powers
    <2>4. Bool(RoundsUp(m, s, Whole(p, k), Part(p, k))) \in {0, 1}
      BY DEF Bool
    <2>5. QED
      BY <2>2, <2>3, <2>4 DEF RoundedMag
  <1>3. exp \in Nat /\ exp <= ExpMax(F) - 3
    BY FloatPlaces
  <1> HIDE DEF exp
  <1>4. RoundPack(F, m, s, exp, sig) = Ret(Pack(F, s, IF z = 0 THEN 0 ELSE exp, z), IF Part(p, k) # 0 THEN {"inexact"} ELSE {})
    <2> DEFINE i == sig \div 2 ^ Guard(F)
               q == Rest(sig % 2 ^ Guard(F), 2 ^ Guard(F))
               y == i + Bool(RoundsUp(m, s, i, q))
    <2>1. RoundPack(F, m, s, exp, sig) = Ret(Pack(F, s, IF y = 0 THEN 0 ELSE exp, y), IF q # 0 THEN {"inexact"} ELSE {})
      BY <1>3, RoundPackIs, Zenon
    <2>2. y = z /\ q = Part(p, k)
      BY Zenon DEF RoundedMag
    <2> HIDE DEF y, q, z
    <2>3. QED
      BY <2>1, <2>2, Zenon
  <1>5. QED
    BY <1>1, <1>2, <1>4, Zenon DEF exp

(* softfloat_normRoundPack, its shift and exponent by name.                *)
LEMMA NormCases ==
  ASSUME NEW F, NEW m, NEW s, NEW exp, NEW sig, NEW n, n = CountLeadingZeros(W(F), sig) - 1, NEW expZ, expZ = exp - n
  PROVE  NormRoundPack(F, m, s, exp, sig) =
           IF n >= Guard(F) /\ expZ \in 0..(ExpMax(F) - 3)
           THEN Ret(Pack(F, s, IF sig = 0 THEN 0 ELSE expZ, sig * 2 ^ (n - Guard(F))), {})
           ELSE RoundPack(F, m, s, expZ, sig * 2 ^ n)
  BY DEF NormRoundPack

(* The path through softfloat_normRoundPack: a short integer is packed as  *)
(* it is, a long one is shifted up and rounded by the guard bits.          *)
LEMMA NormFloat ==
  ASSUME NEW F \in Formats, NEW p, Floatable(F, p), BitsAtMost(W(F) - 1, p), NEW m \in Modes, NEW s \in {0, 1}
  PROVE  NormRoundPack(F, m, s, Bias(F) + W(F) - 3, p) = Floated(F, m, s, p)
  <1> DEFINE b == BitLength(p)
             n == CountLeadingZeros(W(F), p) - 1
             expZ == (Bias(F) + W(F) - 3) - n
             exp == Bias(F) + b - 2
             k == F.f + 1 - b
             g == Guard(F)
  <1>1. /\ b \in 1..W(F64) /\ p \in Nat /\ BitsAtMost(b, p)
        /\ F.e \in Nat /\ F.e >= 4 /\ F.f \in Nat /\ F.f >= 2 /\ W(F) = 1 + F.e + F.f /\ W(F) <= W(F64)
        /\ W(F64) \in Nat /\ Widest = W(F64) + 2 /\ g = F.e - 1 /\ g \in 1..Widest
        /\ Bias(F) \in Nat /\ exp \in Nat /\ exp <= ExpMax(F) - 3 /\ ExpMax(F) \in Nat
    BY FloatPlaces
  <1>2. b <= W(F) - 1
    <2>1. b \in 0..(W(F) - 1)
      BY LengthBounds
    <2>2. QED
      BY <2>1
  <1>3. n = W(F) - b - 1 /\ n \in Nat /\ n <= Widest /\ b + n <= Widest
    BY <1>1, <1>2 DEF CountLeadingZeros
  <1>4. expZ = exp /\ k = n - g /\ k \in Int
    BY <1>1, <1>3
  <1>5. NormRoundPack(F, m, s, Bias(F) + W(F) - 3, p) =
          IF n >= g /\ expZ \in 0..(ExpMax(F) - 3)
          THEN Ret(Pack(F, s, IF p = 0 THEN 0 ELSE expZ, p * 2 ^ (n - g)), {})
          ELSE RoundPack(F, m, s, expZ, p * 2 ^ n)
    BY DEF NormRoundPack
  <1> HIDE DEF n, expZ, exp, k, g
  <1>6. expZ \in 0..(ExpMax(F) - 3) /\ p # 0
    <2>1. p # 0
      BY DEF Floatable
    <2>2. QED
      BY <1>1, <1>4, <2>1
  <1>7. CASE n >= g
    <2>1. NormRoundPack(F, m, s, Bias(F) + W(F) - 3, p) = Ret(Pack(F, s, exp, p * 2 ^ k), {})
      BY <1>4, <1>5, <1>6, <1>7, Zenon
    <2>2. k \in Nat
      BY <1>1, <1>3, <1>4, <1>7
    <2>3. Floated(F, m, s, p) = Ret(Pack(F, s, exp, p * 2 ^ k), {})
      BY <2>2, FloatedExactly DEF k, exp
    <2>4. QED
      BY <2>1, <2>3
  <1>8. CASE ~(n >= g)
    <2>1. NormRoundPack(F, m, s, Bias(F) + W(F) - 3, p) = RoundPack(F, m, s, exp, p * 2 ^ n)
      BY <1>4, <1>5, <1>8, Zenon
    <2>2. p * 2 ^ n \in Nat /\ BitsAtMost(b + n, p * 2 ^ n)
      BY <1>1, <1>3, ScaledLength
    <2>3. k <= Widest /\ k - n = -g
      BY <1>1, <1>3, <1>4
    <2>4. Whole(p * 2 ^ n, k - n) = Whole(p, k) /\ Part(p * 2 ^ n, k - n) = Part(p, k)
      BY <1>1, <1>3, <1>4, <2>3, ScaledParts
    <2>5. Whole(p * 2 ^ n, -g) = (p * 2 ^ n) \div 2 ^ g /\ Part(p * 2 ^ n, -g) = Rest((p * 2 ^ n) % 2 ^ g, 2 ^ g)
      BY <1>1, <2>2, PartsByDivision
    <2>6. (p * 2 ^ n) \div 2 ^ g = Whole(p, k) /\ Rest((p * 2 ^ n) % 2 ^ g, 2 ^ g) = Part(p, k)
      BY <2>3, <2>4, <2>5, Zenon
    <2>7. RoundPack(F, m, s, exp, p * 2 ^ n) = Floated(F, m, s, p)
      <3> DEFINE sig == p * 2 ^ n
      <3>1. sig \in Nat /\ sig \div 2 ^ Guard(F) = Whole(p, k) /\ Rest(sig % 2 ^ Guard(F), 2 ^ Guard(F)) = Part(p, k)
        BY <2>2, <2>6 DEF g
      <3> HIDE DEF sig
      <3>2. RoundPack(F, m, s, Bias(F) + BitLength(p) - 2, sig) = Floated(F, m, s, p)
        BY <1>4, <3>1, FloatedRounded DEF k
      <3>3. QED
        BY <3>2, Zenon DEF sig, exp
    <2>8. QED
      BY <2>1, <2>7
  <1>9. QED
    BY <1>7, <1>8

(* Integers of the width of the format.  The least of the signed ones is a *)
(* power of two, and packed as one.                                        *)
LEMMA LeastFloat ==
  ASSUME NEW F \in Formats, Bias(F) > W(F64), NEW m \in Modes
  PROVE  Floated(F, m, 1, TopBit(F)) = Ret(Pack(F, 1, Bias(F) + W(F) - 1, 0), {})
  <1> DEFINE p == TopBit(F)
             k == F.f + 1 - W(F)
  <1>1. /\ F.e \in Nat /\ F.e >= 4 /\ F.f \in Nat /\ W(F) = 1 + F.e + F.f /\ W(F) <= W(F64) /\ W(F64) \in Nat
        /\ Widest = W(F64) + 2
    BY FormatWidths DEF Formats, Widest
  <1>2. /\ p \in Nat /\ p = 2 ^ (W(F) - 1) /\ p = 2 ^ F.e * Hidden(F) /\ 2 ^ W(F) = 2 * p /\ Hidden(F) \in Nat
        /\ 2 ^ F.e \in Nat \ {0} /\ Hidden(F) >= 4 /\ Bias(F) \in Nat
    <2>1. F.e \in 0..Widest
      BY <1>1
    <2>2. QED
      BY <2>1, FieldPlaces, Powers DEF TopBit
  <1>3. p # 0
    <2>1. W(F) - 1 \in 0..Widest
      BY <1>1
    <2>2. 2 ^ (W(F) - 1) \in Nat \ {0}
      BY <2>1, Powers
    <2>3. QED
      BY <1>2, <2>2
  <1> HIDE DEF p
  <1>4. BitLength(p) = W(F)
    <2>1. p < 2 ^ W(F) /\ 2 ^ (W(F) - 1) <= p /\ W(F) \in 0..Widest
      BY <1>1, <1>2, <1>3
    <2>2. QED
      BY <1>2, <2>1, BitLengthIs
  <1>5. BitsAtMost(W(F), p)
    BY <1>1, <1>2, <1>3 DEF BitsAtMost
  <1>6. k = -F.e /\ F.e \in 0..Widest
    BY <1>1
  <1>7. p \div 2 ^ F.e = Hidden(F) /\ p % 2 ^ F.e = 0
    <2> DEFINE d == 2 ^ F.e
               h == Hidden(F)
    <2>1. d \in Nat \ {0} /\ h \in Int /\ p = d * h
      BY <1>2
    <2> HIDE DEF d, h
    <2>2. (d * h) \div d = h /\ (d * h) % d = 0
      BY <2>1, Multiple
    <2>3. QED
      BY <2>1, <2>2 DEF d, h
  <1>8. Whole(p, -F.e) = p \div 2 ^ F.e /\ Part(p, -F.e) = Rest(p % 2 ^ F.e, 2 ^ F.e)
    BY <1>5, <1>6, PartsByDivision
  <1>9. Whole(p, k) = Hidden(F) /\ Part(p, k) = 0
    BY <1>6, <1>7, <1>8 DEF Rest
  <1> HIDE DEF k
  <1>10. RoundsUp(m, 1, Whole(p, k), Part(p, k)) = FALSE
    BY <1>9 DEF RoundsUp
  <1>11. RoundedMag(m, 1, p, k) = Hidden(F)
    BY <1>2, <1>9, <1>10 DEF RoundedMag, Bool
  <1>12. Floated(F, m, 1, p) = Ret(Pack(F, 1, Bias(F) + W(F) - 2, Hidden(F)), {})
    <2>1. Floated(F, m, 1, p) =
            Ret(Pack(F, 1, Bias(F) + BitLength(p) - 2, RoundedMag(m, 1, p, F.f + 1 - BitLength(p))),
                IF Part(p, F.f + 1 - BitLength(p)) # 0 THEN {"inexact"} ELSE {})
      BY Zenon DEF Floated
    <2>2. F.f + 1 - BitLength(p) = k
      BY <1>4 DEF k
    <2>3. QED
      BY <1>4, <1>9, <1>11, <2>1, <2>2
  <1>13. Pack(F, 1, Bias(F) + W(F) - 2, Hidden(F)) = Pack(F, 1, Bias(F) + W(F) - 1, 0)
    <2> DEFINE e == Bias(F) + W(F) - 2
    <2>1. e \in Int /\ Bias(F) + W(F) - 1 = e + 1
      BY <1>1, <1>2
    <2> HIDE DEF e
    <2>2. (e + 1) * Hidden(F) = e * Hidden(F) + Hidden(F)
      BY <1>2, <2>1
    <2>3. e * Hidden(F) \in Int /\ 1 * TopBit(F) \in Int
      BY <1>2, <2>1 DEF p
    <2>4. 1 * TopBit(F) + e * Hidden(F) + Hidden(F) = 1 * TopBit(F) + (e + 1) * Hidden(F) + 0
      BY <1>2, <2>2, <2>3
    <2>5. Pack(F, 1, e, Hidden(F)) = Pack(F, 1, e + 1, 0)
      BY <2>4, Zenon DEF Pack
    <2>6. QED
      BY <2>1, <2>5, Zenon DEF e
  <1>14. QED
    BY <1>12, <1>13, Zenon DEF p

(* The result of making an integer a float says inexact exactly when it is *)
(* another number.                                                         *)
SaysInexact(F, v, x) == v.fl = IF Cmp(Number(F, v.v), Num(x, 0)) = 0 THEN {} ELSE {"inexact"}

(* Zero is returned as the positive zero.                                  *)
LEMMA ZeroFloat ==
  ASSUME NEW F \in Formats
  PROVE  SaysInexact(F, Ret(0, {}), 0)
  <1>1. Cmp(Number(F, 0), Num(WithSign(Sign(F, 0), 0), 0)) = 0
    BY ZeroPattern, ZeroNumber
  <1>2. WithSign(Sign(F, 0), 0) = 0
    BY ZeroPattern DEF WithSign
  <1>3. Cmp(Number(F, 0), Num(0, 0)) = 0
    BY <1>1, <1>2
  <1>4. QED
    BY <1>3 DEF SaysInexact, Ret

(* Zero has no sign.                                                       *)
LEMMA ZeroSigned ==
  ASSUME NEW s, NEW p \in Nat, p <= 0
  PROVE  WithSign(s, p) = 0
  BY DEF WithSign

(* What a routine gives for a magnitude and a sign, of the integer.        *)
LEMMA FloatedSays ==
  ASSUME NEW F \in Formats, NEW p, Floatable(F, p), NEW m \in Modes, NEW s \in {0, 1}
  PROVE  SaysInexact(F, Floated(F, m, s, p), WithSign(s, p))
  <1>1. Bias(F) > W(F64) /\ p # 0
    BY DEF Floatable
  <1>2. BitsAtMost(W(F64), p) /\ W(F64) <= W(F64)
    BY FloatPlaces
  <1>3. QED
    BY <1>1, <1>2, FloatedFlags DEF SaysInexact

(* An integer is its magnitude with its sign.                              *)
LEMMA SignedParts ==
  ASSUME NEW x \in Int
  PROVE  /\ Abs(x) \in Nat /\ (Abs(x) = 0 <=> x = 0) /\ Bool(x < 0) \in {0, 1}
         /\ WithSign(Bool(x < 0), Abs(x)) = x
  <1>1. CASE x < 0
    BY <1>1 DEF Abs, Bool, WithSign
  <1>2. CASE x >= 0
    BY <1>2 DEF Abs, Bool, WithSign
  <1>3. QED
    BY <1>1, <1>2

(* i32_to_f32 and i64_to_f64.                                              *)
LEMMA FromSigned ==
  ASSUME NEW F \in Formats, Bias(F) > W(F64), NEW m \in Modes, NEW x \in Int,
         -TopBit(F) <= x, x < TopBit(F)
  PROVE  SaysInexact(F, FromI(F, m, x), x)
  <1> DEFINE p == Abs(x)
             s == Bool(x < 0)
             t == TopBit(F)
  <1>1. /\ W(F) \in Nat /\ W(F) >= 7 /\ W(F) <= W(F64) /\ W(F64) \in Nat /\ Widest = W(F64) + 2
    BY FormatWidths DEF Formats, Widest
  <1>2. t \in Nat \ {0} /\ 2 ^ W(F) = 2 * t /\ t < 2 ^ W(F64) /\ 2 ^ W(F64) \in Nat
    <2>1. W(F) - 1 \in 0..Widest /\ W(F) \in 0..Widest /\ W(F64) \in 0..Widest
      BY <1>1
    <2>2. 2 ^ W(F) <= 2 ^ W(F64) /\ 2 ^ W(F64) \in Nat
      BY <1>1, <2>1, PowerOrder, Powers
    <2>3. TopBit(F) \in Nat \ {0}
      BY <2>1, Powers DEF TopBit
    <2>4. 2 ^ W(F) = 2 * TopBit(F)
      BY FieldPlaces
    <2>5. QED
      BY <2>2, <2>3, <2>4
  <1>3. p \in Nat /\ (p = 0 <=> x = 0) /\ s \in {0, 1} /\ WithSign(s, p) = x
    BY SignedParts
  <1>4. p <= t /\ (p = t => x < 0)
    BY <1>2 DEF Abs
  <1>5. FromI(F, m, x) =
          IF p % t = 0 THEN Ret(IF x < 0 THEN Pack(F, 1, Bias(F) + W(F) - 1, 0) ELSE 0, {})
          ELSE NormRoundPack(F, m, s, Bias(F) + W(F) - 3, p)
    BY DEF FromI
  <1> HIDE DEF p, s, t
  <1>6. CASE x = 0
    <2>1. p = 0 /\ p % t = 0 /\ ~(x < 0)
      BY <1>2, <1>3, <1>6
    <2>2. FromI(F, m, x) = Ret(0, {})
      BY <1>5, <2>1
    <2>3. QED
      BY <1>6, <2>2, ZeroFloat
  <1>7. CASE p = t
    <2>1. p % t = 0
      <3>1. t * 1 = t
        BY <1>2
      <3>2. (t * 1) % t = 0
        BY <1>2, Multiple
      <3>3. QED
        BY <1>7, <3>1, <3>2
    <2>2. FromI(F, m, x) = Ret(Pack(F, 1, Bias(F) + W(F) - 1, 0), {})
      BY <1>4, <1>5, <1>7, <2>1, Zenon
    <2>3. s = 1
      BY <1>4, <1>7 DEF s, Bool
    <2>4. Floatable(F, p)
      BY <1>2, <1>3, <1>7 DEF Floatable
    <2>5. FromI(F, m, x) = Floated(F, m, s, p)
      BY <1>7, <2>2, <2>3, LeastFloat DEF t
    <2>6. QED
      BY <1>3, <2>4, <2>5, FloatedSays
  <1>8. CASE x # 0 /\ p # t
    <2>1. p < t /\ p # 0
      BY <1>2, <1>3, <1>4, <1>8
    <2>2. p % t # 0
      <3>1. t \in Nat \ {0} /\ p \in Nat /\ p < t
        BY <1>2, <1>3, <2>1
      <3>2. p % t = p
        BY <3>1, BelowDivisor
      <3>3. QED
        BY <2>1, <3>2
    <2>3. Floatable(F, p)
      BY <1>2, <1>3, <2>1 DEF Floatable
    <2>4. BitsAtMost(W(F) - 1, p)
      <3>1. W(F) - 1 \in 0..Widest /\ p < 2 ^ (W(F) - 1)
        BY <1>1, <2>1 DEF t, TopBit
      <3>2. QED
        BY <1>3, <3>1 DEF BitsAtMost
    <2>5. FromI(F, m, x) = Floated(F, m, s, p)
      BY <1>3, <1>5, <2>2, <2>3, <2>4, NormFloat
    <2>6. QED
      BY <1>3, <2>3, <2>5, FloatedSays
  <1>9. QED
    BY <1>6, <1>7, <1>8

(* ui32_to_f32 and ui64_to_f64; one that fills the word loses its last bit *)
(* to a jam first.                                                         *)
LEMMA FromUnsigned ==
  ASSUME NEW F \in Formats, Bias(F) > W(F64), NEW m \in Modes, NEW x \in Nat, x < 2 ^ W(F)
  PROVE  SaysInexact(F, FromUI(F, m, x), x)
  <1> DEFINE t == TopBit(F)
             b == BitLength(x)
             k == F.f + 1 - b
             g == Guard(F)
             y == ShiftRightJam(x, 1)
  <1>1. /\ F.e \in Nat /\ F.e >= 4 /\ F.f \in Nat /\ F.f >= 2 /\ W(F) = 1 + F.e + F.f
        /\ W(F) \in Nat /\ W(F) <= W(F64) /\ W(F64) \in Nat /\ Widest = W(F64) + 2
    BY FormatWidths DEF Formats, Widest
  <1>2. t \in Nat \ {0} /\ 2 ^ W(F) = 2 * t /\ 2 ^ W(F) <= 2 ^ W(F64) /\ 2 ^ W(F64) \in Nat
    <2>1. W(F) - 1 \in 0..Widest /\ W(F) \in 0..Widest /\ W(F64) \in 0..Widest
      BY <1>1
    <2>2. 2 ^ W(F) <= 2 ^ W(F64) /\ 2 ^ W(F64) \in Nat
      BY <1>1, <2>1, PowerOrder, Powers
    <2>3. TopBit(F) \in Nat \ {0}
      BY <2>1, Powers DEF TopBit
    <2>4. 2 ^ W(F) = 2 * TopBit(F)
      BY FieldPlaces
    <2>5. QED
      BY <2>2, <2>3, <2>4
  <1>3. x < 2 ^ W(F64) /\ WithSign(0, x) = x
    BY <1>2 DEF WithSign
  <1>4. /\ x = 0 => FromUI(F, m, x) = Ret(0, {})
        /\ x # 0 /\ x >= t => FromUI(F, m, x) = RoundPack(F, m, 0, Bias(F) + W(F) - 2, y)
        /\ x # 0 /\ ~(x >= t) => FromUI(F, m, x) = NormRoundPack(F, m, 0, Bias(F) + W(F) - 3, x)
    BY <1>2 DEF FromUI
  <1> HIDE DEF t, b, k, g, y
  <1>5. CASE x = 0
    BY <1>4, <1>5, ZeroFloat
  <1>6. CASE x # 0 /\ x >= t
    <2>1. Floatable(F, x)
      BY <1>3, <1>6 DEF Floatable
    <2>2. b = W(F)
      <3>1. x < 2 ^ W(F) /\ 2 ^ (W(F) - 1) <= x /\ W(F) \in 0..Widest
        BY <1>1, <1>6 DEF t, TopBit
      <3>2. QED
        BY <3>1, BitLengthIs DEF b
    <2>3. k = -(1 + g) /\ k \in Int /\ g \in Nat /\ g >= 2 /\ g <= Widest /\ 1 + g <= Widest
      BY <1>1, <2>2 DEF k, g, Guard
    <2>4. BitsAtMost(W(F64), x)
      BY <2>1, FloatPlaces
    <2>5. /\ y \in Nat /\ y \div 2 ^ g = Whole(x, -(1 + g)) /\ Rest(y % 2 ^ g, 2 ^ g) = Part(x, -(1 + g))
      BY <2>3, <2>4, JamParts DEF y
    <2>6. y \div 2 ^ Guard(F) = Whole(x, k) /\ Rest(y % 2 ^ Guard(F), 2 ^ Guard(F)) = Part(x, k)
      BY <2>3, <2>5, Zenon DEF g
    <2>7. RoundPack(F, m, 0, Bias(F) + BitLength(x) - 2, y) = Floated(F, m, 0, x)
      BY <2>1, <2>3, <2>5, <2>6, FloatedRounded DEF k, b
    <2>8. FromUI(F, m, x) = Floated(F, m, 0, x)
      BY <1>4, <1>6, <2>2, <2>7, Zenon DEF b
    <2>9. QED
      BY <1>3, <2>1, <2>8, FloatedSays
  <1>7. CASE x # 0 /\ ~(x >= t)
    <2>1. Floatable(F, x)
      BY <1>3, <1>7 DEF Floatable
    <2>2. BitsAtMost(W(F) - 1, x)
      <3>1. W(F) - 1 \in 0..Widest /\ x < t
        BY <1>1, <1>2, <1>7
      <3>2. QED
        BY <3>1 DEF BitsAtMost, t, TopBit
    <2>3. FromUI(F, m, x) = Floated(F, m, 0, x)
      BY <1>4, <1>7, <2>1, <2>2, NormFloat
    <2>4. QED
      BY <1>3, <2>1, <2>3, FloatedSays
  <1>8. QED
    BY <1>5, <1>6, <1>7

(* i32_to_f64 and ui32_to_f64, which never round.                          *)
LEMMA FromShort ==
  ASSUME Bias(F64) > W(F64), NEW s \in {0, 1}, NEW p \in Nat, p < 2 ^ W(F32)
  PROVE  SaysInexact(F64, ShortToF64(s, p), WithSign(s, p))
  <1> DEFINE b == BitLength(p)
             n == softfloat_countLeadingZeros32(p) + FracBits64 + 1 - W(F32)
             k == F64.f + 1 - b
  <1>1. F64 \in Formats /\ F32 \in Formats /\ "minMag" \in Modes
    BY DEF Formats, Modes
  <1>2. /\ F64.f \in Nat /\ F64.f = FracBits64 /\ W(F32) \in Nat /\ W(F32) <= W(F64) /\ W(F64) \in Nat
        /\ Widest = W(F64) + 2 /\ FracBits64 >= W(F32) - 1
    <2>1. W(F32) \in Nat /\ W(F32) <= W(F64) /\ W(F64) \in Nat /\ F64.f \in Nat /\ W(F32) = 1 + F32.e + F32.f
      BY FormatWidths
    <2>2. F64.f = FracBits64 /\ F32.e = ExpBits32 /\ F32.f = FracBits32
      BY DEF F64, F32
    <2>3. QED
      BY <2>1, <2>2, FormatAssumption DEF Widest
  <1>3. BitsAtMost(W(F32), p)
    BY <1>2 DEF BitsAtMost
  <1>4. b \in 0..W(F32)
    BY <1>3, LengthBounds
  <1>5. n = k /\ k \in Nat /\ Bias(F64) + FracBits64 - 1 - n = Bias(F64) + b - 2
    <2>1. n = (W(F32) - b) + FracBits64 + 1 - W(F32)
      BY DEF softfloat_countLeadingZeros32, CountLeadingZeros
    <2> HIDE DEF b, n
    <2>2. Bias(F64) \in Nat
      BY <1>1, FieldPlaces
    <2>3. QED
      BY <1>2, <1>4, <2>1, <2>2
  <1>6. ShortToF64(s, p) = IF p = 0 THEN Ret(0, {}) ELSE Ret(Pack(F64, s, Bias(F64) + FracBits64 - 1 - n, p * 2 ^ n), {})
    BY DEF ShortToF64
  <1> HIDE DEF b, n, k
  <1>7. CASE p = 0
    <2>1. WithSign(s, p) = 0
      <3>1. p <= 0
        BY <1>7
      <3>2. QED
        BY <3>1, ZeroSigned
    <2>2. ShortToF64(s, p) = Ret(0, {})
      BY <1>6, <1>7
    <2>3. QED
      BY <1>1, <2>1, <2>2, ZeroFloat
  <1>8. CASE p # 0
    <2>1. p < 2 ^ W(F64)
      <3>1. W(F32) \in 0..Widest /\ W(F64) \in 0..Widest
        BY <1>2
      <3>2. 2 ^ W(F32) <= 2 ^ W(F64) /\ 2 ^ W(F64) \in Nat /\ 2 ^ W(F32) \in Nat
        BY <1>2, <3>1, PowerOrder, Powers
      <3>3. QED
        BY <3>2
    <2>2. Floatable(F64, p)
      BY <1>8, <2>1 DEF Floatable
    <2>3. Floated(F64, "minMag", s, p) = Ret(Pack(F64, s, Bias(F64) + b - 2, p * 2 ^ k), {})
      BY <1>1, <1>5, <2>2, FloatedExactly DEF k, b
    <2>4. ShortToF64(s, p) = Floated(F64, "minMag", s, p)
      BY <1>5, <1>6, <1>8, <2>3, Zenon
    <2>5. QED
      BY <1>1, <2>2, <2>4, FloatedSays
  <1>9. QED
    BY <1>7, <1>8

(* i64_to_f32 and ui64_to_f32, which may shift out bits before rounding.   *)
LEMMA FromLong ==
  ASSUME Bias(F32) > W(F64), NEW m \in Modes, NEW s \in {0, 1}, NEW p \in Nat, p < 2 ^ W(F64)
  PROVE  SaysInexact(F32, LongToF32(m, s, p), WithSign(s, p))
  <1> DEFINE b == BitLength(p)
             n == softfloat_countLeadingZeros64(p) - (W(F64) - FracBits32 - 1)
             g == Guard(F32)
             h == n + Guard(F32)
             k == F32.f + 1 - b
             exp == Bias(F32) + b - 2
             sig == IF h < 0 THEN ShiftRightJam(p, -h) ELSE p * 2 ^ h
  <1>1. F32 \in Formats
    BY DEF Formats
  <1>2. CASE p = 0
    <2>1. WithSign(s, p) = 0
      <3>1. p <= 0
        BY <1>2
      <3>2. QED
        BY <3>1, ZeroSigned
    <2>2. LongToF32(m, s, p) = Ret(0, {})
      BY <1>2 DEF LongToF32
    <2>3. QED
      BY <1>1, <2>1, <2>2, ZeroFloat
  <1>3. CASE p # 0
    <2>1. Floatable(F32, p)
      BY <1>3 DEF Floatable
    <2>2. /\ b \in 1..W(F64) /\ BitsAtMost(b, p) /\ BitsAtMost(W(F64), p)
          /\ F32.e \in Nat /\ F32.e >= 4 /\ F32.f \in Nat /\ F32.f >= 2 /\ W(F32) = 1 + F32.e + F32.f /\ W(F32) <= W(F64)
          /\ W(F64) \in Nat /\ Widest = W(F64) + 2 /\ g = F32.e - 1 /\ g \in 1..Widest /\ Bias(F32) \in Nat
      BY <1>1, <2>1, FloatPlaces
    <2>3. n = k /\ k \in Int /\ h = k + g /\ h \in Int
      <3>1. n = (W(F64) - b) - (W(F64) - FracBits32 - 1)
        BY DEF softfloat_countLeadingZeros64, CountLeadingZeros
      <3>2. F32.f = FracBits32
        BY DEF F32
      <3> HIDE DEF b, n, g
      <3>3. h = n + g
        BY Zenon DEF g
      <3>4. QED
        BY <2>2, <3>1, <3>2, <3>3
    <2>4. /\ n >= 0 => LongToF32(m, s, p) = Ret(Pack(F32, s, Bias(F32) + FracBits32 - 1 - n, p * 2 ^ n), {})
          /\ ~(n >= 0) => LongToF32(m, s, p) = RoundPack(F32, m, s, Bias(F32) + W(F32) - 3 - h, sig)
      BY <1>3 DEF LongToF32, softfloat_shortShift64RightJam
    <2>5. Bias(F32) + FracBits32 - 1 - n = exp /\ Bias(F32) + W(F32) - 3 - h = exp
      <3>1. F32.f = FracBits32
        BY DEF F32
      <3> HIDE DEF b, n, g, h
      <3>2. QED
        BY <2>2, <2>3, <3>1
    <2> HIDE DEF b, n, g, h, k, exp, sig
    <2>6. CASE n >= 0
      <3>1. k \in Nat
        BY <2>3, <2>6
      <3>2. Floated(F32, m, s, p) = Ret(Pack(F32, s, exp, p * 2 ^ k), {})
        BY <1>1, <2>1, <3>1, FloatedExactly DEF k, b, exp
      <3>3. LongToF32(m, s, p) = Floated(F32, m, s, p)
        BY <2>3, <2>4, <2>5, <2>6, <3>2, Zenon
      <3>4. QED
        BY <1>1, <2>1, <3>3, FloatedSays
    <2>7. CASE ~(n >= 0)
      <3>1. sig \in Nat /\ sig \div 2 ^ g = Whole(p, k) /\ Rest(sig % 2 ^ g, 2 ^ g) = Part(p, k)
        <4>1. CASE h < 0
          <5> DEFINE j == -h
          <5>1. j \in Nat \ {0} /\ g \in Nat /\ g >= 2 /\ g <= Widest /\ j + g <= Widest /\ -(j + g) = k
            BY <2>2, <2>3, <4>1 DEF k
          <5>2. sig = ShiftRightJam(p, j)
            BY <4>1 DEF sig
          <5> HIDE DEF j
          <5>3. sig \in Nat /\ sig \div 2 ^ g = Whole(p, -(j + g)) /\ Rest(sig % 2 ^ g, 2 ^ g) = Part(p, -(j + g))
            BY <2>2, <5>1, <5>2, JamParts
          <5>4. QED
            BY <5>1, <5>3, Zenon
        <4>2. CASE ~(h < 0)
          <5>1. h \in Nat /\ b + h <= Widest /\ k <= Widest /\ k - h = -g /\ g \in 0..Widest
            BY <2>2, <2>3, <4>2 DEF k
          <5>2. sig = p * 2 ^ h
            BY <4>2, Zenon DEF sig
          <5>3. sig \in Nat /\ BitsAtMost(b + h, sig)
            BY <2>2, <5>1, <5>2, ScaledLength
          <5>4. Whole(p * 2 ^ h, k - h) = Whole(p, k) /\ Part(p * 2 ^ h, k - h) = Part(p, k)
            BY <2>2, <2>3, <5>1, ScaledParts
          <5>5. Whole(sig, -g) = sig \div 2 ^ g /\ Part(sig, -g) = Rest(sig % 2 ^ g, 2 ^ g)
            BY <5>1, <5>3, PartsByDivision
          <5>6. QED
            BY <5>1, <5>2, <5>3, <5>4, <5>5, Zenon
        <4>3. QED
          BY <4>1, <4>2
      <3>2. RoundPack(F32, m, s, Bias(F32) + BitLength(p) - 2, sig) = Floated(F32, m, s, p)
        BY <1>1, <2>1, <2>3, <3>1, FloatedRounded DEF k, b, g
      <3>3. LongToF32(m, s, p) = Floated(F32, m, s, p)
        BY <2>4, <2>5, <2>7, <3>2, Zenon DEF exp, b
      <3>4. QED
        BY <1>1, <2>1, <3>3, FloatedSays
    <2>8. QED
      BY <2>6, <2>7
  <1>4. QED
    BY <1>2, <1>3

(* The eight routines, for every argument of the width they take.          *)
LEMMA FromIntegers ==
  ASSUME Bias(F32) > W(F64), Bias(F64) > W(F64), NEW m \in Modes
  PROVE  /\ \A x \in IntMin(W(F32))..IntMax(W(F32)) :
               SaysInexact(F32, i32_to_f32(m, x), x) /\ SaysInexact(F64, i32_to_f64(x), x)
         /\ \A x \in IntMin(W(F64))..IntMax(W(F64)) :
               SaysInexact(F32, i64_to_f32(m, x), x) /\ SaysInexact(F64, i64_to_f64(m, x), x)
         /\ \A x \in 0..(2 ^ W(F32) - 1) :
               SaysInexact(F32, ui32_to_f32(m, x), x) /\ SaysInexact(F64, ui32_to_f64(x), x)
         /\ \A x \in 0..(2 ^ W(F64) - 1) :
               SaysInexact(F32, ui64_to_f32(m, x), x) /\ SaysInexact(F64, ui64_to_f64(m, x), x)
  <1>1. F32 \in Formats /\ F64 \in Formats
    BY DEF Formats
  <1>2. \A G \in Formats : /\ TopBit(G) \in Nat /\ 2 ^ W(G) = 2 * TopBit(G)
                           /\ IntMin(W(G)) = -TopBit(G) /\ IntMax(W(G)) = TopBit(G) - 1
    BY FieldPlaces DEF IntMin, IntMax, TopBit
  <1>3. \A G \in Formats, x \in Int : IntMin(W(G)) <= x /\ x <= IntMax(W(G)) =>
          /\ -TopBit(G) <= x /\ x < TopBit(G)
          /\ Abs(x) \in Nat /\ Abs(x) < 2 ^ W(G) /\ Bool(x < 0) \in {0, 1} /\ WithSign(Bool(x < 0), Abs(x)) = x
    BY <1>2, SignedParts DEF Abs
  <1>4. ASSUME NEW x \in IntMin(W(F32))..IntMax(W(F32))
        PROVE  SaysInexact(F32, i32_to_f32(m, x), x) /\ SaysInexact(F64, i32_to_f64(x), x)
    <2>1. /\ x \in Int /\ -TopBit(F32) <= x /\ x < TopBit(F32) /\ Abs(x) \in Nat /\ Abs(x) < 2 ^ W(F32)
          /\ Bool(x < 0) \in {0, 1} /\ WithSign(Bool(x < 0), Abs(x)) = x
      BY <1>1, <1>3
    <2>2. SaysInexact(F32, FromI(F32, m, x), x)
      BY <1>1, <2>1, FromSigned
    <2>3. SaysInexact(F64, ShortToF64(Bool(x < 0), Abs(x)), x)
      <3> DEFINE s == Bool(x < 0)
                 p == Abs(x)
      <3> HIDE DEF s, p
      <3>1. s \in {0, 1} /\ p \in Nat /\ p < 2 ^ W(F32) /\ WithSign(s, p) = x
        BY <2>1 DEF s, p
      <3>2. SaysInexact(F64, ShortToF64(s, p), x)
        BY <3>1, FromShort
      <3>3. QED
        BY <3>2 DEF s, p
    <2>4. QED
      BY <2>2, <2>3 DEF i32_to_f32, i32_to_f64
  <1>5. ASSUME NEW x \in IntMin(W(F64))..IntMax(W(F64))
        PROVE  SaysInexact(F32, i64_to_f32(m, x), x) /\ SaysInexact(F64, i64_to_f64(m, x), x)
    <2>1. /\ x \in Int /\ -TopBit(F64) <= x /\ x < TopBit(F64) /\ Abs(x) \in Nat /\ Abs(x) < 2 ^ W(F64)
          /\ Bool(x < 0) \in {0, 1} /\ WithSign(Bool(x < 0), Abs(x)) = x
      BY <1>1, <1>3
    <2>2. SaysInexact(F64, FromI(F64, m, x), x)
      BY <1>1, <2>1, FromSigned
    <2>3. SaysInexact(F32, LongToF32(m, Bool(x < 0), Abs(x)), x)
      <3> DEFINE s == Bool(x < 0)
                 p == Abs(x)
      <3> HIDE DEF s, p
      <3>1. s \in {0, 1} /\ p \in Nat /\ p < 2 ^ W(F64) /\ WithSign(s, p) = x
        BY <2>1 DEF s, p
      <3>2. SaysInexact(F32, LongToF32(m, s, p), x)
        BY <3>1, FromLong
      <3>3. QED
        BY <3>2 DEF s, p
    <2>4. QED
      BY <2>2, <2>3 DEF i64_to_f64, i64_to_f32
  <1>6. ASSUME NEW x \in 0..(2 ^ W(F32) - 1)
        PROVE  SaysInexact(F32, ui32_to_f32(m, x), x) /\ SaysInexact(F64, ui32_to_f64(x), x)
    <2>1. x \in Nat /\ x < 2 ^ W(F32) /\ WithSign(0, x) = x /\ 0 \in {0, 1}
      BY <1>1, <1>2 DEF WithSign
    <2>2. SaysInexact(F32, FromUI(F32, m, x), x)
      BY <1>1, <2>1, FromUnsigned
    <2>3. SaysInexact(F64, ShortToF64(0, x), WithSign(0, x))
      BY <2>1, FromShort
    <2>4. QED
      BY <2>1, <2>2, <2>3 DEF ui32_to_f32, ui32_to_f64
  <1>7. ASSUME NEW x \in 0..(2 ^ W(F64) - 1)
        PROVE  SaysInexact(F32, ui64_to_f32(m, x), x) /\ SaysInexact(F64, ui64_to_f64(m, x), x)
    <2>1. x \in Nat /\ x < 2 ^ W(F64) /\ WithSign(0, x) = x /\ 0 \in {0, 1}
      BY <1>1, <1>2 DEF WithSign
    <2>2. SaysInexact(F64, FromUI(F64, m, x), x)
      BY <1>1, <2>1, FromUnsigned
    <2>3. SaysInexact(F32, LongToF32(m, 0, x), WithSign(0, x))
      BY <2>1, FromLong
    <2>4. QED
      BY <2>1, <2>2, <2>3 DEF ui64_to_f64, ui64_to_f32
  <1>8. QED
    BY <1>4, <1>5, <1>6, <1>7

=============================================================================
