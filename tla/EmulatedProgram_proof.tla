----------------------- MODULE EmulatedProgram_proof -----------------------
(***************************************************************************)
(* Whatever program, registers, memory and pages: an emulated instruction  *)
(* changes nothing beside its destination, and one that is passed on to    *)
(* the supervisor is passed on as it was trapped and for a reason.         *)
(***************************************************************************)
EXTENDS EmulatedProgram, SoftFloat_proof, FiniteSetTheorems, WellFoundedInduction, TLAPS

-----------------------------------------------------------------------------
(* Sums over finite sets: the flags that are raised, the bits of a CSR.    *)

(* Of the subsets of a finite set that have a property there is a smallest *)
(* one: induction on finite sets, without a predicate as a parameter.      *)
LEMMA SmallestSet ==
  ASSUME NEW U, IsFiniteSet(U), NEW bad \in SUBSET (SUBSET U), bad # {}
  PROVE  \E t \in bad : \A s \in SUBSET t : s \in bad => s = t
  <1> DEFINE R == StrictSubsetOrdering(U)
             D == FiniteSubsetsOf(U)
  <1>1. IsWellFoundedOn(R, D)
    BY FS_StrictSubsetOrderingWellFounded
  <1>2. bad \subseteq D
    BY FS_Subset DEF FiniteSubsetsOf
  <1>3. \A s, t \in SUBSET U : s \subseteq t /\ s # t => <<s, t>> \in R
    BY DEF StrictSubsetOrdering
  <1> HIDE DEF R, D
  <1>4. PICK t \in bad : \A s \in bad : ~ (<<s, t>> \in R)
    BY <1>1, <1>2, WFMin
  <1>5. QED
    BY <1>3, <1>4

(* What makes a function g the sums of w over the subsets of U.            *)
SumsOf(g, w, U) ==
    /\ g \in [SUBSET U -> Int]
    /\ g[{}] = 0
    /\ \A s \in SUBSET U : \A x \in s : g[s] = w[x] + g[s \ {x}]

(* Every finite set has such a function.                                   *)
LEMMA SumsExist ==
  ASSUME NEW U, IsFiniteSet(U), NEW w, \A x \in U : w[x] \in Int
  PROVE  \E g : SumsOf(g, w, U)
  <1> DEFINE bad == {t \in SUBSET U : ~ \E g : SumsOf(g, w, t)}
  <1>1. SUFFICES bad = {}
    OBVIOUS
  <1>2. SUFFICES ASSUME bad # {} PROVE FALSE
    OBVIOUS
  <1>3. PICK t \in bad : \A s \in SUBSET t : s \in bad => s = t
    <2> bad \in SUBSET (SUBSET U)
      OBVIOUS
    <2> HIDE DEF bad
    <2> QED
      BY <1>2, SmallestSet
  <1>4. t # {}
    <2>1. SumsOf([s \in SUBSET {} |-> 0], w, {})
      BY DEF SumsOf
    <2>2. t = {} => \E g : SumsOf(g, w, t)
      BY <2>1
    <2>3. QED
      BY <1>3, <2>2
  <1>5. PICK y \in t : TRUE
    BY <1>4
  <1>6. PICK g0 : SumsOf(g0, w, t \ {y})
    BY <1>3, <1>5
  <1> DEFINE g == [s \in SUBSET t |-> g0[s \ {y}] + IF y \in s THEN w[y] ELSE 0]
  <1>7. \A s \in SUBSET t : s \ {y} \in SUBSET (t \ {y}) /\ g0[s \ {y}] \in Int
    BY <1>6 DEF SumsOf
  <1>8. w[y] \in Int /\ \A x \in t : w[x] \in Int
    BY <1>3, <1>5
  <1>9. g \in [SUBSET t -> Int]
    <2>1. \A s \in SUBSET t : g0[s \ {y}] + (IF y \in s THEN w[y] ELSE 0) \in Int
      <3> HIDE DEF bad
      <3> QED
        BY <1>7, <1>8
    <2>2. QED
      BY <2>1
  <1>10. g[{}] = 0
    <2>1. {} \ {y} = {}
      OBVIOUS
    <2>2. g0[{}] = 0
      BY <1>6 DEF SumsOf
    <2>3. QED
      BY <2>1, <2>2
  <1>11. ASSUME NEW s \in SUBSET t, NEW x \in s
         PROVE  g[s] = w[x] + g[s \ {x}]
    <2>1. s \ {x} \in SUBSET t
      OBVIOUS
    <2>2. CASE x = y
      <3>1. (s \ {x}) \ {y} = s \ {y} /\ y \notin s \ {x} /\ y \in s
        BY <2>2
      <3>2. g[s] = g0[s \ {y}] + w[y] /\ g[s \ {x}] = g0[s \ {y}] + 0
        BY <2>1, <3>1
      <3>3. g0[s \ {y}] \in Int /\ w[x] = w[y] /\ w[y] \in Int
        BY <1>7, <1>8, <2>2
      <3> HIDE DEF g
      <3>4. QED
        BY <3>2, <3>3
    <2>3. CASE x # y
      <3>1. x \in s \ {y} /\ s \ {y} \in SUBSET (t \ {y})
        BY <2>3
      <3>2. g0[s \ {y}] = w[x] + g0[(s \ {y}) \ {x}]
        BY <1>6, <3>1 DEF SumsOf
      <3>3. (s \ {y}) \ {x} = (s \ {x}) \ {y} /\ (y \in s <=> y \in s \ {x})
        BY <2>3
      <3>4. g0[(s \ {x}) \ {y}] \in Int /\ w[x] \in Int
        BY <1>7, <1>8, <2>1
      <3>5. QED
        BY <1>8, <2>1, <3>2, <3>3, <3>4
    <2>4. QED
      BY <2>2, <2>3
  <1>12. SumsOf(g, w, t)
    <2> HIDE DEF g
    <2> QED
      BY <1>9, <1>10, <1>11 DEF SumsOf
  <1>13. QED
    BY <1>3, <1>12

(* And the sum of the community modules is what it gives.                  *)
LEMMA SumIs ==
  ASSUME NEW U, IsFiniteSet(U), NEW w, NEW g, SumsOf(g, w, U)
  PROVE  SumFunctionOnSet(w, U) = g[U]
  <1> DEFINE step(it) == [s \in SUBSET U |->
                 IF s = {} THEN 0 ELSE w[CHOOSE x \in s : TRUE] + it[s \ {CHOOSE x \in s : TRUE}]]
             iter == CHOOSE it : it = step(it)
  <1>1. SumFunctionOnSet(w, U) = iter[U]
    BY DEF SumFunctionOnSet, FoldFunctionOnSet, MapThenFoldSet
  <1>2. g = step(g)
    <2>1. ASSUME NEW s \in SUBSET U, s # {}
          PROVE  g[s] = w[CHOOSE x \in s : TRUE] + g[s \ {CHOOSE x \in s : TRUE}]
      <3>1. (CHOOSE x \in s : TRUE) \in s
        BY <2>1
      <3>2. QED
        BY <3>1 DEF SumsOf
    <2>2. g = [s \in SUBSET U |-> g[s]] /\ g[{}] = 0
      BY DEF SumsOf
    <2>3. QED
      BY <2>1, <2>2
  <1>3. iter = step(iter)
    BY <1>2
  <1> HIDE DEF iter
  <1> DEFINE bad == {s \in SUBSET U : iter[s] # g[s]}
  <1>4. bad = {}
    <2>1. SUFFICES ASSUME bad # {} PROVE FALSE
      OBVIOUS
    <2>2. PICK t \in bad : \A s \in SUBSET t : s \in bad => s = t
      <3> bad \in SUBSET (SUBSET U)
        OBVIOUS
      <3> HIDE DEF bad
      <3> QED
        BY <2>1, SmallestSet
    <2>3. \A s \in SUBSET U : iter[s] = step(iter)[s] /\ g[s] = step(g)[s]
      BY <1>2, <1>3
    <2>4. CASE t = {}
      BY <2>2, <2>3, <2>4
    <2>5. CASE t # {}
      <3> DEFINE x == CHOOSE x \in t : TRUE
      <3>1. x \in t /\ t \in SUBSET U
        BY <2>2, <2>5
      <3> HIDE DEF x
      <3>2. t \ {x} \in SUBSET t /\ t \ {x} # t /\ t \ {x} \in SUBSET U
        BY <3>1
      <3>3. iter[t \ {x}] = g[t \ {x}]
        BY <2>2, <3>2
      <3>4. iter[t] = w[x] + iter[t \ {x}] /\ g[t] = w[x] + g[t \ {x}]
        BY <2>3, <2>5, <3>1 DEF x
      <3>5. QED
        BY <2>2, <3>3, <3>4
    <2>6. QED
      BY <2>4, <2>5
  <1>5. QED
    BY <1>1, <1>4

(* A sum of integers is an integer.                                        *)
LEMMA SumType ==
  ASSUME NEW U, IsFiniteSet(U), NEW w, \A x \in U : w[x] \in Int
  PROVE  SumFunctionOnSet(w, U) \in Int
  <1>1. PICK g : SumsOf(g, w, U)
    BY SumsExist
  <1>2. g[U] \in Int
    BY <1>1 DEF SumsOf
  <1>3. QED
    BY <1>1, <1>2, SumIs

-----------------------------------------------------------------------------
(* The bits of fcsr.                                                       *)

(* Five bits that are not yet set are or-ed into a word by adding them.    *)
Ored(n, m, a1, a2, a4, a8, a16) ==
    /\ m \div 32 = n \div 32
    /\ (m \div 1) % 2 = 1 <=> (n \div 1) % 2 = 1 \/ a1 = 1
    /\ (m \div 2) % 2 = 1 <=> (n \div 2) % 2 = 1 \/ a2 = 1
    /\ (m \div 4) % 2 = 1 <=> (n \div 4) % 2 = 1 \/ a4 = 1
    /\ (m \div 8) % 2 = 1 <=> (n \div 8) % 2 = 1 \/ a8 = 1
    /\ (m \div 16) % 2 = 1 <=> (n \div 16) % 2 = 1 \/ a16 = 1
LEMMA AddBits ==
  ASSUME NEW n \in Int, NEW m \in Int, NEW a1 \in 0..1, NEW a2 \in 0..1, NEW a4 \in 0..1,
         NEW a8 \in 0..1, NEW a16 \in 0..1,
         m = n + a1 + 2 * a2 + 4 * a4 + 8 * a8 + 16 * a16,
         a1 = 1 => (n \div 1) % 2 = 0, a2 = 1 => (n \div 2) % 2 = 0, a4 = 1 => (n \div 4) % 2 = 0,
         a8 = 1 => (n \div 8) % 2 = 0, a16 = 1 => (n \div 16) % 2 = 0
  PROVE  Ored(n, m, a1, a2, a4, a8, a16)
  BY DEF Ored

FlagNames == {"inexact", "underflow", "overflow", "infinity", "invalid"}

LEMMA Flags ==
  /\ DOMAIN FlagBit = FlagNames /\ FlagBit \in [FlagNames -> Int]
  /\ FlagBit["inexact"] = 1 /\ FlagBit["underflow"] = 2 /\ FlagBit["overflow"] = 4
  /\ FlagBit["infinity"] = 8 /\ FlagBit["invalid"] = 16
  BY DEF FlagBit, FlagNames

LEMMA FlagsAreFinite ==
  ASSUME NEW new \in SUBSET FlagNames
  PROVE  IsFiniteSet(new)
  <1>1. IsFiniteSet({"inexact"}) /\ IsFiniteSet({"underflow"}) /\ IsFiniteSet({"overflow"})
        /\ IsFiniteSet({"infinity"}) /\ IsFiniteSet({"invalid"})
    BY FS_Singleton
  <1>2. IsFiniteSet({"inexact"} \union {"underflow"})
    BY <1>1, FS_Union
  <1>3. IsFiniteSet(({"inexact"} \union {"underflow"}) \union {"overflow"})
    BY <1>1, <1>2, FS_Union
  <1>4. IsFiniteSet({"infinity"} \union {"invalid"})
    BY <1>1, FS_Union
  <1>5. IsFiniteSet((({"inexact"} \union {"underflow"}) \union {"overflow"})
                    \union ({"infinity"} \union {"invalid"}))
    BY <1>3, <1>4, FS_Union
  <1>6. FlagNames = (({"inexact"} \union {"underflow"}) \union {"overflow"})
                    \union ({"infinity"} \union {"invalid"})
    BY DEF FlagNames
  <1>7. QED
    BY <1>5, <1>6, FS_Subset

(* Raising flags adds those to fcsr that it did not have, and leaves what  *)
(* is above them.                                                          *)
Has(s, g) == IF g \in s THEN 1 ELSE 0
LEMMA FlagsAdded ==
  ASSUME NEW n \in Int, NEW m \in Int, NEW new \in SUBSET (FlagNames \ FlagsOf(n)),
         m = n + SumFunctionOnSet(FlagBit, new)
  PROVE  m \div 32 = n \div 32 /\ FlagsOf(m) = FlagsOf(n) \union new
  <1> DEFINE g == [s \in SUBSET new |-> Has(s, "inexact") + 2 * Has(s, "underflow")
                      + 4 * Has(s, "overflow") + 8 * Has(s, "infinity") + 16 * Has(s, "invalid")]
  <1>1. SumsOf(g, FlagBit, new)
    <2>1. g \in [SUBSET new -> Int] /\ g[{}] = 0
      BY DEF Has
    <2>2. ASSUME NEW s \in SUBSET new, NEW x \in s
          PROVE  g[s] = FlagBit[x] + g[s \ {x}]
      <3>1. s \ {x} \in SUBSET new /\ x \in FlagNames
        OBVIOUS
      <3>2. \A f \in FlagNames : Has(s \ {x}, f) = IF f = x THEN 0 ELSE Has(s, f)
        BY DEF Has
      <3>3. Has(s, x) = 1
        BY DEF Has
      <3>4. \A f \in FlagNames : Has(s, f) \in Int
        BY DEF Has
      <3>5. QED
        BY <3>1, <3>2, <3>3, <3>4, Flags DEF FlagNames
    <2>3. QED
      BY <2>1, <2>2 DEF SumsOf
  <1>2. SumFunctionOnSet(FlagBit, new) = g[new]
    BY <1>1, FlagsAreFinite, SumIs
  <1>3. m = n + Has(new, "inexact") + 2 * Has(new, "underflow")
              + 4 * Has(new, "overflow") + 8 * Has(new, "infinity") + 16 * Has(new, "invalid")
    BY <1>2 DEF Has
  <1>4. \A f \in FlagNames : /\ Has(new, f) \in 0..1 /\ (Has(new, f) = 1 <=> f \in new)
                             /\ f \in new => (n \div FlagBit[f]) % 2 # 1
    BY Flags DEF Has, FlagsOf
  <1>5. \A k \in Int : k \div 1 \in Int /\ k \div 2 \in Int /\ k \div 4 \in Int /\ k \div 8 \in Int /\ k \div 16 \in Int
    OBVIOUS
  <1>6. \A k \in Int : k % 2 = 0 \/ k % 2 = 1
    OBVIOUS
  <1>7. /\ Has(new, "inexact") \in 0..1 /\ (Has(new, "inexact") = 1 => (n \div 1) % 2 = 0)
        /\ Has(new, "underflow") \in 0..1 /\ (Has(new, "underflow") = 1 => (n \div 2) % 2 = 0)
        /\ Has(new, "overflow") \in 0..1 /\ (Has(new, "overflow") = 1 => (n \div 4) % 2 = 0)
        /\ Has(new, "infinity") \in 0..1 /\ (Has(new, "infinity") = 1 => (n \div 8) % 2 = 0)
        /\ Has(new, "invalid") \in 0..1 /\ (Has(new, "invalid") = 1 => (n \div 16) % 2 = 0)
    BY <1>4, <1>5, <1>6, Flags DEF FlagNames
  <1>8. Ored(n, m, Has(new, "inexact"), Has(new, "underflow"), Has(new, "overflow"),
             Has(new, "infinity"), Has(new, "invalid"))
    BY <1>3, <1>7, AddBits
  <1>9. \A f \in FlagNames : (m \div FlagBit[f]) % 2 = 1 <=> (n \div FlagBit[f]) % 2 = 1 \/ f \in new
    BY <1>4, <1>8, Flags DEF FlagNames, Ored
  <1>10. QED
    BY <1>8, <1>9, Flags DEF FlagsOf, Ored

(* The rounding mode and the flags are in the low eight bits of the word.  *)
LEMMA LowByte ==
  ASSUME NEW n \in Int
  PROVE  /\ n % 256 \in 0..255 /\ (n % 256) \div 32 = (n \div 32) % 8
         /\ FlagsOf(n % 256) = FlagsOf(n)
  <1>1. n % 256 \in 0..255 /\ (n % 256) \div 32 = (n \div 32) % 8
    OBVIOUS
  <1>2. /\ (((n % 256) \div 1) % 2) = ((n \div 1) % 2)
        /\ (((n % 256) \div 2) % 2) = ((n \div 2) % 2)
        /\ (((n % 256) \div 4) % 2) = ((n \div 4) % 2)
        /\ (((n % 256) \div 8) % 2) = ((n \div 8) % 2)
        /\ (((n % 256) \div 16) % 2) = ((n \div 16) % 2)
    OBVIOUS
  <1>3. \A f \in FlagNames : ((n % 256) \div FlagBit[f]) % 2 = (n \div FlagBit[f]) % 2
    BY <1>2, Flags DEF FlagNames
  <1>4. QED
    BY <1>1, <1>3, Flags DEF FlagsOf

-----------------------------------------------------------------------------
(* What an instruction may do to the hart, step by step of its handler.    *)

IsHart(h) ==
    /\ h = [x |-> h.x, f |-> h.f, tp |-> h.tp, mem |-> h.mem, pages |-> h.pages, fs |-> h.fs,
            pc |-> h.pc, ret |-> h.ret, csrs |-> h.csrs, cause |-> h.cause, ub |-> h.ub]
    /\ h.x = [r \in XRegs |-> h.x[r]]
    /\ h.f = [r \in FRegs |-> h.f[r]]
    /\ h.tp \in Int

Kinds == Memory \union IntArgs \union Float \union Fused \union {"other"}
IsInsn(i) ==
    /\ i.k \in Kinds
    /\ i.rs1 \in XRegs /\ i.rm \in 0..7 /\ i.p \in {"S", "D", "Q"} /\ i.n \in Nat
    /\ i.csr \in {"frm", "fflags", "fcsr", "other"}

(* On the way to completion: the destination, flags, and mstatus.FS.       *)
Effect(i, h, g) ==
    /\ IsHart(g)
    /\ g.pc = h.pc /\ g.pages = h.pages
    /\ \A r \in XRegs \ {0} : r # i.rd \/ i.k \in ToFloat => g.x[r] = h.x[r]
    /\ \A r \in FRegs : r # i.rd \/ i.k \notin ToFloat => g.f[r] = h.f[r]
    /\ i.k # "csr" => /\ (g.tp \div 32) % 8 = (h.tp \div 32) % 8
                      /\ FlagsOf(h.tp) \subseteq FlagsOf(g.tp)
    /\ i.k \notin Computes \union {"csr"} => g.tp % 256 = h.tp % 256
    /\ g.fs \in {h.fs, "dirty"}
    /\ g.f = h.f \/ g.fs = "dirty"

(* On the way to a refusal: nothing but bytes of a store, and the rounding *)
(* mode that the monitor keeps beside fcsr.                                *)
Untouched(i, h, g) ==
    /\ IsHart(g)
    /\ g.pc = h.pc /\ g.pages = h.pages /\ g.fs = h.fs /\ g.x = h.x /\ g.f = h.f
    /\ g.tp % 256 = h.tp % 256
    /\ DOMAIN g.mem = DOMAIN h.mem
    /\ i.k \notin MisalignedStores \union FloatStores => g.mem = h.mem
    /\ \A b \in DOMAIN g.mem : \/ g.mem[b] = h.mem[b]
                               \/ /\ i.k \in MisalignedStores \union FloatStores
                                  /\ b - Address(i, h) \in 0..(SizeOf[i.k] - 1)

Reason(i, h) ==
    \/ TextPage \notin h.pages
    \/ h.fs = "off" /\ i.k \in Float \union Fused \union {"csr"}
    \/ i.k \in NotEmulated
    \/ Reserved(i)

Completed(i, h, g) == \E h1 : Effect(i, h, h1) /\ g = Done(h1)
Refused(i, h, g) ==
    \E h1 : /\ Untouched(i, h, h1) /\ g = Refuse(h1) /\ h1.csrs = "trap"
            /\ IF h1.cause = "fault" THEN i.k \in Memory /\ ~ Reaches(h, Address(i, h), SizeOf[i.k])
               ELSE Reason(i, h)

LEMMA EffectRefl ==
  ASSUME NEW i, NEW h, IsHart(h)
  PROVE  Effect(i, h, h)
  BY DEF Effect

LEMMA EffectTrans ==
  ASSUME NEW i, NEW h, NEW g, NEW k, Effect(i, h, g), Effect(i, g, k)
  PROVE  Effect(i, h, k)
  BY DEF Effect

LEMMA SetRd ==
  ASSUME NEW i, NEW h, NEW v, IsHart(h), i.k \notin ToFloat
  PROVE  Effect(i, h, SET_RD(i, h, v))
  <1> DEFINE g == SET_RD(i, h, v)
  <1>1. /\ g.x = [h.x EXCEPT ![i.rd] = v] /\ g.f = h.f /\ g.tp = h.tp /\ g.pages = h.pages
        /\ g.fs = h.fs /\ g.pc = h.pc
    BY DEF SET_RD, IsHart
  <1>2. IsHart(g)
    <2>1. g = [x |-> g.x, f |-> g.f, tp |-> g.tp, mem |-> g.mem, pages |-> g.pages, fs |-> g.fs,
               pc |-> g.pc, ret |-> g.ret, csrs |-> g.csrs, cause |-> g.cause, ub |-> g.ub]
      BY DEF SET_RD, IsHart
    <2> HIDE DEF g
    <2>2. QED
      BY <1>1, <2>1 DEF IsHart
  <1> HIDE DEF g
  <1>3. \A r \in XRegs : r # i.rd => g.x[r] = h.x[r]
    BY <1>1 DEF IsHart
  <1>4. QED
    BY <1>1, <1>2, <1>3 DEF Effect, g

LEMMA SetFsDirty ==
  ASSUME NEW i, NEW h, IsHart(h)
  PROVE  Effect(i, h, SET_FS_DIRTY(h))
  <1> DEFINE g == SET_FS_DIRTY(h)
  <1>1. /\ g.x = h.x /\ g.f = h.f /\ g.tp = h.tp /\ g.pages = h.pages
        /\ g.fs = "dirty" /\ g.pc = h.pc
    BY DEF SET_FS_DIRTY, IsHart
  <1>2. IsHart(g)
    <2>1. g = [x |-> g.x, f |-> g.f, tp |-> g.tp, mem |-> g.mem, pages |-> g.pages, fs |-> g.fs,
               pc |-> g.pc, ret |-> g.ret, csrs |-> g.csrs, cause |-> g.cause, ub |-> g.ub]
      BY DEF SET_FS_DIRTY, IsHart
    <2> HIDE DEF g
    <2>2. QED
      BY <1>1, <2>1 DEF IsHart
  <1> HIDE DEF g
  <1>3. QED
    BY <1>1, <1>2 DEF Effect, g

LEMMA SetFReg ==
  ASSUME NEW i, NEW h, NEW v, IsHart(h), i.k \in ToFloat
  PROVE  Effect(i, h, SET_F64_RD(i, h, v))
  <1> DEFINE k == [h EXCEPT !.f[i.rd] = v]
             g == SET_FS_DIRTY(k)
  <1>1. g = SET_F64_RD(i, h, v)
    BY DEF SET_F64_RD
  <1>2. /\ k.x = h.x /\ k.f = [h.f EXCEPT ![i.rd] = v] /\ k.tp = h.tp /\ k.pages = h.pages
        /\ k.pc = h.pc
    BY DEF IsHart
  <1>3. IsHart(k)
    <2>1. k = [x |-> k.x, f |-> k.f, tp |-> k.tp, mem |-> k.mem, pages |-> k.pages, fs |-> k.fs,
               pc |-> k.pc, ret |-> k.ret, csrs |-> k.csrs, cause |-> k.cause, ub |-> k.ub]
      BY DEF IsHart
    <2> HIDE DEF k
    <2>2. QED
      BY <1>2, <2>1 DEF IsHart
  <1> HIDE DEF k
  <1>4. Effect(i, k, g) /\ g.f = k.f /\ g.x = k.x /\ g.tp = k.tp /\ g.fs = "dirty"
    <2>1. Effect(i, k, g)
      BY <1>3, SetFsDirty
    <2>2. g.f = k.f /\ g.x = k.x /\ g.tp = k.tp /\ g.fs = "dirty"
      BY <1>3 DEF SET_FS_DIRTY, IsHart
    <2>3. QED
      BY <2>1, <2>2
  <1> HIDE DEF g
  <1>5. \A r \in FRegs : r # i.rd => g.f[r] = h.f[r]
    BY <1>2, <1>4 DEF IsHart
  <1>6. QED
    BY <1>1, <1>2, <1>4, <1>5 DEF Effect

LEMMA SetF32 ==
  ASSUME NEW i, NEW h, NEW v, IsHart(h), i.k \in ToFloat
  PROVE  Effect(i, h, SET_F32_RD(i, h, v))
  <1> DEFINE w == h.f[i.rd] - (h.f[i.rd] % 2 ^ WordBits) + v
  <1>1. SET_F32_RD(i, h, v) = SET_F64_RD(i, h, w)
    BY DEF SET_F32_RD, SET_F64_RD, IsHart
  <1>2. QED
    BY <1>1, SetFReg

LEMMA SetFEffect ==
  ASSUME NEW i, NEW h, NEW v, IsHart(h), i.k \in ToFloat
  PROVE  Effect(i, h, SetF(i, h, v))
  BY SetF32, SetFReg DEF SetF

(* Writing the word that holds fcsr.                                       *)
LEMMA SetTp ==
  ASSUME NEW i, NEW h, NEW n \in Int, IsHart(h),
         i.k # "csr" => (n \div 32) % 8 = (h.tp \div 32) % 8 /\ FlagsOf(h.tp) \subseteq FlagsOf(n),
         i.k \notin Computes \union {"csr"} => n % 256 = h.tp % 256
  PROVE  Effect(i, h, [h EXCEPT !.tp = n])
  <1> DEFINE g == [h EXCEPT !.tp = n]
  <1>1. /\ g.x = h.x /\ g.f = h.f /\ g.tp = n /\ g.pages = h.pages
        /\ g.fs = h.fs /\ g.pc = h.pc
    BY DEF IsHart
  <1>2. IsHart(g)
    <2>1. g = [x |-> g.x, f |-> g.f, tp |-> g.tp, mem |-> g.mem, pages |-> g.pages, fs |-> g.fs,
               pc |-> g.pc, ret |-> g.ret, csrs |-> g.csrs, cause |-> g.cause, ub |-> g.ub]
      BY DEF IsHart
    <2> HIDE DEF g
    <2>2. QED
      BY <1>1, <2>1 DEF IsHart
  <1> HIDE DEF g
  <1>3. QED
    BY <1>1, <1>2 DEF Effect, g

LEMMA RaiseFlags ==
  ASSUME NEW i, NEW h, NEW fl, IsHart(h), i.k \in Computes \/ fl = {}
  PROVE  Effect(i, h, softfloat_raiseFlags(h, fl))
  <1> DEFINE new == (DOMAIN FlagBit \ FlagsOf(h.tp)) \intersect fl
             n == h.tp + SumFunctionOnSet(FlagBit, new)
  <1>1. new \in SUBSET (FlagNames \ FlagsOf(h.tp)) /\ IsFiniteSet(new)
    BY Flags, FlagsAreFinite
  <1>2. SumFunctionOnSet(FlagBit, new) \in Int
    <2>1. \A f \in new : FlagBit[f] \in Int
      BY <1>1, Flags
    <2>2. QED
      BY <1>1, <2>1, SumType
  <1>3. n \in Int
    BY <1>2 DEF IsHart
  <1>4. n \div 32 = h.tp \div 32 /\ FlagsOf(n) = FlagsOf(h.tp) \union new
    <2> HIDE DEF new, n
    <2>1. n = h.tp + SumFunctionOnSet(FlagBit, new)
      BY DEF n
    <2>2. QED
      BY <1>1, <1>3, <2>1, FlagsAdded DEF IsHart
  <1>5. fl = {} => n = h.tp
    <2>1. SumsOf([s \in SUBSET {} |-> 0], FlagBit, {})
      BY DEF SumsOf
    <2>2. SumFunctionOnSet(FlagBit, {}) = [s \in SUBSET {} |-> 0][{}]
      BY <2>1, SumIs, FS_EmptySet
    <2>3. QED
      BY <2>2 DEF IsHart
  <1>6. softfloat_raiseFlags(h, fl) = [h EXCEPT !.tp = n]
    BY DEF softfloat_raiseFlags
  <1>7. i.k # "csr"  \/ fl = {}
    BY DEF Computes, Float, Fused, FusedOp
  <1> HIDE DEF new, n
  <1>8. QED
    BY <1>3, <1>4, <1>5, <1>6, <1>7, SetTp

(* The rounding mode of an instruction is kept above the low byte.         *)
LEMMA SetupRounding ==
  ASSUME NEW i, NEW h, IsInsn(i), IsHart(h)
  PROVE  /\ Effect(i, h, SETUP_STATIC_ROUNDING(i, h))
         /\ Untouched(i, h, SETUP_STATIC_ROUNDING(i, h))
         /\ SETUP_STATIC_ROUNDING(i, h).fs = h.fs
         /\ SETUP_STATIC_ROUNDING(i, h).csrs = h.csrs
         /\ SETUP_STATIC_ROUNDING(i, h).cause = h.cause
  <1> DEFINE t == h.tp % 256
             n == CASE i.rm = 7 -> t + t * 256
                    [] i.rm \in 0..4 -> t + i.rm * 2 ^ 13
                    [] OTHER -> t
             g == [h EXCEPT !.tp = n]
  <1>1. t \in 0..255 /\ h.tp \in Int /\ i.rm \in 0..7
    BY DEF IsHart, IsInsn
  <1>2. n \in Int /\ n % 256 = t
    <2> HIDE DEF t
    <2>1. CASE i.rm = 7
      <3>1. n = t + t * 256
        BY <2>1
      <3>2. QED
        BY <1>1, <3>1
    <2>2. CASE i.rm \in 0..4
      <3>1. n = t + i.rm * 2 ^ 13
        BY <2>2
      <3>2. 2 ^ 13 = 8192
        OBVIOUS
      <3>3. n = t + i.rm * 8192
        BY <3>1, <3>2
      <3>4. QED
        BY <1>1, <2>2, <3>3
    <2>3. CASE i.rm \notin 0..4 \union {7}
      <3>1. n = t
        BY <2>3
      <3>2. QED
        BY <1>1, <3>1
    <2>4. QED
      BY <2>1, <2>2, <2>3
  <1>3. SETUP_STATIC_ROUNDING(i, h) = g
    BY DEF SETUP_STATIC_ROUNDING, GET_FCSR
  <1> HIDE DEF n
  <1>4. (n \div 32) % 8 = (h.tp \div 32) % 8 /\ FlagsOf(n) = FlagsOf(h.tp)
    <2>1. (n % 256) \div 32 = (n \div 32) % 8 /\ FlagsOf(n % 256) = FlagsOf(n)
      BY <1>2, LowByte
    <2>2. (h.tp % 256) \div 32 = (h.tp \div 32) % 8 /\ FlagsOf(h.tp % 256) = FlagsOf(h.tp)
      BY <1>1, LowByte
    <2>3. n % 256 = h.tp % 256
      BY <1>2
    <2>4. QED
      BY <2>1, <2>2, <2>3
  <1>5. Effect(i, h, g)
    BY <1>2, <1>4, SetTp
  <1>6. /\ g.x = h.x /\ g.f = h.f /\ g.tp = n /\ g.mem = h.mem /\ g.pages = h.pages
        /\ g.fs = h.fs /\ g.pc = h.pc /\ g.csrs = h.csrs /\ g.cause = h.cause
    BY DEF IsHart
  <1> HIDE DEF g
  <1>7. Untouched(i, h, g)
    BY <1>2, <1>5, <1>6 DEF Untouched, Effect
  <1>8. QED
    BY <1>3, <1>5, <1>6, <1>7

-----------------------------------------------------------------------------
(* The outcomes of the handlers.                                           *)

LEMMA UntouchedRefl ==
  ASSUME NEW i, NEW h, IsHart(h)
  PROVE  Untouched(i, h, h)
  BY DEF Untouched

LEMMA Completes ==
  ASSUME NEW i, NEW h, NEW h1, Effect(i, h, h1)
  PROVE  Completed(i, h, Done(h1))
  BY DEF Completed

LEMMA WritesRd ==
  ASSUME NEW i, NEW h, NEW v, IsHart(h), i.k \notin ToFloat
  PROVE  Completed(i, h, Done(SET_RD(i, h, v)))
  BY SetRd, Completes

LEMMA Refuses ==
  ASSUME NEW i, NEW h, IsHart(h), h.csrs = "trap", h.cause # "fault", Reason(i, h)
  PROVE  Refused(i, h, Refuse(h))
  BY UntouchedRefl DEF Refused

LEMMA ReturnsF ==
  ASSUME NEW i, NEW h, NEW r, IsInsn(i), IsHart(h), h.csrs = "trap", h.cause # "fault",
         i.k \in ToFloat, i.k \in Computes \/ r.fl = {}, i.p = "Q" => Reserved(i)
  PROVE  Completed(i, h, ReturnF(i, h, r)) \/ Refused(i, h, ReturnF(i, h, r))
  <1>1. CASE Precise(i)
    <2> DEFINE g == SetF(i, h, r.v)
    <2>1. Effect(i, h, g)
      BY SetFEffect
    <2>2. IsHart(g)
      BY <2>1 DEF Effect
    <2> HIDE DEF g
    <2>3. Effect(i, g, softfloat_raiseFlags(g, r.fl))
      BY <2>2, RaiseFlags
    <2>4. Effect(i, h, softfloat_raiseFlags(g, r.fl))
      BY <2>1, <2>3, EffectTrans
    <2>5. ReturnF(i, h, r) = Done(softfloat_raiseFlags(g, r.fl))
      BY <1>1 DEF ReturnF, g
    <2>6. QED
      BY <2>4, <2>5, Completes
  <1>2. CASE ~ Precise(i)
    <2>1. ReturnF(i, h, r) = Refuse(h) /\ i.p = "Q"
      BY <1>2 DEF ReturnF, Precise, IsInsn
    <2>2. QED
      BY <2>1, Refuses DEF Reason
  <1>3. QED
    BY <1>1, <1>2

(* From the hart after SETUP_STATIC_ROUNDING to the one before.            *)
LEMMA AfterSetup ==
  ASSUME NEW i, NEW h, NEW g, NEW h0, IsInsn(i), IsHart(h0), h = SETUP_STATIC_ROUNDING(i, h0),
         Completed(i, h, g) \/ Refused(i, h, g)
  PROVE  Completed(i, h0, g) \/ Refused(i, h0, g)
  <1>1. Effect(i, h0, h) /\ Untouched(i, h0, h)
    BY SetupRounding
  <1>2. CASE Completed(i, h, g)
    <2>1. PICK h1 : Effect(i, h, h1) /\ g = Done(h1)
      BY <1>2 DEF Completed
    <2>2. QED
      BY <1>1, <2>1, EffectTrans, Completes
  <1>3. CASE Refused(i, h, g)
    <2>1. PICK h1 : /\ Untouched(i, h, h1) /\ g = Refuse(h1) /\ h1.csrs = "trap"
                    /\ IF h1.cause = "fault" THEN i.k \in Memory /\ ~ Reaches(h, Address(i, h), SizeOf[i.k])
                       ELSE Reason(i, h)
      BY <1>3 DEF Refused
    <2>2. Address(i, h) = Address(i, h0) /\ h.pages = h0.pages /\ h.fs = h0.fs
      BY <1>1 DEF Untouched, Address
    <2>3. Untouched(i, h0, h1)
      BY <1>1, <2>1, <2>2 DEF Untouched
    <2>4. Reason(i, h) => Reason(i, h0)
      BY <2>2 DEF Reason
    <2>5. \A a, n : Reaches(h, a, n) <=> Reaches(h0, a, n)
      BY <2>2 DEF Reaches
    <2>6. QED
      BY <2>1, <2>2, <2>3, <2>4, <2>5 DEF Refused
  <1>4. QED
    BY <1>2, <1>3

(* What the handlers rely on.                                              *)
Ready(i, h) == IsInsn(i) /\ IsHart(h) /\ h.csrs = "trap" /\ h.cause # "fault"
Handled(i, h, g) == Completed(i, h, g) \/ Refused(i, h, g)

LEMMA FAdd ==
  ASSUME NEW i, NEW h, Ready(i, h), i.k \in {"fadd", "fsub"}
  PROVE  Handled(i, h, emulate_any_fadd(i, h, i.k = "fsub"))
  <1>1. PICK r : emulate_any_fadd(i, h, i.k = "fsub") = ReturnF(i, h, r)
    BY DEF emulate_any_fadd
  <1>2. i.k \in ToFloat /\ i.k \in Computes /\ (i.p = "Q" => Reserved(i))
    BY DEF ToFloat, Computes, Float, Reserved
  <1>3. QED
    BY <1>1, <1>2, ReturnsF DEF Handled, Ready

LEMMA FMulDiv ==
  ASSUME NEW i, NEW h, Ready(i, h), i.k \in {"fmul", "fdiv"}
  PROVE  Handled(i, h, emulate_fmul(i, h)) /\ Handled(i, h, emulate_fdiv(i, h))
  <1>1. PICK r : emulate_fmul(i, h) = ReturnF(i, h, r)
    BY DEF emulate_fmul
  <1>2. PICK s : emulate_fdiv(i, h) = ReturnF(i, h, s)
    BY DEF emulate_fdiv
  <1>3. i.k \in ToFloat /\ i.k \in Computes /\ (i.p = "Q" => Reserved(i))
    BY DEF ToFloat, Computes, Float, Reserved
  <1>4. QED
    BY <1>1, <1>2, <1>3, ReturnsF DEF Handled, Ready

LEMMA FSqrt ==
  ASSUME NEW i, NEW h, Ready(i, h), i.k = "fsqrt"
  PROVE  Handled(i, h, emulate_fsqrt(i, h))
  <1>1. PICK r : emulate_fsqrt(i, h) = IF i.n # 0 THEN Refuse(h) ELSE ReturnF(i, h, r)
    BY DEF emulate_fsqrt
  <1>2. i.k \in ToFloat /\ i.k \in Computes /\ (i.p = "Q" \/ i.n # 0 => Reserved(i))
    BY DEF ToFloat, Computes, Float, Reserved
  <1>3. QED
    BY <1>1, <1>2, ReturnsF, Refuses DEF Handled, Ready, Reason

LEMMA FSgnj ==
  ASSUME NEW i, NEW h, Ready(i, h), i.k = "fsgnj"
  PROVE  Handled(i, h, emulate_fsgnj(i, h))
  <1>1. PICK v : emulate_fsgnj(i, h) = IF i.rm >= 3 THEN Refuse(h) ELSE ReturnF(i, h, Ret(v, {}))
    BY DEF emulate_fsgnj
  <1>2. i.k \in ToFloat /\ (i.p = "Q" \/ i.rm >= 3 => Reserved(i))
    BY DEF ToFloat, Reserved, Ready, IsInsn
  <1>3. Ret(v, {}).fl = {}
    BY DEF Ret
  <1>4. QED
    BY <1>1, <1>2, <1>3, ReturnsF, Refuses DEF Handled, Ready, Reason

LEMMA FMin ==
  ASSUME NEW i, NEW h, Ready(i, h), i.k = "fmin"
  PROVE  Handled(i, h, emulate_fmin(i, h))
  <1>1. PICK r : emulate_fmin(i, h) = IF i.rm >= 2 THEN Refuse(h) ELSE ReturnF(i, h, r)
    BY DEF emulate_fmin
  <1>2. i.k \in ToFloat /\ i.k \in Computes /\ (i.p = "Q" \/ i.rm >= 2 => Reserved(i))
    BY DEF ToFloat, Computes, Float, Reserved, Ready, IsInsn
  <1>3. QED
    BY <1>1, <1>2, ReturnsF, Refuses DEF Handled, Ready, Reason

LEMMA FCvtFF ==
  ASSUME NEW i, NEW h, Ready(i, h), i.k = "fcvt_ff"
  PROVE  Handled(i, h, emulate_fcvt_ff(i, h))
  <1>1. PICK r : emulate_fcvt_ff(i, h) = IF i.n # (IF i.p = "S" THEN 1 ELSE 0) THEN Refuse(h)
                                         ELSE ReturnF(i, h, r)
    BY DEF emulate_fcvt_ff
  <1>2. /\ i.k \in ToFloat /\ i.k \in Computes
        /\ i.p = "Q" \/ i.n # (IF i.p = "S" THEN 1 ELSE 0) => Reserved(i)
    BY DEF ToFloat, Computes, Float, Reserved
  <1>3. QED
    BY <1>1, <1>2, ReturnsF, Refuses DEF Handled, Ready, Reason

LEMMA FCvtFI ==
  ASSUME NEW i, NEW h, Ready(i, h), i.k = "fcvt_fi"
  PROVE  Handled(i, h, emulate_fcvt_fi(i, h))
  <1>1. PICK r : emulate_fcvt_fi(i, h) = IF ~ Precise(i) \/ i.n \notin 0..3 THEN Refuse(h)
                                         ELSE ReturnF(i, h, r)
    BY DEF emulate_fcvt_fi
  <1>2. /\ i.k \in ToFloat /\ i.k \in Computes
        /\ i.p = "Q" \/ i.n \notin 0..3 => Reserved(i)
        /\ ~ Precise(i) => i.p = "Q"
    BY DEF ToFloat, Computes, Float, Reserved, Ready, IsInsn, Precise
  <1>3. QED
    BY <1>1, <1>2, ReturnsF, Refuses DEF Handled, Ready, Reason

LEMMA FCvtIF ==
  ASSUME NEW i, NEW h, Ready(i, h), i.k = "fcvt_if"
  PROVE  Handled(i, h, emulate_fcvt_if(i, h))
  <1>1. PICK raised : \E v : emulate_fcvt_if(i, h) = IF i.n >= 4 \/ ~ Precise(i) THEN Refuse(h)
              ELSE Done(SET_RD(i, SET_FS_DIRTY(softfloat_raiseFlags(h, raised)), v))
    <2> DEFINE d   == IF i.p = "S" THEN f32_to_f64(GET_F32(h, i.rs1)) ELSE Ret(h.f[i.rs1], {})
               neg == Sign(F64, d.v) = 1
               u   == f64_to_ui64(d.v % TopBit(F64), softfloat_roundingMode(h), TRUE)
               lim == Bounds(i.n, neg)
    <2> HIDE DEF d, neg, u, lim
    <2>1. emulate_fcvt_if(i, h) =
            LET v  == CASE u.v > lim.top -> lim.out
                        [] u.v <= lim.top /\ i.n = 0 -> Xword(Signed(WordBits, IF neg THEN -u.v ELSE u.v))
                        [] u.v <= lim.top /\ i.n = 2 -> Xword(IF neg THEN -u.v ELSE u.v)
                        [] OTHER -> u.v
                fl == d.fl \union u.fl \union (IF u.v > lim.top THEN {"invalid"} ELSE {})
            IN  IF i.n >= 4 \/ ~ Precise(i) THEN Refuse(h)
                ELSE Done(SET_RD(i, SET_FS_DIRTY(softfloat_raiseFlags(h, fl)), v))
      BY Zenon DEF emulate_fcvt_if, d, neg, u, lim
    <2>2. QED
      BY <2>1
  <1>2. PICK v : emulate_fcvt_if(i, h) = IF i.n >= 4 \/ ~ Precise(i) THEN Refuse(h)
              ELSE Done(SET_RD(i, SET_FS_DIRTY(softfloat_raiseFlags(h, raised)), v))
    BY <1>1
  <1>3. /\ i.k \notin ToFloat /\ i.k \in Computes
        /\ i.p = "Q" \/ i.n >= 4 => Reserved(i)
        /\ ~ Precise(i) => i.p = "Q"
    BY DEF ToFloat, FloatLoads, Fused, FusedOp, Computes, Float, Reserved, Ready, IsInsn, Precise
  <1> DEFINE g == softfloat_raiseFlags(h, raised)
  <1>4. Effect(i, h, g)
    BY <1>3, RaiseFlags DEF Ready
  <1>5. IsHart(g)
    BY <1>4 DEF Effect
  <1> HIDE DEF g
  <1>6. Effect(i, g, SET_FS_DIRTY(g))
    BY <1>5, SetFsDirty
  <1>7. IsHart(SET_FS_DIRTY(g))
    BY <1>6 DEF Effect
  <1>8. Effect(i, SET_FS_DIRTY(g), SET_RD(i, SET_FS_DIRTY(g), v))
    BY <1>3, <1>7, SetRd
  <1>9. Effect(i, h, SET_RD(i, SET_FS_DIRTY(g), v))
    BY <1>4, <1>6, <1>8, EffectTrans
  <1>10. QED
    BY <1>2, <1>3, <1>9, Completes, Refuses DEF Handled, Ready, Reason, g

LEMMA FCmp ==
  ASSUME NEW i, NEW h, Ready(i, h), i.k = "fcmp"
  PROVE  Handled(i, h, emulate_fcmp(i, h))
  <1>1. PICK r : emulate_fcmp(i, h) = IF i.rm >= 3 \/ ~ Precise(i) THEN Refuse(h)
              ELSE Done(SET_RD(i, softfloat_raiseFlags(h, r.fl), r.v))
    BY DEF emulate_fcmp
  <1>2. /\ i.k \notin ToFloat /\ i.k \in Computes
        /\ i.p = "Q" \/ i.rm >= 3 => Reserved(i)
        /\ ~ Precise(i) => i.p = "Q"
    BY DEF ToFloat, FloatLoads, Fused, FusedOp, Computes, Float, Reserved, Ready, IsInsn, Precise
  <1> DEFINE g == softfloat_raiseFlags(h, r.fl)
  <1>3. Effect(i, h, g) /\ IsHart(g)
    BY <1>2, RaiseFlags DEF Ready, Effect
  <1> HIDE DEF g
  <1>4. Effect(i, h, SET_RD(i, g, r.v))
    BY <1>2, <1>3, SetRd, EffectTrans
  <1>5. QED
    BY <1>1, <1>2, <1>4, Completes, Refuses DEF Handled, Ready, Reason, g

LEMMA FMv ==
  ASSUME NEW i, NEW h, Ready(i, h)
  PROVE  /\ i.k \in {"fmv_x_s", "fmv_x_d", "fclass"} => Handled(i, h, emulate_fmv_if(i, h))
         /\ i.k \in {"fmv_s_x", "fmv_d_x"} => Handled(i, h, emulate_fmv_fi(i, h))
  <1>1. CASE i.k \in {"fmv_x_s", "fmv_x_d"} /\ i.rm = 0
    <2>1. PICK v : emulate_fmv_if(i, h) = Done(SET_RD(i, h, v))
      BY <1>1 DEF emulate_fmv_if
    <2>2. i.k \notin ToFloat
      BY <1>1 DEF ToFloat, FloatLoads, Fused, FusedOp
    <2>3. QED
      BY <1>1, <2>1, <2>2, WritesRd DEF Handled, Ready
  <1>2. CASE i.k = "fclass"
    <2>1. emulate_fmv_if(i, h) = Refuse(h)
      BY <1>2 DEF emulate_fmv_if
    <2>2. QED
      BY <1>2, <2>1, Refuses DEF Handled, Ready, Reason, NotEmulated
  <1>3. CASE i.k \in {"fmv_s_x", "fmv_d_x"} /\ i.rm = 0
    <2>1. PICK v : emulate_fmv_fi(i, h) = Done(SET_F32_RD(i, h, v)) \/ emulate_fmv_fi(i, h) = Done(SET_F64_RD(i, h, v))
      BY <1>3 DEF emulate_fmv_fi
    <2>2. i.k \in ToFloat
      BY <1>3 DEF ToFloat
    <2>3. QED
      BY <1>3, <2>1, <2>2, SetF32, SetFReg, Completes DEF Handled, Ready
  <1>4. CASE i.k \in {"fmv_x_s", "fmv_x_d", "fmv_s_x", "fmv_d_x"} /\ i.rm # 0
    <2>1. /\ i.k \in {"fmv_x_s", "fmv_x_d"} => emulate_fmv_if(i, h) = Refuse(h)
          /\ i.k \in {"fmv_s_x", "fmv_d_x"} => emulate_fmv_fi(i, h) = Refuse(h)
      BY <1>4 DEF emulate_fmv_if, emulate_fmv_fi
    <2>2. Reserved(i)
      BY <1>4 DEF Reserved, Fused, FusedOp
    <2>3. QED
      BY <1>4, <2>1, <2>2, Refuses DEF Handled, Ready, Reason
  <1>5. QED
    BY <1>1, <1>2, <1>3, <1>4

LEMMA ReadyAfterSetup ==
  ASSUME NEW i, NEW h, Ready(i, h)
  PROVE  Ready(i, SETUP_STATIC_ROUNDING(i, h))
  BY SetupRounding DEF Ready, Untouched

LEMMA FusedHandled ==
  ASSUME NEW i, NEW h, Ready(i, h), i.k \in Fused
  PROVE  Handled(i, h, emulate_any_fmadd(i, h))
  <1> DEFINE g == SETUP_STATIC_ROUNDING(i, h)
  <1>1. Ready(i, g) /\ g.fs = h.fs
    BY ReadyAfterSetup, SetupRounding DEF Ready
  <1>2. /\ i.k \in ToFloat /\ i.k \in Computes
        /\ i.p = "Q" \/ i.rm \in {5, 6} => Reserved(i)
    BY DEF ToFloat, Computes, Reserved, Fused, FusedOp
  <1>3. CASE h.fs = "off"
    <2>1. emulate_any_fmadd(i, h) = Refuse(h)
      BY <1>1, <1>3 DEF emulate_any_fmadd
    <2>2. QED
      BY <1>3, <2>1, Refuses DEF Handled, Ready, Reason
  <1>4. CASE h.fs # "off" /\ ~ StaticMode(i)
    <2>1. emulate_any_fmadd(i, h) = Refuse(g)
      BY <1>1, <1>4 DEF emulate_any_fmadd
    <2>2. Reason(i, g)
      BY <1>2, <1>4 DEF Reason, StaticMode, Ready, IsInsn
    <2>3. Refused(i, g, Refuse(g))
      BY <1>1, <2>2, Refuses DEF Ready
    <2>4. QED
      BY <2>1, <2>3, AfterSetup DEF Handled, Ready
  <1>5. CASE h.fs # "off" /\ StaticMode(i)
    <2>1. PICK r : emulate_any_fmadd(i, h) = ReturnF(i, g, r)
      BY <1>1, <1>5 DEF emulate_any_fmadd
    <2>2. Completed(i, g, ReturnF(i, g, r)) \/ Refused(i, g, ReturnF(i, g, r))
      BY <1>1, <1>2, ReturnsF DEF Ready
    <2>3. QED
      BY <2>1, <2>2, AfterSetup DEF Handled, Ready
  <1>6. QED
    BY <1>3, <1>4, <1>5

LEMMA FloatHandled ==
  ASSUME NEW i, NEW h, Ready(i, h), i.k \in Float
  PROVE  Handled(i, h, emulate_fp(i, h))
  <1> DEFINE g == SETUP_STATIC_ROUNDING(i, h)
  <1>1. Ready(i, g)
    BY ReadyAfterSetup
  <1>2. CASE h.fs = "off"
    <2>1. emulate_fp(i, h) = Refuse(h)
      BY <1>2 DEF emulate_fp
    <2>2. QED
      BY <1>2, <2>1, Refuses DEF Handled, Ready, Reason
  <1>3. CASE h.fs # "off" /\ ~ StaticMode(i)
    <2>1. emulate_fp(i, h) = Refuse(g)
      BY <1>3 DEF emulate_fp
    <2>2. i.rm \in {5, 6}
      BY <1>3 DEF StaticMode, Ready, IsInsn
    <2>3. Reserved(i) \/ i.k = "fclass"
      BY <2>2 DEF Reserved, Float
    <2>4. Refused(i, g, Refuse(g))
      BY <1>1, <2>3, Refuses DEF Ready, Reason, NotEmulated
    <2>5. QED
      BY <2>1, <2>4, AfterSetup DEF Handled, Ready
  <1>4. CASE h.fs # "off" /\ StaticMode(i)
    <2>1. emulate_fp(i, h) = fp_emulation_table(i, g)
      BY <1>4 DEF emulate_fp
    <2> HIDE DEF g
    <2>2. Handled(i, g, fp_emulation_table(i, g))
      <3>1. CASE i.k \in {"fadd", "fsub"}
        <4>1. fp_emulation_table(i, g) = emulate_any_fadd(i, g, i.k = "fsub")
          BY <3>1 DEF fp_emulation_table, emulate_fadd, emulate_fsub
        <4>2. QED
          BY <1>1, <3>1, <4>1, FAdd
      <3>2. CASE i.k \in {"fmul", "fdiv"}
        BY <1>1, <3>2, FMulDiv DEF fp_emulation_table
      <3>3. CASE i.k = "fsgnj"
        BY <1>1, <3>3, FSgnj DEF fp_emulation_table
      <3>4. CASE i.k = "fmin"
        BY <1>1, <3>4, FMin DEF fp_emulation_table
      <3>5. CASE i.k = "fcvt_ff"
        BY <1>1, <3>5, FCvtFF DEF fp_emulation_table
      <3>6. CASE i.k = "fsqrt"
        BY <1>1, <3>6, FSqrt DEF fp_emulation_table
      <3>7. CASE i.k = "fcmp"
        BY <1>1, <3>7, FCmp DEF fp_emulation_table
      <3>8. CASE i.k = "fcvt_if"
        BY <1>1, <3>8, FCvtIF DEF fp_emulation_table
      <3>9. CASE i.k = "fcvt_fi"
        BY <1>1, <3>9, FCvtFI DEF fp_emulation_table
      <3>10. CASE i.k \in {"fmv_x_s", "fmv_x_d", "fclass"}
        BY <1>1, <3>10, FMv DEF fp_emulation_table
      <3>11. CASE i.k \in {"fmv_s_x", "fmv_d_x"}
        BY <1>1, <3>11, FMv DEF fp_emulation_table
      <3>12. QED
        BY <3>1, <3>2, <3>3, <3>4, <3>5, <3>6, <3>7, <3>8, <3>9, <3>10, <3>11 DEF Float
    <2>3. QED
      BY <2>1, <2>2, AfterSetup DEF Handled, Ready, g
  <1>5. QED
    BY <1>2, <1>3, <1>4

LEMMA MulDivHandled ==
  ASSUME NEW i, NEW h, Ready(i, h)
  PROVE  /\ i.k \in MulDiv => Handled(i, h, emulate_mul_div(i, h))
         /\ i.k \in MulDiv32 => Handled(i, h, emulate_mul_div32(i, h))
  <1>1. ASSUME i.k \in MulDiv PROVE Handled(i, h, emulate_mul_div(i, h))
    <2>1. PICK v : emulate_mul_div(i, h) =
                     IF i.k \in {"mul", "div", "divu", "rem", "remu", "mulh", "mulhu", "mulhsu"}
                     THEN Done(SET_RD(i, h, v)) ELSE Refuse(h)
      BY DEF emulate_mul_div
    <2>2. i.k \notin ToFloat
      BY <1>1 DEF MulDiv, ToFloat, FloatLoads, Fused, FusedOp
    <2>3. QED
      BY <1>1, <2>1, <2>2, WritesRd DEF Handled, Ready, MulDiv
  <1>2. ASSUME i.k \in MulDiv32 PROVE Handled(i, h, emulate_mul_div32(i, h))
    <2>1. i.k \notin ToFloat
      BY <1>2 DEF MulDiv32, ToFloat, FloatLoads, Fused, FusedOp
    <2>2. CASE i.k = "mulw"
      <3>1. PICK v : emulate_mul_div32(i, h) = Done(SET_RD(i, h, v))
        BY <2>2 DEF emulate_mul_div32
      <3>2. QED
        BY <2>1, <3>1, WritesRd DEF Handled, Ready
    <2>3. CASE i.k # "mulw"
      <3>1. emulate_mul_div32(i, h) = Refuse(h)
        BY <2>3 DEF emulate_mul_div32
      <3>2. i.k \in NotEmulated
        BY <1>2, <2>3 DEF MulDiv32, NotEmulated
      <3>3. QED
        BY <3>1, <3>2, Refuses DEF Handled, Ready, Reason
    <2>4. QED
      BY <2>2, <2>3
  <1>3. QED
    BY <1>1, <1>2

(* A CSR is written with an integer, whatever the bits that are set.       *)
LEMMA NumberType ==
  ASSUME NEW v, NEW w
  PROVE  /\ NumberOf(BitsOf(v) \union BitsOf(w)) \in Int
         /\ NumberOf(BitsOf(v) \ BitsOf(w)) \in Int
  <1>1. XLen \in Nat
    BY EmulationAssumption DEF XLen
  <1>2. IsFiniteSet(0..(XLen - 1))
    BY <1>1, FS_Interval
  <1>3. ASSUME NEW s \in SUBSET (0..(XLen - 1))
        PROVE  NumberOf(s) \in Int
    <2>1. IsFiniteSet(s)
      BY <1>2, FS_Subset
    <2>2. \A j \in s : j \in Nat
      BY <1>1
    <2>3. \A j \in s : [m \in s |-> 2 ^ m][j] \in Int
      BY <2>2
    <2>4. QED
      BY <2>1, <2>3, SumType DEF NumberOf
  <1>4. BitsOf(v) \union BitsOf(w) \in SUBSET (0..(XLen - 1)) /\ BitsOf(v) \ BitsOf(w) \in SUBSET (0..(XLen - 1))
    BY DEF BitsOf
  <1>5. QED
    BY <1>3, <1>4

LEMMA CsrWritten ==
  ASSUME NEW i, NEW h, NEW csr, NEW v \in Int, IsHart(h), i.k = "csr"
  PROVE  Effect(i, h, emulate_write_csr(csr, h, v))
  <1>1. ASSUME NEW n \in Int PROVE Effect(i, h, SET_FCSR(h, n))
    <2>1. n % 256 \in Int
      OBVIOUS
    <2>2. QED
      BY <2>1, SetTp DEF SET_FCSR
  <1>2. GET_FFLAGS(h) \in Int /\ GET_FRM(h) \in Int
    BY DEF IsHart, GET_FFLAGS, GET_FRM, GET_FCSR
  <1>3. GET_FFLAGS(h) + v * 32 \in Int /\ GET_FRM(h) * 32 + (v % 32) \in Int
    BY <1>2
  <1>4. Effect(i, h, SET_FRM(h, v)) /\ Effect(i, h, SET_FFLAGS(h, v)) /\ Effect(i, h, SET_FCSR(h, v))
    BY <1>1, <1>3 DEF SET_FRM, SET_FFLAGS
  <1>5. QED
    BY <1>4 DEF emulate_write_csr

LEMMA CsrHandled ==
  ASSUME NEW i, NEW h, Ready(i, h), i.k = "csr", \A r \in XRegs : h.x[r] \in Int
  PROVE  Handled(i, h, emulate_system(i, h))
  <1>1. i.k \notin ToFloat /\ (i.rm \in {0, 4} \/ i.csr = "other" => Reserved(i))
    BY DEF ToFloat, FloatLoads, Fused, FusedOp, Reserved
  <1>2. CASE i.csr \notin {"frm", "fflags", "fcsr"} \/ h.fs = "off" \/ i.rm % 4 = 0
    <2>1. emulate_system(i, h) = Refuse(h)
      BY <1>2 DEF emulate_system
    <2>2. Reason(i, h)
      BY <1>1, <1>2 DEF Reason, Ready, IsInsn
    <2>3. QED
      BY <2>1, <2>2, Refuses DEF Handled, Ready
  <1>3. CASE ~ (i.csr \notin {"frm", "fflags", "fcsr"} \/ h.fs = "off" \/ i.rm % 4 = 0)
    <2> DEFINE old == emulate_read_csr(i.csr, h)
               arg == IF i.rm >= 5 THEN i.rs1 ELSE h.x[i.rs1]
               new == CASE i.rm % 4 = 1 -> arg
                        [] i.rm % 4 = 2 -> NumberOf(BitsOf(old) \union BitsOf(arg))
                        [] OTHER        -> NumberOf(BitsOf(old) \ BitsOf(arg))
               h1  == IF i.rm % 4 = 1 \/ i.rs1 # 0 THEN emulate_write_csr(i.csr, h, new) ELSE h
    <2>1. emulate_system(i, h) = Done(SET_RD(i, h1, old))
      BY <1>3 DEF emulate_system
    <2>2. new \in Int
      <3>1. arg \in Int
        BY DEF Ready, IsInsn, XRegs
      <3> HIDE DEF arg, old
      <3>2. QED
        BY <3>1, NumberType
    <2> HIDE DEF new, old
    <2>3. Effect(i, h, h1)
      <3>1. Effect(i, h, emulate_write_csr(i.csr, h, new))
        BY <2>2, CsrWritten DEF Ready
      <3>2. Effect(i, h, h)
        BY EffectRefl DEF Ready
      <3>3. QED
        BY <3>1, <3>2
    <2> HIDE DEF h1
    <2>4. IsHart(h1)
      BY <2>3 DEF Effect
    <2>5. Effect(i, h1, SET_RD(i, h1, old))
      BY <1>1, <2>4, SetRd
    <2>6. QED
      BY <2>1, <2>3, <2>5, EffectTrans, Completes DEF Handled
  <1>4. QED
    BY <1>2, <1>3

(* Memory.                                                                 *)
LEMMA Stored ==
  ASSUME NEW i, NEW h, NEW v, IsHart(h), i.k \in MisalignedStores \union FloatStores
  PROVE  LET g == StoreBytes(h, Address(i, h), v, SizeOf[i.k])
         IN  /\ Effect(i, h, g) /\ Untouched(i, h, g)
             /\ g.csrs = h.csrs /\ g.cause = h.cause
  <1> DEFINE a == Address(i, h)
             n == SizeOf[i.k]
             g == StoreBytes(h, a, v, n)
             Written == {j \in 0..(n - 1) : Reaches(h, a, j + 1)}
  <1> HIDE DEF a, n
  <1>1. g = [h EXCEPT !.mem = [b \in DOMAIN h.mem |->
               IF b - a \in Written THEN (v \div 2 ^ (ByteBits * (b - a))) % 2 ^ ByteBits
               ELSE h.mem[b]]]
    BY DEF StoreBytes, IsHart
  <1>2. /\ g.x = h.x /\ g.f = h.f /\ g.tp = h.tp /\ g.pages = h.pages
        /\ g.fs = h.fs /\ g.pc = h.pc /\ g.csrs = h.csrs /\ g.cause = h.cause
        /\ g.mem = [b \in DOMAIN h.mem |->
               IF b - a \in Written THEN (v \div 2 ^ (ByteBits * (b - a))) % 2 ^ ByteBits
               ELSE h.mem[b]]
    <2> HIDE DEF Written, g
    <2> QED
      BY <1>1 DEF IsHart
  <1>3. g = [x |-> g.x, f |-> g.f, tp |-> g.tp, mem |-> g.mem, pages |-> g.pages, fs |-> g.fs,
             pc |-> g.pc, ret |-> g.ret, csrs |-> g.csrs, cause |-> g.cause, ub |-> g.ub]
    <2> HIDE DEF Written, g
    <2> QED
      BY <1>1 DEF IsHart
  <1> HIDE DEF g
  <1>4. IsHart(g)
    BY <1>2, <1>3 DEF IsHart
  <1>5. DOMAIN g.mem = DOMAIN h.mem /\ \A b \in DOMAIN g.mem : g.mem[b] = h.mem[b] \/ b - a \in 0..(n - 1)
    BY <1>2
  <1>6. Effect(i, h, g)
    BY <1>2, <1>4 DEF Effect
  <1>7. Untouched(i, h, g)
    BY <1>2, <1>4, <1>5 DEF Untouched, a, n
  <1>8. QED
    BY <1>2, <1>6, <1>7 DEF g, a, n

LEMMA FaultRefused ==
  ASSUME NEW i, NEW h, NEW h1, Untouched(i, h, h1), i.k \in Memory,
         ~ Reaches(h, Address(i, h), SizeOf[i.k])
  PROVE  Refused(i, h, RefuseFault(h1))
  <1> DEFINE k == Faulted(h1)
             g == restore_mstatus(k)
  <1>1. IsHart(h1)
    BY DEF Untouched
  <1>2. /\ k.x = h1.x /\ k.f = h1.f /\ k.tp = h1.tp /\ k.mem = h1.mem /\ k.pages = h1.pages
        /\ k.fs = h1.fs /\ k.pc = h1.pc /\ k.cause = "fault"
        /\ k = [x |-> k.x, f |-> k.f, tp |-> k.tp, mem |-> k.mem, pages |-> k.pages, fs |-> k.fs,
                pc |-> k.pc, ret |-> k.ret, csrs |-> k.csrs, cause |-> k.cause, ub |-> k.ub]
    <2> DEFINE j == [h1 EXCEPT !.csrs = "nested"]
    <2>1. k = [j EXCEPT !.cause = "fault"]
      BY DEF Faulted
    <2>2. /\ j.x = h1.x /\ j.f = h1.f /\ j.tp = h1.tp /\ j.mem = h1.mem /\ j.pages = h1.pages
          /\ j.fs = h1.fs /\ j.pc = h1.pc
          /\ j = [x |-> j.x, f |-> j.f, tp |-> j.tp, mem |-> j.mem, pages |-> j.pages, fs |-> j.fs,
                  pc |-> j.pc, ret |-> j.ret, csrs |-> j.csrs, cause |-> j.cause, ub |-> j.ub]
      BY <1>1 DEF IsHart
    <2> HIDE DEF k, j
    <2>3. QED
      BY <2>1, <2>2
  <1> HIDE DEF k
  <1>3. /\ g.x = k.x /\ g.f = k.f /\ g.tp = k.tp /\ g.mem = k.mem /\ g.pages = k.pages
        /\ g.fs = k.fs /\ g.pc = k.pc /\ g.csrs = "trap" /\ g.cause = k.cause
        /\ g = [x |-> g.x, f |-> g.f, tp |-> g.tp, mem |-> g.mem, pages |-> g.pages, fs |-> g.fs,
                pc |-> g.pc, ret |-> g.ret, csrs |-> g.csrs, cause |-> g.cause, ub |-> g.ub]
    BY <1>2 DEF restore_mstatus
  <1>4. RefuseFault(h1) = Refuse(g)
    BY DEF RefuseFault, k
  <1> HIDE DEF g
  <1>5. IsHart(g)
    BY <1>1, <1>2, <1>3 DEF IsHart
  <1>6. Untouched(i, h, g)
    BY <1>2, <1>3, <1>5 DEF Untouched
  <1>7. QED
    BY <1>2, <1>3, <1>4, <1>6 DEF Refused

LEMMA Loaded ==
  ASSUME NEW i, NEW h, NEW v, IsHart(h), i.k \in MisalignedLoads \union FloatLoads
  PROVE  Completed(i, h, Done(SetLoaded(i, h, v)))
  <1>1. CASE i.k \in FloatLoads
    <2>1. i.k \in ToFloat /\ i.k \in {"flw", "fld"}
      BY <1>1 DEF ToFloat, FloatLoads
    <2>2. SetLoaded(i, h, v) = SET_F32_RD(i, h, v) \/ SetLoaded(i, h, v) = SET_F64_RD(i, h, v)
      BY <2>1 DEF SetLoaded
    <2>3. QED
      BY <2>1, <2>2, SetF32, SetFReg, Completes
  <1>2. CASE i.k \in MisalignedLoads
    <2>1. i.k \notin ToFloat /\ i.k \notin {"flw", "fld"}
      BY <1>2 DEF ToFloat, FloatLoads, MisalignedLoads, Fused, FusedOp
    <2>2. PICK w : SetLoaded(i, h, v) = SET_RD(i, h, w)
      BY <2>1 DEF SetLoaded
    <2>3. QED
      BY <2>1, <2>2, WritesRd
  <1>3. QED
    BY <1>1, <1>2

LEMMA LoadHandled ==
  ASSUME NEW i, NEW h, Ready(i, h), i.k \in MisalignedLoads \union FloatLoads
  PROVE  Handled(i, h, misaligned_load_trap(i, h))
  <1>1. i.k \in Memory
    BY DEF Memory
  <1>2. CASE FetchFails(h)
    <2>1. misaligned_load_trap(i, h) = Refuse(h)
      BY <1>2 DEF misaligned_load_trap
    <2>2. QED
      BY <1>2, <2>1, Refuses DEF Handled, Ready, Reason, FetchFails
  <1>3. CASE ~ FetchFails(h) /\ ~ Reaches(h, Address(i, h), SizeOf[i.k])
    <2>1. misaligned_load_trap(i, h) = RefuseFault(h)
      BY <1>3 DEF misaligned_load_trap
    <2>2. QED
      BY <1>1, <1>3, <2>1, FaultRefused, UntouchedRefl DEF Handled, Ready
  <1>4. CASE ~ FetchFails(h) /\ Reaches(h, Address(i, h), SizeOf[i.k])
    <2>1. PICK v : misaligned_load_trap(i, h) = Done(SetLoaded(i, h, v))
      BY <1>4 DEF misaligned_load_trap
    <2>2. QED
      BY <2>1, Loaded DEF Handled, Ready
  <1>5. QED
    BY <1>2, <1>3, <1>4

LEMMA StoreHandled ==
  ASSUME NEW i, NEW h, Ready(i, h), i.k \in MisalignedStores \union FloatStores
  PROVE  Handled(i, h, misaligned_store_trap(i, h))
  <1> DEFINE g == StoreBytes(h, Address(i, h), StoredValue(i, h), SizeOf[i.k])
  <1>1. i.k \in Memory
    BY DEF Memory
  <1>2. Effect(i, h, g) /\ Untouched(i, h, g)
    BY Stored DEF Ready
  <1>3. CASE FetchFails(h)
    <2>1. misaligned_store_trap(i, h) = Refuse(h)
      BY <1>3 DEF misaligned_store_trap
    <2>2. QED
      BY <1>3, <2>1, Refuses DEF Handled, Ready, Reason, FetchFails
  <1>4. CASE ~ FetchFails(h) /\ ~ Reaches(h, Address(i, h), SizeOf[i.k])
    <2>1. misaligned_store_trap(i, h) = RefuseFault(g)
      BY <1>4 DEF misaligned_store_trap
    <2> HIDE DEF g
    <2>2. QED
      BY <1>1, <1>2, <1>4, <2>1, FaultRefused DEF Handled
  <1>5. CASE ~ FetchFails(h) /\ Reaches(h, Address(i, h), SizeOf[i.k])
    <2>1. misaligned_store_trap(i, h) = Done(g)
      BY <1>5 DEF misaligned_store_trap
    <2> HIDE DEF g
    <2>2. QED
      BY <1>2, <2>1, Completes DEF Handled
  <1>6. QED
    BY <1>3, <1>4, <1>5

LEMMA FloatMemoryHandled ==
  ASSUME NEW i, NEW h, Ready(i, h)
  PROVE  /\ i.k \in FloatLoads => Handled(i, h, emulate_float_load(i, h))
         /\ i.k \in FloatStores => Handled(i, h, emulate_float_store(i, h))
  <1> DEFINE a == Address(i, h)
             n == SizeOf[i.k]
  <1>1. ASSUME i.k \in FloatLoads PROVE Handled(i, h, emulate_float_load(i, h))
    <2>1. CASE a % n # 0
      <3>1. emulate_float_load(i, h) = misaligned_load_trap(i, h)
        BY <2>1 DEF emulate_float_load
      <3>2. QED
        BY <1>1, <3>1, LoadHandled
    <2>2. CASE a % n = 0 /\ ~ Reaches(h, a, n)
      <3>1. emulate_float_load(i, h) = RefuseFault(h)
        BY <2>2 DEF emulate_float_load
      <3>2. QED
        BY <1>1, <2>2, <3>1, FaultRefused, UntouchedRefl DEF Handled, Ready, Memory
    <2>3. CASE a % n = 0 /\ Reaches(h, a, n)
      <3>1. emulate_float_load(i, h) = Done(SetLoaded(i, h, WordAt(h, a, n)))
        BY <2>3 DEF emulate_float_load
      <3>2. QED
        BY <1>1, <3>1, Loaded DEF Handled, Ready
    <2>4. QED
      BY <2>1, <2>2, <2>3
  <1>2. ASSUME i.k \in FloatStores PROVE Handled(i, h, emulate_float_store(i, h))
    <2>1. CASE a % n # 0
      <3>1. emulate_float_store(i, h) = misaligned_store_trap(i, h)
        BY <2>1 DEF emulate_float_store
      <3>2. QED
        BY <1>2, <3>1, StoreHandled
    <2>2. CASE a % n = 0 /\ ~ Reaches(h, a, n)
      <3>1. emulate_float_store(i, h) = RefuseFault(h)
        BY <2>2 DEF emulate_float_store
      <3>2. QED
        BY <1>2, <2>2, <3>1, FaultRefused, UntouchedRefl DEF Handled, Ready, Memory
    <2>3. CASE a % n = 0 /\ Reaches(h, a, n)
      <3>1. emulate_float_store(i, h) = Done(StoreBytes(h, a, StoredValue(i, h), n))
        BY <2>3 DEF emulate_float_store
      <3>2. QED
        BY <1>2, <3>1, Stored, Completes DEF Handled, Ready
    <2>4. QED
      BY <2>1, <2>2, <2>3
  <1>3. QED
    BY <1>1, <1>2

(* Every instruction that comes to the monitor is completed or refused.    *)
LEMMA EveryInsnHandled ==
  ASSUME NEW i, NEW h, Ready(i, h), i.k = "csr" => \A r \in XRegs : h.x[r] \in Int
  PROVE  Handled(i, h, Handle(i, h))
  <1>1. CASE i.k \in MisalignedLoads
    <2>1. Handle(i, h) = misaligned_load_trap(i, h)
      BY <1>1 DEF Handle, MisalignedLoads, MisalignedStores
    <2>2. QED
      BY <1>1, <2>1, LoadHandled
  <1>2. CASE i.k \in MisalignedStores
    <2>1. Handle(i, h) = misaligned_store_trap(i, h)
      BY <1>2 DEF Handle, MisalignedStores, MisalignedLoads
    <2>2. QED
      BY <1>2, <2>1, StoreHandled
  <1>3. CASE i.k \notin MisalignedLoads \union MisalignedStores
    <2>1. Handle(i, h) = illegal_insn_trap(i, h)
      BY <1>3 DEF Handle
    <2>2. CASE FetchFails(h)
      <3>1. illegal_insn_trap(i, h) = Refuse(h)
        BY <2>2 DEF illegal_insn_trap
      <3>2. QED
        BY <2>1, <2>2, <3>1, Refuses DEF Handled, Ready, Reason, FetchFails
    <2>3. CASE ~ FetchFails(h)
      <3>1. CASE i.k \in FloatLoads
        <4>1. illegal_insn_trap(i, h) = emulate_float_load(i, h)
          BY <2>3, <3>1 DEF illegal_insn_trap, FloatLoads, FloatStores, MulDiv, MulDiv32, Fused, FusedOp, Float
        <4>2. QED
          BY <2>1, <3>1, <4>1, FloatMemoryHandled
      <3>2. CASE i.k \in FloatStores
        <4>1. illegal_insn_trap(i, h) = emulate_float_store(i, h)
          BY <2>3, <3>2 DEF illegal_insn_trap, FloatLoads, FloatStores, MulDiv, MulDiv32, Fused, FusedOp, Float
        <4>2. QED
          BY <2>1, <3>2, <4>1, FloatMemoryHandled
      <3>3. CASE i.k \in MulDiv
        <4>1. illegal_insn_trap(i, h) = emulate_mul_div(i, h)
          BY <2>3, <3>3 DEF illegal_insn_trap, FloatLoads, FloatStores, MulDiv, MulDiv32, Fused, FusedOp, Float
        <4>2. QED
          BY <2>1, <3>3, <4>1, MulDivHandled
      <3>4. CASE i.k \in MulDiv32
        <4>1. illegal_insn_trap(i, h) = emulate_mul_div32(i, h)
          BY <2>3, <3>4 DEF illegal_insn_trap, FloatLoads, FloatStores, MulDiv, MulDiv32, Fused, FusedOp, Float
        <4>2. QED
          BY <2>1, <3>4, <4>1, MulDivHandled
      <3>5. CASE i.k \in Fused
        <4>1. illegal_insn_trap(i, h) = emulate_any_fmadd(i, h)
          BY <2>3, <3>5 DEF illegal_insn_trap, FloatLoads, FloatStores, MulDiv, MulDiv32, Fused, FusedOp, Float
        <4>2. QED
          BY <2>1, <3>5, <4>1, FusedHandled
      <3>6. CASE i.k \in Float
        <4>1. illegal_insn_trap(i, h) = emulate_fp(i, h)
          BY <2>3, <3>6 DEF illegal_insn_trap, FloatLoads, FloatStores, MulDiv, MulDiv32, Fused, FusedOp, Float
        <4>2. QED
          BY <2>1, <3>6, <4>1, FloatHandled
      <3>7. CASE i.k = "csr"
        <4>1. illegal_insn_trap(i, h) = emulate_system(i, h)
          BY <2>3, <3>7 DEF illegal_insn_trap, FloatLoads, FloatStores, MulDiv, MulDiv32, Fused, FusedOp, Float
        <4>2. QED
          BY <2>1, <3>7, <4>1, CsrHandled
      <3>8. CASE i.k = "other"
        <4>1. illegal_insn_trap(i, h) = Refuse(h)
          BY <2>3, <3>8 DEF illegal_insn_trap, FloatLoads, FloatStores, MulDiv, MulDiv32, Fused, FusedOp, Float
        <4>2. QED
          BY <2>1, <3>8, <4>1, Refuses DEF Handled, Ready, Reason, NotEmulated
      <3>9. i.k \in FloatLoads \union FloatStores \union MulDiv \union MulDiv32 \union Fused \union Float
                    \union {"csr", "other"}
        BY <1>3 DEF Ready, IsInsn, Kinds, Memory, IntArgs, Float
      <3>10. QED
        BY <3>1, <3>2, <3>3, <3>4, <3>5, <3>6, <3>7, <3>8, <3>9
    <2>4. QED
      BY <2>2, <2>3
  <1>4. QED
    BY <1>1, <1>2, <1>3

-----------------------------------------------------------------------------
(* The machine as a whole.                                                 *)

Fields == {"x", "f", "tp", "mem", "pages", "fs", "pc", "ret", "csrs", "cause", "ub"}

LEMMA HartOfFields ==
  ASSUME NEW h, h = [l \in Fields |-> h[l]]
  PROVE  h = [x |-> h.x, f |-> h.f, tp |-> h.tp, mem |-> h.mem, pages |-> h.pages, fs |-> h.fs,
              pc |-> h.pc, ret |-> h.ret, csrs |-> h.csrs, cause |-> h.cause, ub |-> h.ub]
  BY DEF Fields

LEMMA FieldsOfHart ==
  ASSUME NEW h, IsHart(h)
  PROVE  h = [l \in Fields |-> h[l]]
  BY DEF Fields, IsHart

(* The registers and the memory an instruction is issued with.             *)
MemoryOperands(h, a, v, m, ps, fs) ==
    [h EXCEPT !.x[1] = a, !.x[2] = v, !.f[2] = v, !.mem = m, !.pages = ps, !.fs = fs]
IntegerOperands(h, a, b, fs, ub) == [h EXCEPT !.x[1] = a, !.x[2] = b, !.fs = fs, !.ub = ub]
FloatOperands(h, a, b, c, fs) == [h EXCEPT !.f = <<a, b, c>>, !.fs = fs]

LEMMA MemoryIssued ==
  ASSUME NEW h, IsHart(h), NEW a, NEW v, NEW m, NEW ps, NEW fs
  PROVE  LET g == MemoryOperands(h, a, v, m, ps, fs)
         IN  IsHart(g) /\ g.x[0] = h.x[0]
  <1> DEFINE g == MemoryOperands(h, a, v, m, ps, fs)
  <1>1. h = [l \in Fields |-> h[l]]
    BY FieldsOfHart
  <1>2. g = [l \in Fields |-> g[l]]
    BY <1>1 DEF MemoryOperands
  <1>3. /\ g.x = [h.x EXCEPT ![1] = a, ![2] = v] /\ g.f = [h.f EXCEPT ![2] = v] /\ g.tp = h.tp
    BY <1>1 DEF Fields, MemoryOperands
  <1> HIDE DEF g
  <1>4. IsHart(g) /\ g.x[0] = h.x[0]
    BY <1>2, <1>3, HartOfFields DEF IsHart, XRegs
  <1>5. QED
    BY <1>4 DEF g

LEMMA IntegerIssued ==
  ASSUME NEW h, IsHart(h), NEW a, NEW b, NEW fs, NEW ub
  PROVE  LET g == IntegerOperands(h, a, b, fs, ub)
         IN  IsHart(g) /\ g.x = [h.x EXCEPT ![1] = a, ![2] = b]
  <1> DEFINE g == IntegerOperands(h, a, b, fs, ub)
  <1>1. h = [l \in Fields |-> h[l]]
    BY FieldsOfHart
  <1>2. g = [l \in Fields |-> g[l]]
    BY <1>1 DEF IntegerOperands
  <1>3. g.x = [h.x EXCEPT ![1] = a, ![2] = b] /\ g.f = h.f /\ g.tp = h.tp
    BY <1>1 DEF Fields, IntegerOperands
  <1> HIDE DEF g
  <1>4. IsHart(g)
    BY <1>2, <1>3, HartOfFields DEF IsHart
  <1>5. QED
    BY <1>3, <1>4 DEF g

LEMMA FloatIssued ==
  ASSUME NEW h, IsHart(h), NEW a, NEW b, NEW c, NEW fs
  PROVE  LET g == FloatOperands(h, a, b, c, fs)
         IN  IsHart(g) /\ g.x = h.x
  <1> DEFINE g == FloatOperands(h, a, b, c, fs)
  <1>1. h = [l \in Fields |-> h[l]]
    BY FieldsOfHart
  <1>2. g = [l \in Fields |-> g[l]]
    BY <1>1 DEF FloatOperands
  <1>3. g.x = h.x /\ g.f = <<a, b, c>> /\ g.tp = h.tp
    BY <1>1 DEF Fields, FloatOperands
  <1>4. <<a, b, c>> = [r \in FRegs |-> <<a, b, c>>[r]]
    BY DEF FRegs
  <1> HIDE DEF g
  <1>5. IsHart(g)
    BY <1>2, <1>3, <1>4, HartOfFields DEF IsHart
  <1>6. QED
    BY <1>3, <1>5 DEF g

(* What the supervisor changes.                                            *)
WithPages(h, v) == [h EXCEPT !.pages = v]
WithFs(h, v) == [h EXCEPT !.fs = v]

LEMMA PagesMapped ==
  ASSUME NEW h, IsHart(h), NEW v
  PROVE  /\ IsHart(WithPages(h, v)) /\ WithPages(h, v).pages = v /\ WithPages(h, v).x = h.x
         /\ WithPages(h, v).f = h.f /\ WithPages(h, v).mem = h.mem
         /\ WithPages(h, v).fs = h.fs /\ WithPages(h, v).pc = h.pc
  <1> DEFINE g == WithPages(h, v)
  <1>1. h = [l \in Fields |-> h[l]]
    BY FieldsOfHart
  <1>2. g = [l \in Fields |-> g[l]]
    BY <1>1 DEF WithPages
  <1>3. /\ g.pages = v /\ g.x = h.x /\ g.f = h.f /\ g.tp = h.tp
        /\ g.mem = h.mem /\ g.fs = h.fs /\ g.pc = h.pc
    BY <1>1 DEF Fields, WithPages
  <1> HIDE DEF g
  <1>4. IsHart(g)
    BY <1>2, <1>3, HartOfFields DEF IsHart
  <1>5. QED
    BY <1>3, <1>4 DEF g

LEMMA FloatEnabled ==
  ASSUME NEW h, IsHart(h), NEW v
  PROVE  /\ IsHart(WithFs(h, v)) /\ WithFs(h, v).fs = v /\ WithFs(h, v).x = h.x
         /\ WithFs(h, v).f = h.f /\ WithFs(h, v).mem = h.mem
         /\ WithFs(h, v).pages = h.pages /\ WithFs(h, v).pc = h.pc
  <1> DEFINE g == WithFs(h, v)
  <1>1. h = [l \in Fields |-> h[l]]
    BY FieldsOfHart
  <1>2. g = [l \in Fields |-> g[l]]
    BY <1>1 DEF WithFs
  <1>3. /\ g.fs = v /\ g.x = h.x /\ g.f = h.f /\ g.tp = h.tp
        /\ g.mem = h.mem /\ g.pages = h.pages /\ g.pc = h.pc
    BY <1>1 DEF Fields, WithFs
  <1> HIDE DEF g
  <1>4. IsHart(g)
    BY <1>2, <1>3, HartOfFields DEF IsHart
  <1>5. QED
    BY <1>3, <1>4 DEF g

LEMMA IdleIsHart ==
  ASSUME NEW slot, NEW fs
  PROVE  /\ IsHart(Idle(slot, fs)) /\ Idle(slot, fs).x[0] = slot
         /\ \A r \in XRegs \ {0} : Idle(slot, fs).x[r] = 0
  BY DEF Idle, IsHart, XRegs, FRegs

(* The way into the monitor and out of it.                                 *)
LEMMA Entered ==
  ASSUME NEW i, NEW h, IsInsn(i), IsHart(h), h.x[0] \in Int
  PROVE  LET g == Enter(i, h)
         IN  /\ Ready(i, g) /\ g.tp = h.x[0] /\ g.x = [h.x EXCEPT ![0] = 0]
             /\ g.f = h.f /\ g.mem = h.mem /\ g.pages = h.pages /\ g.fs = h.fs /\ g.pc = h.pc
  <1> DEFINE c == IF i.k \in MisalignedLoads \union MisalignedStores THEN "misaligned" ELSE "illegal"
             g == [h EXCEPT !.tp = h.x[0], !.x[0] = 0, !.csrs = "trap", !.cause = c]
  <1>1. Enter(i, h) = g
    BY DEF Enter
  <1>2. c # "fault"
    OBVIOUS
  <1> HIDE DEF c
  <1>3. h = [l \in Fields |-> h[l]]
    BY FieldsOfHart
  <1>4. g = [l \in Fields |-> g[l]]
    BY <1>3
  <1>5. /\ g.tp = h.x[0] /\ g.x = [h.x EXCEPT ![0] = 0] /\ g.csrs = "trap" /\ g.cause = c
        /\ g.f = h.f /\ g.mem = h.mem /\ g.pages = h.pages /\ g.fs = h.fs /\ g.pc = h.pc
    BY <1>3 DEF Fields
  <1> HIDE DEF g
  <1>6. IsHart(g)
    BY <1>4, <1>5, HartOfFields DEF IsHart
  <1>7. QED
    BY <1>1, <1>2, <1>5, <1>6 DEF Ready

LEMMA Left ==
  ASSUME NEW h, IsHart(h)
  PROVE  LET g == Leave(h)
         IN  /\ IsHart(g) /\ g.x = [h.x EXCEPT ![0] = h.tp] /\ g.tp = 0
             /\ g.f = h.f /\ g.mem = h.mem /\ g.pages = h.pages /\ g.fs = h.fs /\ g.pc = h.pc
             /\ g.ret = h.ret /\ g.csrs = h.csrs /\ g.cause = h.cause
  <1> DEFINE g == [h EXCEPT !.x[0] = h.tp, !.tp = 0]
  <1>1. Leave(h) = g
    BY DEF Leave
  <1>2. h = [l \in Fields |-> h[l]]
    BY FieldsOfHart
  <1>3. g = [l \in Fields |-> g[l]]
    BY <1>2
  <1>4. /\ g.x = [h.x EXCEPT ![0] = h.tp] /\ g.tp = 0
        /\ g.f = h.f /\ g.mem = h.mem /\ g.pages = h.pages /\ g.fs = h.fs /\ g.pc = h.pc
        /\ g.ret = h.ret /\ g.csrs = h.csrs /\ g.cause = h.cause
    BY <1>2 DEF Fields
  <1> HIDE DEF g
  <1>5. IsHart(g)
    BY <1>3, <1>4, HartOfFields DEF IsHart
  <1>6. QED
    BY <1>1, <1>4, <1>5

LEMMA DoneIs ==
  ASSUME NEW h, IsHart(h)
  PROVE  LET g == Done(h)
         IN  /\ IsHart(g) /\ g.x = h.x /\ g.f = h.f /\ g.tp = h.tp /\ g.mem = h.mem
             /\ g.fs = h.fs /\ g.pc = h.pc + 1 /\ g.ret = 0
  <1> DEFINE g == [h EXCEPT !.pc = h.pc + 1, !.ret = 0]
  <1>1. Done(h) = g
    BY DEF Done, IsHart
  <1>2. h = [l \in Fields |-> h[l]]
    BY FieldsOfHart
  <1>3. g = [l \in Fields |-> g[l]]
    BY <1>2
  <1>4. /\ g.x = h.x /\ g.f = h.f /\ g.tp = h.tp /\ g.mem = h.mem
        /\ g.fs = h.fs /\ g.pc = h.pc + 1 /\ g.ret = 0
    BY <1>2 DEF Fields
  <1> HIDE DEF g
  <1>5. IsHart(g)
    BY <1>3, <1>4, HartOfFields DEF IsHart
  <1>6. QED
    BY <1>1, <1>4, <1>5

LEMMA RefuseIs ==
  ASSUME NEW h, IsHart(h)
  PROVE  LET g == Refuse(h)
         IN  /\ IsHart(g) /\ g.x = h.x /\ g.f = h.f /\ g.tp = h.tp /\ g.mem = h.mem /\ g.pages = h.pages
             /\ g.fs = h.fs /\ g.pc = h.pc /\ g.ret = -1 /\ g.csrs = h.csrs /\ g.cause = h.cause
  <1> DEFINE g == [h EXCEPT !.ret = -1]
  <1>1. Refuse(h) = g
    BY DEF Refuse
  <1>2. h = [l \in Fields |-> h[l]]
    BY FieldsOfHart
  <1>3. g = [l \in Fields |-> g[l]]
    BY <1>2
  <1>4. /\ g.x = h.x /\ g.f = h.f /\ g.tp = h.tp /\ g.mem = h.mem /\ g.pages = h.pages
        /\ g.fs = h.fs /\ g.pc = h.pc /\ g.ret = -1 /\ g.csrs = h.csrs /\ g.cause = h.cause
    BY <1>2 DEF Fields
  <1> HIDE DEF g
  <1>5. IsHart(g)
    BY <1>3, <1>4, HartOfFields DEF IsHart
  <1>6. QED
    BY <1>1, <1>4, <1>5

(* While the monitor or the supervisor has the instruction, the hart is    *)
(* as it was issued but for bytes a store was to write.                    *)
Kept ==
    /\ hart.pc = before.pc /\ hart.pages = before.pages /\ hart.fs = before.fs
    /\ hart.f = before.f /\ Fcsr(hart) = Fcsr(before)
    /\ \A r \in XRegs \ {0} : hart.x[r] = before.x[r]
    /\ DOMAIN hart.mem = DOMAIN before.mem
    /\ insn.k \notin MisalignedStores \union FloatStores => hart.mem = before.mem
    /\ \A b \in DOMAIN hart.mem : \/ hart.mem[b] = before.mem[b]
                                  \/ /\ insn.k \in MisalignedStores \union FloatStores
                                     /\ b - Addr \in 0..(Size - 1)

ProgramInv ==
    /\ IsHart(hart) /\ hart.x[0] \in Int
    /\ IsHart(before) /\ before.x[0] \in Int
    /\ issued \in Nat
    /\ at \in {"program", "monitor", "done", "supervisor"}
    /\ at # "program" => IsInsn(insn)
    /\ at = "program" \/ (at \in {"monitor", "supervisor"} /\ insn.k = "csr") =>
          \A r \in XRegs : hart.x[r] \in Int
    /\ at \in {"monitor", "supervisor"} => Kept
    /\ NothingElseChanges
    /\ RedirectedAsTrapped

LEMMA StartsIdle == Init => ProgramInv
  <1> SUFFICES ASSUME Init PROVE ProgramInv
    OBVIOUS
  <1>1. PICK fcsr \in Fcsrs : hart = Idle(fcsr, "clean")
    BY DEF Init
  <1>2. fcsr \in Int
    BY ProgramAssumption
  <1>3. IsHart(hart) /\ \A r \in XRegs : hart.x[r] \in Int
    BY <1>1, <1>2, IdleIsHart DEF XRegs
  <1>4. before = hart /\ at = "program" /\ issued = 0
    BY DEF Init
  <1>5. QED
    BY <1>3, <1>4 DEF ProgramInv, NothingElseChanges, RedirectedAsTrapped, Ended, XRegs

(* However it is issued, an instruction starts from a hart as it should be.*)
LEMMA Begun ==
  ASSUME ProgramInv, NEW i, NEW h, IsInsn(i), IsHart(h), h.x[0] \in Int,
         i.k = "csr" => \A r \in XRegs : h.x[r] \in Int, Begin(i, h)
  PROVE  ProgramInv'
  <1>1. hart' = h /\ before' = h /\ insn' = i /\ at' = "monitor" /\ issued' = issued + 1
    BY DEF Begin
  <1>2. Kept'
    BY <1>1 DEF Kept, Fcsr
  <1>3. issued' \in Nat
    BY <1>1 DEF ProgramInv
  <1>4. NothingElseChanges' /\ RedirectedAsTrapped'
    BY <1>1 DEF NothingElseChanges, RedirectedAsTrapped, Ended
  <1>5. IsHart(hart)' /\ IsHart(before)' /\ IsInsn(insn)'
    BY <1>1 DEF IsHart, IsInsn
  <1>6. QED
    BY <1>1, <1>2, <1>3, <1>4, <1>5 DEF ProgramInv

LEMMA ProgramInsns ==
  ASSUME ProgramInv, NEW i \in Insns
  PROVE  /\ Issuing
         /\ i.k \in Kinds => IsInsn(i)
  <1>1. Issuing /\ i \in Program[issued + 1]
    BY DEF Insns
  <1>2. issued + 1 \in 1..Len(Program)
    BY <1>1, ProgramAssumption DEF Issuing, ProgramInv
  <1>3. QED
    BY <1>1, <1>2, ProgramAssumption DEF IsInsn

LEMMA IssueKeeps ==
  ASSUME ProgramInv, NEW i \in Insns,
         IssueMemory(i) \/ IssueInteger(i) \/ IssueFloat(i) \/ IssueOther(i)
  PROVE  ProgramInv'
  <1>1. /\ at = "program" /\ IsHart(hart) /\ hart.x[0] \in Int
        /\ \A r \in XRegs : hart.x[r] \in Int
    BY ProgramInsns DEF Issuing, ProgramInv
  <1>2. CASE IssueMemory(i)
    <2>1. i.k \in Memory
      BY <1>2 DEF IssueMemory
    <2>2. IsInsn(i) /\ i.k # "csr"
      BY <2>1, ProgramInsns DEF Kinds, Memory, MisalignedLoads, MisalignedStores, FloatLoads, FloatStores
    <2>3. PICK a \in Addresses, m \in Memories, ps \in PageSets, fs \in {"off", "clean"} :
             Begin(i, MemoryOperands(hart, a, WordAt([mem |-> m], 0, 8), m, ps, fs))
      BY <1>2 DEF IssueMemory, MemoryOperands
    <2> DEFINE h == MemoryOperands(hart, a, WordAt([mem |-> m], 0, 8), m, ps, fs)
    <2>4. IsHart(h) /\ h.x[0] = hart.x[0]
      BY <1>1, MemoryIssued
    <2> HIDE DEF h
    <2>5. QED
      BY <1>1, <2>2, <2>3, <2>4, Begun DEF h
  <1>3. CASE IssueInteger(i)
    <2>1. i.k \in IntArgs
      BY <1>3 DEF IssueInteger
    <2>2. IsInsn(i)
      BY <2>1, ProgramInsns DEF Kinds
    <2>3. PICK a \in (IF i.k = "csr" THEN CsrWords ELSE Words),
               b \in (IF i.k \in MulDiv \union MulDiv32 THEN Words ELSE {0}),
               fs \in {"off", hart.fs}, ub \in BOOLEAN :
             Begin(i, IntegerOperands(hart, a, b, fs, ub))
      BY <1>3 DEF IssueInteger, IntegerOperands
    <2> DEFINE h == IntegerOperands(hart, a, b, fs, ub)
    <2>4. IsHart(h) /\ h.x = [hart.x EXCEPT ![1] = a, ![2] = b]
      BY <1>1, IntegerIssued
    <2>5. i.k = "csr" => a \in Int /\ b = 0
      BY ProgramAssumption DEF MulDiv, MulDiv32
    <2> HIDE DEF h
    <2>6. h.x[0] = hart.x[0] /\ (i.k = "csr" => \A r \in XRegs : h.x[r] \in Int)
      BY <1>1, <2>4, <2>5 DEF IsHart, XRegs
    <2>7. QED
      BY <1>1, <2>2, <2>3, <2>4, <2>6, Begun DEF h
  <1>4. CASE IssueFloat(i)
    <2>1. i.k \in Float \union Fused /\ i.k # "csr"
      BY <1>4 DEF IssueFloat, Float, Fused, FusedOp
    <2>2. IsInsn(i)
      BY <2>1, ProgramInsns DEF Kinds
    <2>3. PICK a, b, c, fs : Begin(i, FloatOperands(hart, a, b, c, fs))
      <3> DEFINE V == CASE i.k \in Fused -> Factors
                        [] i.k \notin Fused /\ Wide(i) -> Doubles
                        [] OTHER -> Singles
                 W0 == IF i.k \in {"fsqrt", "fcvt_if", "fcvt_ff", "fmv_x_s", "fmv_x_d", "fclass"} THEN {0} ELSE V
                 Z == IF i.k \in Fused THEN Addends ELSE {0}
      <3> HIDE DEF V, Z
      <3>1. \E a \in V : \E b \in W0, c \in Z, fs \in {"off", "clean"} :
               Begin(i, FloatOperands(hart, a, b, c, fs))
        BY <1>4 DEF IssueFloat, FloatOperands, V, Z
      <3>2. QED
        BY <3>1
    <2> DEFINE h == FloatOperands(hart, a, b, c, fs)
    <2>4. IsHart(h) /\ h.x = hart.x
      BY <1>1, FloatIssued
    <2> HIDE DEF h
    <2>5. QED
      BY <1>1, <2>1, <2>2, <2>3, <2>4, Begun DEF h
  <1>5. CASE IssueOther(i)
    <2>1. i.k = "other" /\ Begin(i, hart)
      BY <1>5 DEF IssueOther
    <2>2. IsInsn(i)
      BY <2>1, ProgramInsns DEF Kinds
    <2>3. QED
      BY <1>1, <2>1, <2>2, Begun
  <1>6. QED
    BY <1>2, <1>3, <1>4, <1>5

(* The address the handler computes is the one the program means.          *)
LEMMA SameAddress ==
  ASSUME ProgramInv, at = "monitor", NEW e, e = Enter(insn, hart)
  PROVE  /\ Address(insn, e) = Addr
         /\ \A n : Reaches(e, Addr, n) <=> Reaches(before, Addr, n)
  <1>1. /\ IsInsn(insn) /\ IsHart(hart) /\ hart.x[0] \in Int /\ Kept
    BY DEF ProgramInv
  <1>2. e.x = [hart.x EXCEPT ![0] = 0] /\ e.pages = hart.pages
    BY <1>1, Entered
  <1>3. e.x[insn.rs1] = X(insn.rs1)
    BY <1>1, <1>2 DEF IsInsn, IsHart, Kept, X, XRegs
  <1>4. QED
    BY <1>1, <1>2, <1>3 DEF Address, Addr, Kept, Reaches

LEMMA TrapCompleted ==
  ASSUME ProgramInv, Trap, NEW e, e = Enter(insn, hart), Completed(insn, e, Handle(insn, e))
  PROVE  ProgramInv'
  <1>1. /\ at = "monitor" /\ IsInsn(insn) /\ IsHart(hart) /\ hart.x[0] \in Int /\ Kept
        /\ IsHart(before) /\ before.x[0] \in Int /\ issued \in Nat
    BY DEF ProgramInv, Trap
  <1>2. /\ IsHart(e) /\ e.tp = hart.x[0] /\ e.x = [hart.x EXCEPT ![0] = 0]
        /\ e.f = hart.f /\ e.pages = hart.pages /\ e.fs = hart.fs /\ e.pc = hart.pc
    BY <1>1, Entered DEF Ready
  <1>3. PICK h1 : Effect(insn, e, h1) /\ Handle(insn, e) = Done(h1)
    BY DEF Completed
  <1>4. IsHart(h1)
    BY <1>3 DEF Effect
  <1> DEFINE d == Done(h1)
  <1>5. IsHart(d) /\ d.x = h1.x /\ d.f = h1.f /\ d.tp = h1.tp /\ d.fs = h1.fs /\ d.pc = h1.pc + 1 /\ d.ret = 0
    BY <1>4, DoneIs
  <1>6. hart' = Leave(d) /\ insn' = insn /\ before' = before /\ issued' = issued
    BY <1>3 DEF Trap
  <1> HIDE DEF d
  <1>7. /\ IsHart(hart)' /\ hart'.x = [d.x EXCEPT ![0] = d.tp]
        /\ hart'.f = d.f /\ hart'.fs = d.fs /\ hart'.pc = d.pc /\ hart'.ret = d.ret
    <2> DEFINE l == Leave(d)
    <2>1. /\ IsHart(l) /\ l.x = [d.x EXCEPT ![0] = d.tp]
          /\ l.f = d.f /\ l.fs = d.fs /\ l.pc = d.pc /\ l.ret = d.ret
      BY <1>5, Left
    <2> HIDE DEF l
    <2>2. hart' = l
      BY <1>6 DEF l
    <2>3. QED
      BY <2>1, <2>2 DEF IsHart
  <1>8. at' = "done"
    BY <1>5, <1>7 DEF Trap
  <1>9. /\ hart'.x[0] = h1.tp /\ h1.tp \in Int
        /\ \A r \in XRegs \ {0} : hart'.x[r] = h1.x[r] /\ e.x[r] = before.x[r]
    BY <1>1, <1>2, <1>4, <1>5, <1>7 DEF IsHart, XRegs, Kept
  <1>10. hart'.pc = before'.pc + 1
    BY <1>1, <1>2, <1>3, <1>5, <1>6, <1>7 DEF Effect, Kept
  <1>11. \A r \in XRegs \ {0} : r # insn.rd \/ insn.k \in ToFloat => hart'.x[r] = before'.x[r]
    BY <1>3, <1>6, <1>9 DEF Effect
  <1>12. /\ \A r \in FRegs : r # insn.rd \/ insn.k \notin ToFloat => hart'.f[r] = before'.f[r]
         /\ hart'.f # before'.f => hart'.fs = "dirty"
    BY <1>1, <1>2, <1>3, <1>5, <1>6, <1>7 DEF Effect, Kept
  <1>13. Fcsr(hart)' = h1.tp % 256 /\ Fcsr(before)' = e.tp % 256
    BY <1>1, <1>2, <1>6, <1>9 DEF Fcsr, Kept
  <1>14. /\ insn.k # "csr" => Frm(hart)' = Frm(before)' /\ Fflags(before)' \subseteq Fflags(hart)'
         /\ insn.k \notin Computes \union {"csr"} => Fcsr(hart)' = Fcsr(before)'
    <2>1. /\ (h1.tp % 256) \div 32 = (h1.tp \div 32) % 8 /\ FlagsOf(h1.tp % 256) = FlagsOf(h1.tp)
          /\ (e.tp % 256) \div 32 = (e.tp \div 32) % 8 /\ FlagsOf(e.tp % 256) = FlagsOf(e.tp)
      BY <1>1, <1>2, <1>9, LowByte
    <2>2. QED
      BY <1>3, <1>13, <2>1 DEF Effect, Frm, Fflags
  <1>15. NothingElseChanges'
    BY <1>6, <1>10, <1>11, <1>12, <1>14 DEF NothingElseChanges
  <1>16. RedirectedAsTrapped'
    BY <1>8 DEF RedirectedAsTrapped
  <1>17. IsHart(before)' /\ IsInsn(insn)' /\ before'.x[0] \in Int /\ issued' \in Nat
    BY <1>1, <1>6 DEF IsHart, IsInsn
  <1>18. QED
    BY <1>7, <1>8, <1>9, <1>15, <1>16, <1>17 DEF ProgramInv

LEMMA TrapRefused ==
  ASSUME ProgramInv, Trap, NEW e, e = Enter(insn, hart), Refused(insn, e, Handle(insn, e))
  PROVE  ProgramInv'
  <1>1. /\ at = "monitor" /\ IsInsn(insn) /\ IsHart(hart) /\ hart.x[0] \in Int /\ Kept
        /\ IsHart(before) /\ before.x[0] \in Int /\ issued \in Nat
        /\ insn.k = "csr" => \A r \in XRegs : hart.x[r] \in Int
    BY DEF ProgramInv, Trap
  <1>2. /\ IsHart(e) /\ e.tp = hart.x[0] /\ e.x = [hart.x EXCEPT ![0] = 0] /\ e.mem = hart.mem
        /\ e.f = hart.f /\ e.pages = hart.pages /\ e.fs = hart.fs /\ e.pc = hart.pc
    BY <1>1, Entered DEF Ready
  <1>3. PICK h1 : /\ Untouched(insn, e, h1) /\ Handle(insn, e) = Refuse(h1) /\ h1.csrs = "trap"
                  /\ IF h1.cause = "fault"
                     THEN insn.k \in Memory /\ ~ Reaches(e, Address(insn, e), SizeOf[insn.k])
                     ELSE Reason(insn, e)
    BY DEF Refused
  <1>4. IsHart(h1)
    BY <1>3 DEF Untouched
  <1> DEFINE d == Refuse(h1)
  <1>5. /\ IsHart(d) /\ d.x = h1.x /\ d.f = h1.f /\ d.tp = h1.tp /\ d.mem = h1.mem /\ d.pages = h1.pages
        /\ d.fs = h1.fs /\ d.pc = h1.pc /\ d.ret = -1 /\ d.csrs = h1.csrs /\ d.cause = h1.cause
    BY <1>4, RefuseIs
  <1>6. hart' = Leave(d) /\ insn' = insn /\ before' = before /\ issued' = issued
    BY <1>3 DEF Trap
  <1> HIDE DEF d
  <1>7. /\ IsHart(hart)' /\ hart'.x = [d.x EXCEPT ![0] = d.tp] /\ hart'.mem = d.mem
        /\ hart'.pages = d.pages /\ hart'.csrs = d.csrs /\ hart'.cause = d.cause
        /\ hart'.f = d.f /\ hart'.fs = d.fs /\ hart'.pc = d.pc /\ hart'.ret = d.ret
    <2> DEFINE l == Leave(d)
    <2>1. /\ IsHart(l) /\ l.x = [d.x EXCEPT ![0] = d.tp] /\ l.mem = d.mem
          /\ l.pages = d.pages /\ l.csrs = d.csrs /\ l.cause = d.cause
          /\ l.f = d.f /\ l.fs = d.fs /\ l.pc = d.pc /\ l.ret = d.ret
      BY <1>5, Left
    <2> HIDE DEF l
    <2>2. hart' = l
      BY <1>6 DEF l
    <2>3. QED
      BY <2>1, <2>2 DEF IsHart
  <1>8. at' = "supervisor"
    BY <1>5, <1>7 DEF Trap
  <1>9. /\ hart'.x[0] = h1.tp /\ h1.tp \in Int
        /\ \A r \in XRegs \ {0} : hart'.x[r] = hart.x[r]
    BY <1>1, <1>2, <1>3, <1>4, <1>5, <1>7 DEF IsHart, XRegs, Untouched
  <1>10. /\ hart'.pc = hart.pc /\ hart'.pages = hart.pages /\ hart'.fs = hart.fs /\ hart'.f = hart.f
         /\ hart'.csrs = "trap" /\ hart'.cause = h1.cause /\ Fcsr(hart)' = Fcsr(hart)
         /\ DOMAIN hart'.mem = DOMAIN hart.mem
         /\ insn.k \notin MisalignedStores \union FloatStores => hart'.mem = hart.mem
    BY <1>2, <1>3, <1>5, <1>7, <1>9 DEF Untouched, Fcsr
  <1>11. /\ Address(insn, e) = Addr /\ SizeOf[insn.k] = Size
         /\ \A n : Reaches(e, Addr, n) <=> Reaches(before, Addr, n)
    BY <1>1, SameAddress DEF Size
  <1>12. Addr' = Addr /\ Size' = Size
    BY <1>6 DEF Addr, Size, X
  <1>13. \A b \in DOMAIN hart'.mem : \/ hart'.mem[b] = before.mem[b]
                                     \/ /\ insn.k \in MisalignedStores \union FloatStores
                                        /\ b - Addr \in 0..(Size - 1)
    <2>1. \A b \in DOMAIN hart'.mem : \/ hart'.mem[b] = hart.mem[b]
                                      \/ /\ insn.k \in MisalignedStores \union FloatStores
                                         /\ b - Addr \in 0..(Size - 1)
      BY <1>2, <1>3, <1>5, <1>7, <1>11 DEF Untouched
    <2>2. QED
      BY <1>1, <1>10, <2>1 DEF Kept
  <1>14. Kept'
    BY <1>1, <1>6, <1>9, <1>10, <1>12, <1>13 DEF Kept, Fcsr
  <1>15. IF hart'.cause = "fault"
         THEN insn.k \in Memory /\ ~ Reaches(before, Addr, Size)
         ELSE \/ TextPage \notin before.pages
              \/ before.fs = "off" /\ insn.k \in Float \union Fused \union {"csr"}
              \/ insn.k \in NotEmulated
              \/ Reserved(insn)
    BY <1>1, <1>2, <1>3, <1>10, <1>11 DEF Reason, Kept
  <1>16. RedirectedAsTrapped'
    BY <1>1, <1>6, <1>10, <1>12, <1>14, <1>15 DEF RedirectedAsTrapped, Kept
  <1>17. NothingElseChanges'
    BY <1>8 DEF NothingElseChanges, Ended
  <1>18. IsHart(before)' /\ IsInsn(insn)' /\ before'.x[0] \in Int /\ issued' \in Nat
    BY <1>1, <1>6 DEF IsHart, IsInsn
  <1>19. insn'.k = "csr" => \A r \in XRegs : hart'.x[r] \in Int
    BY <1>1, <1>6, <1>9
  <1>20. QED
    BY <1>7, <1>8, <1>9, <1>14, <1>16, <1>17, <1>18, <1>19 DEF ProgramInv

LEMMA TrapKeeps == ProgramInv /\ Trap => ProgramInv'
  <1> SUFFICES ASSUME ProgramInv, Trap PROVE ProgramInv'
    OBVIOUS
  <1>1. /\ at = "monitor" /\ IsInsn(insn) /\ IsHart(hart) /\ hart.x[0] \in Int
        /\ insn.k = "csr" => \A r \in XRegs : hart.x[r] \in Int
    BY DEF ProgramInv, Trap
  <1> DEFINE e == Enter(insn, hart)
  <1>2. Ready(insn, e) /\ e.x = [hart.x EXCEPT ![0] = 0]
    BY <1>1, Entered
  <1>3. insn.k = "csr" => \A r \in XRegs : e.x[r] \in Int
    BY <1>1, <1>2 DEF IsHart
  <1> HIDE DEF e
  <1>4. Handled(insn, e, Handle(insn, e))
    BY <1>2, <1>3, EveryInsnHandled
  <1>5. QED
    BY <1>4, TrapCompleted, TrapRefused DEF Handled, e

(* The supervisor gives the program a page or the FPU and has the          *)
(* instruction retried, or goes on without it.                             *)
LEMMA SupervisorKeeps == ProgramInv /\ (MapPages \/ EnableFloat \/ Continue) => ProgramInv'
  <1>1. ASSUME ProgramInv, MapPages PROVE ProgramInv'
    <2>1. /\ at = "supervisor" /\ at' = "monitor" /\ insn' = insn /\ issued' = issued
          /\ hart' = [hart EXCEPT !.pages = AllPages] /\ before' = [before EXCEPT !.pages = AllPages]
      BY <1>1 DEF MapPages
    <2>2. IsHart(hart) /\ IsHart(before) /\ Kept
      BY <1>1, <2>1 DEF ProgramInv
    <2> DEFINE h == WithPages(hart, AllPages)
               b0 == WithPages(before, AllPages)
    <2>3. /\ IsHart(h) /\ h.pages = AllPages /\ h.x = hart.x /\ h.f = hart.f
          /\ h.mem = hart.mem /\ h.fs = hart.fs /\ h.pc = hart.pc
      BY <2>2, PagesMapped
    <2>4. /\ IsHart(b0) /\ b0.pages = AllPages /\ b0.x = before.x /\ b0.f = before.f
          /\ b0.mem = before.mem /\ b0.fs = before.fs /\ b0.pc = before.pc
      BY <2>2, PagesMapped
    <2> HIDE DEF h, b0
    <2>5. hart' = h /\ before' = b0
      BY <2>1 DEF h, b0, WithPages
    <2>6. Kept'
      BY <2>1, <2>2, <2>3, <2>4, <2>5 DEF Kept, Fcsr, Addr, Size, X
    <2>7. IsHart(hart)' /\ IsHart(before)' /\ IsInsn(insn)'
      BY <1>1, <2>1, <2>3, <2>4, <2>5 DEF IsHart, IsInsn, ProgramInv
    <2>8. NothingElseChanges' /\ RedirectedAsTrapped'
      BY <2>1 DEF NothingElseChanges, RedirectedAsTrapped, Ended
    <2>9. QED
      BY <1>1, <2>1, <2>3, <2>4, <2>5, <2>6, <2>7, <2>8 DEF ProgramInv
  <1>2. ASSUME ProgramInv, EnableFloat PROVE ProgramInv'
    <2>1. /\ at = "supervisor" /\ at' = "monitor" /\ insn' = insn /\ issued' = issued
          /\ hart' = [hart EXCEPT !.fs = "clean"] /\ before' = [before EXCEPT !.fs = "clean"]
      BY <1>2 DEF EnableFloat
    <2>2. IsHart(hart) /\ IsHart(before) /\ Kept
      BY <1>2, <2>1 DEF ProgramInv
    <2> DEFINE h == WithFs(hart, "clean")
               b0 == WithFs(before, "clean")
    <2>3. /\ IsHart(h) /\ h.fs = "clean" /\ h.x = hart.x /\ h.f = hart.f
          /\ h.mem = hart.mem /\ h.pages = hart.pages /\ h.pc = hart.pc
      BY <2>2, FloatEnabled
    <2>4. /\ IsHart(b0) /\ b0.fs = "clean" /\ b0.x = before.x /\ b0.f = before.f
          /\ b0.mem = before.mem /\ b0.pages = before.pages /\ b0.pc = before.pc
      BY <2>2, FloatEnabled
    <2> HIDE DEF h, b0
    <2>5. hart' = h /\ before' = b0
      BY <2>1 DEF h, b0, WithFs
    <2>6. Kept'
      BY <2>1, <2>2, <2>3, <2>4, <2>5 DEF Kept, Fcsr, Addr, Size, X
    <2>7. IsHart(hart)' /\ IsHart(before)' /\ IsInsn(insn)'
      BY <1>2, <2>1, <2>3, <2>4, <2>5 DEF IsHart, IsInsn, ProgramInv
    <2>8. NothingElseChanges' /\ RedirectedAsTrapped'
      BY <2>1 DEF NothingElseChanges, RedirectedAsTrapped, Ended
    <2>9. QED
      BY <1>2, <2>1, <2>3, <2>4, <2>5, <2>6, <2>7, <2>8 DEF ProgramInv
  <1>3. ASSUME ProgramInv, Continue PROVE ProgramInv'
    <2> DEFINE h == Idle(hart.x[0], IF hart.fs = "off" THEN "clean" ELSE hart.fs)
    <2>1. at' = "program" /\ issued' = issued /\ hart' = h /\ before' = h
      BY <1>3 DEF Continue
    <2>2. IsHart(h) /\ h.x[0] = hart.x[0] /\ \A r \in XRegs \ {0} : h.x[r] = 0
      BY IdleIsHart
    <2> HIDE DEF h
    <2>3. IsHart(hart)' /\ IsHart(before)' /\ \A r \in XRegs : hart'.x[r] \in Int
      BY <1>3, <2>1, <2>2 DEF IsHart, ProgramInv
    <2>4. NothingElseChanges' /\ RedirectedAsTrapped'
      BY <2>1 DEF NothingElseChanges, RedirectedAsTrapped, Ended
    <2>5. QED
      BY <1>3, <2>1, <2>3, <2>4 DEF ProgramInv, XRegs
  <1>4. QED
    BY <1>1, <1>2, <1>3

(* The inductive invariant: while the monitor or the supervisor has an      *)
(* instruction, the hart differs from the program's only in bytes a store  *)
(* was to write, however often the instruction was retried.                *)
THEOREM InstructionsKept == Spec => []ProgramInv
  <1>1. Init => ProgramInv
    BY StartsIdle
  <1>2. ProgramInv /\ [Next]_vars => ProgramInv'
    <2> SUFFICES ASSUME ProgramInv, [Next]_vars PROVE ProgramInv'
      OBVIOUS
    <2>1. CASE \E i \in Insns : IssueMemory(i) \/ IssueInteger(i) \/ IssueFloat(i) \/ IssueOther(i)
      BY <2>1, IssueKeeps
    <2>2. CASE Trap
      BY <2>2, TrapKeeps
    <2>3. CASE MapPages \/ EnableFloat \/ Continue
      BY <2>3, SupervisorKeeps
    <2>4. CASE UNCHANGED vars
      BY <2>4 DEF vars, ProgramInv, Kept, IsHart, IsInsn, NothingElseChanges, RedirectedAsTrapped,
                  Ended, Fcsr, Frm, Fflags, Addr, Size, X
    <2>5. QED
      BY <2>1, <2>2, <2>3, <2>4 DEF Next
  <1>3. QED
    BY <1>1, <1>2, PTL DEF Spec

(* An emulated instruction changes its destination and nothing else of the *)
(* hart, whatever the operands, the mode, the memory and the pages.        *)
THEOREM OnlyTheDestination == Spec => []NothingElseChanges
  <1>1. ProgramInv => NothingElseChanges
    BY DEF ProgramInv
  <1>2. QED
    BY <1>1, InstructionsKept, PTL

(* What the supervisor is told of has changed nothing but bytes that a     *)
(* store was to write, and there is a reason for it.                       *)
THEOREM RefusedUntouched == Spec => []RedirectedAsTrapped
  <1>1. ProgramInv => RedirectedAsTrapped
    BY DEF ProgramInv
  <1>2. QED
    BY <1>1, InstructionsKept, PTL


-----------------------------------------------------------------------------
(* Loads and stores.  Whatever the width of a byte, the memory, the        *)
(* address and the pages: one that the monitor carries out by aligned      *)
(* pairs of words or byte by byte has the effect of the one access asked   *)
(* for.  A word of memory is a number written with its bytes as digits.    *)

(* The types of the machine are one, four and eight bytes wide.            *)
LEMMA Widths == XLen \in Nat /\ ByteBits \in Nat \ {0} /\ WordBits = ByteBits * 4 /\ XLen = ByteBits * 8
              /\ XLen = W(F64) /\ Widest = XLen + 2
  BY EmulationAssumption, FormatAssumption, FormatWidths DEF XLen, WordBits, Widest

(* The weight of byte j of a word.                                         *)
Weight(j) == 2 ^ (ByteBits * j)
Base == Weight(1)

(* Weights are positive, the lowest byte has weight one.                   *)
LEMMA PowerType ==
  Weight(0) = 1 /\ Base \in Nat \ {0} /\ \A j \in 0..8 : Weight(j) \in Nat \ {0}
  <1>1. \A j \in 0..8 : ByteBits * j \in 0..XLen
    BY Widths
  <1>2. \A j \in 0..8 : Weight(j) \in Nat \ {0}
    BY <1>1, Powers, Widths DEF Weight
  <1>3. ByteBits * 0 = 0 /\ \A k : k = 0 => 2 ^ k = 1
    BY PowerStep, Widths
  <1>4. QED
    BY <1>2, <1>3 DEF Weight, Base

(* Weights multiply: that is why a word can be cut between its bytes.      *)
LEMMA PowersMultiply ==
  ASSUME NEW j \in 0..8, NEW k \in 0..8, j + k <= 8
  PROVE  Weight(j + k) = Weight(j) * Weight(k)
  <1>1. ByteBits * j \in Nat /\ ByteBits * k \in Nat
    BY Widths
  <1>2. ByteBits * (j + k) = ByteBits * j + ByteBits * k /\ ByteBits * (j + k) <= XLen
    BY Widths
  <1>3. 2 ^ (ByteBits * j + ByteBits * k) = 2 ^ (ByteBits * j) * 2 ^ (ByteBits * k)
    BY <1>1, <1>2, PowerSum, Widths
  <1>4. QED
    BY <1>2, <1>3 DEF Weight

(* The widths of the types in bytes, and the bit of their sign.            *)
SignBit == 2 ^ (ByteBits - 1)

LEMMA TypeWidths ==
  /\ 2 ^ ByteBits = Base /\ 2 ^ WordBits = Weight(4) /\ 2 ^ XLen = Weight(8) /\ 2 ^ (2 * ByteBits) = Weight(2)
  /\ 2 ^ (WordBits - 1) = Weight(3) * SignBit
  /\ 2 ^ (2 * ByteBits - 1) = Weight(1) * SignBit
  /\ SignBit \in Nat \ {0} /\ Base = 2 * SignBit
  <1>1. /\ ByteBits * 1 = ByteBits /\ ByteBits * 4 = WordBits /\ ByteBits * 8 = XLen
        /\ ByteBits * 2 = 2 * ByteBits /\ ByteBits \in 0..XLen /\ ByteBits # 0 /\ ByteBits - 1 \in 0..XLen
        /\ WordBits - 1 = ByteBits * 3 + (ByteBits - 1) /\ 2 * ByteBits - 1 = ByteBits * 1 + (ByteBits - 1)
        /\ ByteBits * 3 \in Nat /\ ByteBits * 1 \in Nat /\ ByteBits - 1 \in Nat
        /\ ByteBits * 3 + (ByteBits - 1) <= XLen /\ ByteBits * 1 + (ByteBits - 1) <= XLen
    BY Widths
  <1>2. 2 ^ ByteBits = 2 * SignBit /\ SignBit \in Nat \ {0}
    BY <1>1, PowerStep, Powers, Widths DEF SignBit
  <1>3. /\ 2 ^ (ByteBits * 3 + (ByteBits - 1)) = Weight(3) * SignBit
        /\ 2 ^ (ByteBits * 1 + (ByteBits - 1)) = Weight(1) * SignBit
    BY <1>1, PowerSum, Widths DEF Weight, SignBit
  <1>4. QED
    BY <1>1, <1>2, <1>3 DEF Base, Weight

-----------------------------------------------------------------------------
(* Words of memory.                                                        *)

(* The n bytes at an address are bytes.                                    *)
BytesAt(h, a, n) == \A j \in 0..(n - 1) : h.mem[a + j] \in 0..(Base - 1)

(* Bytes are integers, and so are their weights.                           *)
LEMMA BytesTyped ==
  ASSUME NEW h, NEW a, NEW n \in 0..8, BytesAt(h, a, n)
  PROVE  \A j \in 0..(n - 1) : /\ h.mem[a + j] \in Int /\ 0 <= h.mem[a + j] /\ h.mem[a + j] < Base
                               /\ j \in 0..8 /\ Weight(j) \in Int
  <1>1. Base \in Nat /\ \A j \in 0..8 : Weight(j) \in Nat
    BY PowerType
  <1>2. \A j \in 0..(n - 1) : h.mem[a + j] \in 0..(Base - 1) /\ j \in 0..8
    BY DEF BytesAt
  <1>3. QED
    BY <1>1, <1>2

(* A word is an integer.                                                   *)
LEMMA WordType ==
  ASSUME NEW h, NEW a \in Int, NEW n \in 0..8, BytesAt(h, a, n)
  PROVE  WordAt(h, a, n) \in Int
  <1> DEFINE w == [j \in 0..(n - 1) |-> h.mem[a + j] * 2 ^ (ByteBits * j)]
  <1>1. \A j \in 0..(n - 1) : w[j] = h.mem[a + j] * Weight(j)
    BY DEF Weight
  <1>2. \A j \in 0..(n - 1) : h.mem[a + j] \in Int /\ Weight(j) \in Int
    BY BytesTyped
  <1> HIDE DEF w
  <1>3. \A j \in 0..(n - 1) : w[j] \in Int
    BY <1>1, <1>2
  <1>4. IsFiniteSet(0..(n - 1))
    BY FS_Interval
  <1>5. SumFunctionOnSet(w, 0..(n - 1)) \in Int
    BY <1>3, <1>4, SumType
  <1>6. QED
    BY <1>5 DEF WordAt, w

(* A word of no bytes is zero.                                             *)
LEMMA WordZero ==
  ASSUME NEW h, NEW a
  PROVE  WordAt(h, a, 0) = 0
  <1> DEFINE z == [j \in {} |-> h.mem[a + j] * 2 ^ (ByteBits * j)]
             g == [s \in SUBSET {} |-> 0]
  <1>1. SumsOf(g, z, {}) /\ g[{}] = 0
    BY DEF SumsOf
  <1>2. IsFiniteSet({})
    BY FS_EmptySet
  <1>3. 0..(0 - 1) = {}
    OBVIOUS
  <1>4. WordAt(h, a, 0) = SumFunctionOnSet(z, {})
    BY <1>3 DEF WordAt
  <1> HIDE DEF z, g
  <1>5. QED
    BY <1>1, <1>2, <1>4, SumIs

(* A word is its bytes below the last one and the last one above them.     *)
LEMMA WordStep ==
  ASSUME NEW h, NEW a \in Int, NEW n \in 0..7, BytesAt(h, a, n + 1)
  PROVE  WordAt(h, a, n + 1) = WordAt(h, a, n) + Weight(n) * h.mem[a + n]
  <1> DEFINE U == 0..n
             T == 0..(n - 1)
             w == [j \in U |-> h.mem[a + j] * 2 ^ (ByteBits * j)]
             v == [j \in T |-> h.mem[a + j] * 2 ^ (ByteBits * j)]
  <1>1. \A j \in U : w[j] \in Int
    <2>1. \A j \in U : w[j] = h.mem[a + j] * Weight(j)
      BY DEF Weight
    <2>2. \A j \in U : h.mem[a + j] \in Int /\ Weight(j) \in Int
      <3>1. U = 0..((n + 1) - 1) /\ n + 1 \in 0..8
        OBVIOUS
      <3> HIDE DEF w
      <3>2. QED
        BY <3>1, BytesTyped
    <2> HIDE DEF w
    <2>3. QED
      BY <2>1, <2>2
  <1>2. \A j \in T : v[j] = w[j]
    OBVIOUS
  <1>3. IsFiniteSet(U) /\ IsFiniteSet(T) /\ T \in SUBSET U /\ T = U \ {n} /\ n \in U
    <2>1. IsFiniteSet(U) /\ IsFiniteSet(T)
      BY FS_Interval
    <2>2. QED
      BY <2>1
  <1>4. w[n] = Weight(n) * h.mem[a + n]
    <2>1. w[n] = h.mem[a + n] * Weight(n)
      BY DEF Weight
    <2>2. h.mem[a + n] \in Int /\ Weight(n) \in Int
      <3>1. n \in 0..((n + 1) - 1) /\ n + 1 \in 0..8
        OBVIOUS
      <3> HIDE DEF w
      <3>2. QED
        BY <3>1, BytesTyped
    <2> HIDE DEF w
    <2>3. QED
      BY <2>1, <2>2
  <1>5. WordAt(h, a, n + 1) = SumFunctionOnSet(w, U)
    <2>1. (n + 1) - 1 = n
      OBVIOUS
    <2>2. QED
      BY <2>1 DEF WordAt
  <1>6. WordAt(h, a, n) = SumFunctionOnSet(v, T)
    BY DEF WordAt
  <1> HIDE DEF w, v, U, T
  <1>7. PICK g : SumsOf(g, w, U)
    BY <1>1, <1>3, SumsExist
  <1> DEFINE g1 == [s \in SUBSET T |-> g[s]]
  <1>8. SumsOf(g1, v, T)
    <2>1. g1 \in [SUBSET T -> Int] /\ g1[{}] = 0
      BY <1>3, <1>7 DEF SumsOf
    <2>2. ASSUME NEW s \in SUBSET T, NEW x \in s PROVE g1[s] = v[x] + g1[s \ {x}]
      <3>1. s \in SUBSET U /\ s \ {x} \in SUBSET T /\ x \in T
        BY <1>3
      <3>2. g[s] = w[x] + g[s \ {x}]
        BY <1>7, <3>1 DEF SumsOf
      <3>3. QED
        BY <1>2, <3>1, <3>2
    <2> HIDE DEF g1
    <2>3. QED
      BY <2>1, <2>2 DEF SumsOf
  <1>9. SumFunctionOnSet(v, T) = g1[T] /\ SumFunctionOnSet(w, U) = g[U]
    <2> HIDE DEF g1
    <2> QED
      BY <1>3, <1>7, <1>8, SumIs
  <1>10. g[U] = w[n] + g[T] /\ g1[T] = g[T] /\ g[T] \in Int
    BY <1>3, <1>7 DEF SumsOf
  <1>11. w[n] \in Int
    BY <1>1, <1>3
  <1>12. QED
    BY <1>4, <1>5, <1>6, <1>9, <1>10, <1>11

(* The low bytes of a word are bytes, and so are the high ones.            *)
LEMMA FewerBytes ==
  ASSUME NEW h, NEW a \in Int, NEW m \in Nat, NEW k \in Nat, BytesAt(h, a, m + k)
  PROVE  BytesAt(h, a, m) /\ BytesAt(h, a + m, k)
  <1>1. \A j \in 0..(m - 1) : j \in 0..((m + k) - 1)
    OBVIOUS
  <1>2. \A j \in 0..(k - 1) : m + j \in 0..((m + k) - 1) /\ a + (m + j) = (a + m) + j
    OBVIOUS
  <1>3. QED
    BY <1>1, <1>2 DEF BytesAt

(* Cut after any of its bytes, a word is two shorter ones.                 *)
LEMMA WordSplit ==
  ASSUME NEW h, NEW a \in Int, NEW m \in 0..8, NEW n \in 0..8, m + n <= 8, BytesAt(h, a, m + n)
  PROVE  WordAt(h, a, m + n) = WordAt(h, a, m) + Weight(m) * WordAt(h, a + m, n)
  <1> DEFINE bad == {k \in 0..n : WordAt(h, a, m + k) # WordAt(h, a, m) + Weight(m) * WordAt(h, a + m, k)}
  <1>1. \A k \in 0..n : /\ BytesAt(h, a, m + k) /\ BytesAt(h, a, m) /\ BytesAt(h, a + m, k)
                        /\ WordAt(h, a, m + k) \in Int /\ WordAt(h, a + m, k) \in Int
    <2> TAKE k \in 0..n
    <2>1. (m + k) + (n - k) = m + n /\ m + k \in 0..8 /\ m + k \in Nat /\ k \in 0..8
          /\ n - k \in Nat /\ m \in Nat /\ k \in Nat
      OBVIOUS
    <2>2. BytesAt(h, a, (m + k) + (n - k))
      BY <2>1
    <2>3. BytesAt(h, a, m + k)
      BY <2>1, <2>2, FewerBytes
    <2>4. BytesAt(h, a, m) /\ BytesAt(h, a + m, k)
      BY <2>1, <2>3, FewerBytes
    <2>5. WordAt(h, a, m + k) \in Int /\ WordAt(h, a + m, k) \in Int
      BY <2>1, <2>3, <2>4, WordType
    <2>6. QED
      BY <2>3, <2>4, <2>5
  <1>2. bad = {}
    <2>1. SUFFICES ASSUME bad # {} PROVE FALSE
      OBVIOUS
    <2>2. PICK t \in bad : \A s \in bad : t <= s
      <3>1. bad \in SUBSET Nat
        OBVIOUS
      <3> HIDE DEF bad
      <3>2. QED
        BY <2>1, <3>1, LeastNumber
    <2>3. Weight(m) \in Int /\ WordAt(h, a, m) \in Int
      <3>1. BytesAt(h, a, m)
        BY <1>1, <2>2
      <3>2. QED
        BY <3>1, PowerType, WordType
    <2>4. t # 0
      <3>1. ASSUME t = 0 PROVE FALSE
        <4>1. BytesAt(h, a + m, 0 + 1) \/ n = 0
          BY <1>1
        <4>2. WordAt(h, a + m, 0) = 0
          BY WordZero
        <4>3. m + 0 = m /\ Weight(m) * 0 = 0
          BY <2>3
        <4>4. QED
          BY <2>2, <2>3, <3>1, <4>2, <4>3
      <3>2. QED
        BY <3>1
    <2> DEFINE k == t - 1
    <2>5. /\ k \in 0..n /\ k \notin bad /\ t = k + 1 /\ m + t = (m + k) + 1
          /\ k \in 0..7 /\ m + k \in 0..7 /\ t \in 0..n /\ k < n
      BY <2>2, <2>4
    <2>6. WordAt(h, a, m + k) = WordAt(h, a, m) + Weight(m) * WordAt(h, a + m, k)
      BY <2>5
    <2> HIDE DEF k
    <2>7. BytesAt(h, a, (m + k) + 1) /\ BytesAt(h, a + m, k + 1)
      BY <1>1, <2>5
    <2>8. /\ WordAt(h, a, (m + k) + 1) = WordAt(h, a, m + k) + Weight(m + k) * h.mem[a + (m + k)]
          /\ WordAt(h, a + m, k + 1) = WordAt(h, a + m, k) + Weight(k) * h.mem[(a + m) + k]
      BY <2>5, <2>7, WordStep
    <2>9. Weight(m + k) = Weight(m) * Weight(k) /\ Weight(k) \in Int
      <3>1. k \in 0..8 /\ m \in 0..8 /\ m + k <= 8
        BY <2>5
      <3>2. Weight(m + k) = Weight(m) * Weight(k)
        BY <3>1, PowersMultiply
      <3>3. Weight(k) \in Int
        BY <3>1, PowerType
      <3>4. QED
        BY <3>2, <3>3
    <2>10. a + (m + k) = (a + m) + k /\ h.mem[(a + m) + k] \in Int
      <3>1. k \in 0..((k + 1) - 1) /\ k + 1 \in 0..8
        BY <2>5
      <3>2. QED
        BY <2>5, <2>7, <3>1, BytesTyped
    <2>11. WordAt(h, a + m, k) \in Int
      BY <1>1, <2>5
    <2> DEFINE b == h.mem[(a + m) + k]
               w == WordAt(h, a + m, k)
    <2>12. b \in Int /\ w \in Int
      BY <2>10, <2>11
    <2>13. /\ WordAt(h, a, (m + k) + 1) = (WordAt(h, a, m) + Weight(m) * w) + (Weight(m) * Weight(k)) * b
           /\ WordAt(h, a + m, k + 1) = w + Weight(k) * b
      BY <2>6, <2>8, <2>9, <2>10
    <2> HIDE DEF b, w
    <2>14. (WordAt(h, a, m) + Weight(m) * w) + (Weight(m) * Weight(k)) * b
           = WordAt(h, a, m) + Weight(m) * (w + Weight(k) * b)
      BY <2>3, <2>9, <2>12
    <2>15. WordAt(h, a, m + t) = WordAt(h, a, m) + Weight(m) * WordAt(h, a + m, t)
      BY <2>5, <2>13, <2>14
    <2>16. QED
      BY <2>2, <2>15
  <1>3. n \in 0..n
    OBVIOUS
  <1>4. QED
    BY <1>2, <1>3

(* A word of n bytes is below the weight of the byte that would come next. *)
LEMMA WordBound ==
  ASSUME NEW h, NEW a \in Int, NEW n \in 0..8, BytesAt(h, a, n)
  PROVE  WordAt(h, a, n) \in Int /\ 0 <= WordAt(h, a, n) /\ WordAt(h, a, n) < Weight(n)
  <1> DEFINE bad == {k \in 0..n : ~ (0 <= WordAt(h, a, k) /\ WordAt(h, a, k) < Weight(k))}
  <1>1. \A k \in 0..n : BytesAt(h, a, k) /\ WordAt(h, a, k) \in Int /\ k \in 0..8
    <2> TAKE k \in 0..n
    <2>1. k + (n - k) = n /\ n - k \in Nat /\ k \in 0..8 /\ k \in Nat
      OBVIOUS
    <2>2. BytesAt(h, a, k + (n - k))
      BY <2>1
    <2>3. BytesAt(h, a, k)
      BY <2>1, <2>2, FewerBytes
    <2>4. QED
      BY <2>1, <2>3, WordType
  <1>2. bad = {}
    <2>1. SUFFICES ASSUME bad # {} PROVE FALSE
      OBVIOUS
    <2>2. PICK t \in bad : \A s \in bad : t <= s
      <3>1. bad \in SUBSET Nat
        OBVIOUS
      <3> HIDE DEF bad
      <3>2. QED
        BY <2>1, <3>1, LeastNumber
    <2>3. t # 0
      <3>1. WordAt(h, a, 0) = 0 /\ Weight(0) = 1
        BY WordZero, PowerType
      <3>2. QED
        BY <2>2, <3>1
    <2> DEFINE k == t - 1
    <2>4. k \in 0..n /\ k \notin bad /\ t = k + 1 /\ k \in 0..7 /\ t \in 0..n
      BY <2>2, <2>3
    <2>5. 0 <= WordAt(h, a, k) /\ WordAt(h, a, k) < Weight(k)
      BY <2>4
    <2> HIDE DEF k
    <2>6. BytesAt(h, a, k + 1) /\ WordAt(h, a, k) \in Int
      BY <1>1, <2>4
    <2>7. WordAt(h, a, k + 1) = WordAt(h, a, k) + Weight(k) * h.mem[a + k]
      BY <2>4, <2>6, WordStep
    <2>8. Weight(k + 1) = Weight(k) * Base /\ Weight(k) \in Nat \ {0} /\ Base \in Nat \ {0}
      <3>1. k \in 0..8 /\ 1 \in 0..8 /\ k + 1 <= 8
        BY <2>4
      <3>2. QED
        BY <3>1, PowerType, PowersMultiply DEF Base
    <2>9. h.mem[a + k] \in Int /\ 0 <= h.mem[a + k] /\ h.mem[a + k] < Base
      <3>1. k \in 0..((k + 1) - 1) /\ k + 1 \in 0..8
        BY <2>4
      <3>2. QED
        BY <2>6, <3>1, BytesTyped
    <2>10. 0 <= WordAt(h, a, t) /\ WordAt(h, a, t) < Weight(t)
      BY <2>4, <2>5, <2>6, <2>7, <2>8, <2>9, Digits2
    <2>11. QED
      BY <2>2, <2>10
  <1>3. n \in 0..n
    OBVIOUS
  <1>4. QED
    BY <1>1, <1>2, <1>3

(* The byte j of a word of n bytes.                                        *)
LEMMA DigitOf ==
  ASSUME NEW h, NEW a \in Int, NEW n \in 0..8, NEW j \in 0..7, BytesAt(h, a, n)
  PROVE  Bytes(WordAt(h, a, n), j) = IF j < n THEN h.mem[a + j] ELSE 0
  <1>1. Bytes(WordAt(h, a, n), j) = (WordAt(h, a, n) \div Weight(j)) % Base
    BY TypeWidths DEF Bytes, Weight
  <1>2. Weight(j) \in Nat \ {0} /\ Base \in Nat \ {0}
    BY PowerType
  <1>3. CASE j < n
    <2> DEFINE k == n - (j + 1)
    <2>1. /\ j \in 0..8 /\ k \in 0..8 /\ j + 1 \in 0..8 /\ (j + 1) + k = n /\ j + 1 \in Nat /\ k \in Nat
          /\ (j + 1) + k <= 8 /\ j \in 0..((j + 1) - 1) /\ j \in 0..(n - 1) /\ a + (j + 1) \in Int
          /\ 1 \in 0..8 /\ j + 1 <= 8
      BY <1>3
    <2> HIDE DEF k
    <2>2. BytesAt(h, a, (j + 1) + k)
      BY <2>1
    <2>3. BytesAt(h, a, j + 1) /\ BytesAt(h, a + (j + 1), k)
      BY <2>1, <2>2, FewerBytes
    <2>4. WordAt(h, a, n) = WordAt(h, a, j + 1) + Weight(j + 1) * WordAt(h, a + (j + 1), k)
      BY <2>1, <2>2, WordSplit
    <2>5. WordAt(h, a, j + 1) = WordAt(h, a, j) + Weight(j) * h.mem[a + j]
      BY <2>3, WordStep
    <2>6. Weight(j + 1) = Weight(j) * Base
      <3>1. Weight(j + 1) = Weight(j) * Weight(1)
        BY <2>1, PowersMultiply
      <3>2. Weight(1) = Base
        BY DEF Base
      <3>3. Weight(j) \in Int /\ Weight(1) \in Int
        BY <2>1, PowerType
      <3>4. QED
        BY <3>1, <3>2, <3>3
    <2>7. BytesAt(h, a, j)
      <3>1. j \in Nat /\ 1 \in Nat
        OBVIOUS
      <3>2. QED
        BY <2>3, <3>1, FewerBytes
    <2>8. WordAt(h, a, j) \in Int /\ 0 <= WordAt(h, a, j) /\ WordAt(h, a, j) < Weight(j)
      BY <2>1, <2>7, WordBound
    <2>9. WordAt(h, a + (j + 1), k) \in Int
      BY <2>1, <2>3, WordType
    <2>10. h.mem[a + j] \in Int /\ 0 <= h.mem[a + j] /\ h.mem[a + j] < Base
      BY <2>1, BytesTyped
    <2> DEFINE r == WordAt(h, a, j)
               b == h.mem[a + j]
               u == WordAt(h, a + (j + 1), k)
    <2>11. r \in Int /\ b \in Int /\ u \in Int /\ 0 <= r /\ r < Weight(j) /\ 0 <= b /\ b < Base
      BY <2>8, <2>9, <2>10
    <2>12. WordAt(h, a, n) = (r + Weight(j) * b) + (Weight(j) * Base) * u
      BY <2>4, <2>5, <2>6
    <2> HIDE DEF r, b, u
    <2>13. (r + Weight(j) * b) + (Weight(j) * Base) * u = r + Weight(j) * (b + Base * u)
      BY <1>2, <2>11
    <2>14. b + Base * u \in Int
      BY <1>2, <2>11
    <2>15. WordAt(h, a, n) \div Weight(j) = b + Base * u
      <3> DEFINE q == b + Base * u
      <3>1. WordAt(h, a, n) = r + Weight(j) * q
        BY <2>12, <2>13
      <3>2. q \in Int /\ Weight(j) \in Nat \ {0} /\ r \in Int /\ 0 <= r /\ r < Weight(j)
        BY <1>2, <2>11, <2>14
      <3> HIDE DEF q
      <3>3. (r + Weight(j) * q) \div Weight(j) = q
        BY <3>2, Divides
      <3>4. QED
        BY <3>1, <3>3 DEF q
    <2>16. (b + Base * u) % Base = b
      BY <1>2, <2>11, Divides
    <2>17. QED
      BY <1>1, <1>3, <2>15, <2>16 DEF b
  <1>4. CASE ~ (j < n)
    <2>1. WordAt(h, a, n) \in Int /\ 0 <= WordAt(h, a, n) /\ WordAt(h, a, n) < Weight(n)
      BY WordBound
    <2> DEFINE k == j - n
    <2>2. n + k = j /\ k \in 0..8 /\ n + k <= 8 /\ n \in 0..8
      BY <1>4
    <2> HIDE DEF k
    <2>3. Weight(j) = Weight(n) * Weight(k)
      BY <2>2, PowersMultiply
    <2>4. Weight(n) \in Nat \ {0} /\ Weight(k) \in Nat \ {0}
      BY <2>2, PowerType
    <2>5. Weight(n) <= Weight(n) * Weight(k)
      BY <2>4, Digits2
    <2>6. WordAt(h, a, n) + Weight(j) * 0 = WordAt(h, a, n)
      BY <1>2, <2>1
    <2>7. WordAt(h, a, n) < Weight(j)
      BY <1>2, <2>1, <2>3, <2>4, <2>5
    <2>8. WordAt(h, a, n) \div Weight(j) = 0
      BY <1>2, <2>1, <2>6, <2>7, Divides
    <2>9. 0 % Base = 0
      BY <1>2
    <2>10. QED
      BY <1>1, <1>4, <2>8, <2>9
  <1>5. QED
    BY <1>3, <1>4

(* Two aligned accesses, shifted and put together, are the access asked    *)
(* for, aligned or not.                                                    *)
LEMMA PairsMakeWord ==
  ASSUME NEW h, NEW a \in Nat, NEW n \in 1..8,
         BytesAt(h, a - (a % n), n), BytesAt(h, a - (a % n) + n, n)
  PROVE  BytesAt(h, a, n) /\ DO_LOAD(h, a, n) = WordAt(h, a, n)
  <1> DEFINE m == a % n
             lo == a - m
             k == n - m
  <1>1. /\ m \in 0..8 /\ k \in 0..8 /\ m + k = n /\ k + m = n /\ m \in Nat /\ k \in Nat /\ lo \in Int
        /\ lo + m = a /\ (lo + n) + m = a + n /\ a + k = lo + n /\ lo + n \in Int /\ n \in 0..8
    OBVIOUS
  <1>2. BytesAt(h, lo, m + k) /\ BytesAt(h, lo + n, m + k)
    BY <1>1
  <1>3. DO_LOAD(h, a, n) = WordAt(h, lo, n) \div Weight(m) + ((WordAt(h, lo + n, n) * Weight(k)) % Weight(n))
    BY DEF DO_LOAD, Weight
  <1> HIDE DEF m, lo, k
  <1>4. BytesAt(h, lo, m) /\ BytesAt(h, a, k) /\ BytesAt(h, lo + n, m) /\ BytesAt(h, a + n, k)
    BY <1>1, <1>2, FewerBytes
  <1>5. BytesAt(h, a, k + m)
    <2>1. ASSUME NEW j \in 0..((k + m) - 1) PROVE h.mem[a + j] \in 0..(Base - 1)
      <3>1. CASE j < k
        <4>1. j \in 0..(k - 1)
          BY <1>1, <3>1
        <4>2. QED
          BY <1>4, <4>1 DEF BytesAt
      <3>2. CASE k <= j
        <4>1. j - k \in 0..(m - 1) /\ (lo + n) + (j - k) = a + j
          BY <1>1, <3>2
        <4>2. QED
          BY <1>4, <4>1 DEF BytesAt
      <3>3. QED
        BY <1>1, <3>1, <3>2
    <2>2. QED
      BY <2>1 DEF BytesAt
  <1>6. WordAt(h, lo, m + k) = WordAt(h, lo, m) + Weight(m) * WordAt(h, lo + m, k)
    BY <1>1, <1>2, WordSplit
  <1>7. WordAt(h, lo + n, m + k) = WordAt(h, lo + n, m) + Weight(m) * WordAt(h, (lo + n) + m, k)
    BY <1>1, <1>2, WordSplit
  <1>8. WordAt(h, a, k + m) = WordAt(h, a, k) + Weight(k) * WordAt(h, a + k, m)
    BY <1>1, <1>5, WordSplit
  <1>9. /\ WordAt(h, lo, m) \in Int /\ 0 <= WordAt(h, lo, m) /\ WordAt(h, lo, m) < Weight(m)
        /\ WordAt(h, lo + n, m) \in Int /\ 0 <= WordAt(h, lo + n, m) /\ WordAt(h, lo + n, m) < Weight(m)
        /\ WordAt(h, a, k) \in Int /\ WordAt(h, a + n, k) \in Int
    BY <1>1, <1>4, WordBound
  <1>10. /\ Weight(m) \in Nat \ {0} /\ Weight(k) \in Nat \ {0} /\ Weight(n) \in Nat \ {0}
         /\ Weight(n) = Weight(k) * Weight(m)
    <2>1. Weight(m) \in Nat \ {0} /\ Weight(k) \in Nat \ {0} /\ Weight(n) \in Nat \ {0}
      BY <1>1, PowerType
    <2>2. k + m <= 8
      BY <1>1
    <2>3. Weight(k + m) = Weight(k) * Weight(m)
      BY <1>1, <2>2, PowersMultiply
    <2>4. QED
      BY <1>1, <2>1, <2>3
  <1>11. WordAt(h, lo, n) \div Weight(m) = WordAt(h, a, k)
    <2> DEFINE b == WordAt(h, lo, m)
               q == WordAt(h, a, k)
    <2>1. WordAt(h, lo, n) = b + Weight(m) * q
      BY <1>1, <1>6
    <2>2. b \in Int /\ 0 <= b /\ b < Weight(m) /\ q \in Int /\ Weight(m) \in Nat \ {0}
      BY <1>9, <1>10
    <2> HIDE DEF b, q
    <2>3. (b + Weight(m) * q) \div Weight(m) = q
      BY <2>2, Divides
    <2>4. QED
      BY <2>1, <2>3 DEF q
  <1> DEFINE r == WordAt(h, lo + n, m)
             u == WordAt(h, a + n, k)
  <1>12. WordAt(h, lo + n, n) = r + Weight(m) * u /\ r \in Int /\ u \in Int /\ 0 <= r /\ r < Weight(m)
    BY <1>1, <1>7, <1>9
  <1>13. WordAt(h, a, n) = WordAt(h, a, k) + Weight(k) * r
    BY <1>1, <1>8
  <1> HIDE DEF r, u
  <1>14. (r + Weight(m) * u) * Weight(k) = Weight(k) * r + Weight(n) * u
    <2>1. /\ (Weight(k) * Weight(m)) * u = (Weight(m) * u) * Weight(k)
          /\ (r + Weight(m) * u) * Weight(k) = Weight(k) * r + (Weight(m) * u) * Weight(k)
      BY <1>10, <1>12
    <2>2. QED
      BY <1>10, <2>1
  <1>15. 0 <= Weight(k) * r /\ Weight(k) * r < Weight(k) * Weight(m) /\ Weight(k) * r \in Int
    <2>1. 0 + Weight(k) * r = Weight(k) * r
      BY <1>10, <1>12
    <2>2. QED
      BY <1>10, <1>12, <2>1, Digits2
  <1>16. (Weight(k) * r + Weight(n) * u) % Weight(n) = Weight(k) * r
    BY <1>10, <1>12, <1>15, Divides
  <1>17. DO_LOAD(h, a, n) = WordAt(h, a, n)
    BY <1>3, <1>11, <1>12, <1>13, <1>14, <1>16
  <1>18. QED
    BY <1>1, <1>5, <1>17

(* What is above a word's low n bytes does not show in them.               *)
LEMMA LowBytes ==
  ASSUME NEW v \in Int, NEW q \in Int, NEW n \in 0..8, NEW j \in 0..7, j < n
  PROVE  Bytes(v + Weight(n) * q, j) = Bytes(v, j)
  <1> DEFINE k == n - (j + 1)
             d == v \div Weight(j)
             r == v % Weight(j)
  <1>1. /\ k \in 0..8 /\ (j + 1) + k = n /\ j \in 0..8 /\ 1 \in 0..8
        /\ j + 1 \in 0..8 /\ j + 1 <= 8 /\ (j + 1) + k <= 8
    OBVIOUS
  <1> HIDE DEF k
  <1>2. Weight(j) \in Nat \ {0} /\ Base \in Nat \ {0} /\ Weight(k) \in Nat \ {0}
    BY <1>1, PowerType
  <1>3. Weight(n) = (Weight(j) * Base) * Weight(k)
    <2>1. Weight(j + 1) = Weight(j) * Weight(1)
      BY <1>1, PowersMultiply
    <2>2. Weight((j + 1) + k) = Weight(j + 1) * Weight(k)
      BY <1>1, PowersMultiply
    <2>3. QED
      BY <1>1, <2>1, <2>2 DEF Base
  <1>4. v = r + Weight(j) * d /\ d \in Int /\ r \in Int /\ 0 <= r /\ r < Weight(j)
    BY <1>2, Division
  <1> DEFINE u == Weight(k) * q
  <1>5. u \in Int
    BY <1>2
  <1>6. Weight(n) * q = Weight(j) * (Base * u)
    BY <1>2, <1>3
  <1> HIDE DEF u
  <1>7. v + Weight(n) * q = r + Weight(j) * (d + Base * u)
    <2> HIDE DEF d, r
    <2>1. (r + Weight(j) * d) + Weight(j) * (Base * u) = r + Weight(j) * (d + Base * u)
      BY <1>2, <1>4, <1>5
    <2>2. QED
      BY <1>4, <1>6, <2>1
  <1> HIDE DEF d, r
  <1>8. (v + Weight(n) * q) \div Weight(j) = d + Base * u
    <2> DEFINE e == d + Base * u
    <2>1. e \in Int
      BY <1>2, <1>4, <1>5
    <2> HIDE DEF e
    <2>2. (r + Weight(j) * e) \div Weight(j) = e
      BY <1>2, <1>4, <2>1, Divides
    <2>3. QED
      BY <1>7, <2>2 DEF e
  <1>9. (d + Base * u) % Base = d % Base
    <2> DEFINE b == d % Base
               c == d \div Base
    <2>1. d = b + Base * c /\ b \in Int /\ c \in Int /\ 0 <= b /\ b < Base
      BY <1>2, <1>4
    <2> HIDE DEF b, c
    <2>2. (b + Base * c) + Base * u = b + Base * (c + u)
      BY <1>2, <1>5, <2>1
    <2>3. (b + Base * (c + u)) % Base = b
      <3>1. c + u \in Int
        BY <1>5, <2>1
      <3>2. QED
        BY <1>2, <2>1, <3>1, Divides
    <2>4. QED
      BY <2>1, <2>2, <2>3 DEF b
  <1>10. Bytes(v + Weight(n) * q, j) = ((v + Weight(n) * q) \div Weight(j)) % Base /\ Bytes(v, j) = d % Base
    BY TypeWidths DEF Bytes, Weight, d
  <1>11. QED
    BY <1>8, <1>9, <1>10

(* A negative number of n bytes has all ones above them.                   *)
LEMMA SignBytes ==
  ASSUME NEW n \in 0..8, NEW j \in 0..7, n <= j, NEW v \in Int, 0 <= v, v < Weight(n)
  PROVE  Bytes(v + Weight(n) * (Weight(8 - n) - 1), j) = Base - 1
  <1> DEFINE i == j - n
             k == 7 - j
  <1>1. i \in 0..8 /\ k \in 0..8 /\ i + (k + 1) = 8 - n /\ n + i = j /\ n + i <= 8 /\ i + (k + 1) <= 8
        /\ k + 1 \in 0..8 /\ 1 \in 0..8 /\ k + 1 <= 8 /\ j \in 0..8 /\ n \in 0..8
    OBVIOUS
  <1> HIDE DEF i, k
  <1>2. /\ Weight(n) \in Nat \ {0} /\ Weight(i) \in Nat \ {0} /\ Weight(k) \in Nat \ {0}
        /\ Weight(j) \in Nat \ {0} /\ Base \in Nat \ {0}
    BY <1>1, PowerType
  <1>3. Weight(j) = Weight(n) * Weight(i) /\ Weight(8 - n) = Weight(i) * (Weight(k) * Base)
    <2>1. Weight(k + 1) = Weight(k) * Weight(1)
      BY <1>1, PowersMultiply
    <2>2. Weight(i + (k + 1)) = Weight(i) * Weight(k + 1)
      BY <1>1, PowersMultiply
    <2>3. Weight(n + i) = Weight(n) * Weight(i)
      BY <1>1, PowersMultiply
    <2>4. QED
      BY <1>1, <2>1, <2>2, <2>3 DEF Base
  <1> DEFINE q == Weight(k) * Base - 1
             r == v + Weight(n) * (Weight(i) - 1)
  <1>4. q \in Int /\ r \in Int
    BY <1>2
  <1>5. v + Weight(n) * (Weight(8 - n) - 1) = r + Weight(j) * q
    <2>1. Weight(i) * (Weight(k) * Base) - 1 = (Weight(i) - 1) + Weight(i) * (Weight(k) * Base - 1)
      BY <1>2
    <2>2. Weight(n) * ((Weight(i) - 1) + Weight(i) * q)
          = Weight(n) * (Weight(i) - 1) + (Weight(n) * Weight(i)) * q
      <3>1. Weight(i) - 1 \in Int
        BY <1>2
      <3> HIDE DEF q
      <3>2. QED
        BY <1>2, <1>4, <3>1
    <2>3. Weight(n) * (Weight(i) - 1) \in Int /\ Weight(j) * q \in Int
      <3> HIDE DEF q
      <3> QED
        BY <1>2, <1>4
    <2>4. Weight(8 - n) - 1 = (Weight(i) - 1) + Weight(i) * q
      BY <1>3, <2>1
    <2> HIDE DEF q
    <2>5. Weight(n) * (Weight(8 - n) - 1) = Weight(n) * (Weight(i) - 1) + Weight(j) * q
      BY <1>3, <2>2, <2>4
    <2>6. QED
      BY <2>3, <2>5
  <1>6. 0 <= r /\ r < Weight(j)
    <2>1. Weight(i) - 1 \in Int /\ 0 <= Weight(i) - 1 /\ Weight(i) - 1 < Weight(i)
      BY <1>2
    <2>2. QED
      BY <1>2, <1>3, <2>1, Digits2
  <1>7. q % Base = Base - 1
    <2>1. q = (Base - 1) + Base * (Weight(k) - 1)
      BY <1>2
    <2>2. Base - 1 \in Int /\ Weight(k) - 1 \in Int /\ 0 <= Base - 1 /\ Base - 1 < Base
      BY <1>2
    <2> HIDE DEF q
    <2>3. QED
      BY <1>2, <2>1, <2>2, Divides
  <1> HIDE DEF q, r
  <1>8. (r + Weight(j) * q) \div Weight(j) = q
    BY <1>2, <1>4, <1>6, Divides
  <1>9. Bytes(v + Weight(n) * (Weight(8 - n) - 1), j)
        = ((v + Weight(n) * (Weight(8 - n) - 1)) \div Weight(j)) % Base
    BY TypeWidths DEF Bytes, Weight
  <1>10. QED
    BY <1>5, <1>7, <1>8, <1>9

(* Whether a word is negative shows in its highest byte.                   *)
LEMMA SignOfWord ==
  ASSUME NEW h, NEW a \in Int, NEW n \in 1..8, BytesAt(h, a, n)
  PROVE  WordAt(h, a, n) >= Weight(n - 1) * SignBit <=> h.mem[a + n - 1] >= SignBit
  <1> DEFINE m == n - 1
             r == WordAt(h, a, m)
             b == h.mem[a + m]
  <1>1. m \in 0..7 /\ m + 1 = n /\ m \in Nat /\ 1 \in Nat /\ m \in 0..(n - 1) /\ m \in 0..8 /\ n \in 0..8
        /\ (a + n) - 1 = a + m
    OBVIOUS
  <1> HIDE DEF m
  <1>2. BytesAt(h, a, m + 1)
    BY <1>1
  <1>3. BytesAt(h, a, m)
    BY <1>1, <1>2, FewerBytes
  <1>4. WordAt(h, a, m + 1) = r + Weight(m) * b
    BY <1>1, <1>2, WordStep
  <1>5. r \in Int /\ 0 <= r /\ r < Weight(m)
    BY <1>1, <1>3, WordBound
  <1>6. b \in Int
    BY <1>1, BytesTyped
  <1>7. Weight(m) \in Nat \ {0} /\ SignBit \in Nat \ {0}
    BY <1>1, PowerType, TypeWidths
  <1> HIDE DEF r, b
  <1>8. b >= SignBit => r + Weight(m) * b >= Weight(m) * SignBit
    <2>1. SUFFICES ASSUME b >= SignBit PROVE r + Weight(m) * b >= Weight(m) * SignBit
      OBVIOUS
    <2> DEFINE x == b - SignBit
    <2>2. x \in Nat /\ b = SignBit + x
      BY <1>6, <1>7, <2>1
    <2> HIDE DEF x
    <2>3. /\ Weight(m) * (SignBit + x) = Weight(m) * SignBit + Weight(m) * x
          /\ Weight(m) * x >= 0 /\ Weight(m) * SignBit \in Int /\ Weight(m) * x \in Int
      BY <1>7, <2>2
    <2>4. QED
      BY <1>5, <2>2, <2>3
  <1>9. b < SignBit => r + Weight(m) * b < Weight(m) * SignBit
    <2>1. SUFFICES ASSUME b < SignBit PROVE r + Weight(m) * b < Weight(m) * SignBit
      OBVIOUS
    <2> DEFINE x == SignBit - (b + 1)
    <2>2. x \in Nat /\ SignBit = (b + 1) + x
      BY <1>6, <1>7, <2>1
    <2> HIDE DEF x
    <2>3. /\ Weight(m) * ((b + 1) + x) = Weight(m) * b + Weight(m) + Weight(m) * x
          /\ Weight(m) * x >= 0 /\ Weight(m) * b \in Int /\ Weight(m) * x \in Int
      BY <1>6, <1>7, <2>2
    <2>4. QED
      BY <1>5, <1>7, <2>2, <2>3
  <1>10. r + Weight(m) * b >= Weight(m) * SignBit <=> b >= SignBit
    <2>1. r + Weight(m) * b \in Int /\ Weight(m) * SignBit \in Int
      BY <1>5, <1>6, <1>7
    <2>2. QED
      BY <1>6, <1>7, <1>8, <1>9, <2>1
  <1>11. WordAt(h, a, n) = r + Weight(m) * b /\ h.mem[a + n - 1] = b /\ Weight(n - 1) = Weight(m)
    BY <1>1, <1>4 DEF b, m
  <1>12. QED
    BY <1>10, <1>11

-----------------------------------------------------------------------------
(* The handlers of loads and stores.                                       *)

(* The bytes that an access by aligned pairs may touch are bytes.          *)
Around(h, a, n) == \A b \in 0..(a + 2 * n - 1) : h.mem[b] \in 0..(Base - 1)

(* Both aligned words that an access overlaps lie in that range.           *)
LEMMA AroundBytes ==
  ASSUME NEW h, NEW a \in Nat, NEW n \in 1..8, Around(h, a, n)
  PROVE  BytesAt(h, a, n) /\ BytesAt(h, a - (a % n), n) /\ BytesAt(h, a - (a % n) + n, n)
  <1> DEFINE m == a % n
  <1>1. m \in Int /\ 0 <= m /\ m < n /\ m <= a
    <2>1. a = m + n * (a \div n) /\ m \in Int /\ 0 <= m /\ m < n /\ a \div n \in Int
      BY Division
    <2>2. a \div n >= 0
      OBVIOUS
    <2> HIDE DEF m
    <2>3. n * (a \div n) >= 0
      BY <2>1, <2>2
    <2>4. n * (a \div n) \in Int
      BY <2>1
    <2>5. QED
      BY <2>1, <2>3, <2>4
  <1> HIDE DEF m
  <1>2. \A j \in 0..(n - 1) : /\ a + j \in 0..(a + 2 * n - 1) /\ (a - m) + j \in 0..(a + 2 * n - 1)
                              /\ ((a - m) + n) + j \in 0..(a + 2 * n - 1)
    BY <1>1
  <1>3. QED
    BY <1>2 DEF Around, BytesAt, m

Loads == MisalignedLoads \union FloatLoads
Stores == MisalignedStores \union FloatStores

(* How wide the accesses are.                                              *)
LEMMA Sizes ==
  /\ \A k \in Loads \union Stores : SizeOf[k] \in {2, 4, 8}
  /\ \A k \in Loads : SizeOf[k] = 2 <=> k \in {"lh", "lhu"}
  /\ SizeOf["lh"] = 2 /\ SizeOf["lhu"] = 2 /\ SizeOf["lw"] = 4 /\ SizeOf["lwu"] = 4 /\ SizeOf["flw"] = 4
  /\ SizeOf["ld"] = 8 /\ SizeOf["fld"] = 8 /\ SizeOf["fsw"] = 4
  BY DEF SizeOf, Loads, Stores, MisalignedLoads, FloatLoads, MisalignedStores, FloatStores

(* A load ends with the bytes at its address, whichever way they are read, *)
(* or not at all.                                                          *)
LEMMA LoadEnds ==
  ASSUME NEW i, NEW h, i.k \in Loads, Address(i, h) \in Nat, Around(h, Address(i, h), SizeOf[i.k])
  PROVE  \/ Handle(i, h) = Refuse(h) \/ Handle(i, h) = RefuseFault(h)
         \/ Handle(i, h) = Done(SetLoaded(i, h, WordAt(h, Address(i, h), SizeOf[i.k])))
  <1> DEFINE a == Address(i, h)
             n == SizeOf[i.k]
  <1>1. n \in 1..8 /\ a \in Nat
    BY Sizes
  <1>2. BytesAt(h, a - (a % n), n) /\ BytesAt(h, a - (a % n) + n, n)
    BY <1>1, AroundBytes
  <1>3. DO_LOAD(h, a, n) = WordAt(h, a, n)
    <2> HIDE DEF a, n
    <2> QED
      BY <1>1, <1>2, PairsMakeWord
  <1>4. \/ misaligned_load_trap(i, h) = Refuse(h) \/ misaligned_load_trap(i, h) = RefuseFault(h)
        \/ misaligned_load_trap(i, h) = Done(SetLoaded(i, h, WordAt(h, a, n)))
    <2> DEFINE v == IF n = 2 THEN WordAt(h, a, 2) ELSE DO_LOAD(h, a, n)
    <2>1. v = WordAt(h, a, n)
      BY <1>3
    <2> HIDE DEF v
    <2>2. misaligned_load_trap(i, h) =
            CASE FetchFails(h) -> Refuse(h)
              [] ~FetchFails(h) /\ ~Reaches(h, a, n) -> RefuseFault(h)
              [] OTHER -> Done(SetLoaded(i, h, v))
      BY DEF misaligned_load_trap, v
    <2>3. QED
      BY <2>1, <2>2
  <1>5. CASE i.k \in MisalignedLoads
    <2>1. Handle(i, h) = misaligned_load_trap(i, h)
      BY <1>5 DEF Handle, MisalignedLoads, MisalignedStores
    <2>2. QED
      BY <1>4, <2>1
  <1>6. CASE i.k \in FloatLoads
    <2>1. \/ emulate_float_load(i, h) = misaligned_load_trap(i, h)
          \/ emulate_float_load(i, h) = RefuseFault(h)
          \/ emulate_float_load(i, h) = Done(SetLoaded(i, h, WordAt(h, a, n)))
      <3>1. a % n \in Int
        BY <1>1
      <3>2. QED
        BY <3>1 DEF emulate_float_load
    <2>2. Handle(i, h) = illegal_insn_trap(i, h)
      BY <1>6 DEF Handle, FloatLoads, MisalignedLoads, MisalignedStores
    <2>3. illegal_insn_trap(i, h) = Refuse(h) \/ illegal_insn_trap(i, h) = emulate_float_load(i, h)
      BY <1>6 DEF illegal_insn_trap, FloatLoads, FloatStores, MulDiv, MulDiv32, Fused, FusedOp, Float
    <2>4. QED
      BY <1>4, <2>1, <2>2, <2>3
  <1>7. QED
    BY <1>5, <1>6 DEF Loads

(* A store ends with all of its bytes, or is refused.                      *)
LEMMA StoreEnds ==
  ASSUME NEW i, NEW h, i.k \in Stores
  PROVE  LET g == StoreBytes(h, Address(i, h), StoredValue(i, h), SizeOf[i.k])
         IN  \/ Handle(i, h) = Refuse(h) \/ Handle(i, h) = RefuseFault(g) \/ Handle(i, h) = RefuseFault(h)
             \/ Handle(i, h) = Done(g) /\ Reaches(h, Address(i, h), SizeOf[i.k])
  <1> DEFINE a == Address(i, h)
             n == SizeOf[i.k]
             g == StoreBytes(h, a, StoredValue(i, h), n)
  <1>1. \/ misaligned_store_trap(i, h) = Refuse(h) \/ misaligned_store_trap(i, h) = RefuseFault(g)
        \/ misaligned_store_trap(i, h) = Done(g) /\ Reaches(h, a, n)
    <2> HIDE DEF g
    <2>1. misaligned_store_trap(i, h) =
            CASE FetchFails(h) -> Refuse(h)
              [] ~FetchFails(h) /\ ~Reaches(h, a, n) -> RefuseFault(g)
              [] OTHER -> Done(g)
      BY DEF misaligned_store_trap, g
    <2>2. QED
      BY <2>1
  <1>2. CASE i.k \in MisalignedStores
    <2>1. Handle(i, h) = misaligned_store_trap(i, h)
      BY <1>2 DEF Handle, MisalignedLoads, MisalignedStores
    <2>2. QED
      BY <1>1, <2>1
  <1>3. CASE i.k \in FloatStores
    <2>1. \/ emulate_float_store(i, h) = misaligned_store_trap(i, h)
          \/ emulate_float_store(i, h) = RefuseFault(h)
          \/ emulate_float_store(i, h) = Done(g) /\ Reaches(h, a, n)
      <3> HIDE DEF g
      <3>1. emulate_float_store(i, h) =
              CASE a % n # 0 -> misaligned_store_trap(i, h)
                [] a % n = 0 /\ ~Reaches(h, a, n) -> RefuseFault(h)
                [] OTHER -> Done(g)
        BY DEF emulate_float_store, g
      <3>2. QED
        BY <3>1
    <2>2. Handle(i, h) = illegal_insn_trap(i, h)
      BY <1>3 DEF Handle, FloatStores, MisalignedLoads, MisalignedStores
    <2>3. illegal_insn_trap(i, h) = Refuse(h) \/ illegal_insn_trap(i, h) = emulate_float_store(i, h)
      BY <1>3 DEF illegal_insn_trap, FloatLoads, FloatStores, MulDiv, MulDiv32, Fused, FusedOp, Float
    <2>4. QED
      BY <1>1, <2>1, <2>2, <2>3
  <1>4. QED
    BY <1>2, <1>3 DEF Stores

(* What a completed access leaves in the hart.                             *)
LEMMA RdSet ==
  ASSUME NEW i, NEW h, IsHart(h), NEW v
  PROVE  LET g == SET_RD(i, h, v)
         IN  IsHart(g) /\ g.x = [h.x EXCEPT ![i.rd] = v] /\ g.mem = h.mem
  <1> DEFINE g == SET_RD(i, h, v)
  <1>1. h = [l \in Fields |-> h[l]]
    BY FieldsOfHart
  <1>2. g = [l \in Fields |-> g[l]]
    BY <1>1 DEF SET_RD
  <1>3. g.x = [h.x EXCEPT ![i.rd] = v] /\ g.f = h.f /\ g.tp = h.tp /\ g.mem = h.mem
    BY <1>1 DEF Fields, SET_RD
  <1> HIDE DEF g
  <1>4. IsHart(g)
    BY <1>2, <1>3, HartOfFields DEF IsHart
  <1>5. QED
    BY <1>3, <1>4 DEF g

(* The same for a floating-point register.                                 *)
LEMMA FRegSet ==
  ASSUME NEW i, NEW h, IsHart(h), NEW v
  PROVE  LET g == SET_F64_RD(i, h, v)
         IN  IsHart(g) /\ g.f = [h.f EXCEPT ![i.rd] = v] /\ g.mem = h.mem
  <1> DEFINE k == [h EXCEPT !.f[i.rd] = v]
             g == [k EXCEPT !.fs = "dirty"]
  <1>1. SET_F64_RD(i, h, v) = g
    BY DEF SET_F64_RD, SET_FS_DIRTY
  <1>2. h = [l \in Fields |-> h[l]]
    BY FieldsOfHart
  <1>3. k = [l \in Fields |-> k[l]]
    BY <1>2
  <1>4. k.x = h.x /\ k.f = [h.f EXCEPT ![i.rd] = v] /\ k.tp = h.tp /\ k.mem = h.mem
    BY <1>2 DEF Fields
  <1> HIDE DEF k
  <1>5. g = [l \in Fields |-> g[l]]
    BY <1>3
  <1>6. g.x = k.x /\ g.f = k.f /\ g.tp = k.tp /\ g.mem = k.mem
    BY <1>3 DEF Fields
  <1> HIDE DEF g
  <1>7. IsHart(g)
    BY <1>4, <1>5, <1>6, HartOfFields DEF IsHart
  <1>8. QED
    BY <1>1, <1>4, <1>6, <1>7

(* Every byte of the value is in its place, and no other byte changes.     *)
LEMMA BytesStored ==
  ASSUME NEW h, IsHart(h), NEW a, NEW v, NEW n \in Nat, Reaches(h, a, n)
  PROVE  LET g == StoreBytes(h, a, v, n)
         IN  /\ IsHart(g)
             /\ g.mem = [b \in DOMAIN h.mem |-> IF b - a \in 0..(n - 1) THEN Bytes(v, b - a) ELSE h.mem[b]]
  <1> DEFINE m == [b \in DOMAIN h.mem |-> IF b - a \in 0..(n - 1) THEN Bytes(v, b - a) ELSE h.mem[b]]
             g == StoreBytes(h, a, v, n)
  <1>1. {j \in 0..(n - 1) : Reaches(h, a, j + 1)} = 0..(n - 1)
    BY DEF Reaches
  <1>2. g = [h EXCEPT !.mem = m]
    BY <1>1 DEF StoreBytes, Bytes, IsHart
  <1> HIDE DEF m, g
  <1>3. h = [l \in Fields |-> h[l]]
    BY FieldsOfHart
  <1>4. g = [l \in Fields |-> g[l]]
    BY <1>2, <1>3
  <1>5. g.x = h.x /\ g.f = h.f /\ g.tp = h.tp /\ g.mem = m
    BY <1>2, <1>3 DEF Fields
  <1>6. IsHart(g)
    BY <1>4, <1>5, HartOfFields DEF IsHart
  <1>7. QED
    BY <1>5, <1>6 DEF m, g

(* A halfword or a word extended by its sign, byte by byte.                *)
LEMMA SextBytes ==
  ASSUME NEW h, NEW a \in Int, NEW n \in {2, 4}, BytesAt(h, a, n),
         NEW bits, bits = IF n = 2 THEN 2 * ByteBits ELSE WordBits, NEW j \in 0..7
  PROVE  Bytes(Sext(bits, WordAt(h, a, n)), j) =
           IF j < n THEN h.mem[a + j]
           ELSE IF h.mem[a + n - 1] >= SignBit THEN Base - 1 ELSE 0
  <1> DEFINE v == WordAt(h, a, n)
  <1>1. n \in 1..8 /\ n \in 0..8 /\ 8 - n \in 0..8 /\ n + (8 - n) = 8 /\ n + (8 - n) <= 8
    OBVIOUS
  <1>2. 2 ^ bits = Weight(n) /\ 2 ^ (bits - 1) = Weight(n - 1) * SignBit /\ 2 ^ XLen = Weight(8)
    <2>1. CASE n = 2
      <3>1. bits = 2 * ByteBits /\ n - 1 = 1
        BY <2>1
      <3>2. QED
        BY <2>1, <3>1, TypeWidths
    <2>2. CASE n = 4
      <3>1. bits = WordBits /\ n - 1 = 3
        BY <2>2
      <3>2. QED
        BY <2>2, <3>1, TypeWidths
    <2>3. QED
      BY <2>1, <2>2
  <1>3. v >= Weight(n - 1) * SignBit <=> h.mem[a + n - 1] >= SignBit
    BY <1>1, SignOfWord
  <1>4. v \in Int /\ 0 <= v /\ v < Weight(n)
    BY <1>1, WordBound
  <1>5. Bytes(v, j) = IF j < n THEN h.mem[a + j] ELSE 0
    BY <1>1, DigitOf
  <1> HIDE DEF v
  <1>6. CASE v >= Weight(n - 1) * SignBit
    <2> DEFINE q == Weight(8 - n) - 1
               r == v + Weight(n) * q
    <2>1. Weight(n) \in Nat \ {0} /\ Weight(8 - n) \in Nat \ {0} /\ Weight(8) \in Nat \ {0}
      BY <1>1, PowerType
    <2>2. Weight(8) = Weight(n) * Weight(8 - n)
      BY <1>1, PowersMultiply
    <2>3. q \in Int /\ 0 <= q /\ q < Weight(8 - n) /\ r \in Int
      BY <1>4, <2>1
    <2>4. v - Weight(n) = r + Weight(8) * (-1)
      <3>1. /\ Weight(n) * (Weight(8 - n) - 1) = Weight(n) * Weight(8 - n) - Weight(n)
            /\ Weight(n) * Weight(8 - n) \in Int
        BY <2>1
      <3>2. QED
        BY <1>4, <2>1, <2>2, <3>1
    <2> HIDE DEF q
    <2>5. 0 <= r /\ r < Weight(8)
      BY <1>4, <2>1, <2>2, <2>3, Digits2
    <2>6. (r + Weight(8) * (-1)) % Weight(8) = r
      <3> HIDE DEF r
      <3>1. -1 \in Int
        OBVIOUS
      <3>2. QED
        BY <2>1, <2>3, <2>5, <3>1, Divides
    <2>7. Sext(bits, v) = r
      <3> HIDE DEF r
      <3>1. Sext(bits, v) = (v - Weight(n)) % Weight(8)
        BY <1>2, <1>6 DEF Sext, Xword
      <3>2. QED
        BY <2>4, <2>6, <3>1
    <2>8. CASE j < n
      <3>1. Bytes(r, j) = Bytes(v, j)
        BY <1>1, <1>4, <2>3, <2>8, LowBytes
      <3>2. QED
        BY <1>5, <2>7, <2>8, <3>1 DEF v
    <2>9. CASE ~ (j < n)
      <3>1. n <= j
        BY <1>1, <2>9
      <3>2. Bytes(r, j) = Base - 1
        BY <1>1, <1>4, <3>1, SignBytes DEF q
      <3>3. QED
        BY <1>3, <1>6, <2>7, <2>9, <3>2 DEF v
    <2>10. QED
      BY <2>8, <2>9
  <1>7. CASE ~ (v >= Weight(n - 1) * SignBit)
    <2>1. Sext(bits, v) = v
      BY <1>2, <1>7 DEF Sext
    <2>2. QED
      BY <1>3, <1>5, <1>7, <2>1 DEF v
  <1>8. QED
    BY <1>6, <1>7

(* What a register holds after a load, from the bytes of memory.           *)
LoadsTo(k, w, m, a) ==
    \A j \in 0..((IF k = "flw" THEN 4 ELSE 8) - 1) :
       Bytes(w, j) = CASE j < SizeOf[k] -> m[a + j]
                       [] j >= SizeOf[k] /\ k \in {"lh", "lw"} /\ m[a + SizeOf[k] - 1] >= SignBit -> Base - 1
                       [] OTHER -> 0

(* The register that SetLoaded writes holds what the load is named for.    *)
LEMMA LoadedRight ==
  ASSUME NEW i, NEW h, IsHart(h), i.k \in Loads, NEW a \in Nat, BytesAt(h, a, SizeOf[i.k]),
         i.rd \in (IF i.k \in FloatLoads THEN FRegs ELSE XRegs), \A r \in FRegs : h.f[r] \in Int
  PROVE  LET g == SetLoaded(i, h, WordAt(h, a, SizeOf[i.k]))
         IN  /\ IsHart(g) /\ g.mem = h.mem
             /\ LoadsTo(i.k, IF i.k \in FloatLoads THEN g.f[i.rd] ELSE g.x[i.rd], h.mem, a)
  <1> DEFINE n == SizeOf[i.k]
             v == WordAt(h, a, n)
             g == SetLoaded(i, h, v)
  <1>1. n \in {2, 4, 8} /\ n \in 0..8 /\ BytesAt(h, a, n) /\ a \in Int
    BY Sizes
  <1>2. \A j \in 0..7 : Bytes(v, j) = IF j < n THEN h.mem[a + j] ELSE 0
    <2> HIDE DEF n
    <2> QED
      BY <1>1, DigitOf
  <1>3. CASE i.k \in {"lhu", "lwu", "ld"}
    <2>1. g = SET_RD(i, h, v) /\ i.k \notin FloatLoads
      BY <1>3 DEF SetLoaded, FloatLoads
    <2>2. IsHart(g) /\ g.x = [h.x EXCEPT ![i.rd] = v] /\ g.mem = h.mem
      <3> HIDE DEF v
      <3> QED
        BY <2>1, RdSet
    <2> HIDE DEF g, v, n
    <2>3. g.x[i.rd] = v
      BY <2>1, <2>2 DEF IsHart
    <2>4. LoadsTo(i.k, v, h.mem, a)
      BY <1>1, <1>2, <1>3 DEF LoadsTo, n
    <2>5. QED
      BY <2>1, <2>2, <2>3, <2>4 DEF g, v, n
  <1>4. CASE i.k = "fld"
    <2>1. g = SET_F64_RD(i, h, v) /\ i.k \in FloatLoads
      BY <1>4 DEF SetLoaded, FloatLoads
    <2>2. IsHart(g) /\ g.f = [h.f EXCEPT ![i.rd] = v] /\ g.mem = h.mem
      <3> HIDE DEF v
      <3> QED
        BY <2>1, FRegSet
    <2> HIDE DEF g, v, n
    <2>3. g.f[i.rd] = v
      BY <2>1, <2>2 DEF IsHart
    <2>4. LoadsTo(i.k, v, h.mem, a)
      BY <1>1, <1>2, <1>4 DEF LoadsTo, n
    <2>5. QED
      BY <2>1, <2>2, <2>3, <2>4 DEF g, v, n
  <1>5. CASE i.k \in {"lh", "lw"}
    <2> DEFINE bits == IF n = 2 THEN 2 * ByteBits ELSE WordBits
               w == Sext(bits, v)
    <2>1. g = SET_RD(i, h, w) /\ i.k \notin FloatLoads /\ n \in {2, 4}
      BY <1>5, Sizes DEF SetLoaded, FloatLoads
    <2>2. IsHart(g) /\ g.x = [h.x EXCEPT ![i.rd] = w] /\ g.mem = h.mem
      <3> HIDE DEF w
      <3> QED
        BY <2>1, RdSet
    <2>3. \A j \in 0..7 : Bytes(w, j) = IF j < n THEN h.mem[a + j]
                                        ELSE IF h.mem[a + n - 1] >= SignBit THEN Base - 1 ELSE 0
      <3> HIDE DEF n, bits
      <3>1. bits = IF n = 2 THEN 2 * ByteBits ELSE WordBits
        BY DEF bits
      <3>2. BytesAt(h, a, n) /\ a \in Int
        BY DEF n
      <3>3. QED
        BY <2>1, <3>1, <3>2, SextBytes
    <2> HIDE DEF g, w, v, n
    <2>4. g.x[i.rd] = w
      BY <2>1, <2>2 DEF IsHart
    <2>5. LoadsTo(i.k, w, h.mem, a)
      BY <1>1, <1>5, <2>3 DEF LoadsTo, n
    <2>6. QED
      BY <2>1, <2>2, <2>4, <2>5 DEF g, w, v, n
  <1>6. CASE i.k = "flw"
    <2> DEFINE f == h.f[i.rd]
               w == f - (f % 2 ^ WordBits) + v
    <2>1. i.k \in FloatLoads /\ n = 4 /\ i.rd \in FRegs /\ f \in Int
      BY <1>6, Sizes DEF FloatLoads
    <2>2. g = SET_F64_RD(i, h, w)
      <3>1. g = SET_F32_RD(i, h, v)
        BY <1>6 DEF SetLoaded
      <3>2. QED
        BY <3>1 DEF SET_F32_RD, SET_F64_RD, IsHart
    <2>3. IsHart(g) /\ g.f = [h.f EXCEPT ![i.rd] = w] /\ g.mem = h.mem
      <3> HIDE DEF w
      <3> QED
        BY <2>2, FRegSet
    <2>4. w = v + Weight(4) * (f \div Weight(4)) /\ v \in Int /\ f \div Weight(4) \in Int
      <3>1. Weight(4) \in Nat \ {0}
        BY PowerType
      <3>2. v \in Int
        <4> HIDE DEF n
        <4> QED
          BY <1>1, WordType DEF n
      <3> HIDE DEF v, f
      <3>3. /\ f = (f % Weight(4)) + Weight(4) * (f \div Weight(4))
            /\ f % Weight(4) \in Int /\ f \div Weight(4) \in Int
        BY <2>1, <3>1, Division
      <3>4. Weight(4) * (f \div Weight(4)) \in Int
        BY <3>1, <3>3
      <3>5. w = f - (f % Weight(4)) + v
        BY TypeWidths
      <3> HIDE DEF w
      <3>6. QED
        BY <2>1, <3>2, <3>3, <3>4, <3>5
    <2>5. \A j \in 0..3 : Bytes(w, j) = h.mem[a + j]
      <3> HIDE DEF w, v, f
      <3> TAKE j \in 0..3
      <3>1. j \in 0..7 /\ 4 \in 0..8 /\ j < 4
        OBVIOUS
      <3>2. Bytes(w, j) = Bytes(v, j)
        BY <2>4, <3>1, LowBytes
      <3>3. QED
        BY <1>2, <2>1, <3>1, <3>2
    <2> HIDE DEF g, w, v, n, f
    <2>6. g.f[i.rd] = w
      BY <2>1, <2>3 DEF IsHart
    <2>7. LoadsTo(i.k, w, h.mem, a)
      BY <1>6, <2>1, <2>5 DEF LoadsTo, n
    <2>8. QED
      BY <2>1, <2>3, <2>6, <2>7 DEF g, v, n
  <1>7. i.k \in {"lh", "lhu", "lw", "lwu", "ld", "flw", "fld"}
    BY DEF Loads, MisalignedLoads, FloatLoads
  <1>8. QED
    BY <1>3, <1>4, <1>5, <1>6, <1>7

-----------------------------------------------------------------------------
(* The machine as a whole.                                                 *)

(* What the monitor has been given to carry out a load or a store with.    *)
Placed ==
    /\ insn.rd \in (IF insn.k \in FloatLoads THEN FRegs ELSE XRegs)
    /\ insn.rs2 \in (IF insn.k \in FloatStores THEN FRegs ELSE XRegs)
    /\ Addr \in Nat
    /\ \E last \in Nat : /\ Addr + 2 * Size - 1 <= last
                         /\ before.mem \in [0..last -> 0..(Base - 1)]
    /\ \A r \in FRegs : before.f[r] \in Int

(* The inductive invariant, beside ProgramInv.                             *)
AccessInv ==
    /\ at = "program" => \A r \in FRegs : hart.f[r] \in Int
    /\ at \in {"monitor", "supervisor"} /\ insn.k \in Memory => Placed
    /\ AccessesComplete

(* Loads and stores are different instructions.                            *)
LEMMA MemorySplit ==
  /\ Memory = Loads \union Stores /\ Loads \intersect Stores = {}
  /\ MisalignedLoads \intersect FloatLoads = {} /\ MisalignedStores \intersect FloatStores = {}
  /\ Loads = MisalignedLoads \union FloatLoads /\ Stores = MisalignedStores \union FloatStores
  BY DEF Memory, Loads, Stores, MisalignedLoads, FloatLoads, MisalignedStores, FloatStores

(* The hart the handler works on, and what it returns when it refuses.     *)
LEMMA AtHandler ==
  ASSUME ProgramInv, at = "monitor", NEW e, e = Enter(insn, hart)
  PROVE  /\ IsHart(e) /\ e.f = before.f /\ e.mem = hart.mem
         /\ \A r \in XRegs : e.x[r] = X(r)
         /\ Address(insn, e) = Addr
  <1>1. IsInsn(insn) /\ IsHart(hart) /\ hart.x[0] \in Int /\ Kept
    BY DEF ProgramInv
  <1>2. IsHart(e) /\ e.x = [hart.x EXCEPT ![0] = 0] /\ e.f = hart.f /\ e.mem = hart.mem
    BY <1>1, Entered DEF Ready
  <1>3. \A r \in XRegs : e.x[r] = X(r)
    BY <1>1, <1>2 DEF IsHart, Kept, X, XRegs
  <1>4. Address(insn, e) = Addr
    BY SameAddress
  <1>5. QED
    BY <1>1, <1>2, <1>3, <1>4 DEF Kept

(* A refusal is returned as one, not as a completion.                      *)
LEMMA RefusedReturns ==
  ASSUME NEW h, IsHart(h)
  PROVE  Leave(Refuse(h)).ret = -1 /\ Leave(RefuseFault(h)).ret = -1
  <1>1. Leave(Refuse(h)).ret = -1
    BY RefuseIs, Left
  <1>2. Leave(RefuseFault(h)).ret = -1
    <2> DEFINE g == restore_mstatus(Faulted(h))
    <2>1. h = [l \in Fields |-> h[l]]
      BY FieldsOfHart
    <2>2. g = [l \in Fields |-> g[l]] /\ g.x = h.x /\ g.f = h.f /\ g.tp = h.tp
      BY <2>1 DEF Fields, Faulted, restore_mstatus
    <2> HIDE DEF g
    <2>3. IsHart(g)
      BY <2>2, HartOfFields DEF IsHart
    <2>4. RefuseFault(h) = Refuse(g)
      BY DEF RefuseFault, g
    <2> DEFINE d == Refuse(g)
    <2>5. IsHart(d) /\ d.ret = -1
      BY <2>3, RefuseIs
    <2> HIDE DEF d
    <2>6. Leave(d).ret = -1
      BY <2>5, Left
    <2>7. QED
      BY <2>4, <2>6 DEF d
  <1>3. QED
    BY <1>1, <1>2

(* A load that completes has read its bytes and changed no memory.         *)
LEMMA LoadCompletes ==
  ASSUME ProgramInv, AccessInv, Trap, at' = "done", insn.k \in Loads
  PROVE  AccessesComplete'
  <1> DEFINE e == Enter(insn, hart)
             n == Size
             v == WordAt(e, Addr, n)
             g == SetLoaded(insn, e, v)
  <1>1. /\ at = "monitor" /\ insn' = insn /\ before' = before /\ Kept
        /\ hart' = Leave(Handle(insn, e)) /\ hart'.ret = 0
    BY DEF Trap, ProgramInv
  <1>2. Placed /\ insn.k \notin MisalignedStores \union FloatStores
    BY <1>1, MemorySplit DEF AccessInv
  <1>3. /\ IsHart(e) /\ e.f = before.f /\ e.mem = before.mem /\ Address(insn, e) = Addr
    BY <1>1, <1>2, AtHandler DEF Kept
  <1> HIDE DEF e
  <1>4. n \in 1..8 /\ n = SizeOf[insn.k] /\ Addr \in Nat
    BY <1>2, Sizes DEF Size, Placed
  <1>5. Around(e, Addr, n)
    <2>1. PICK last \in Nat : Addr + 2 * n - 1 <= last /\ before.mem \in [0..last -> 0..(Base - 1)]
      BY <1>2 DEF Placed
    <2>2. \A b \in 0..(Addr + 2 * n - 1) : b \in 0..last
      BY <1>4, <2>1
    <2>3. QED
      BY <1>3, <2>1, <2>2 DEF Around
  <1>6. BytesAt(e, Addr, n)
    <2> HIDE DEF n
    <2> QED
      BY <1>4, <1>5, AroundBytes
  <1>7. Handle(insn, e) = Done(g)
    <2>1. Handle(insn, e) # Refuse(e) /\ Handle(insn, e) # RefuseFault(e)
      BY <1>1, <1>3, RefusedReturns
    <2>2. QED
      BY <1>3, <1>4, <1>5, <2>1, LoadEnds
  <1>8. /\ IsHart(g) /\ g.mem = e.mem
        /\ LoadsTo(insn.k, IF insn.k \in FloatLoads THEN g.f[insn.rd] ELSE g.x[insn.rd], e.mem, Addr)
    <2>1. /\ insn.rd \in (IF insn.k \in FloatLoads THEN FRegs ELSE XRegs)
          /\ \A r \in FRegs : e.f[r] \in Int
      BY <1>2, <1>3 DEF Placed
    <2>2. QED
      BY <1>3, <1>4, <1>6, <2>1, LoadedRight
  <1> HIDE DEF v, n, g
  <1>9. /\ hart'.x = [g.x EXCEPT ![0] = g.tp] /\ hart'.f = g.f /\ hart'.mem = g.mem
    <2> DEFINE d == Done(g)
    <2>1. IsHart(d) /\ d.x = g.x /\ d.f = g.f /\ d.tp = g.tp /\ d.mem = g.mem
      BY <1>8, DoneIs
    <2> HIDE DEF d
    <2>2. hart' = Leave(d)
      BY <1>1, <1>7 DEF d
    <2>3. QED
      BY <2>1, <2>2, Left
  <1>10. hart'.mem = before'.mem
    BY <1>1, <1>3, <1>8, <1>9
  <1>11. ASSUME insn.rd # 0 PROVE LoadRight'
    <2> DEFINE w == IF insn.k \in FloatLoads THEN hart'.f[insn.rd] ELSE hart'.x[insn.rd]
    <2>1. w = IF insn.k \in FloatLoads THEN g.f[insn.rd] ELSE g.x[insn.rd]
      <3>1. insn.k \notin FloatLoads => insn.rd \in XRegs
        BY <1>2 DEF Placed
      <3>2. QED
        BY <1>8, <1>9, <1>11, <3>1 DEF IsHart
    <2>2. LoadsTo(insn.k, w, before.mem, Addr)
      BY <1>3, <1>8, <2>1
    <2>3. Addr' = Addr /\ Size' = SizeOf[insn.k] /\ Rd' = hart'.x[insn.rd]
      BY <1>1 DEF Addr, Size, Rd, X
    <2> HIDE DEF w
    <2>4. /\ 2 ^ ByteBits - 1 = Base - 1 /\ 2 ^ (ByteBits - 1) = SignBit
      BY TypeWidths DEF SignBit
    <2>5. w = IF insn.k \in FloatLoads THEN hart'.f[insn.rd] ELSE Rd'
      BY <2>3 DEF w
    <2>6. QED
      BY <1>1, <2>2, <2>3, <2>4, <2>5 DEF LoadRight, LoadsTo, Bytes
  <1>12. QED
    BY <1>1, <1>10, <1>11 DEF AccessesComplete, Loads

(* A store that completes has written its bytes and no others, whatever    *)
(* attempts before had already written.                                    *)
LEMMA StoreCompletes ==
  ASSUME ProgramInv, AccessInv, Trap, at' = "done", insn.k \in Stores
  PROVE  AccessesComplete'
  <1> DEFINE e == Enter(insn, hart)
             n == Size
             v == StoredValue(insn, e)
             g == StoreBytes(e, Addr, v, n)
             w == IF insn.k \in FloatStores THEN before.f[insn.rs2] ELSE X(insn.rs2)
  <1>1. /\ at = "monitor" /\ insn' = insn /\ before' = before /\ Kept
        /\ hart' = Leave(Handle(insn, e)) /\ hart'.ret = 0
    BY DEF Trap, ProgramInv
  <1>2. Placed
    BY <1>1, MemorySplit DEF AccessInv
  <1>3. /\ IsHart(e) /\ e.f = before.f /\ e.mem = hart.mem /\ Address(insn, e) = Addr
        /\ \A r \in XRegs : e.x[r] = X(r)
    BY <1>1, AtHandler
  <1> HIDE DEF e
  <1>4. n \in 1..8 /\ n \in Nat /\ n = SizeOf[insn.k] /\ Addr \in Nat
    <2>1. n = SizeOf[insn.k] /\ n \in {2, 4, 8}
      BY Sizes DEF Size
    <2> HIDE DEF n
    <2>2. QED
      BY <1>2, <2>1 DEF Placed
  <1>5. insn.k \in MisalignedStores \union FloatStores
    BY MemorySplit
  <1>6. IsHart(g)
    BY <1>3, <1>4, <1>5, Stored DEF Effect
  <1>7. Handle(insn, e) = Done(g) /\ Reaches(e, Addr, n)
    <2> HIDE DEF g
    <2>1. Handle(insn, e) # Refuse(e) /\ Handle(insn, e) # RefuseFault(e) /\ Handle(insn, e) # RefuseFault(g)
      BY <1>1, <1>3, <1>6, RefusedReturns
    <2>2. QED
      BY <1>3, <1>4, <2>1, StoreEnds DEF g
  <1>8. g.mem = [b \in DOMAIN hart.mem |->
                   IF b - Addr \in 0..(n - 1) THEN Bytes(v, b - Addr) ELSE hart.mem[b]]
    <2> HIDE DEF v, n
    <2> QED
      BY <1>3, <1>4, <1>7, BytesStored
  <1> HIDE DEF g
  <1>9. hart'.mem = g.mem
    <2> DEFINE d == Done(g)
    <2>1. IsHart(d) /\ d.mem = g.mem
      BY <1>6, DoneIs
    <2> HIDE DEF d
    <2>2. hart' = Leave(d)
      BY <1>1, <1>7 DEF d
    <2>3. QED
      BY <2>1, <2>2, Left
  <1>10. ASSUME NEW j \in 0..(n - 1) PROVE Bytes(v, j) = Bytes(w, j)
    <2>1. CASE insn.k = "fsw"
      <3> DEFINE f == before.f[insn.rs2]
      <3>1. v = f % Weight(4) /\ w = f /\ f \in Int
        <4>1. insn.k \in FloatStores /\ insn.rs2 \in FRegs
          BY <1>2, <2>1 DEF FloatStores, Placed
        <4>2. v = GET_F32(e, insn.rs2)
          BY <2>1 DEF StoredValue
        <4>3. QED
          BY <1>2, <1>3, <4>1, <4>2, TypeWidths DEF GET_F32, Placed
      <3>2. Weight(4) \in Nat \ {0} /\ j \in 0..7 /\ 4 \in 0..8 /\ j < 4
        <4>1. n = 4
          BY <1>4, <2>1, Sizes
        <4> HIDE DEF n
        <4>2. QED
          BY <4>1, PowerType
      <3> HIDE DEF v, w, f, n
      <3>3. /\ f = (f % Weight(4)) + Weight(4) * (f \div Weight(4))
            /\ f % Weight(4) \in Int /\ f \div Weight(4) \in Int
        BY <3>1, <3>2, Division
      <3>4. Bytes((f % Weight(4)) + Weight(4) * (f \div Weight(4)), j) = Bytes(f % Weight(4), j)
        BY <3>2, <3>3, LowBytes
      <3>5. QED
        BY <3>1, <3>3, <3>4
    <2>2. CASE insn.k # "fsw"
      <3>1. v = w
        <4>1. insn.k \in FloatStores <=> insn.k = "fsd"
          BY <2>2 DEF FloatStores
        <4>2. insn.k \notin FloatStores => insn.rs2 \in XRegs
          BY <1>2 DEF Placed
        <4>3. QED
          BY <1>3, <2>2, <4>1, <4>2 DEF StoredValue
      <3>2. QED
        BY <3>1
    <2>3. QED
      BY <2>1, <2>2
  <1> HIDE DEF v, w
  <1>11. /\ DOMAIN hart'.mem = DOMAIN hart.mem
         /\ \A b \in DOMAIN hart.mem :
               hart'.mem[b] = IF b - Addr \in 0..(n - 1) THEN Bytes(w, b - Addr) ELSE before.mem[b]
    <2>1. DOMAIN hart'.mem = DOMAIN hart.mem
      BY <1>8, <1>9
    <2>2. ASSUME NEW b \in DOMAIN hart.mem
          PROVE  hart'.mem[b] = IF b - Addr \in 0..(n - 1) THEN Bytes(w, b - Addr) ELSE before.mem[b]
      <3>1. hart'.mem[b] = IF b - Addr \in 0..(n - 1) THEN Bytes(v, b - Addr) ELSE hart.mem[b]
        BY <1>8, <1>9
      <3>2. b - Addr \notin 0..(n - 1) => hart.mem[b] = before.mem[b]
        BY <1>1 DEF Kept
      <3>3. b - Addr \in 0..(n - 1) => Bytes(v, b - Addr) = Bytes(w, b - Addr)
        BY <1>10
      <3>4. QED
        BY <3>1, <3>2, <3>3
    <2>3. QED
      BY <2>1, <2>2
  <1>12. StoreRight'
    <2>1. Addr' = Addr /\ Size' = n
      BY <1>1 DEF Addr, Size, X
    <2>2. w = (IF insn.k \in FloatStores THEN before.f[insn.rs2] ELSE X(insn.rs2))'
      BY <1>1 DEF X, w
    <2> HIDE DEF n
    <2>3. QED
      BY <1>1, <1>11, <2>1, <2>2 DEF StoreRight, Bytes
  <1>13. insn.k \notin Loads
    BY MemorySplit
  <1>14. QED
    BY <1>1, <1>12, <1>13 DEF AccessesComplete, Loads

(* The way through the monitor keeps the invariant.                        *)
LEMMA AccessTrap ==
  ASSUME ProgramInv, AccessInv, Trap
  PROVE  AccessInv'
  <1>1. at = "monitor" /\ insn' = insn /\ before' = before /\ at' \in {"done", "supervisor"}
    BY DEF Trap
  <1>2. AccessesComplete'
    <2>1. CASE at' = "done" /\ insn.k \in Memory
      BY <2>1, LoadCompletes, StoreCompletes, MemorySplit
    <2>2. CASE ~ (at' = "done" /\ insn.k \in Memory)
      BY <1>1, <2>2 DEF AccessesComplete, Ended
    <2>3. QED
      BY <2>1, <2>2
  <1>3. (insn.k \in Memory => Placed)'
    BY <1>1 DEF AccessInv, Placed, Addr, Size, X
  <1>4. QED
    BY <1>1, <1>2, <1>3 DEF AccessInv

(* A load or store is issued with its bytes and those beside them in       *)
(* memory.                                                                 *)
LEMMA AccessIssued ==
  ASSUME ProgramInv, AccessInv, NEW i \in Insns,
         IssueMemory(i) \/ IssueInteger(i) \/ IssueFloat(i) \/ IssueOther(i)
  PROVE  AccessInv'
  <1>1. /\ at = "program" /\ IsHart(hart) /\ i \in Program[issued + 1] /\ issued + 1 \in 1..Len(Program)
        /\ \A r \in FRegs : hart.f[r] \in Int
    <2>1. Issuing /\ i \in Program[issued + 1]
      BY ProgramInsns DEF Insns
    <2>2. QED
      BY <2>1, ProgramAssumption DEF Issuing, ProgramInv, AccessInv
  <1>2. CASE IssueMemory(i)
    <2>1. PICK a \in Addresses, m \in Memories, ps \in PageSets, fs \in {"off", "clean"} :
             /\ a + i.imm + 2 * SizeOf[i.k] - 1 \in DOMAIN m /\ a + i.imm >= 0
             /\ Begin(i, MemoryOperands(hart, a, WordAt([mem |-> m], 0, 8), m, ps, fs))
      BY <1>2 DEF IssueMemory, MemoryOperands
    <2> DEFINE v == WordAt([mem |-> m], 0, 8)
               h == MemoryOperands(hart, a, v, m, ps, fs)
    <2> HIDE DEF v
    <2>2. h.x = [hart.x EXCEPT ![1] = a, ![2] = v] /\ h.f = [hart.f EXCEPT ![2] = v] /\ h.mem = m
      <3>1. hart = [l \in Fields |-> hart[l]]
        BY <1>1, FieldsOfHart
      <3>2. QED
        BY <3>1 DEF Fields, MemoryOperands
    <2> HIDE DEF h
    <2>3. hart' = h /\ before' = h /\ insn' = i /\ at' = "monitor"
      BY <2>1 DEF Begin, h, v
    <2>4. PICK last \in 7..(2 ^ XLen - 1) : m \in [0..last -> 0..(2 ^ ByteBits - 1)]
      BY <2>1, ProgramAssumption
    <2>5. 2 ^ XLen \in Nat /\ 2 ^ ByteBits = Base /\ last \in Nat /\ last >= 7 /\ last < 2 ^ XLen
      <3>1. 2 ^ XLen = Weight(8) /\ Weight(8) \in Nat /\ 2 ^ ByteBits = Base
        BY TypeWidths, PowerType
      <3>2. QED
        BY <2>4, <3>1
    <2>6. v \in Int
      <3>1. \A j \in 0..(8 - 1) : 0 + j \in 0..last
        BY <2>5
      <3>2. BytesAt([mem |-> m], 0, 8)
        BY <2>4, <2>5, <3>1 DEF BytesAt
      <3>3. 8 \in 0..8 /\ 0 \in Int
        OBVIOUS
      <3>4. QED
        BY <3>2, <3>3, WordType DEF v
    <2>7. /\ i.k \in Memory /\ i.rs1 = 1 /\ i.imm \in Int /\ a \in Nat
          /\ i.rd \in (IF i.k \in FloatLoads THEN FRegs ELSE XRegs)
          /\ i.rs2 \in (IF i.k \in FloatStores THEN FRegs ELSE XRegs)
      BY <1>1, <1>2, <2>1, ProgramAssumption DEF IssueMemory
    <2>8. SizeOf[i.k] \in {2, 4, 8}
      BY <2>7, Sizes, MemorySplit
    <2>9. Addr' = a + i.imm /\ Size' = SizeOf[i.k]
      <3>1. X(insn.rs1)' = a
        BY <1>1, <2>2, <2>3, <2>7 DEF X, IsHart, XRegs
      <3>2. a + i.imm \in Nat /\ a + i.imm < 2 ^ XLen
        <4>1. a + i.imm + 2 * SizeOf[i.k] - 1 <= last
          BY <2>1, <2>4
        <4>2. a + i.imm \in Int /\ a + i.imm >= 0 /\ SizeOf[i.k] \in Int /\ SizeOf[i.k] >= 2
          BY <2>1, <2>7, <2>8
        <4> DEFINE b == a + i.imm
                   n == SizeOf[i.k]
                   top == 2 ^ XLen
        <4>3. b + 2 * n - 1 <= last /\ b \in Int /\ b >= 0 /\ n \in Int /\ n >= 2 /\ top \in Nat /\ last < top
          BY <2>5, <4>1, <4>2
        <4> HIDE DEF b, n, top
        <4>4. b \in Nat /\ b < top
          BY <2>5, <4>3
        <4>5. QED
          BY <4>4 DEF b, top
      <3>3. (a + i.imm) % 2 ^ XLen = a + i.imm
        BY <2>5, <3>2
      <3>4. QED
        BY <2>3, <3>1, <3>3 DEF Addr, Size, Xword
    <2>10. Addr' \in Nat /\ Addr' + 2 * Size' - 1 <= last
      BY <2>1, <2>4, <2>5, <2>7, <2>8, <2>9
    <2>11. \A r \in FRegs : before'.f[r] \in Int
      BY <1>1, <2>2, <2>3, <2>6 DEF IsHart, FRegs
    <2>12. Placed'
      BY <2>2, <2>3, <2>4, <2>5, <2>7, <2>10, <2>11 DEF Placed
    <2>13. AccessesComplete'
      BY <2>3 DEF AccessesComplete, Ended
    <2>14. QED
      BY <2>3, <2>12, <2>13 DEF AccessInv
  <1>3. CASE IssueInteger(i) \/ IssueFloat(i) \/ IssueOther(i)
    <2>1. i.k \notin Memory /\ at' = "monitor" /\ insn' = i
      <3>1. i.k \in IntArgs \union Float \union Fused \union {"other"}
        BY <1>3 DEF IssueInteger, IssueFloat, IssueOther
      <3>2. i.k \notin Memory
        BY <3>1 DEF IntArgs, Float, Fused, FusedOp, MulDiv, MulDiv32, Memory, MisalignedLoads,
                    MisalignedStores, FloatLoads, FloatStores
      <3>3. \E h : Begin(i, h)
        BY <1>3 DEF IssueInteger, IssueFloat, IssueOther
      <3>4. QED
        BY <3>2, <3>3 DEF Begin
    <2>2. AccessesComplete'
      BY <2>1 DEF AccessesComplete, Ended
    <2>3. QED
      BY <2>1, <2>2 DEF AccessInv
  <1>4. QED
    BY <1>2, <1>3

(* The supervisor leaves operands and memory alone.                        *)
LEMMA AccessSupervised ==
  ASSUME ProgramInv, AccessInv, MapPages \/ EnableFloat \/ Continue
  PROVE  AccessInv'
  <1>1. IsHart(before)
    BY DEF ProgramInv
  <1>2. CASE MapPages \/ EnableFloat
    <2>1. /\ at = "supervisor" /\ at' = "monitor" /\ insn' = insn
          /\ before' = WithPages(before, AllPages) \/ before' = WithFs(before, "clean")
      BY <1>2 DEF MapPages, EnableFloat, WithPages, WithFs
    <2>2. before'.x = before.x /\ before'.f = before.f /\ before'.mem = before.mem
      BY <1>1, <2>1, PagesMapped, FloatEnabled
    <2>3. (insn.k \in Memory => Placed)'
      BY <2>1, <2>2 DEF AccessInv, Placed, Addr, Size, X
    <2>4. AccessesComplete'
      BY <2>1 DEF AccessesComplete, Ended
    <2>5. QED
      BY <2>1, <2>3, <2>4 DEF AccessInv
  <1>3. CASE Continue
    <2>1. at' = "program" /\ \A r \in FRegs : hart'.f[r] = 0
      BY <1>3 DEF Continue, Idle
    <2>2. AccessesComplete'
      BY <2>1 DEF AccessesComplete, Ended
    <2>3. QED
      BY <2>1, <2>2 DEF AccessInv
  <1>4. QED
    BY <1>2, <1>3

(* A load or a store that the monitor completes, at once or after pages    *)
(* were mapped and it was retried, has the effect of the one access the    *)
(* program asked for: the register or the bytes of memory, and no other.   *)
THEOREM AccessesAreComplete == Spec => []AccessesComplete
  <1>1. Init => AccessInv
    BY DEF Init, AccessInv, AccessesComplete, Ended, Idle
  <1>2. ProgramInv /\ AccessInv /\ [Next]_vars => AccessInv'
    <2> SUFFICES ASSUME ProgramInv, AccessInv, [Next]_vars PROVE AccessInv'
      OBVIOUS
    <2>1. CASE \E i \in Insns : IssueMemory(i) \/ IssueInteger(i) \/ IssueFloat(i) \/ IssueOther(i)
      BY <2>1, AccessIssued
    <2>2. CASE Trap
      BY <2>2, AccessTrap
    <2>3. CASE MapPages \/ EnableFloat \/ Continue
      BY <2>3, AccessSupervised
    <2>4. CASE UNCHANGED vars
      BY <2>4 DEF vars, AccessInv, Placed, AccessesComplete, LoadRight, StoreRight, Bytes,
                  Ended, Addr, Size, X, Rd
    <2>5. QED
      BY <2>1, <2>2, <2>3, <2>4 DEF Next
  <1>3. AccessInv => AccessesComplete
    BY DEF AccessInv
  <1>4. QED
    BY <1>1, <1>2, <1>3, InstructionsKept, PTL DEF Spec

=============================================================================
