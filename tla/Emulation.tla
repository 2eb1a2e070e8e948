----------------------------- MODULE Emulation -----------------------------
(***************************************************************************)
(* src/bbl/emulation.c: the instructions the monitor executes for a hart   *)
(* that cannot, as functions of the instruction and of the hart.           *)
(*                                                                         *)
(* An instruction is a record of its fields: k its name, rd, rs1, rs2, rs3 *)
(* register numbers, rm the bits of funct3, p the precision, imm the       *)
(* immediate, n the number in the place of rs2 when that is no register.   *)
(*                                                                         *)
(* The hart is a record: x and f the registers of the save area, mem its   *)
(* memory by bytes and pages the mapped pages of it, fs the field FS of    *)
(* mstatus, tp the word that holds the emulated fcsr while the monitor     *)
(* runs, pc how many instructions it has completed, ret what the handler   *)
(* returned, csrs whether mepc and mstatus are those of the trap or of an  *)
(* access of the monitor that faulted, cause what mcause says, ub how the  *)
(* build settles an overflow that C leaves undefined.                      *)
(*                                                                         *)
(* This is the build without hardware floating point, on which a program   *)
(* can reach every handler: fcsr is kept in the slot of x0 of the save     *)
(* area.  A word is four bytes of ByteBits bits, a single fills a word.    *)
(***************************************************************************)
EXTENDS SoftFloat

CONSTANTS ByteBits,               \* 8
          PageSize, TextPage      \* bytes of a page; the page the instruction is on

WordBits == 4 * ByteBits
XLen == 8 * ByteBits
ASSUME EmulationAssumption ==
    /\ ByteBits \in Nat \ {0} /\ PageSize \in Nat \ {0} /\ TextPage \in Nat
    /\ WordBits = W(F32)

-----------------------------------------------------------------------------
(* Registers, the outcome of a handler, and fcsr (mtrap.h).                *)

Xword(v) == v % 2 ^ XLen
Sext(n, v) == IF v >= 2 ^ (n - 1) THEN Xword(v - 2 ^ n) ELSE v   \* from n bits

SET_RD(i, h, v) == [h EXCEPT !.x[i.rd] = v]
SET_FS_DIRTY(h) == [h EXCEPT !.fs = "dirty"]
GET_F32(h, r) == h.f[r] % 2 ^ WordBits
SET_F32_RD(i, h, v) ==
    SET_FS_DIRTY([h EXCEPT !.f[i.rd] = @ - (@ % 2 ^ WordBits) + v])
SET_F64_RD(i, h, v) == SET_FS_DIRTY([h EXCEPT !.f[i.rd] = v])

Done(h) == [h EXCEPT !.pc = @ + 1, !.ret = 0]
Refuse(h) == [h EXCEPT !.ret = -1]

FlagBit == [inexact |-> 1, underflow |-> 2, overflow |-> 4, infinity |-> 8, invalid |-> 16]
FlagsOf(n) == {g \in DOMAIN FlagBit : (n \div FlagBit[g]) % 2 = 1}
softfloat_raiseFlags(h, fl) ==
    LET New == (DOMAIN FlagBit \ FlagsOf(h.tp)) \intersect fl
    IN  [h EXCEPT !.tp = @ + SumFunctionOnSet(FlagBit, New)]

GET_FCSR(h) == h.tp % 256
GET_FRM(h) == GET_FCSR(h) \div 32
GET_FFLAGS(h) == GET_FCSR(h) % 32
SET_FCSR(h, v) == [h EXCEPT !.tp = v % 256]
SET_FRM(h, v) == SET_FCSR(h, GET_FFLAGS(h) + v * 32)
SET_FFLAGS(h, v) == SET_FCSR(h, GET_FRM(h) * 32 + (v % 32))

(* Bits 13 to 15 of tp are the rounding mode: that of the instruction, or  *)
(* with rm = 7 that of fcsr.  Modes 5 to 7, which only fcsr can ask for,   *)
(* match no test of the library; what is left truncates.                   *)
StaticMode(i) == i.rm \in 0..4 \union {7}
SETUP_STATIC_ROUNDING(i, h) ==
    LET t == GET_FCSR(h)
    IN  [h EXCEPT !.tp = CASE i.rm = 7 -> t + t * 256
                           [] i.rm \in 0..4 -> t + i.rm * 2 ^ 13
                           [] OTHER -> t]
ModeNames == <<"near_even", "minMag", "min", "max", "near_maxMag">>
ModeOf(n) == IF n \in 0..4 THEN ModeNames[n + 1] ELSE "minMag"
softfloat_roundingMode(h) == ModeOf(h.tp \div 2 ^ 13)

-----------------------------------------------------------------------------
(* Memory of the trapped program (unpriv_mem_access, get_insn).  An access *)
(* that faults enters the monitor from itself and is given up at its first *)
(* unmapped byte; mepc, mstatus and mcause are then those of that fault.   *)

PageOf(addr) == addr \div PageSize
Reaches(h, addr, n) == \A j \in 0..(n - 1) : PageOf(addr + j) \in h.pages
Faulted(h) == [h EXCEPT !.csrs = "nested", !.cause = "fault"]
restore_mstatus(h) == [h EXCEPT !.csrs = "trap"]
FetchFails(h) == TextPage \notin h.pages      \* then get_insn restores all three
\* Mutant: a fault is passed on with the registers it has overwritten.
RefuseUnrestored(h) == Refuse(Faulted(h))
RefuseFault(h) == Refuse(restore_mstatus(Faulted(h)))

WordAt(h, addr, n) ==
    SumFunctionOnSet([j \in 0..(n - 1) |-> h.mem[addr + j] * 2 ^ (ByteBits * j)], 0..(n - 1))

(* Two aligned accesses of n bytes and the bytes asked for put together.   *)
\* Mutant: the upper part is shifted by one byte less.
DoLoadShort(h, addr, n) ==
    LET off == addr % n
        lo  == addr - off
    IN  WordAt(h, lo, n) \div 2 ^ (ByteBits * off)
        + ((WordAt(h, lo + n, n) * 2 ^ (ByteBits * (n - off - 1))) % 2 ^ (ByteBits * n))
DO_LOAD(h, addr, n) ==
    LET off == addr % n
        lo  == addr - off
    IN  WordAt(h, lo, n) \div 2 ^ (ByteBits * off)
        + ((WordAt(h, lo + n, n) * 2 ^ (ByteBits * (n - off))) % 2 ^ (ByteBits * n))

(* The bytes of v at addr, lowest first, up to the first that faults.      *)
StoreBytes(h, addr, v, n) ==
    LET Written == {j \in 0..(n - 1) : Reaches(h, addr, j + 1)}
    IN  [h EXCEPT !.mem = [b \in DOMAIN @ |->
            IF b - addr \in Written THEN (v \div 2 ^ (ByteBits * (b - addr))) % 2 ^ ByteBits
            ELSE @[b]]]

SizeOf == [lh |-> 2, lhu |-> 2, sh |-> 2, lw |-> 4, lwu |-> 4, flw |-> 4, sw |-> 4,
           fsw |-> 4, ld |-> 8, fld |-> 8, sd |-> 8, fsd |-> 8]
Address(i, h) == Xword(h.x[i.rs1] + i.imm)

SetLoaded(i, h, v) ==
    CASE i.k = "flw" -> SET_F32_RD(i, h, v)
      [] i.k = "fld" -> SET_F64_RD(i, h, v)
      [] i.k = "lh"  -> SET_RD(i, h, Sext(2 * ByteBits, v))
      [] i.k = "lw"  -> SET_RD(i, h, Sext(WordBits, v))
      [] OTHER       -> SET_RD(i, h, v)

\* lh and lhu are read by bytes, the others by aligned pairs.
misaligned_load_trap(i, h) ==
    LET addr == Address(i, h)
        n    == SizeOf[i.k]
        v    == IF n = 2 THEN WordAt(h, addr, 2) ELSE DO_LOAD(h, addr, n)
    IN  CASE FetchFails(h) -> Refuse(h)
          [] ~FetchFails(h) /\ ~Reaches(h, addr, n) -> RefuseFault(h)
          [] OTHER -> Done(SetLoaded(i, h, v))

StoredValue(i, h) ==
    CASE i.k = "fsw" -> GET_F32(h, i.rs2)
      [] i.k = "fsd" -> h.f[i.rs2]
      [] OTHER       -> h.x[i.rs2]

misaligned_store_trap(i, h) ==
    LET addr == Address(i, h)
        n    == SizeOf[i.k]
        h1   == StoreBytes(h, addr, StoredValue(i, h), n)
    IN  CASE FetchFails(h) -> Refuse(h)
          [] ~FetchFails(h) /\ ~Reaches(h, addr, n) -> RefuseFault(h1)
          [] OTHER -> Done(h1)

\* Neither asks whether the FPU is on, as emulate_fp and emulate_any_fmadd do.
emulate_float_load(i, h) ==
    LET addr == Address(i, h)
        n    == SizeOf[i.k]
    IN  CASE addr % n # 0 -> misaligned_load_trap(i, h)
          [] addr % n = 0 /\ ~Reaches(h, addr, n) -> RefuseFault(h)
          [] OTHER -> Done(SetLoaded(i, h, WordAt(h, addr, n)))

emulate_float_store(i, h) ==
    LET addr == Address(i, h)
        n    == SizeOf[i.k]
    IN  CASE addr % n # 0 -> misaligned_store_trap(i, h)
          [] addr % n = 0 /\ ~Reaches(h, addr, n) -> RefuseFault(h)
          [] OTHER -> Done(StoreBytes(h, addr, StoredValue(i, h), n))

-----------------------------------------------------------------------------
(* Multiplication and division.  The product is computed in two words.     *)

DoubleInt(a, b) ==
    LET H == 2 ^ (4 * ByteBits)
        p == (a \div H) * b
        q == (a % H) * b + (p % H) * H
    IN  [hi |-> Xword(p \div H + q \div (H * H)), lo |-> Xword(q)]

(* C's division truncates.  What it leaves undefined, a divisor of zero    *)
(* and the quotient that overflows, is what the division of the build      *)
(* gives, be it the processor's or libgcc's: -1, and the dividend.         *)
Quotient(a, b) ==
    CASE b = 0 -> -1
      [] b # 0 /\ (a < 0) = (b < 0) -> Abs(a) \div Abs(b)
      [] OTHER -> -(Abs(a) \div Abs(b))
Remainder(a, b) == IF b = 0 THEN a ELSE a - b * Quotient(a, b)

emulate_mul_div(i, h) ==
    LET a  == h.x[i.rs1]
        b  == h.x[i.rs2]
        sa == Signed(XLen, a)
        sb == Signed(XLen, b)
        v  == CASE i.k = "mul"    -> DoubleInt(a, b).lo
                [] i.k = "div"    -> Xword(Quotient(sa, sb))
                [] i.k = "divu"   -> Xword(Quotient(a, b))
                [] i.k = "rem"    -> Xword(Remainder(sa, sb))
                [] i.k = "remu"   -> Remainder(a, b)
                [] i.k = "mulh"   -> DoubleInt(sa, sb).hi
                [] i.k = "mulhu"  -> DoubleInt(a, b).hi
                [] i.k = "mulhsu" -> DoubleInt(sa, b).hi
                [] OTHER          -> 0
    IN  IF i.k \in {"mul", "div", "divu", "rem", "remu", "mulh", "mulhu", "mulhsu"}
        THEN Done(SET_RD(i, h, v)) ELSE Refuse(h)

(* Of the instructions on words only mulw is recognised: the others are    *)
(* compared with the patterns of the instructions on double words.         *)
emulate_mul_div32(i, h) ==
    IF i.k = "mulw"
    THEN Done(SET_RD(i, h, Sext(WordBits, DoubleInt(h.x[i.rs1] % 2 ^ WordBits,
                                                    h.x[i.rs2] % 2 ^ WordBits).lo % 2 ^ WordBits)))
    ELSE Refuse(h)

-----------------------------------------------------------------------------
(* frm, fflags and fcsr.  A set or clear with no bits in it does not write.*)

emulate_read_csr(csr, h) ==
    CASE csr = "frm" -> GET_FRM(h) [] csr = "fflags" -> GET_FFLAGS(h) [] OTHER -> GET_FCSR(h)
emulate_write_csr(csr, h, v) ==
    CASE csr = "frm" -> SET_FRM(h, v)
      [] csr = "fflags" -> SET_FFLAGS(h, v)
      [] OTHER -> SET_FCSR(h, v)

BitsOf(v) == {j \in 0..(XLen - 1) : (v \div 2 ^ j) % 2 = 1}
NumberOf(B) == SumFunctionOnSet([j \in B |-> 2 ^ j], B)

emulate_system(i, h) ==
    LET old == emulate_read_csr(i.csr, h)
        arg == IF i.rm >= 5 THEN i.rs1 ELSE h.x[i.rs1]
        new == CASE i.rm % 4 = 1 -> arg
                 [] i.rm % 4 = 2 -> NumberOf(BitsOf(old) \union BitsOf(arg))
                 [] OTHER        -> NumberOf(BitsOf(old) \ BitsOf(arg))
        h1  == IF i.rm % 4 = 1 \/ i.rs1 # 0 THEN emulate_write_csr(i.csr, h, new) ELSE h
    IN  IF i.csr \notin {"frm", "fflags", "fcsr"} \/ h.fs = "off" \/ i.rm % 4 = 0 THEN Refuse(h)
        ELSE Done(SET_RD(i, h1, old))

-----------------------------------------------------------------------------
(* Floating point.  Both precisions do the same, each with its routines.   *)

Precise(i) == i.p \in {"S", "D"}
Format(i) == IF i.p = "S" THEN F32 ELSE F64
GetF(i, h, r) == IF i.p = "S" THEN GET_F32(h, r) ELSE h.f[r]
SetF(i, h, v) == IF i.p = "S" THEN SET_F32_RD(i, h, v) ELSE SET_F64_RD(i, h, v)
FlipSign(F, v) == (v + TopBit(F)) % 2 ^ W(F)

(* A routine's result in the destination, its flags in fcsr.               *)
ReturnF(i, h, r) ==
    IF Precise(i) THEN Done(softfloat_raiseFlags(SetF(i, h, r.v), r.fl)) ELSE Refuse(h)

emulate_any_fadd(i, h, neg) ==
    LET m == softfloat_roundingMode(h)
        a == GetF(i, h, i.rs1)
        b == IF neg THEN FlipSign(Format(i), GetF(i, h, i.rs2)) ELSE GetF(i, h, i.rs2)
    IN  ReturnF(i, h, IF i.p = "S" THEN f32_add(m, a, b) ELSE f64_add(m, a, b))
emulate_fadd(i, h) == emulate_any_fadd(i, h, FALSE)
emulate_fsub(i, h) == emulate_any_fadd(i, h, TRUE)
emulate_fmul(i, h) ==
    LET m == softfloat_roundingMode(h)
        a == GetF(i, h, i.rs1)
        b == GetF(i, h, i.rs2)
    IN  ReturnF(i, h, IF i.p = "S" THEN f32_mul(m, a, b) ELSE f64_mul(m, a, b))
emulate_fdiv(i, h) ==
    LET m == softfloat_roundingMode(h)
        a == GetF(i, h, i.rs1)
        b == GetF(i, h, i.rs2)
    IN  ReturnF(i, h, IF i.p = "S" THEN f32_div(m, a, b) ELSE f64_div(m, a, b))
emulate_fsqrt(i, h) ==
    LET m == softfloat_roundingMode(h)
        a == GetF(i, h, i.rs1)
    IN  IF i.n # 0 THEN Refuse(h)
        ELSE ReturnF(i, h, IF i.p = "S" THEN f32_sqrt(m, a, 0) ELSE f64_sqrt(m, a, 0))

emulate_fsgnj(i, h) ==
    LET F == Format(i)
        a == GetF(i, h, i.rs1)
        s == Sign(F, GetF(i, h, i.rs2))
        sign == Xor(i.rm % 2, Xor(s, IF i.rm = 2 THEN Sign(F, a) ELSE 0))
    IN  IF i.rm >= 3 THEN Refuse(h)
        ELSE ReturnF(i, h, Ret(sign * TopBit(F) + (a % TopBit(F)), {}))

emulate_fmin(i, h) ==
    LET F  == Format(i)
        a  == GetF(i, h, i.rs1)
        b  == GetF(i, h, i.rs2)
        x  == IF i.rm = 1 THEN b ELSE a
        y  == IF i.rm = 1 THEN a ELSE b
        lt == IF i.p = "S" THEN f32_lt_quiet(x, y) ELSE f64_lt_quiet(x, y)
    IN  IF i.rm >= 2 THEN Refuse(h)
        ELSE ReturnF(i, h, Ret(IF lt.v = 1 \/ IsNaN(F, b) THEN a ELSE b, lt.fl))

(* From the other precision.                                               *)
emulate_fcvt_ff(i, h) ==
    IF i.n # (IF i.p = "S" THEN 1 ELSE 0) THEN Refuse(h)
    ELSE ReturnF(i, h, IF i.p = "S" THEN f64_to_f32(softfloat_roundingMode(h), h.f[i.rs1])
                       ELSE f32_to_f64(GET_F32(h, i.rs1)))

(* From an integer, signed for n = 0 and 2, a word for 0 and 1: magnitude  *)
(* to double, sign, and for a single a second conversion.  Negating the    *)
(* least word overflows, which C leaves undefined: the result is extended  *)
(* with its sign, or taken for the positive number it should be.           *)
emulate_fcvt_fi(i, h) ==
    LET m   == softfloat_roundingMode(h)
        bits == IF i.n \in {0, 1} THEN WordBits ELSE XLen
        s   == Signed(bits, h.x[i.rs1])
        neg == i.n \in {0, 2} /\ s < 0
        mag == CASE i.n = 0 /\ s = IntMin(WordBits) /\ h.ub -> Xword(s)
                 [] i.n \in {1, 3} -> h.x[i.rs1] % 2 ^ bits
                 [] OTHER -> Abs(s)
        d   == ui64_to_f64(m, mag)
        d1  == IF neg THEN FlipSign(F64, d.v) ELSE d.v
        r   == IF i.p = "S" THEN Raise(f64_to_f32(m, d1), d.fl) ELSE Ret(d1, d.fl)
    IN  IF ~Precise(i) \/ i.n \notin 0..3 THEN Refuse(h) ELSE ReturnF(i, h, r)

(* To an integer: the magnitude as an unsigned double word, in the mode    *)
(* asked for, then the sign and the range of the type.                     *)
\* Mutant: the largest magnitude is one more.
BoundsOffByOne(n, neg) ==
    CASE n = 0 -> [top |-> 2 ^ (WordBits - 1), out |-> IntMax(WordBits) + Bool(neg)]
      [] n = 1 -> [top |-> IF neg THEN 0 ELSE UIntMax(WordBits), out |-> UIntMax(WordBits)]
      [] n = 2 -> [top |-> 2 ^ (XLen - 1), out |-> IntMax(XLen) + Bool(neg)]
      [] n = 3 -> [top |-> IF neg THEN 0 ELSE UIntMax(XLen), out |-> UIntMax(XLen)]
Bounds(n, neg) ==
    CASE n = 0 -> [top |-> IntMax(WordBits) + Bool(neg), out |-> IntMax(WordBits) + Bool(neg)]
      [] n = 1 -> [top |-> IF neg THEN 0 ELSE UIntMax(WordBits), out |-> UIntMax(WordBits)]
      [] n = 2 -> [top |-> IntMax(XLen) + Bool(neg), out |-> IntMax(XLen) + Bool(neg)]
      [] n = 3 -> [top |-> IF neg THEN 0 ELSE UIntMax(XLen), out |-> UIntMax(XLen)]
emulate_fcvt_if(i, h) ==
    LET d   == IF i.p = "S" THEN f32_to_f64(GET_F32(h, i.rs1)) ELSE Ret(h.f[i.rs1], {})
        neg == Sign(F64, d.v) = 1
        u   == f64_to_ui64(d.v % TopBit(F64), softfloat_roundingMode(h), TRUE)
        lim == Bounds(i.n, neg)
        v   == CASE u.v > lim.top -> lim.out
                 [] u.v <= lim.top /\ i.n = 0 -> Xword(Signed(WordBits, IF neg THEN -u.v ELSE u.v))
                 [] u.v <= lim.top /\ i.n = 2 -> Xword(IF neg THEN -u.v ELSE u.v)
                 [] OTHER -> u.v
        fl  == d.fl \union u.fl \union (IF u.v > lim.top THEN {"invalid"} ELSE {})
    IN  IF i.n >= 4 \/ ~Precise(i) THEN Refuse(h)
        ELSE Done(SET_RD(i, SET_FS_DIRTY(softfloat_raiseFlags(h, fl)), v))

(* rm is 0 for <=, 1 for <, 2 for =.                                       *)
emulate_fcmp(i, h) ==
    LET a  == GetF(i, h, i.rs1)
        b  == GetF(i, h, i.rs2)
        eq == IF i.p = "S" THEN f32_eq(a, b) ELSE f64_eq(a, b)
        lt == IF i.p = "S" THEN f32_lt(a, b) ELSE f64_lt(a, b)
        r  == CASE i.rm = 1 -> lt
                [] i.rm = 0 /\ eq.v = 0 -> Raise(lt, eq.fl)
                [] OTHER -> eq
    IN  IF i.rm >= 3 \/ ~Precise(i) THEN Refuse(h)
        ELSE Done(SET_RD(i, softfloat_raiseFlags(h, r.fl), r.v))

(* Moves of bits; that of a single to an integer register extends its sign.*)
emulate_fmv_if(i, h) ==
    CASE i.k = "fmv_x_s" /\ i.rm = 0 -> Done(SET_RD(i, h, Sext(WordBits, GET_F32(h, i.rs1))))
      [] i.k = "fmv_x_d" /\ i.rm = 0 -> Done(SET_RD(i, h, h.f[i.rs1]))
      [] OTHER -> Refuse(h)
emulate_fmv_fi(i, h) ==
    CASE i.k = "fmv_s_x" /\ i.rm = 0 -> Done(SET_F32_RD(i, h, h.x[i.rs1] % 2 ^ WordBits))
      [] i.k = "fmv_d_x" /\ i.rm = 0 -> Done(SET_F64_RD(i, h, h.x[i.rs1]))
      [] OTHER -> Refuse(h)

FusedOp == [fmadd  |-> 0, fmsub |-> softfloat_mulAdd_subC, fnmsub |-> softfloat_mulAdd_subProd,
            fnmadd |-> softfloat_mulAdd_subC + softfloat_mulAdd_subProd]
emulate_any_fmadd(i, h0) ==
    LET h == SETUP_STATIC_ROUNDING(i, h0)
        m == softfloat_roundingMode(h)
        a == GetF(i, h, i.rs1)
        b == GetF(i, h, i.rs2)
        c == GetF(i, h, i.rs3)
        op == FusedOp[i.k]
    IN  CASE h.fs = "off" \/ ~StaticMode(i) -> Refuse(IF h.fs = "off" THEN h0 ELSE h)
          [] OTHER -> ReturnF(i, h, IF i.p = "S" THEN softfloat_mulAddF32(op, m, a, b, c)
                                    ELSE softfloat_mulAddF64(op, m, a, b, c))

fp_emulation_table(i, h) ==
    CASE i.k = "fadd"  -> emulate_fadd(i, h)
      [] i.k = "fsub"  -> emulate_fsub(i, h)
      [] i.k = "fmul"  -> emulate_fmul(i, h)
      [] i.k = "fdiv"  -> emulate_fdiv(i, h)
      [] i.k = "fsgnj" -> emulate_fsgnj(i, h)
      [] i.k = "fmin"  -> emulate_fmin(i, h)
      [] i.k = "fcvt_ff" -> emulate_fcvt_ff(i, h)
      [] i.k = "fsqrt" -> emulate_fsqrt(i, h)
      [] i.k = "fcmp"  -> emulate_fcmp(i, h)
      [] i.k = "fcvt_if" -> emulate_fcvt_if(i, h)
      [] i.k = "fcvt_fi" -> emulate_fcvt_fi(i, h)
      [] i.k \in {"fmv_x_s", "fmv_x_d", "fclass"} -> emulate_fmv_if(i, h)
      [] i.k \in {"fmv_s_x", "fmv_d_x"} -> emulate_fmv_fi(i, h)
emulate_fp(i, h) ==
    CASE h.fs = "off" -> Refuse(h)
      [] h.fs # "off" /\ ~StaticMode(i) -> Refuse(SETUP_STATIC_ROUNDING(i, h))
      [] OTHER -> fp_emulation_table(i, SETUP_STATIC_ROUNDING(i, h))

-----------------------------------------------------------------------------
(* The handlers by instruction (illegal_insn_trap_table in mtrap.c).       *)

FloatLoads == {"flw", "fld"}
FloatStores == {"fsw", "fsd"}
MisalignedLoads == {"lh", "lhu", "lw", "lwu", "ld"}
MisalignedStores == {"sh", "sw", "sd"}
MulDiv == {"mul", "mulh", "mulhu", "mulhsu", "div", "divu", "rem", "remu"}
MulDiv32 == {"mulw", "divw", "divuw", "remw", "remuw"}
Fused == DOMAIN FusedOp
Float == {"fadd", "fsub", "fmul", "fdiv", "fsqrt", "fsgnj", "fmin", "fcmp", "fcvt_ff",
          "fcvt_if", "fcvt_fi", "fmv_x_s", "fmv_x_d", "fmv_s_x", "fmv_d_x", "fclass"}

illegal_insn_trap(i, h) ==
    CASE FetchFails(h) -> Refuse(h)
      [] ~FetchFails(h) /\ i.k \in FloatLoads -> emulate_float_load(i, h)
      [] ~FetchFails(h) /\ i.k \in FloatStores -> emulate_float_store(i, h)
      [] ~FetchFails(h) /\ i.k \in MulDiv -> emulate_mul_div(i, h)
      [] ~FetchFails(h) /\ i.k \in MulDiv32 -> emulate_mul_div32(i, h)
      [] ~FetchFails(h) /\ i.k \in Fused -> emulate_any_fmadd(i, h)
      [] ~FetchFails(h) /\ i.k \in Float -> emulate_fp(i, h)
      [] ~FetchFails(h) /\ i.k = "csr" -> emulate_system(i, h)
      [] OTHER -> Refuse(h)           \* truly_illegal_insn

(* Entry and exit take fcsr out of the slot of x0 and put it back, and the *)
(* slot holds zero meanwhile (mentry.S).                                   *)
Enter(i, h) == [h EXCEPT !.tp = h.x[0], !.x[0] = 0, !.csrs = "trap",
                         !.cause = IF i.k \in MisalignedLoads \union MisalignedStores
                                   THEN "misaligned" ELSE "illegal"]
\* Mutant: fcsr is not put back over what the handler left in the slot.
LeaveSlot(h) == h
Leave(h) == [h EXCEPT !.x[0] = h.tp, !.tp = 0]
Handle(i, h) ==
    CASE i.k \in MisalignedLoads -> misaligned_load_trap(i, h)
      [] i.k \in MisalignedStores -> misaligned_store_trap(i, h)
      [] OTHER -> illegal_insn_trap(i, h)
=============================================================================
