-------------------------- MODULE EmulatedProgram --------------------------
(***************************************************************************)
(* A program on a hart that traps into the monitor for some instructions,  *)
(* and the supervisor that hears of those the monitor cannot finish: it    *)
(* maps the page that was missing or turns the FPU on and has the          *)
(* instruction retried, or gives the program up.                           *)
(*                                                                         *)
(* Between two such instructions the program computes whatever it likes:   *)
(* each is issued with operands, memory and pages from the given sets.     *)
(***************************************************************************)
EXTENDS Emulation, FloatReference, Sequences

CONSTANTS
    Program,                      \* bound: for each step the instructions it may issue
    Words, Singles, Doubles,      \* contents of registers by class of instruction
    Factors, Addends,             \* operands of the fused instructions
    CsrWords,                     \* operands of the CSR instructions
    Addresses, Memories,          \* base addresses; contents of memory
    PageSets,                     \* the pages that may be mapped
    Fcsrs                         \* contents of fcsr when the program starts

VARIABLES hart, insn, at, before, issued
vars == <<hart, insn, at, before, issued>>

XRegs == 0..3
FRegs == 1..3
NoInsn == [k |-> "none"]
Memory == MisalignedLoads \union MisalignedStores \union FloatLoads \union FloatStores
ASSUME ProgramAssumption ==
    /\ Len(Program) \in Nat /\ Fcsrs \subseteq Nat /\ CsrWords \subseteq Nat
    /\ \A n \in 1..Len(Program) : \A i \in Program[n] :
          /\ i.rs1 \in XRegs /\ i.rm \in 0..7 /\ i.p \in {"S", "D", "Q"} /\ i.n \in Nat
          /\ i.csr \in {"frm", "fflags", "fcsr", "other"}
          /\ i.k \in Memory => i.rs1 = 1 /\ i.imm \in Int      \* the base is in x1
                /\ i.rd \in (IF i.k \in FloatLoads THEN FRegs ELSE XRegs)
                /\ i.rs2 \in (IF i.k \in FloatStores THEN FRegs ELSE XRegs)
    /\ Addresses \subseteq Nat
    /\ \A m \in Memories : \E last \in 7..(2 ^ XLen - 1) : m \in [0..last -> 0..(2 ^ ByteBits - 1)]
AllPages == UNION PageSets

(* x0's slot outlives an instruction, the other registers are the          *)
(* program's to reload.                                                    *)
Idle(slot, fs) ==
    [x |-> [r \in XRegs |-> IF r = 0 THEN slot ELSE 0], f |-> [r \in FRegs |-> 0], tp |-> 0,
     mem |-> CHOOSE m \in Memories : TRUE, pages |-> AllPages, fs |-> fs, pc |-> 0, ret |-> 0,
     csrs |-> "trap", cause |-> "none", ub |-> FALSE]

Init ==
    /\ \E fcsr \in Fcsrs : hart = Idle(fcsr, "clean")
    /\ insn = NoInsn
    /\ at = "program"
    /\ before = hart
    /\ issued = 0

IntArgs == MulDiv \union MulDiv32 \union {"csr", "fcvt_fi", "fmv_s_x", "fmv_d_x"}
Wide(i) == (i.k \in Float \union Fused /\ i.p # "S") \/ (i.k = "fcvt_ff" /\ i.p = "S")

Begin(i, h) ==
    /\ insn' = i
    /\ hart' = h
    /\ before' = h
    /\ at' = "monitor"
    /\ issued' = issued + 1
Issuing == at = "program" /\ issued < Len(Program)

Insns == IF Issuing THEN Program[issued + 1] ELSE {}

(* An instruction of the FPU is issued with the FPU off as well.           *)
IssueMemory(i) ==
    /\ Issuing /\ i.k \in Memory
    /\ \E a \in Addresses, m \in Memories, ps \in PageSets, fs \in {"off", "clean"} :
          /\ a + i.imm + 2 * SizeOf[i.k] - 1 \in DOMAIN m /\ a + i.imm >= 0
          /\ i.k \in MisalignedLoads \union MisalignedStores =>
                fs = "clean" /\ (a + i.imm) % SizeOf[i.k] # 0
          /\ Begin(i, [hart EXCEPT !.x[1] = a, !.x[2] = WordAt([mem |-> m], 0, 8),
                                   !.f[2] = WordAt([mem |-> m], 0, 8),
                                   !.mem = m, !.pages = ps, !.fs = fs])

IssueInteger(i) ==
    /\ Issuing /\ i.k \in IntArgs
    /\ LET V == IF i.k = "csr" THEN CsrWords ELSE Words
       IN  \E a \in V, b \in (IF i.k \in MulDiv \union MulDiv32 THEN Words ELSE {0}),
              fs \in {"off", hart.fs}, ub \in BOOLEAN :
              /\ fs = "off" => a = 0 /\ i.k \notin MulDiv \union MulDiv32
              /\ ub => i.k = "fcvt_fi"
              /\ Begin(i, [hart EXCEPT !.x[1] = a, !.x[2] = b, !.fs = fs, !.ub = ub])

IssueFloat(i) ==
    /\ Issuing /\ i.k \in (Float \union Fused) \ IntArgs
    /\ LET V == CASE i.k \in Fused -> Factors
                  [] i.k \notin Fused /\ Wide(i) -> Doubles
                  [] OTHER -> Singles
           One == i.k \in {"fsqrt", "fcvt_if", "fcvt_ff", "fmv_x_s", "fmv_x_d", "fclass"}
       IN  \E a \in V : \E b \in (IF One THEN {0} ELSE V),
              c \in (IF i.k \in Fused THEN Addends ELSE {0}), fs \in {"off", "clean"} :
              /\ fs = "off" => a = 0 /\ b = 0
              /\ Begin(i, [hart EXCEPT !.f = <<a, b, c>>, !.fs = fs])

IssueOther(i) == Issuing /\ i.k = "other" /\ Begin(i, hart)

(* The whole way through the monitor, up to the return to the program or   *)
(* the redirection to the supervisor.                                      *)
Trap ==
    /\ at = "monitor"
    /\ hart' = Leave(Handle(insn, Enter(insn, hart)))
    /\ at' = IF hart'.ret = 0 THEN "done" ELSE "supervisor"
    /\ UNCHANGED <<insn, before, issued>>

(* The supervisor acts on what mcause and mstatus say.                     *)
MapPages ==
    /\ at = "supervisor" /\ hart.cause = "fault"
    /\ hart' = [hart EXCEPT !.pages = AllPages]
    /\ before' = [before EXCEPT !.pages = AllPages]
    /\ at' = "monitor"
    /\ UNCHANGED <<insn, issued>>
EnableFloat ==
    /\ at = "supervisor" /\ hart.cause # "fault" /\ hart.fs = "off"
    /\ hart' = [hart EXCEPT !.fs = "clean"]
    /\ before' = [before EXCEPT !.fs = "clean"]
    /\ at' = "monitor"
    /\ UNCHANGED <<insn, issued>>

Continue ==                      \* the next instructions of the program, or of another
    /\ at \in {"done", "supervisor"}
    /\ hart' = Idle(hart.x[0], IF hart.fs = "off" THEN "clean" ELSE hart.fs)
    /\ insn' = NoInsn
    /\ at' = "program"
    /\ before' = hart'
    /\ UNCHANGED issued

Next ==
    \/ \E i \in Insns : IssueMemory(i) \/ IssueInteger(i) \/ IssueFloat(i) \/ IssueOther(i)
    \/ Trap \/ MapPages \/ EnableFloat \/ Continue
Spec == Init /\ [][Next]_vars

-----------------------------------------------------------------------------
(* What an instruction does, from the registers it was issued with.        *)

Fcsr(h) == h.x[0] % 256
Frm(h) == Fcsr(h) \div 32
Fflags(h) == FlagsOf(Fcsr(h))
Mode == ModeOf(IF insn.rm = 7 THEN Frm(before) ELSE insn.rm)
F == Format(insn)
A == GetF(insn, before, insn.rs1)
B == GetF(insn, before, insn.rs2)
C == GetF(insn, before, insn.rs3)
S == insn.p = "S"
X(r) == IF r = 0 THEN 0 ELSE before.x[r]
Rd == hart.x[insn.rd]
Fd == GetF(insn, hart, insn.rd)
ExactlyFlags(fl) == Fflags(hart) = Fflags(before) \union fl

Same(v, w) == v = w \/ (IsNaN(F, v) /\ IsNaN(F, w))
Gives(r) == Same(Fd, r.v) /\ ExactlyFlags(r.fl)

(* Memory: the bytes at the address, lowest first, with the sign of the    *)
(* type; a store changes those bytes and no other.                         *)
Addr == Xword(X(insn.rs1) + insn.imm)
Size == SizeOf[insn.k]
Bytes(v, j) == (v \div 2 ^ (ByteBits * j)) % 2 ^ ByteBits
LoadRight ==
    LET top == before.mem[Addr + Size - 1] >= 2 ^ (ByteBits - 1)
        to  == IF insn.k = "flw" THEN 4 ELSE 8
        v   == IF insn.k \in FloatLoads THEN hart.f[insn.rd] ELSE Rd
    IN  \A j \in 0..(to - 1) :
           Bytes(v, j) = CASE j < Size -> before.mem[Addr + j]
                           [] j >= Size /\ insn.k \in {"lh", "lw"} /\ top -> 2 ^ ByteBits - 1
                           [] OTHER -> 0
StoreRight ==
    LET v == IF insn.k \in FloatStores THEN before.f[insn.rs2] ELSE X(insn.rs2)
    IN  \A b \in DOMAIN hart.mem :
           hart.mem[b] = IF b - Addr \in 0..(Size - 1) THEN Bytes(v, b - Addr) ELSE before.mem[b]

(* Products from the signed one, which TLC can write out; quotients by     *)
(* what they leave.                                                        *)
MulRight ==
    LET a == X(insn.rs1)
        b == X(insn.rs2)
        sa == Signed(XLen, a)
        sb == Signed(XLen, b)
        high == (sa * sb) \div 2 ^ XLen
    IN  Rd = CASE insn.k = "mul" -> Xword(sa * sb)
               [] insn.k = "mulh" -> Xword(high)
               [] insn.k = "mulhsu" -> Xword(high + IF sb < 0 THEN sa ELSE 0)
               [] insn.k = "mulhu" -> Xword(high + (IF sb < 0 THEN sa ELSE 0) + (IF sa < 0 THEN b ELSE 0))
               [] insn.k = "mulw" -> Xword(Signed(WordBits, (a % 2 ^ WordBits) * (b % 2 ^ WordBits)))
DivRight ==
    LET signed == insn.k \in {"div", "rem"}
        of(v)  == IF signed THEN Signed(XLen, v) ELSE v
        a == of(X(insn.rs1))
        b == of(X(insn.rs2))
        r == of(Rd)
        min == -(2 ^ (XLen - 1))
    IN  CASE insn.k \in {"div", "divu"} ->
                CASE b = 0 -> Rd = 2 ^ XLen - 1
                  [] signed /\ a = min /\ b = -1 -> r = min
                  [] OTHER -> /\ Abs(a - r * b) < Abs(b)
                              /\ a - r * b = 0 \/ (a - r * b < 0) = (a < 0)
          [] OTHER ->
                CASE b = 0 -> r = a
                  [] OTHER -> /\ Abs(r) < Abs(b) /\ (a - r) % Abs(b) = 0
                              /\ r = 0 \/ (r < 0) = (a < 0)

(* The CSRs are fields of one: a write of a field leaves the other.        *)
CsrRight ==
    LET old == CASE insn.csr = "frm" -> Frm(before) [] insn.csr = "fflags" -> Fcsr(before) % 32
                 [] OTHER -> Fcsr(before)
        width == CASE insn.csr = "frm" -> 3 [] insn.csr = "fflags" -> 5 [] OTHER -> 8
        arg == IF insn.rm >= 5 THEN insn.rs1 ELSE X(insn.rs1)
        Bit(v, j) == (v \div 2 ^ j) % 2 = 1
        New(j) == CASE insn.rm % 4 = 1 -> Bit(arg, j) [] insn.rm % 4 = 2 -> Bit(old, j) \/ Bit(arg, j)
                    [] OTHER -> Bit(old, j) /\ ~Bit(arg, j)
        first == IF insn.csr = "frm" THEN 5 ELSE 0
    IN  /\ insn.rd # 0 => Rd = old
        /\ \A j \in 0..7 : Bit(Fcsr(hart), j) =
              IF j - first \in 0..(width - 1) THEN New(j - first) ELSE Bit(Fcsr(before), j)

(* Floating point: the library's routine for the operation the instruction *)
(* names, in the mode of the instruction or else of fcsr.                  *)
Add(a, b) == IF S THEN f32_add(Mode, a, b) ELSE f64_add(Mode, a, b)
Fma(a, b, c) == IF S THEN f32_mulAdd(Mode, a, b, c) ELSE f64_mulAdd(Mode, a, b, c)
ArithmeticRight ==
    CASE insn.k = "fadd" -> Gives(Add(A, B))
      [] insn.k = "fsub" -> Gives(IF S THEN f32_sub(Mode, A, B) ELSE f64_sub(Mode, A, B))
      [] insn.k = "fmul" -> Gives(IF S THEN f32_mul(Mode, A, B) ELSE f64_mul(Mode, A, B))
      [] insn.k = "fdiv" -> Gives(IF S THEN f32_div(Mode, A, B) ELSE f64_div(Mode, A, B))
      [] insn.k = "fsqrt" -> Gives(IF S THEN f32_sqrt(Mode, A, 0) ELSE f64_sqrt(Mode, A, 0))
      [] insn.k = "fcvt_ff" ->
             Gives(IF S THEN f64_to_f32(Mode, before.f[insn.rs1]) ELSE f32_to_f64(GET_F32(before, insn.rs1)))
FusedResult ==
    LET a == IF insn.k \in {"fnmsub", "fnmadd"} THEN FlipSign(F, A) ELSE A
        c == IF insn.k \in {"fmsub", "fnmadd"} THEN FlipSign(F, C) ELSE C
    IN  Fma(a, B, c)

(* Signs, order and bits.                                                  *)
MinRight ==
    LET below(v, w) == IF insn.rm = 0 THEN Cmp(Number(F, v), Number(F, w)) <= 0
                       ELSE Cmp(Number(F, w), Number(F, v)) <= 0
    IN  /\ Fd \in {A, B}
        /\ ~IsNaN(F, A) /\ ~IsNaN(F, B) => below(Fd, A) /\ below(Fd, B)
        /\ IsNaN(F, Fd) => IsNaN(F, A) /\ IsNaN(F, B)
SgnjRight ==
    /\ Fd % TopBit(F) = A % TopBit(F)
    /\ Sign(F, Fd) = CASE insn.rm = 0 -> Sign(F, B) [] insn.rm = 1 -> 1 - Sign(F, B)
                       [] insn.rm = 2 -> Xor(Sign(F, A), Sign(F, B))
CmpRight ==
    LET d == Cmp(Number(F, A), Number(F, B))
        nan == IsNaN(F, A) \/ IsNaN(F, B)
    IN  /\ Rd = Bool(~nan /\ CASE insn.rm = 0 -> d <= 0 [] insn.rm = 1 -> d < 0 [] OTHER -> d = 0)
        /\ ExactlyFlags(IF IsSigNaN(F, A) \/ IsSigNaN(F, B) \/ (nan /\ insn.rm # 2) THEN {"invalid"} ELSE {})
MoveRight ==
    CASE insn.k = "fmv_x_s" -> Signed(XLen, Rd) = Signed(WordBits, before.f[insn.rs1])
      [] insn.k = "fmv_x_d" -> Rd = before.f[insn.rs1]
      [] insn.k = "fmv_s_x" -> GET_F32(hart, insn.rd) = X(insn.rs1) % 2 ^ WordBits
      [] insn.k = "fmv_d_x" -> hart.f[insn.rd] = X(insn.rs1)

(* Conversions of integers go through the magnitude and through double:    *)
(* where that gives the number the type and the mode ask for.              *)
Symmetric(neg) == ~neg \/ Mode \in {"near_even", "minMag", "near_maxMag"}
FromIntegerRight ==
    LET word == insn.n \in {0, 1}
        bits == IF word THEN WordBits ELSE XLen
        v == IF insn.n \in {0, 2} THEN Signed(bits, X(insn.rs1)) ELSE X(insn.rs1) % 2 ^ bits
        r == CASE insn.n \in {0, 1} -> ShortToF64(Bool(v < 0), Abs(v))
               [] insn.n = 2 -> i64_to_f64(Mode, v)
               [] insn.n = 3 -> ui64_to_f64(Mode, v)
        exact == Abs(v) < 2 ^ (FracBits64 + 1)
        overflows == insn.n = 0 /\ v = IntMin(WordBits) /\ before.ub
    IN  /\ S /\ exact /\ ~overflows => Gives(f64_to_f32(Mode, r.v))
        /\ ~S /\ Symmetric(v < 0) /\ ~overflows => Gives(r)
ToIntegerRight ==
    LET bits == IF insn.n \in {0, 1} THEN WordBits ELSE XLen
        signed == insn.n \in {0, 2}
        neg == Sign(F, A) = 1
        r == ToInteger(signed, bits, Mode, Number(F, A))
        low == Rd % 2 ^ bits
        bound == CASE ~signed -> UIntMax(bits) [] signed /\ neg -> IntMin(bits) [] OTHER -> IntMax(bits)
    IN  CASE IsNaN(F, A) -> "invalid" \in Fflags(hart) /\ (~neg => low = bound)
          [] Finite(F, A) /\ ~Symmetric(neg) -> TRUE
          [] ~IsNaN(F, A) /\ (~Finite(F, A) \/ (Symmetric(neg) /\ "invalid" \in r.fl)) ->
                 "invalid" \in Fflags(hart) /\ (signed \/ ~neg => low = bound % 2 ^ bits)
          [] OTHER -> low = r.v % 2 ^ bits /\ ExactlyFlags(r.fl)

-----------------------------------------------------------------------------
Ended == at = "done"

(* A load or store that the monitor carries out, at any address, by pairs  *)
(* of words or byte by byte, over a page that had to be mapped first or    *)
(* not, has the effect of the one access the program asked for.            *)
AccessesComplete ==
    Ended /\ insn.k \in Memory =>
        IF insn.k \in MisalignedLoads \union FloatLoads
        THEN hart.mem = before.mem /\ (insn.rd # 0 => LoadRight) ELSE StoreRight

(* Every other instruction gives the result it is named for, the floating  *)
(* point ones in the rounding mode they ask for, with their flags added to *)
(* those of fcsr.                                                          *)
ResultsAsNamed ==
    Ended /\ (insn.rd # 0 \/ insn.k = "csr") =>
        CASE insn.k \in {"mul", "mulh", "mulhsu", "mulhu", "mulw"} -> MulRight
          [] insn.k \in {"div", "divu", "rem", "remu"} -> DivRight
          [] insn.k = "csr" -> CsrRight
          [] insn.k \in {"fadd", "fsub", "fmul", "fdiv", "fsqrt", "fcvt_ff"} -> ArithmeticRight
          [] insn.k \in {"fmadd", "fnmsub"} -> Gives(FusedResult)
          [] insn.k = "fmin" -> MinRight
          [] insn.k = "fsgnj" -> SgnjRight
          [] insn.k = "fcmp" -> CmpRight
          [] insn.k = "fcvt_fi" -> FromIntegerRight
          [] insn.k = "fcvt_if" -> ToIntegerRight
          [] insn.k \in {"fmv_x_s", "fmv_x_d", "fmv_s_x", "fmv_d_x"} -> MoveRight
          [] OTHER -> TRUE

(* An instruction changes its destination and nothing else: x0 stays zero  *)
(* and the fcsr in its slot what the instructions before left, other       *)
(* registers keep their values, flags are only added to except by a write  *)
(* of the CSR, and a changed floating-point register is marked for the     *)
(* supervisor to save.                                                     *)
ToFloat == FloatLoads \union Fused \union
           {"fadd", "fsub", "fmul", "fdiv", "fsqrt", "fsgnj", "fmin", "fcvt_ff", "fcvt_fi", "fmv_s_x", "fmv_d_x"}
Computes == (Float \union Fused) \ {"fsgnj", "fmv_x_s", "fmv_x_d", "fmv_s_x", "fmv_d_x"}
NothingElseChanges ==
    Ended =>
        /\ hart.pc = before.pc + 1
        /\ \A r \in XRegs \ {0} : r # insn.rd \/ insn.k \in ToFloat => hart.x[r] = before.x[r]
        /\ \A r \in FRegs : r # insn.rd \/ insn.k \notin ToFloat => hart.f[r] = before.f[r]
        /\ insn.k # "csr" => Frm(hart) = Frm(before) /\ Fflags(before) \subseteq Fflags(hart)
        /\ insn.k \notin Computes \union {"csr"} => Fcsr(hart) = Fcsr(before)
        /\ hart.f # before.f => hart.fs = "dirty"

(* An instruction passed on to the supervisor has changed nothing but      *)
(* bytes a store was to write, mepc and mstatus are those of the program   *)
(* again, and there is a reason: the access or the fetch really faults,    *)
(* the FPU is off, or the instruction is reserved or one of the few the    *)
(* monitor has no code for.                                                *)
NotEmulated == {"divw", "divuw", "remw", "remuw", "fclass", "other"}
Reserved(i) ==
    CASE i.k \in {"fadd", "fsub", "fmul", "fdiv"} \union Fused -> i.p = "Q" \/ i.rm \in {5, 6}
      [] i.k = "fsqrt" -> i.p = "Q" \/ i.rm \in {5, 6} \/ i.n # 0
      [] i.k = "fsgnj" -> i.p = "Q" \/ i.rm \notin 0..2
      [] i.k = "fmin" -> i.p = "Q" \/ i.rm \notin 0..1
      [] i.k = "fcmp" -> i.p = "Q" \/ i.rm \notin 0..2
      [] i.k = "fcvt_ff" -> i.p = "Q" \/ i.rm \in {5, 6} \/ i.n # (IF i.p = "S" THEN 1 ELSE 0)
      [] i.k \in {"fcvt_if", "fcvt_fi"} -> i.p = "Q" \/ i.rm \in {5, 6} \/ i.n > 3
      [] i.k \in {"fmv_x_s", "fmv_x_d", "fmv_s_x", "fmv_d_x"} -> i.rm # 0
      [] i.k = "csr" -> i.rm \in {0, 4} \/ i.csr = "other"
      [] OTHER -> FALSE
RedirectedAsTrapped ==
    at = "supervisor" =>
        /\ hart.csrs = "trap" /\ hart.pc = before.pc /\ hart.fs = before.fs
        /\ hart.f = before.f /\ Fcsr(hart) = Fcsr(before)
        /\ \A r \in XRegs \ {0} : hart.x[r] = before.x[r]
        /\ \A b \in DOMAIN hart.mem : hart.mem[b] # before.mem[b] =>
              /\ insn.k \in MisalignedStores \union FloatStores
              /\ b - Addr \in 0..(Size - 1)
        /\ IF hart.cause = "fault"
           THEN insn.k \in Memory /\ ~Reaches(before, Addr, Size)
           ELSE \/ TextPage \notin before.pages
                \/ before.fs = "off" /\ insn.k \in Float \union Fused \union {"csr"}
                \/ insn.k \in NotEmulated
                \/ Reserved(insn)

(* The fused instructions give the product and the addend the signs they   *)
(* are named for.                                                          *)
FusedAsNamed == Ended /\ insn.k \in Fused => Gives(FusedResult)
=============================================================================
