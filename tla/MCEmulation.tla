---------------------------- MODULE MCEmulation ----------------------------
EXTENDS EmulatedProgram

None == [k |-> "none", rd |-> 3, rs1 |-> 1, rs2 |-> 2, rs3 |-> 3, rm |-> 0, p |-> "S",
         imm |-> 0, n |-> 0, csr |-> "other"]
Of(ks) == {[None EXCEPT !.k = k] : k \in ks}

(* Destinations that are a source, x0 and neither; every rounding mode and *)
(* reserved one; both precisions where TLC can write out what they compute *)
(* with: not the products of doubles.                                      *)
Transfers == {[i EXCEPT !.imm = d] : i \in Of(Memory), d \in {-1, 0}}
             \union {[i EXCEPT !.rd = r] : i \in Of(MisalignedLoads), r \in {0, 1}}
Integers1 == {[i EXCEPT !.rd = r] : i \in Of(MulDiv \union MulDiv32), r \in {0, 1, 3}}
Csrs == {[None EXCEPT !.k = "csr", !.csr = c, !.rm = m, !.rs1 = s, !.rd = r] :
            c \in {"frm", "fflags", "fcsr", "other"}, m \in 0..7, s \in {0, 1}, r \in {0, 3}}
Rounded1 == {[i EXCEPT !.rm = m] : i \in Of({"fadd", "fsub", "fmul", "fdiv", "fsqrt"} \union Fused),
                                   m \in 0..7}
            \union {[i EXCEPT !.p = q] : i \in Of({"fadd", "fsub"}), q \in {"D", "Q"}}
            \union {[i EXCEPT !.p = "Q"] : i \in Of({"fmul", "fdiv", "fsqrt", "fmadd"})}
            \union {[i EXCEPT !.n = 1] : i \in Of({"fsqrt"})}
Ordered == {[i EXCEPT !.rm = m, !.p = q] : i \in Of({"fsgnj", "fmin", "fcmp"}), m \in 0..3, q \in {"S", "D", "Q"}}
Converted == {[i EXCEPT !.rm = m, !.p = q, !.n = w] :
                 i \in Of({"fcvt_ff", "fcvt_if", "fcvt_fi"}), m \in {0, 1, 2, 4, 5, 7}, q \in {"S", "D", "Q"}, w \in 0..4}
Moved == {[i EXCEPT !.rm = m] : i \in Of({"fmv_x_s", "fmv_x_d", "fmv_s_x", "fmv_d_x"}), m \in {0, 1, 5}}
         \union Of({"fclass", "other"})
AllInsns == Transfers \union Integers1 \union Csrs \union Rounded1 \union Ordered \union Converted \union Moved
AnyThenCsr == <<AllInsns, Csrs>>
SubtractsAddend == <<Of({"fmsub"})>>

(* Words next to the ends of the types and to the powers a single or a     *)
(* double can hold; singles and doubles of every class.                    *)
SomeWords == {0, 1, 3, 7, 96, 127, 128, 129, 255, 256, 2049, 4099, 32767, 32768, 32769, 61439, 65408, 65535}
Patterns(G, exps, fracs) == {Pack(G, s, e, f) : s \in {0, 1}, e \in exps, f \in fracs}
SomeSingles == Patterns(F32, {0, 1, 6, 7, 12, 14, 15}, {0, 1, 7})
SomeDoubles == Patterns(F64, {0, 14, 15, 22, 30, 31}, {0, 512, 1023}) \union {Pack(F64, 0, 31, 1)}
SomeFactors == Patterns(F32, {0, 7, 15}, {0, 5})
SomeAddends == Patterns(F32, {0, 9, 15}, {0})
One == {Pack(F32, 0, 7, 0)}
SomeMemories == {[b \in 0..23 |-> (b + 3) % 4], [b \in 0..23 |-> 3 - ((b \div 3) % 4)]}
SomePages == {{0, 1, 2, 9}, {0, 2, 9}, {1, 2, 9}, {0, 1, 2}}
=============================================================================
