------------------------------ MODULE VexOpInt ------------------------------
(***************************************************************************)
(* The emitters of the integer and integer vector operators (vexop.cc and  *)
(* the macros of vexop_macros.h).  One action per emitter; an emitter's    *)
(* instances (Add8, Add16, ...) are the records of the set named after it: *)
(*   fam  the emitter      o  the operation     s  signedness, "S" or "U"  *)
(*   n    lanes            w  bits of a lane (or of the scalar)            *)
(***************************************************************************)
EXTENDS VexOpState

Op(f, os, ss, shapes) ==
    {[fam |-> f, o |-> o, s |-> s, n |-> sh[1], w |-> sh[2]] :
        o \in os, s \in ss, sh \in shapes}
Scalars(ws) == {1} \X ws

V1 == Lanes(args[1], op.n, B(op.w))
V2 == Lanes(args[2], op.n, B(op.w))
W == B(op.w)
Ext(x, w, v) == IF op.s = "S" THEN SExt(x, w, v) ELSE x
Value(x) == IF op.s = "S" THEN Signed(x, W) ELSE x

----------------------------------------------------------------------------
(* Moving bits: conversions, halves, elements, interleaving, permuting.    *)

XHI_TO_Y_Ops == Op("XHI_TO_Y", {""}, {"U"}, Scalars({16, 32, 64}))
XHI_TO_Y_EMIT ==
    /\ Family("XHI_TO_Y")
    /\ Return(Trunc(LShr(args[1], W \div 2, W, junk), W \div 2))

\* X to Y conversions: `w' is the width the operator is defined on and `n'
\* the one it yields.
X_TO_Y_Ops ==
    Op("X_TO_Y", {"trunc"}, {"U"},
       {<<8, 16>>, <<32, 64>>, <<8, 32>>, <<16, 32>>, <<1, 64>>, <<1, 32>>,
        <<8, 64>>, <<16, 64>>, <<64, 128>>})
    \cup Op("X_TO_Y", {"zext"}, {"U"},
       {<<64, 32>>, <<8, 1>>, <<32, 1>>, <<64, 1>>, <<64, 16>>, <<32, 16>>,
        <<16, 8>>, <<32, 8>>, <<64, 8>>})
    \cup Op("X_TO_Y", {"sext"}, {"S"},
       {<<64, 32>>, <<64, 16>>, <<32, 16>>, <<16, 8>>, <<32, 8>>, <<64, 8>>})
\* ReinterpF64asI64 .. ReinterpI32asF32.
Reinterp_Ops == Op("X_TO_Y", {"asI", "asF"}, {"U"}, {<<32, 32>>, <<64, 64>>})
\* An operand of another width is extended or cut to the operator's type, which
\* LLVM refuses when that is a float type.
X_TO_Y_EMIT ==
    /\ Family("X_TO_Y")
    /\ LET v1 == IF have > W THEN Trunc(args[1], W) ELSE args[1]
       IN  IF op.o = "asI" /\ have # W THEN Outcome(IllTyped)
           ELSE Return(CASE op.o = "trunc" -> Trunc(v1, B(op.n))
                         [] op.o = "sext" -> SExt(v1, W, B(op.n))
                         [] OTHER -> v1)

Dup8x16_Ops == Op("Dup8x16", {""}, {"U"}, {<<16, 8>>})
Dup8x16 ==
    /\ Family("Dup8x16")
    /\ LET v[i \in 0 .. 4] ==
               IF i = 0 THEN args[1]
               ELSE Or(v[i - 1],
                       Shl(v[i - 1], B(8 * 2^(i - 1)), B(128), junk), B(128))
       IN  Return(v[4])

GET_ELEM_Ops == Op("GET_ELEM", {""}, {"U"}, {<<8, 8>>, <<2, 32>>})
GET_ELEM_EMIT ==
    /\ Family("GET_ELEM")
    /\ Return(IF args[2] < op.n THEN V1[args[2]] ELSE Fill(junk, W))

SET_ELEM_Ops == Op("SET_ELEM", {""}, {"U"}, {<<8, 8>>, <<2, 32>>})
SET_ELEM_EMIT ==
    /\ Family("SET_ELEM")
    /\ Return(IF args[2] < op.n
              THEN Pack([V1 EXCEPT ![args[2]] = args[3]], op.n, W)
              ELSE Fill(junk, op.n * W))

\* V128to64, V128HIto64 and 128HIto64 extract one 64-bit element.
V128Half_Ops == Op("V128Half", {"lo", "hi"}, {"U"}, {<<2, 64>>})
V128to64 ==
    /\ Family("V128Half")
    /\ Return(V1[IF op.o = "hi" THEN 1 ELSE 0])

\* 8HLto16, 16HLto32 and 32HLto64.
X_HL_TO_Y_Ops == Op("X_HL_TO_Y", {"int"}, {"U"}, Scalars({8, 16, 32}))
X_HL_TO_Y_EMIT ==
    /\ Family("X_HL_TO_Y") /\ op.o = "int"
    /\ Return(Or(args[2], Shl(args[1], W, 2 * W, junk), 2 * W))

HLto128_Ops == Op("X_HL_TO_Y", {"128", "V128"}, {"U"}, Scalars({64}))
Concat64(hi, lo) == Or(lo, Shl(hi, B(64), B(128), junk), B(128))
Binop64HLto128 ==
    /\ Family("X_HL_TO_Y") /\ op.o = "128"
    /\ Return(Concat64(args[1], args[2]))
Binop64HLtoV128 ==
    /\ Family("X_HL_TO_Y") /\ op.o = "V128"
    /\ Return(Concat64(args[1], args[2]))

\* 32UtoV128 and 64UtoV128.
XUtoV128_Ops == Op("XUtoV128", {""}, {"U"}, Scalars({32, 64}))
XUtoV128 == Family("XUtoV128") /\ Return(args[1])

SetV128lo_Ops == Op("SetV128lo", {""}, {"U"}, {<<2, 64>>, <<4, 32>>})
SetV128lo ==
    /\ Family("SetV128lo")
    /\ Return(Pack([V1 EXCEPT ![0] = args[2]], op.n, W))

GETMSBS_Ops == Op("GETMSBS", {""}, {"U"}, {<<8, 8>>, <<16, 8>>})
GETMSBS_8xN_EMIT ==
    /\ Family("GETMSBS")
    /\ LET ret[i \in 0 .. op.n] ==
               IF i = 0 THEN 0
               ELSE Or(ret[i - 1],
                       Shl(LShr(V1[i - 1], W - 1, W, junk), i - 1, op.n, junk),
                       op.n)
       IN  Return(ret[op.n])

EMIT_ILEAVE_Ops ==
    Op("ILEAVE", {"LO", "HI"}, {"U"},
       {<<8, 8>>, <<16, 8>>, <<4, 16>>, <<8, 16>>, <<2, 32>>, <<4, 32>>,
        <<2, 64>>})
\* Mutant: the operands exchanged.
ileaveBackwards(n, half) ==
    [i \in 0 .. n - 1 |-> (i \div 2) + (IF half = "HI" THEN n \div 2 ELSE 0)
                          + (IF i % 2 = 0 THEN 0 ELSE n)]

\* ileave_lo8x16 .. ileave_hi64x2: even lanes come from v2, odd ones from v1.
ileave(n, half) ==
    [i \in 0 .. n - 1 |-> (i \div 2) + (IF half = "HI" THEN n \div 2 ELSE 0)
                          + (IF i % 2 = 0 THEN n ELSE 0)]
EMIT_ILEAVE ==
    /\ Family("ILEAVE")
    /\ Return(Pack(Shuffle(V1, V2, op.n, ileave(op.n, op.o)), op.n, W))

OPSHUF_Ops == Op("OPSHUF", {"Perm"}, {"U"}, {<<8, 8>>, <<16, 8>>})
OPSHUF_EMIT ==
    /\ Family("OPSHUF")
    /\ Return(Pack([i \in 0 .. op.n - 1 |->
                      IF V2[i] < op.n THEN V1[V2[i]] ELSE Fill(junk, W)],
                   op.n, W))

\* The plain narrowing operators stop at an assertion.
OPNRW_Ops == Op("OPNRW", {""}, {"U"}, {<<16, 8>>, <<8, 16>>})
OPNRW_EMIT == Family("OPNRW") /\ Outcome(Abort)

----------------------------------------------------------------------------
(* Scalar arithmetic.                                                      *)

UNOP_Ops == Op("UNOP", {"Not"}, {"U"}, Scalars({1, 8, 16, 32, 64, 128}))
UNOP_EMIT == Family("UNOP") /\ Return(Not(args[1], W))

Ints == Scalars({8, 16, 32, 64})
AddAndMul_Ops == Op("BINOP", {"Add", "And", "Mul"}, {"U"}, Ints)
Or_Ops == Op("BINOP", {"Or"}, {"U"}, Ints)
\* CmpEQ, CmpNE, ExpCmpNE, CasCmpEQ and CasCmpNE are the same comparisons.
SubXorCmp_Ops == Op("BINOP", {"Sub", "Xor", "ICmpEQ", "ICmpNE"}, {"U"}, Ints)
CmpLELT_Ops ==
    Op("BINOP", {"ICmpLE", "ICmpLT"}, {"S", "U"}, Scalars({32, 64}))
V128_Ops == Op("BINOP", {"And", "Or", "Xor"}, {"U"}, Scalars({128}))
Create(o, x, y) ==
    CASE o = "Add" -> Add(x, y, W)
      [] o = "Sub" -> Sub(x, y, W)
      [] o = "Mul" -> Mul(x, y, W)
      [] o = "And" -> And(x, y, W)
      [] o = "Or"  -> Or(x, y, W)
      [] o = "Xor" -> Xor(x, y, W)
      [] o = "ICmpEQ" -> Bool(x = y)
      [] o = "ICmpNE" -> Bool(x # y)
      [] o = "ICmpLE" -> Bool(Value(x) <= Value(y))
      [] o = "ICmpLT" -> Bool(Value(x) < Value(y))
      [] o = "ICmpGT" -> Bool(Value(x) > Value(y))
BINOP_EMIT == Family("BINOP") /\ Return(Create(op.o, args[1], args[2]))

\* MullS8 .. MullU64.
BINOP_EXPAND_Ops ==
    Op("BINOP_EXPAND", {"Mull"}, {"S", "U"}, Scalars({8, 16, 32, 64}))
BINOP_EXPAND_EMIT ==
    /\ Family("BINOP_EXPAND")
    /\ Return(Mul(Ext(args[1], W, 2 * W), Ext(args[2], W, 2 * W), 2 * W))

\* The amount is cut to log2 of the width, so that it is always in range.
SHIFT_Ops ==
    Op("SHIFT", {"Shl", "LShr", "AShr"}, {"U"}, Scalars({8, 16, 32, 64}))
CreateShift(o, x, k) ==
    CASE o = "Shl"  -> Shl(x, k, W, junk)
      [] o = "LShr" -> LShr(x, k, W, junk)
      [] o = "AShr" -> AShr(x, k, W, junk)
SHIFT_EMIT ==
    /\ Family("SHIFT")
    /\ Return(CreateShift(op.o, args[1], Trunc(args[2], Log2(W))))

\* DivModU128to64 .. DivModS64to32.
DIVMOD_Ops == Op("DIVMOD", {""}, {"S", "U"}, Scalars({64, 128}))
DIVMOD_EMIT ==
    /\ Family("DIVMOD")
    /\ LET a == Value(args[1])
           b == Value(Ext(args[2], W \div 2, W))
           h == W \div 2
       IN  IF b = 0 \/ (op.s = "S" /\ a = -(2^(W - 1)) /\ b = -1)
           THEN Outcome(Trap)
           ELSE Return(Or(Trunc(Quot(a, b), h),
                          Shl(Trunc(Rem(a, b), W), h, W, junk), W))

\* vexop_ctz64 .. vexop_clz32: counted by shifting until the bit appears.
Count_Ops == Op("Count", {"Ctz", "Clz"}, {"U"}, Scalars({32, 64}))
vexop_count ==
    /\ Family("Count")
    /\ LET Step(x) == IF op.o = "Ctz" THEN x \div 2 ELSE Shl(x, 1, W, junk)
           Found(x) == IF op.o = "Ctz" THEN x % 2 = 1 ELSE x >= 2^(W - 1)
           v[i \in 0 .. W] == IF i = 0 THEN args[1] ELSE Step(v[i - 1])
       IN  Return(IF args[1] = 0 THEN W
                  ELSE CHOOSE i \in 0 .. W - 1 :
                         Found(v[i]) /\ \A j \in 0 .. i - 1 : ~Found(v[j]))

\* Cls32x2 and Cls32x4: get_vt is called with lanes and bits exchanged, so
\* that a 32-bit helper is called on lanes of 2 or 4 bits.
Cls_Ops == Op("Cls", {""}, {"U"}, {<<2, 32>>, <<4, 32>>})
EMIT_HELPER_UNOP_VEC == Family("Cls") /\ Outcome(IllTyped)

----------------------------------------------------------------------------
(* Lane by lane arithmetic.                                                *)

Shapes8to32 == {<<8, 8>>, <<16, 8>>, <<4, 16>>, <<8, 16>>, <<2, 32>>, <<4, 32>>}
EachLane(F(_, _)) ==
    Return(Pack([i \in 0 .. op.n - 1 |-> F(V1[i], V2[i])], op.n, W))

OPV_Ops == Op("OPV", {"Add", "Sub"}, {"U"}, Shapes8to32 \cup {<<2, 64>>})
           \cup Op("OPV", {"Mul"}, {"U"}, Shapes8to32)
OPV_EMIT == Family("OPV") /\ EachLane(LAMBDA x, y : Create(op.o, x, y))

OPV_Shift_Ops ==
    Op("OPV_Shift", {"Shl", "LShr", "AShr"}, {"U"}, Shapes8to32 \cup {<<2, 64>>})
OPV_Shift ==
    Family("OPV_Shift") /\ EachLane(LAMBDA x, y : CreateShift(op.o, x, y))

\* The amount is one byte, spread over every lane.
OPVS_Ops ==
    Op("OPVS", {"Shl", "LShr", "AShr"}, {"U"}, Shapes8to32 \cup {<<2, 64>>})
OPVS_EMIT ==
    /\ Family("OPVS")
    /\ LET v2 == Trunc(args[2], W)
       IN  Return(Pack([i \in 0 .. op.n - 1 |-> CreateShift(op.o, V1[i], v2)],
                       op.n, W))

BINCMP_Ops ==
    Op("BINCMP", {"Max", "Min"}, {"U"}, {<<8, 8>>, <<16, 8>>})
    \cup Op("BINCMP", {"Max", "Min"}, {"S"}, {<<4, 16>>, <<8, 16>>})
BINCMP_EMIT ==
    /\ Family("BINCMP")
    /\ LET cmp == IF op.o = "Max" THEN "ICmpGT" ELSE "ICmpLT"
       IN  EachLane(LAMBDA x, y : IF Create(cmp, x, y) = 1 THEN x ELSE y)

OPV_CMP_Ops ==
    Op("OPV_CMP", {"ICmpEQ"}, {"U"}, Shapes8to32)
    \cup Op("OPV_CMP", {"ICmpGT"}, {"S"}, Shapes8to32 \cup {<<2, 64>>})
    \cup Op("OPV_CMP", {"ICmpGT"}, {"U"}, Shapes8to32)
OPV_CMP_EMIT ==
    Family("OPV_CMP") /\ EachLane(LAMBDA x, y : SExt(Create(op.o, x, y), 1, W))

\* MulHi16Ux4 .. MulHi32Sx4.
OPV_EXT_Ops ==
    Op("OPV_EXT", {"MulHi"}, {"S", "U"}, {<<4, 16>>, <<8, 16>>, <<4, 32>>})
OPV_EXT_EMIT ==
    /\ Family("OPV_EXT")
    /\ EachLane(LAMBDA x, y :
         Trunc(LShr(Mul(Ext(x, W, 2 * W), Ext(y, W, 2 * W), 2 * W),
                    W, 2 * W, junk), W))

\* Saturating narrowing: v2 fills the low half, v1 the high half; c and
\* neg_c are compared as signed lanes.  `s' is the signedness of the result.
OPNRWSS_Ops ==
    Op("OPNRWSS", {""}, {"U"}, {<<8, 16>>, <<4, 16>>, <<4, 32>>})
    \cup Op("OPNRWSS", {""}, {"S"},
            {<<4, 16>>, <<8, 16>>, <<2, 32>>, <<4, 32>>})
OPNRWSS_EMIT ==
    /\ Family("OPNRWSS")
    /\ LET h == W \div 2
           c == IF op.s = "S" THEN 2^(h - 1) - 1 ELSE 2^h - 1
           neg_c == IF op.s = "S" THEN 2^W - 2^(h - 1) ELSE 0
           Above(e) == IF Signed(e, W) > Signed(c, W) THEN c ELSE e
           Below(e) == IF Signed(e, W) < Signed(neg_c, W) THEN neg_c ELSE e
           elem(e) == Trunc(Below(Above(e)), h)
       IN  Return(Pack([i \in 0 .. 2 * op.n - 1 |->
                          IF i < op.n THEN elem(V2[i]) ELSE elem(V1[i - op.n])],
                       2 * op.n, h))

\* QNarrowUn16Sto8Ux8 narrows the eight lanes of its one operand, but is made
\* with the same macro, as a class of two operands: its second is read from an
\* IRExpr that never had one (vexexpr.cc:784), and if that can be emitted at all
\* the 128 bits of the first do not cast to the four lanes of 16 named here.
QNarrowUn_Ops == Op("QNarrowUn", {"16Sto8U"}, {"U"}, {<<8, 16>>})
QNarrowUn16Sto8Ux8 ==
    Family("QNarrowUn") /\ (Outcome(Abort) \/ Outcome(IllTyped))

\* QAdd and QSub: computed with one bit more, then clamped.  The unsigned
\* sum has only an upper bound, the unsigned difference only a lower one,
\* which is compared as signed.
OPSAT_Ops ==
    Op("OPSAT", {"Add", "Sub"}, {"S", "U"},
       {<<1, 64>>, <<2, 64>>, <<2, 32>>, <<4, 32>>, <<2, 16>>, <<4, 16>>,
        <<8, 16>>, <<4, 8>>, <<8, 8>>, <<16, 8>>})
\* Mutant: clamped without the extra bit.
SaturatedInPlace ==
    /\ Family("OPSAT")
    /\ EachLane(LAMBDA x, y : IF op.o = "Add" THEN Add(x, y, W) ELSE Sub(x, y, W))

OPSAT_EMIT ==
    /\ Family("OPSAT")
    /\ LET w == W + 1
           max == Ext(IF op.s = "S" THEN 2^(W - 1) - 1 ELSE 2^W - 1, W, w)
           min == Ext(IF op.s = "S" THEN 2^(W - 1) ELSE 0, W, w)
           Partial(x, y) == IF op.o = "Add"
                            THEN Add(Ext(x, W, w), Ext(y, W, w), w)
                            ELSE Sub(Ext(x, W, w), Ext(y, W, w), w)
           SHIGH(e) == IF (IF op.s = "S" THEN Signed(e, w) > Signed(max, w)
                           ELSE op.o = "Add" /\ e > max)
                       THEN max ELSE e
           SLOW(e) == IF /\ op.s = "S" \/ op.o = "Sub"
                         /\ Signed(e, w) < Signed(min, w)
                      THEN min ELSE e
       IN  EachLane(LAMBDA x, y : Trunc(SLOW(SHIGH(Partial(x, y))), W))

OPAVG_Ops ==
    Op("OPAVG", {"Avg"}, {"U"},
       {<<8, 8>>, <<16, 8>>, <<4, 16>>, <<8, 16>>, <<4, 32>>})
    \cup Op("OPAVG", {"Avg"}, {"S"}, {<<16, 8>>, <<8, 16>>, <<4, 32>>})
OPAVG_EMIT ==
    /\ Family("OPAVG")
    /\ LET w == 2 * W
       IN  EachLane(LAMBDA x, y :
             Trunc(LShr(Add(Add(Ext(x, W, w), Ext(y, W, w), w), 1, w),
                        1, w, junk), W))

\* HAdd and HSub, which return one integer instead of a vector.
OPHOP_Ops ==
    Op("OPHOP", {"Add", "Sub"}, {"S", "U"}, {<<2, 16>>, <<4, 8>>})
OPHOP_EMIT ==
    /\ Family("OPHOP")
    /\ LET w == 2 * W
           aop(x, y) == IF op.o = "Add" THEN Add(x, y, w) ELSE Sub(x, y, w)
       IN  EachLane(LAMBDA x, y :
             Trunc(LShr(aop(Ext(x, W, w), Ext(y, W, w)), 1, w, junk), W))

----------------------------------------------------------------------------
IntOps ==
    UNION {XHI_TO_Y_Ops, X_TO_Y_Ops, Reinterp_Ops, Dup8x16_Ops, GET_ELEM_Ops, SET_ELEM_Ops,
           V128Half_Ops, X_HL_TO_Y_Ops, HLto128_Ops, XUtoV128_Ops, SetV128lo_Ops,
           GETMSBS_Ops, EMIT_ILEAVE_Ops, OPSHUF_Ops, OPNRW_Ops, UNOP_Ops,
           AddAndMul_Ops, Or_Ops, SubXorCmp_Ops, CmpLELT_Ops, V128_Ops,
           BINOP_EXPAND_Ops, SHIFT_Ops, DIVMOD_Ops, Count_Ops,
           Cls_Ops, OPV_Ops, OPV_Shift_Ops, OPVS_Ops, BINCMP_Ops, OPV_CMP_Ops,
           OPV_EXT_Ops, OPNRWSS_Ops, QNarrowUn_Ops, OPSAT_Ops, OPAVG_Ops, OPHOP_Ops}

IntEmit ==
    \/ XHI_TO_Y_EMIT \/ X_TO_Y_EMIT \/ Dup8x16 \/ GET_ELEM_EMIT
    \/ SET_ELEM_EMIT \/ V128to64 \/ X_HL_TO_Y_EMIT
    \/ Binop64HLto128 \/ Binop64HLtoV128 \/ XUtoV128 \/ SetV128lo
    \/ GETMSBS_8xN_EMIT \/ EMIT_ILEAVE \/ OPSHUF_EMIT \/ OPNRW_EMIT
    \/ UNOP_EMIT \/ BINOP_EMIT \/ BINOP_EXPAND_EMIT \/ SHIFT_EMIT
    \/ DIVMOD_EMIT \/ vexop_count \/ EMIT_HELPER_UNOP_VEC \/ OPV_EMIT
    \/ OPV_Shift \/ OPVS_EMIT \/ BINCMP_EMIT \/ OPV_CMP_EMIT \/ OPV_EXT_EMIT
    \/ OPNRWSS_EMIT \/ QNarrowUn16Sto8Ux8 \/ OPSAT_EMIT \/ OPAVG_EMIT \/ OPHOP_EMIT
=============================================================================
