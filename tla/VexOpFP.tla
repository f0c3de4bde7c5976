------------------------------ MODULE VexOpFP ------------------------------
(***************************************************************************)
(* The emitters of the floating point operators, twice: vexop_fp.cc emits  *)
(* LLVM floating point instructions ("native"), vexop_softfloat.cc calls   *)
(* the softfloat library ("soft"); a build links one of the two.           *)
(*                                                                         *)
(* A float is a number of halves, NaN, or -0; an operation of IEEE 754     *)
(* that rounds is left uninterpreted but for the mode it rounds in (Sym),  *)
(* since both back ends hand it to something that implements it.  What the *)
(* emitters decide is which operation on which operands and lanes, which   *)
(* comparison, how integers are read, and what becomes of the rounding     *)
(* mode: LLVM's instructions and a softfloat whose mode nothing sets round *)
(* to nearest even, whatever mode the operator was given.                  *)
(***************************************************************************)
EXTENDS VexOpState

FOp(f, os, shapes) ==
    {[fam |-> f, o |-> o, s |-> fpu, n |-> sh[1], w |-> sh[2]] :
        o \in os, fpu \in {"native", "soft"}, sh \in shapes}
Native(f) == Family(f) /\ op.s = "native"
Soft(f) == Family(f) /\ op.s = "soft"

Num(h) == [k |-> "num", h |-> h]
NaN == [k |-> "nan", h |-> 0]
NegZero == [k |-> "negzero", h |-> 0]
IntV(i) == [k |-> "int", h |-> i]
Mask(b) == [k |-> "mask", h |-> Bool(b)]
\* o of x and y, rounded as rm says.
Sym(o, rm, x, y) == [k |-> o, h |-> 0, rm |-> rm, x |-> x, y |-> y]
\* What the back ends make of an operation: they know no other mode.
Nearest(o, x, y) == Sym(o, "nearest", x, y)

Unordered(x, y) == x.k = "nan" \/ y.k = "nan"
Less(x, y) == ~Unordered(x, y) /\ x.h < y.h
Equal(x, y) == ~Unordered(x, y) /\ x.h = y.h

\* 0 - x, exactly: the one subtraction whose zero result matters.
ZeroMinus(x) == IF x.k = "nan" THEN NaN ELSE Num(-x.h)

RoundingModes == {"nearest", "down", "up", "zero"}
\* The integer a number of halves rounds to.
RoundTo(rm, h) ==
    CASE rm = "down" -> h \div 2
      [] rm = "up" -> -((-h) \div 2)
      [] rm = "zero" -> Quot(h, 2)
      [] rm = "nearest" ->
           IF h % 4 = 1 THEN (h - 1) \div 2
           ELSE IF h % 4 = 3 THEN (h + 1) \div 2 ELSE h \div 2
FitsSigned(i, w) == -(2^(w - 1)) <= i /\ i < 2^(w - 1)
\* A conversion that does not fit yields an undefined value.
ToInt(rm, x, w) ==
    IF x.k # "nan" /\ FitsSigned(RoundTo(rm, x.h), w)
    THEN IntV(Trunc(RoundTo(rm, x.h), w)) ELSE IntV(Fill(junk, w))

F32x == {<<2, 32>>, <<4, 32>>}
One(v) == Return([i \in {0} |-> v])
A == args[1]
BB == args[2]
EachF(F(_, _)) == Return([i \in 0 .. op.n - 1 |-> F(A[i], BB[i])])
LowLane(v) == Return([A EXCEPT ![0] = v])

CmpOp(o, x, y) ==
    CASE o = "LT" -> Less(x, y)
      [] o = "GT" -> Less(y, x)
      [] o = "LE" -> Less(x, y) \/ Equal(x, y)
      [] o = "GE" -> Less(y, x) \/ Equal(x, y)
      [] o = "EQ" -> Equal(x, y)
      [] o = "UN" -> Unordered(x, y)
Arith == {"Add", "Sub", "Mul", "Div"}

----------------------------------------------------------------------------
(* Conversions.  The binary ones take a rounding mode and ignore it.       *)

F_X_TO_Y_Ops ==
    FOp("F_X_TO_Y", {"F32toF64", "I32StoF64", "I32UtoF64"}, {<<1, 32>>})
F_X_TO_Y_EMIT ==
    /\ Native("F_X_TO_Y")
    /\ One(CASE op.o = "F32toF64" -> A[0]
             [] op.o = "I32StoF64" -> Num(2 * Signed(A[0].h, B(32)))
             [] op.o = "I32UtoF64" -> Num(2 * A[0].h))
EMIT_HELPER_SOFTFP_UNOP ==
    /\ Soft("F_X_TO_Y")
    /\ One(IF op.o = "F32toF64" THEN A[0] ELSE Num(2 * Signed(A[0].h, B(32))))

FROUND_Ops ==
    FOp("FROUND", {"F64toF32", "I64StoF64", "I64UtoF64", "F64toI32S",
                   "F64toI32U", "F64toI64S"}, {<<1, 64>>})
\* A conversion to a narrower float, or of an integer wider than the fraction.
Rounds(o, x) == Nearest(o, x, x)
X_TO_Y_EMIT_ROUND ==
    /\ Native("FROUND")
    /\ One(CASE op.o = "F64toF32" -> Rounds("toF32", BB[0])
             [] op.o = "I64StoF64" ->
                  Rounds("toF64", Num(2 * Signed(BB[0].h, B(64))))
             [] op.o = "I64UtoF64" -> Rounds("toF64", Num(2 * BB[0].h))
             [] op.o = "F64toI64S" -> ToInt("zero", BB[0], B(64))
             [] OTHER -> ToInt("zero", BB[0], B(32)))
\* Mutant: softfloat's conversions that round to zero.
ConvertRoundToZero ==
    /\ Soft("FROUND")
    /\ One(IF op.o \in {"F64toI32S", "F64toI32U", "F64toI64S"}
           THEN ToInt("zero", BB[0], B(IF op.o = "F64toI64S" THEN 64 ELSE 32))
           ELSE Rounds("toF64", Num(2 * Signed(BB[0].h, B(64)))))

EMIT_CONVERT_IGNORE_ROUNDING ==
    /\ Soft("FROUND")
    /\ One(CASE op.o = "F64toF32" -> Rounds("toF32", BB[0])
             [] op.o \in {"I64StoF64", "I64UtoF64"} ->
                  Rounds("toF64", Num(2 * Signed(BB[0].h, B(64))))
             [] op.o = "F64toI64S" -> ToInt("nearest", BB[0], B(64))
             [] OTHER -> ToInt("nearest", BB[0], B(32)))

\* x - frem(x, 1), whatever the rounding mode; a zero result is +0.
RoundToInt_Ops == FOp("RoundToInt", {""}, {<<1, 32>>, <<1, 64>>})
RoundToInt ==
    /\ Native("RoundToInt")
    /\ One(IF BB[0].k = "nan" THEN NaN ELSE Num(2 * RoundTo("zero", BB[0].h)))

----------------------------------------------------------------------------
(* Arithmetic on the low lane, on every lane and on scalars.               *)

OPF0X_Ops == FOp("OPF0X", Arith, {<<4, 32>>, <<2, 64>>})
OPF0X_EMIT == Native("OPF0X") /\ LowLane(Nearest(op.o, A[0], BB[0]))
OPF0X_SOFTFLOAT_EMIT == Soft("OPF0X") /\ LowLane(Nearest(op.o, A[0], BB[0]))

OPF_Ops == FOp("OPF", {"Add", "Sub", "Mul"}, F32x \cup {<<2, 64>>})
           \cup FOp("OPF", {"Div"}, {<<4, 32>>, <<2, 64>>})
OPF_EMIT == Native("OPF") /\ EachF(LAMBDA x, y : Nearest(op.o, x, y))

\* The scalar operators take the rounding mode first and ignore it.
TRIOP_Ops == FOp("TRIOP", Arith, {<<1, 32>>, <<1, 64>>})
TRIOP_EXPAND_EMIT ==
    Native("TRIOP") /\ One(Nearest(op.o, args[2][0], args[3][0]))
EMIT_HELPER_IGNORE_ROUNDING ==
    Soft("TRIOP") /\ One(Nearest(op.o, args[2][0], args[3][0]))

RSQ_Ops == FOp("RSQ", {"Sqrt"}, {<<4, 32>>, <<2, 64>>})
           \cup FOp("RSQ", {"Recip", "RSqrt"}, {<<4, 32>>})
RSQ(x) == CASE op.o = "Sqrt" -> Nearest("sqrt", x, x)
            [] op.o = "Recip" -> Nearest("Div", Num(2), x)
            [] op.o = "RSqrt" -> Nearest("Div", Num(2), Nearest("sqrt", x, x))
OPF0X_RSQ == Native("RSQ") /\ LowLane(RSQ(A[0]))
RSQV_Ops == FOp("RSQV", {"Sqrt"}, {<<4, 32>>, <<2, 64>>})
            \cup FOp("RSQV", {"Recip", "RSqrt"}, {<<4, 32>>})
OPV_RSQ == Native("RSQV") /\ Return([i \in 0 .. op.n - 1 |-> RSQ(A[i])])

\* Neg32Fx2 and Neg32Fx4 exist in the native build only.
NEG_Ops == FOp("NEG", {"Neg"}, {<<1, 32>>, <<1, 64>>})
           \cup {p \in FOp("NEG", {"Neg"}, F32x) : p.s = "native"}
UNOP_NEG_EMIT ==
    Native("NEG") /\ Return([i \in 0 .. op.n - 1 |-> ZeroMinus(A[i])])

\* vexop_absf64: (f < 0) ? -f : f, the same helper in both builds.
AbsF_Ops == FOp("AbsF", {"Abs"}, {<<1, 32>>, <<1, 64>>})
vexop_absf ==
    /\ Family("AbsF")
    /\ One(IF Less(A[0], Num(0)) THEN Num(-A[0].h) ELSE A[0])

MAdd_Ops == FOp("MAdd", {"MAdd"}, {<<1, 64>>})
\* The product is rounded before the sum is.
MAddF64 ==
    /\ Native("MAdd")
    /\ One(Nearest("Add", Nearest("Mul", args[2][0], args[3][0]), args[4][0]))

\* A remainder is exact: no mode makes a difference to it.
Exact(o, x, y) == Sym(o, "exact", x, y)
PRem_Ops == FOp("PRem", {"PRem", "C3210"}, {<<1, 64>>})
\* The quotient's two's complement bits 0, 1 and 2 become C1, C3 and C0.
PRemC3210(q) == 512 * Bit(q, 0) + 16384 * Bit(q, 1) + 256 * Bit(q, 2)
PRemF64 ==
    /\ Native("PRem")
    /\ LET x == args[2][0]
           y == args[3][0]
       IN  One(IF op.o = "PRem" THEN Exact("frem", x, y)
               ELSE IF Unordered(x, y) \/ y.h = 0
                    THEN IntV(PRemC3210(Fill(junk, 4)))
               ELSE IntV(PRemC3210(Quot(x.h, y.h) % 16)))

----------------------------------------------------------------------------
(* Comparisons, minimum and maximum.                                       *)

OPF0X_CMP_Ops == FOp("OPF0X_CMP", {"LT", "LE", "EQ", "UN"}, {<<4, 32>>, <<2, 64>>})
OPF0X_CMP_EMIT ==
    Native("OPF0X_CMP") /\ LowLane(Mask(CmpOp(op.o, A[0], BB[0])))
OPF0X_CMP_SOFTFLOAT_EMIT ==
    /\ Soft("OPF0X_CMP") /\ op.o \in {"LT", "LE"}
    /\ LowLane(Mask(CmpOp(op.o, A[0], BB[0])))

OPF_CMP_Ops ==
    FOp("OPF_CMP", {"EQ"}, F32x \cup {<<2, 64>>})
    \cup FOp("OPF_CMP", {"GT", "GE"}, F32x)
    \cup FOp("OPF_CMP", {"LT", "LE", "UN"}, {<<4, 32>>, <<2, 64>>})
OPV_CMP_T_EMIT ==
    Native("OPF_CMP") /\ EachF(LAMBDA x, y : Mask(CmpOp(op.o, x, y)))

\* An unordered pair selects the first operand.
Select(x, y) ==
    IF Unordered(x, y) \/ (IF op.o = "Max" THEN Less(y, x) ELSE Less(x, y))
    THEN x ELSE y
OPF0X_SEL_Ops == FOp("OPF0X_SEL", {"Max", "Min"}, {<<4, 32>>, <<2, 64>>})
OPF0X_SEL_EMIT == Native("OPF0X_SEL") /\ LowLane(Select(A[0], BB[0]))
BINCMPF_Ops == FOp("BINCMPF", {"Max", "Min"}, F32x \cup {<<2, 64>>})
BINCMPF_EMIT == Native("BINCMPF") /\ EachF(Select)

\* Ircr_UN, Ircr_LT, Ircr_GT and Ircr_EQ.
Ircr == [UN |-> 69, LT |-> 1, GT |-> 0, EQ |-> 64]
CmpF64_Ops == FOp("CmpF64", {""}, {<<1, 64>>})
vexop_cmpf64 ==
    /\ Native("CmpF64")
    /\ LET x == A[0]  y == BB[0]
       IN  One(IntV(IF Equal(x, y) THEN Ircr.EQ
                   ELSE IF Less(x, y) THEN Ircr.LT
                   ELSE IF Less(y, x) THEN Ircr.GT ELSE Ircr.UN))
vexop_softfloat_cmpf64 ==
    /\ Soft("CmpF64")
    /\ LET x == A[0]  y == BB[0]
       IN  One(IntV(IF Unordered(x, y) THEN Ircr.UN
                   ELSE IF Equal(x, y) THEN Ircr.EQ
                   ELSE IF Less(x, y) THEN Ircr.LT ELSE Ircr.GT))

\* What the soft build has only as an assertion.
UNIMPL_LowLane == {"OPF0X_SEL", "RSQ"}
UNIMPL_VectorCmp == {"OPF_CMP"}
UNIMPL_Vector == {"OPF", "BINCMPF", "RoundToInt"}
UNIMPL_Rest == {"PRem", "NEG", "RSQV", "MAdd"}
UNIMPL ==
    /\ \/ \E f \in UNIMPL_LowLane \cup UNIMPL_VectorCmp
                \cup UNIMPL_Vector \cup UNIMPL_Rest : Soft(f)
       \/ Soft("OPF0X_CMP") /\ op.o \in {"EQ", "UN"}
    /\ Outcome(Abort)

----------------------------------------------------------------------------
FPOps ==
    UNION {F_X_TO_Y_Ops, FROUND_Ops, RoundToInt_Ops, OPF0X_Ops, OPF_Ops,
           TRIOP_Ops, RSQ_Ops, RSQV_Ops, NEG_Ops, AbsF_Ops, MAdd_Ops, PRem_Ops,
           OPF0X_CMP_Ops, OPF_CMP_Ops, OPF0X_SEL_Ops, BINCMPF_Ops, CmpF64_Ops}

FPEmit ==
    \/ F_X_TO_Y_EMIT \/ EMIT_HELPER_SOFTFP_UNOP \/ X_TO_Y_EMIT_ROUND
    \/ EMIT_CONVERT_IGNORE_ROUNDING \/ RoundToInt \/ OPF0X_EMIT
    \/ OPF0X_SOFTFLOAT_EMIT \/ OPF_EMIT \/ TRIOP_EXPAND_EMIT
    \/ EMIT_HELPER_IGNORE_ROUNDING \/ OPF0X_RSQ \/ OPV_RSQ \/ UNOP_NEG_EMIT
    \/ vexop_absf \/ MAddF64 \/ PRemF64 \/ OPF0X_CMP_EMIT
    \/ OPF0X_CMP_SOFTFLOAT_EMIT \/ OPV_CMP_T_EMIT \/ OPF0X_SEL_EMIT
    \/ BINCMPF_EMIT \/ vexop_cmpf64 \/ vexop_softfloat_cmpf64 \/ UNIMPL
=============================================================================
