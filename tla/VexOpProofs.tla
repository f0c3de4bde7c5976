---------------------------- MODULE VexOpProofs ----------------------------
(***************************************************************************)
(* Proofs about the operator emitters, for every operator of the table and *)
(* whatever undefined bits turn out to be; those about integers also for   *)
(* every scale of the widths and every operand.                            *)
(***************************************************************************)
EXTENDS VexOp, FiniteSetTheorems, TLAPS

(***************************************************************************)
(* The floating point operators and their operands.                        *)
(***************************************************************************)
FloatFamilies ==
    {"F_X_TO_Y", "FROUND", "RoundToInt", "OPF0X", "OPF", "TRIOP", "RSQ", "RSQV", "NEG", "AbsF",
     "MAdd", "PRem", "OPF0X_CMP", "OPF_CMP", "OPF0X_SEL", "BINCMPF", "CmpF64"}

\* A float as the model has it, and a vector whose upper lanes are numbers.
Float == {Num(h) : h \in Int} \cup {NaN, NegZero}
Lane(v, n) ==
    /\ v = [i \in 0 .. n - 1 |-> v[i]]
    /\ \A i \in 0 .. n - 1 : v[i] \in Float
    /\ \A i \in 1 .. n - 1 : v[i].k = "num"

LEMMA FloatIs ==
    ASSUME NEW x \in Float
    PROVE  /\ x.h \in Int
           /\ x.k = "nan" <=> x = NaN
           /\ x.k = "num" \/ x.h = 0
           /\ x.k \in {"num", "nan", "negzero"}
           /\ x = [k |-> x.k, h |-> x.h]
  BY DEF Float, Num, NaN, NegZero

LEMMA SamplesAre ==
    ASSUME unit = 1
    PROVE  B(32) = 4 /\ B(64) = 8 /\ Sample(B(32)) \subseteq Int /\ Sample(B(64)) \subseteq Int
<1>1. B(32) = 4 /\ B(64) = 8
  BY DEF B
<1>2. Sample(4) \subseteq Int
  BY PatternsAssumption DEF Sample
<1>3. Sample(8) \subseteq Int
  BY PatternsAssumption DEF Sample
<1> QED BY <1>1, <1>2, <1>3

LEMMA FloatsAre == Floats \subseteq Float
  BY DEF Floats, Float

LEMMA VectorIs ==
    ASSUME NEW x \in Float, NEW n \in Nat, n > 0, NEW c \in Int
    PROVE  Lane(FVec(x, n, c), n)
  BY DEF Lane, FVec, Float, Num

\* What an instance of an emitter is.
Instance(p, f, os, ns) ==
    p.fam = f /\ p.o \in os /\ p.n \in ns /\ p.s \in {"native", "soft"}
Named == {"F32toF64", "F64toF32", "I32StoF64", "I32UtoF64", "I64StoF64", "I64UtoF64", "F64toI32S",
          "F64toI32U", "F64toI64S", "PRem", "C3210"}
\* The operations and lane counts of every floating point emitter.
FloatOpIs(p) ==
    \/ Instance(p, "F_X_TO_Y", {"F32toF64", "I32StoF64", "I32UtoF64"}, {1})
    \/ Instance(p, "FROUND", {"F64toF32", "I64StoF64", "I64UtoF64", "F64toI32S", "F64toI32U", "F64toI64S"}, {1})
    \/ Instance(p, "RoundToInt", {p.o}, {1}) /\ p.o \notin Named
    \/ Instance(p, "OPF0X", Arith, {2, 4})
    \/ Instance(p, "OPF", Arith, {2, 4})
    \/ Instance(p, "TRIOP", Arith, {1})
    \/ Instance(p, "RSQ", {"Sqrt", "Recip", "RSqrt"}, {2, 4})
    \/ Instance(p, "RSQV", {"Sqrt", "Recip", "RSqrt"}, {2, 4})
    \/ Instance(p, "NEG", {"Neg"}, {1, 2, 4})
    \/ Instance(p, "AbsF", {"Abs"}, {1})
    \/ Instance(p, "MAdd", {"MAdd"}, {1})
    \/ Instance(p, "PRem", {"PRem", "C3210"}, {1})
    \/ Instance(p, "OPF0X_CMP", {"LT", "LE", "EQ", "UN"}, {2, 4})
    \/ Instance(p, "OPF_CMP", {"EQ", "GT", "GE", "LT", "LE", "UN"}, {2, 4})
    \/ Instance(p, "OPF0X_SEL", {"Max", "Min"}, {2, 4})
    \/ Instance(p, "BINCMPF", {"Max", "Min"}, {2, 4})
    \/ Instance(p, "CmpF64", {p.o}, {1}) /\ p.o \notin Named
LEMMA FloatOpsAre == ASSUME NEW p, p \in FPOps PROVE FloatOpIs(p)
<1>1. p \in F_X_TO_Y_Ops => Instance(p, "F_X_TO_Y", {"F32toF64", "I32StoF64", "I32UtoF64"}, {1})
  BY DEF F_X_TO_Y_Ops, FOp, Instance, F32x, Arith
<1>2. p \in FROUND_Ops => Instance(p, "FROUND", {"F64toF32", "I64StoF64", "I64UtoF64", "F64toI32S", "F64toI32U", "F64toI64S"}, {1})
  BY SMTT(60) DEF FROUND_Ops, FOp, Instance
<1>3. p \in RoundToInt_Ops => Instance(p, "RoundToInt", {p.o}, {1}) /\ p.o \notin Named
  <2> SUFFICES ASSUME p \in RoundToInt_Ops PROVE Instance(p, "RoundToInt", {p.o}, {1}) /\ p.o \notin Named
    OBVIOUS
  <2> DEFINE os == {""}
  <2>1. p \in FOp("RoundToInt", os, {<<1, 32>>, <<1, 64>>})
    BY DEF RoundToInt_Ops
  <2> HIDE DEF os
  <2>2. p.o \in os
    BY <2>1 DEF FOp
  <2>3. p.o \notin Named
    BY <2>2, Zenon DEF os, Named
  <2> QED BY <2>1, <2>3 DEF FOp, Instance
<1>4. p \in OPF0X_Ops => Instance(p, "OPF0X", Arith, {2, 4})
  BY DEF OPF0X_Ops, FOp, Instance, F32x, Arith
<1>5. p \in OPF_Ops => Instance(p, "OPF", Arith, {2, 4})
  BY DEF OPF_Ops, FOp, Instance, F32x, Arith
<1>6. p \in TRIOP_Ops => Instance(p, "TRIOP", Arith, {1})
  BY DEF TRIOP_Ops, FOp, Instance, F32x, Arith
<1>7. p \in RSQ_Ops => Instance(p, "RSQ", {"Sqrt", "Recip", "RSqrt"}, {2, 4})
  BY DEF RSQ_Ops, FOp, Instance, F32x, Arith
<1>8. p \in RSQV_Ops => Instance(p, "RSQV", {"Sqrt", "Recip", "RSqrt"}, {2, 4})
  BY DEF RSQV_Ops, FOp, Instance, F32x, Arith
<1>9. p \in NEG_Ops => Instance(p, "NEG", {"Neg"}, {1, 2, 4})
  BY DEF NEG_Ops, FOp, Instance, F32x, Arith
<1>10. p \in AbsF_Ops => Instance(p, "AbsF", {"Abs"}, {1})
  BY DEF AbsF_Ops, FOp, Instance, F32x, Arith
<1>11. p \in MAdd_Ops => Instance(p, "MAdd", {"MAdd"}, {1})
  BY DEF MAdd_Ops, FOp, Instance, F32x, Arith
<1>12. p \in PRem_Ops => Instance(p, "PRem", {"PRem", "C3210"}, {1})
  BY DEF PRem_Ops, FOp, Instance, F32x, Arith
<1>13. p \in OPF0X_CMP_Ops => Instance(p, "OPF0X_CMP", {"LT", "LE", "EQ", "UN"}, {2, 4})
  BY DEF OPF0X_CMP_Ops, FOp, Instance, F32x, Arith
<1>14. p \in OPF_CMP_Ops => Instance(p, "OPF_CMP", {"EQ", "GT", "GE", "LT", "LE", "UN"}, {2, 4})
  BY DEF OPF_CMP_Ops, FOp, Instance, F32x, Arith
<1>15. p \in OPF0X_SEL_Ops => Instance(p, "OPF0X_SEL", {"Max", "Min"}, {2, 4})
  BY DEF OPF0X_SEL_Ops, FOp, Instance, F32x, Arith
<1>16. p \in BINCMPF_Ops => Instance(p, "BINCMPF", {"Max", "Min"}, {2, 4})
  BY DEF BINCMPF_Ops, FOp, Instance, F32x, Arith
<1>17. p \in CmpF64_Ops => Instance(p, "CmpF64", {p.o}, {1}) /\ p.o \notin Named
  <2> DEFINE os == {""}
  <2> SUFFICES ASSUME p \in CmpF64_Ops PROVE Instance(p, "CmpF64", {p.o}, {1}) /\ p.o \notin Named
    OBVIOUS
  <2>1. p \in FOp("CmpF64", os, {<<1, 64>>})
    BY DEF CmpF64_Ops
  <2> HIDE DEF os
  <2>2. p.o \in os
    BY <2>1 DEF FOp
  <2>3. p.o \notin Named
    BY <2>2, Zenon DEF os, Named
  <2> QED BY <2>1, <2>3 DEF FOp, Instance
<1>18. PICK S \in {F_X_TO_Y_Ops, FROUND_Ops, RoundToInt_Ops, OPF0X_Ops, OPF_Ops,
           TRIOP_Ops, RSQ_Ops, RSQV_Ops, NEG_Ops, AbsF_Ops, MAdd_Ops, PRem_Ops,
           OPF0X_CMP_Ops, OPF_CMP_Ops, OPF0X_SEL_Ops, BINCMPF_Ops, CmpF64_Ops} : p \in S
  BY DEF FPOps
<1> QED BY <1>1, <1>2, <1>3, <1>4, <1>5, <1>6, <1>7, <1>8, <1>9, <1>10, <1>11, <1>12, <1>13, <1>14, <1>15, <1>16, <1>17, <1>18 DEF FloatOpIs

\* The operands of a floating point operator, by the shape of its emitter.
LEMMA FromInt32 ==
    ASSUME InitFP, op.fam = "F_X_TO_Y", op.o \in {"I32StoF64", "I32UtoF64"}
    PROVE  A[0].h \in Int /\ unit = 1
<1>1. PICK i \in Sample(B(32)) : args = <<FArg(IntV(i))>>
  BY DEF InitFP
<1>2. unit = 1 /\ i \in Int
  BY <1>1, SamplesAre DEF InitFP
<1> QED BY <1>1, <1>2 DEF A, FArg, IntV

LEMMA FromInt64 ==
    ASSUME InitFP, op.fam = "FROUND", op.o \in {"I64StoF64", "I64UtoF64"}
    PROVE  BB[0].h \in Int /\ unit = 1
<1>1. PICK i \in Sample(B(64)), rm \in RoundingModes : args = <<rm, FArg(IntV(i))>>
  BY DEF InitFP
<1>2. unit = 1 /\ i \in Int
  BY <1>1, SamplesAre DEF InitFP
<1> QED BY <1>1, <1>2 DEF BB, FArg, IntV

LEMMA ScalarPair ==
    ASSUME InitFP, op.fam = "PRem"
    PROVE  args[2][0] \in Float /\ args[3][0] \in Float
<1>1. op.o \notin {"I32StoF64", "I32UtoF64", "I64StoF64", "I64UtoF64"}
  <2>1. FloatOpIs(op)
    BY FloatOpsAre DEF InitFP
  <2>2. op.o \in {"PRem", "C3210"}
    BY <2>1 DEF FloatOpIs, Instance
  <2> QED BY <2>2
<1>2. PICK x, y \in Floats, rm \in RoundingModes : args = <<rm, FArg(x), FArg(y)>>
  BY <1>1 DEF InitFP
<1> QED BY <1>2, FloatsAre DEF FArg

InVectors == {"OPF0X", "OPF", "RSQ", "RSQV", "NEG", "AbsF", "OPF0X_CMP", "OPF_CMP", "OPF0X_SEL",
              "BINCMPF", "CmpF64"}
LEMMA Vectors ==
    ASSUME InitFP, op.fam \in InVectors
    PROVE  Lane(A, op.n) /\ Lane(BB, op.n) /\ op.n \in {1, 2, 4}
<1>1. op.o \notin {"I32StoF64", "I32UtoF64", "I64StoF64", "I64UtoF64"} /\ op.n \in {1, 2, 4}
  <2>1. FloatOpIs(op)
    BY FloatOpsAre DEF InitFP
  <2> QED BY <2>1 DEF FloatOpIs, Instance, InVectors, Arith, Named
<1>2. op.fam \notin {"FROUND", "RoundToInt", "TRIOP", "PRem", "MAdd"}
  BY DEF InVectors
<1>3. PICK x, y \in Floats : args = <<FVec(x, op.n, 40), FVec(y, op.n, 60)>>
  BY <1>1, <1>2 DEF InitFP
<1>4. A = FVec(x, op.n, 40) /\ BB = FVec(y, op.n, 60)
  BY <1>3 DEF A, BB
<1>5. op.n \in Nat /\ op.n > 0 /\ x \in Float /\ y \in Float
  BY <1>1, FloatsAre
<1> QED BY <1>1, <1>4, <1>5, VectorIs

(***************************************************************************)
(* One lemma per floating point emitter: it returns what VEX defines.      *)
(***************************************************************************)
FloatRight == res'.val = FRef

LEMMA FloatReturns ==
    ASSUME NEW v, Return(v)
    PROVE  res'.how = "value" /\ res'.val = v
  BY DEF Return, Outcome

\* A scalar is its only lane.
LEMMA Widened ==
    ASSUME InitFP, op.fam = "F_X_TO_Y", op.o = "F32toF64", op.n = 1
    PROVE  A = [i \in {0} |-> A[0]]
<1>1. PICK x, y \in Floats : args = <<FVec(x, op.n, 40), FVec(y, op.n, 60)>>
  BY DEF InitFP
<1>2. A = FVec(x, 1, 40) /\ x \in Float
  BY <1>1, FloatsAre DEF A
<1>3. Lane(A, 1)
  BY <1>2, VectorIs
<1> QED BY <1>3 DEF Lane

\* A conversion that rounds to a float does so as asked: to nearest.
ToFloats == {"F64toF32", "I64StoF64", "I64UtoF64"}
LEMMA AskedNearest ==
    ASSUME ~KnownDivergence, op.fam = "TRIOP" \/ op.o \in ToFloats
    PROVE  args[1] = "nearest"
  BY DEF KnownDivergence, ToFloats

LEMMA NativeConversion ==
    ASSUME InitFP, ~KnownDivergence, F_X_TO_Y_EMIT
    PROVE  FloatRight
<1>1. op.fam = "F_X_TO_Y" /\ op.s = "native"
  BY DEF F_X_TO_Y_EMIT, Native, Family
<1>2. op.o \in {"F32toF64", "I32StoF64", "I32UtoF64"} /\ op.n = 1
  BY <1>1, FloatOpsAre DEF InitFP, FloatOpIs, Instance
<1>3. CASE op.o = "F32toF64"
  <2>1. A = [i \in {0} |-> A[0]]
    BY <1>1, <1>2, <1>3, Widened
  <2> QED BY <1>1, <1>3, <2>1 DEF F_X_TO_Y_EMIT, One, Return, Outcome, FloatRight, FRef
<1>4. CASE op.o \in {"I32StoF64", "I32UtoF64"}
  BY <1>1, <1>4 DEF F_X_TO_Y_EMIT, One, Return, Outcome, FloatRight, FRef, FArg
<1> QED BY <1>2, <1>3, <1>4

LEMMA Powers == \A w : (w = 4 => 2^(w - 1) = 8) /\ (w = 8 => 2^(w - 1) = 128)
<1>1. 2^(4 - 1) = 8 /\ 2^(8 - 1) = 128
  OBVIOUS
<1> QED BY <1>1, Zenon

\* Below the sign bit the two readings of an integer agree.
LEMMA Unsigned ==
    ASSUME NEW x \in Int, NEW w, 2^(w - 1) \in Int, ~(x >= 2^(w - 1))
    PROVE  Signed(x, w) = x
  BY DEF Signed

LEMMA SoftConversion ==
    ASSUME InitFP, ~KnownDivergence, EMIT_HELPER_SOFTFP_UNOP
    PROVE  FloatRight
<1>1. op.fam = "F_X_TO_Y" /\ op.s = "soft"
  BY DEF EMIT_HELPER_SOFTFP_UNOP, Soft, Family
<1>2. op.o \in {"F32toF64", "I32StoF64", "I32UtoF64"} /\ op.n = 1
  BY <1>1, FloatOpsAre DEF InitFP, FloatOpIs, Instance
<1>3. CASE op.o = "F32toF64"
  <2>1. A = [i \in {0} |-> A[0]]
    BY <1>1, <1>2, <1>3, Widened
  <2> QED BY <1>1, <1>3, <2>1 DEF EMIT_HELPER_SOFTFP_UNOP, One, Return, Outcome, FloatRight, FRef
<1>4. CASE op.o = "I32StoF64"
  BY <1>1, <1>4 DEF EMIT_HELPER_SOFTFP_UNOP, One, Return, Outcome, FloatRight, FRef, FArg
<1>5. CASE op.o = "I32UtoF64"
  <2>1. A[0].h \in Int /\ B(32) = 4
    BY <1>1, <1>5, FromInt32, SamplesAre
  <2>2. ~(A[0].h >= 2^(B(32) - 1))
    BY <1>1, <1>5 DEF KnownDivergence
  <2>3. Signed(A[0].h, B(32)) = A[0].h
    BY <2>1, <2>2, Powers, Unsigned
  <2> QED BY <1>1, <1>5, <2>3 DEF EMIT_HELPER_SOFTFP_UNOP, One, Return, Outcome, FloatRight, FRef, FArg
<1> QED BY <1>2, <1>3, <1>4, <1>5

\* A conversion to an integer that fits and is rounded as asked is defined.
LEMMA Fits ==
    ASSUME NEW x, NEW w, NEW rm, x.k # "nan", FitsSigned(RoundTo(rm, x.h), w)
    PROVE  ToInt(rm, x, w) = IntV(Trunc(RoundTo(rm, x.h), w))
  BY DEF ToInt

ToInts == {"F64toI32S", "F64toI32U", "F64toI64S"}
LEMMA Converts ==
    ASSUME ~KnownDivergence, op.fam = "FROUND", op.o \in ToInts, NEW w,
           w = IF op.o = "F64toI64S" THEN B(64) ELSE B(32)
    PROVE  /\ args[1] = (IF op.s = "native" THEN "zero" ELSE "nearest")
           /\ ToInt(args[1], BB[0], w) = IntV(Trunc(RoundTo(args[1], BB[0].h), w))
<1>1. /\ args[1] = (IF op.s = "native" THEN "zero" ELSE "nearest")
      /\ BB[0].k # "nan" /\ FitsSigned(RoundTo(args[1], BB[0].h), w)
  BY DEF KnownDivergence, ToInts
<1> QED BY <1>1, Fits

LEMMA NativeRounding ==
    ASSUME InitFP, ~KnownDivergence, X_TO_Y_EMIT_ROUND
    PROVE  FloatRight
<1>1. op.fam = "FROUND" /\ op.s = "native"
  BY DEF X_TO_Y_EMIT_ROUND, Native, Family
<1>2. op.o \in {"F64toF32", "I64StoF64", "I64UtoF64"} \cup ToInts /\ op.n = 1
  BY <1>1, FloatOpsAre DEF InitFP, FloatOpIs, Instance, ToInts
<1>3. CASE op.o = "F64toF32"
  <2>1. args[1] = "nearest"
    BY <1>3, AskedNearest DEF ToFloats
  <2> QED BY <1>1, <1>3, <2>1 DEF X_TO_Y_EMIT_ROUND, One, Return, Outcome, FloatRight, FRef, FArg,
             Rounds, Nearest
<1>4. CASE op.o \in {"I64StoF64", "I64UtoF64"}
  <2>1. args[1] = "nearest"
    BY <1>4, AskedNearest DEF ToFloats
  <2> QED BY <1>1, <1>4, <2>1 DEF X_TO_Y_EMIT_ROUND, One, Return, Outcome, FloatRight, FRef, FArg,
             Rounds, Nearest
<1>5. CASE op.o \in ToInts
  <2> DEFINE w == IF op.o = "F64toI64S" THEN B(64) ELSE B(32)
             v == IntV(Trunc(RoundTo(args[1], BB[0].h), w))
  <2>1. args[1] = "zero" /\ ToInt("zero", BB[0], w) = v
    BY <1>1, <1>5, Converts, Zenon
  <2>2. res'.val = [i \in {0} |-> ToInt("zero", BB[0], w)]
    BY <1>1, <1>5 DEF X_TO_Y_EMIT_ROUND, One, Return, Outcome, ToInts
  <2>3. FRef = FArg(v)
    BY <1>1, <1>5 DEF FRef, ToInts
  <2> QED BY <2>1, <2>2, <2>3 DEF FloatRight, FArg
<1> QED BY <1>2, <1>3, <1>4, <1>5

LEMMA SoftRounding ==
    ASSUME InitFP, ~KnownDivergence, EMIT_CONVERT_IGNORE_ROUNDING
    PROVE  FloatRight
<1>1. op.fam = "FROUND" /\ op.s = "soft"
  BY DEF EMIT_CONVERT_IGNORE_ROUNDING, Soft, Family
<1>2. op.o \in {"F64toF32", "I64StoF64", "I64UtoF64"} \cup ToInts /\ op.n = 1
  BY <1>1, FloatOpsAre DEF InitFP, FloatOpIs, Instance, ToInts
<1>3. CASE op.o = "F64toF32"
  <2>1. args[1] = "nearest"
    BY <1>3, AskedNearest DEF ToFloats
  <2> QED BY <1>1, <1>3, <2>1 DEF EMIT_CONVERT_IGNORE_ROUNDING, One, Return, Outcome, FloatRight, FRef, FArg,
             Rounds, Nearest
<1>4. CASE op.o = "I64StoF64"
  <2>1. args[1] = "nearest"
    BY <1>4, AskedNearest DEF ToFloats
  <2> QED BY <1>1, <1>4, <2>1 DEF EMIT_CONVERT_IGNORE_ROUNDING, One, Return, Outcome, FloatRight, FRef,
             FArg, Rounds, Nearest
<1>5. CASE op.o = "I64UtoF64"
  <2>1. BB[0].h \in Int /\ B(64) = 8
    BY <1>1, <1>5, FromInt64, SamplesAre
  <2>2. ~(BB[0].h >= 2^(B(64) - 1))
    BY <1>1, <1>5 DEF KnownDivergence
  <2>3. Signed(BB[0].h, B(64)) = BB[0].h
    BY <2>1, <2>2, Powers, Unsigned
  <2>4. args[1] = "nearest"
    BY <1>5, AskedNearest DEF ToFloats
  <2> QED BY <1>1, <1>5, <2>3, <2>4 DEF EMIT_CONVERT_IGNORE_ROUNDING, One, Return, Outcome, FloatRight,
             FRef, FArg, Rounds, Nearest
<1>6. CASE op.o \in ToInts
  <2> DEFINE w == IF op.o = "F64toI64S" THEN B(64) ELSE B(32)
             v == IntV(Trunc(RoundTo(args[1], BB[0].h), w))
  <2>1. args[1] = "nearest" /\ ToInt("nearest", BB[0], w) = v
    <3>1. op.s # "native"
      BY <1>1
    <3> QED BY <1>1, <1>6, <3>1, Converts, Zenon
  <2>2. res'.val = [i \in {0} |-> ToInt("nearest", BB[0], w)]
    BY <1>1, <1>6 DEF EMIT_CONVERT_IGNORE_ROUNDING, One, Return, Outcome, ToInts
  <2>3. FRef = FArg(v)
    BY <1>1, <1>6 DEF FRef, ToInts
  <2> QED BY <2>1, <2>2, <2>3 DEF FloatRight, FArg
<1> QED BY <1>2, <1>3, <1>4, <1>5, <1>6

LEMMA QuotientIs == ASSUME NEW a \in Int, NEW b \in Int, b # 0 PROVE Quot(a, b) \in Int
<1> DEFINE p == IF a < 0 THEN -a ELSE a
           q == IF b < 0 THEN -b ELSE b
<1>1. p \in Int /\ q \in Int /\ q > 0
  OBVIOUS
<1> HIDE DEF p, q
<1>2. p \div q \in Int
  BY <1>1
<1>3. Quot(a, b) = IF (a < 0) = (b < 0) THEN p \div q ELSE -(p \div q)
  BY DEF Quot, p, q
<1> QED BY <1>2, <1>3

LEMMA RoundedFloat ==
    ASSUME InitFP, op.fam = "RoundToInt", op.o \notin Named
    PROVE  BB[0] \in Float
<1>1. PICK x \in Floats, rm \in RoundingModes : args = <<rm, FArg(x)>>
  BY DEF InitFP, Named
<1> QED BY <1>1, FloatsAre DEF BB, FArg

LEMMA NativeRoundToInt ==
    ASSUME InitFP, ~KnownDivergence, RoundToInt
    PROVE  FloatRight
<1>1. op.fam = "RoundToInt"
  BY DEF RoundToInt, Native, Family
<1>2. op.o \notin Named
  BY <1>1, FloatOpsAre DEF InitFP, FloatOpIs, Instance
<1>3. args[1] = "zero" /\ ~(Negative(BB[0]) /\ RoundTo("zero", BB[0].h) = 0)
  BY <1>1 DEF KnownDivergence
<1> DEFINE x == BB[0]
           i == RoundTo("zero", x.h)
           z == Num(2 * i) = Num(0) /\ Negative(x)
<1>4. ~z
  <2>1. x \in Float
    BY <1>1, <1>2, RoundedFloat
  <2>2. x.h \in Int
    BY <2>1, FloatIs
  <2>3. i \in Int
    BY <2>2, QuotientIs DEF RoundTo
  <2>4. Num(2 * i) = Num(0) => 2 * i = 0
    BY DEF Num
  <2> HIDE DEF i
  <2> QED BY <1>3, <2>3, <2>4 DEF i
<1>5. FRef = FArg(IF x.k = "nan" THEN NaN ELSE IF z THEN NegZero ELSE Num(2 * i))
  BY <1>1, <1>2, <1>3 DEF FRef, Named
<1>6. res'.val = FArg(IF x.k = "nan" THEN NaN ELSE Num(2 * i))
  BY DEF RoundToInt, One, Return, Outcome, FArg
<1> QED BY <1>4, <1>5, <1>6 DEF FloatRight

\* The emitters whose operation VEX names itself, lane by lane.
LEMMA LowLaneArithmetic ==
    ASSUME InitFP, OPF0X_EMIT \/ OPF0X_SOFTFLOAT_EMIT
    PROVE  FloatRight
<1>1. op.fam = "OPF0X"
  BY DEF OPF0X_EMIT, OPF0X_SOFTFLOAT_EMIT, Native, Soft, Family
<1>2. op.o \in Arith
  BY <1>1, FloatOpsAre DEF InitFP, FloatOpIs, Instance
<1> QED BY <1>1, <1>2 DEF OPF0X_EMIT, OPF0X_SOFTFLOAT_EMIT, LowLane, Return, Outcome, FloatRight,
           FRef, Arith, Nearest

LEMMA VectorArithmetic ==
    ASSUME InitFP, OPF_EMIT
    PROVE  FloatRight
<1>1. op.fam = "OPF"
  BY DEF OPF_EMIT, Native, Family
<1>2. op.o \in Arith
  BY <1>1, FloatOpsAre DEF InitFP, FloatOpIs, Instance
<1> QED BY <1>1, <1>2 DEF OPF_EMIT, EachF, Return, Outcome, FloatRight, FRef, Arith, Nearest

LEMMA ScalarArithmetic ==
    ASSUME InitFP, ~KnownDivergence, TRIOP_EXPAND_EMIT \/ EMIT_HELPER_IGNORE_ROUNDING
    PROVE  FloatRight
<1>1. op.fam = "TRIOP"
  BY DEF TRIOP_EXPAND_EMIT, EMIT_HELPER_IGNORE_ROUNDING, Native, Soft, Family
<1>2. op.o \in Arith
  BY <1>1, FloatOpsAre DEF InitFP, FloatOpIs, Instance
<1>3. args[1] = "nearest"
  BY <1>1, AskedNearest
<1> QED BY <1>1, <1>2, <1>3 DEF TRIOP_EXPAND_EMIT, EMIT_HELPER_IGNORE_ROUNDING, One, Return, Outcome,
           FloatRight, FRef, FArg, Arith, Nearest

LEMMA Reciprocals ==
    ASSUME InitFP, OPF0X_RSQ \/ OPV_RSQ
    PROVE  FloatRight
<1>1. op.fam = (IF OPF0X_RSQ THEN "RSQ" ELSE "RSQV")
  BY DEF OPF0X_RSQ, OPV_RSQ, Native, Family
<1>2. op.o \in {"Sqrt", "Recip", "RSqrt"}
  BY <1>1, FloatOpsAre DEF InitFP, FloatOpIs, Instance
<1>3. CASE OPF0X_RSQ
  <2>1. FRef = [A EXCEPT ![0] = RSQ(A[0])]
    BY <1>1, <1>2, <1>3 DEF FRef, RSQ, Nearest
  <2> QED BY <1>3, <2>1 DEF OPF0X_RSQ, LowLane, Return, Outcome, FloatRight
<1>4. CASE OPV_RSQ /\ ~OPF0X_RSQ
  <2>1. FRef = [i \in 0 .. op.n - 1 |-> RSQ(A[i])]
    BY <1>1, <1>2, <1>4 DEF FRef, RSQ, Nearest
  <2> QED BY <1>4, <2>1 DEF OPV_RSQ, Return, Outcome, FloatRight
<1> QED BY <1>3, <1>4

\* Subtracting from zero negates, but for zero.
LEMMA Negation ==
    ASSUME InitFP, ~KnownDivergence, UNOP_NEG_EMIT
    PROVE  FloatRight
<1>1. op.fam = "NEG"
  BY DEF UNOP_NEG_EMIT, Native, Family
<1>2. op.o = "Neg"
  BY <1>1, FloatOpsAre DEF InitFP, FloatOpIs, Instance
<1>3. Lane(A, op.n)
  BY <1>1, Vectors DEF InVectors
<1>4. \A i \in 0 .. op.n - 1 : A[i] # Num(0)
  <2>1. \A i \in DOMAIN A : A[i] # Num(0)
    BY <1>1 DEF KnownDivergence
  <2>2. DOMAIN A = 0 .. op.n - 1
    BY <1>3 DEF Lane
  <2> QED BY <2>1, <2>2
<1>5. FRef = [i \in 0 .. op.n - 1 |-> IF A[i].k = "nan" THEN NaN
                                      ELSE IF A[i] = Num(0) THEN NegZero ELSE Num(-A[i].h)]
  BY <1>1, <1>2 DEF FRef
<1>6. res'.val = [i \in 0 .. op.n - 1 |-> ZeroMinus(A[i])]
  BY DEF UNOP_NEG_EMIT, Return, Outcome
<1> QED BY <1>4, <1>5, <1>6 DEF ZeroMinus, FloatRight

\* A comparison with zero finds the sign, but for that of zero.
LEMMA Absolute ==
    ASSUME InitFP, ~KnownDivergence, vexop_absf
    PROVE  FloatRight
<1>1. op.fam = "AbsF"
  BY DEF vexop_absf, Family
<1>2. op.o = "Abs" /\ op.n = 1
  BY <1>1, FloatOpsAre DEF InitFP, FloatOpIs, Instance
<1>3. Lane(A, op.n)
  BY <1>1, Vectors DEF InVectors
<1>4. A[0] \in Float
  BY <1>2, <1>3 DEF Lane
<1>5. A[0] # NegZero
  BY <1>1 DEF KnownDivergence
<1>6. FRef = FArg(IF A[0].k = "nan" THEN NaN ELSE IF A[0].h < 0 THEN Num(-A[0].h) ELSE Num(A[0].h))
  BY <1>1, <1>2 DEF FRef
<1>7. res'.val = FArg(IF Less(A[0], Num(0)) THEN Num(-A[0].h) ELSE A[0])
  BY DEF vexop_absf, One, Return, Outcome, FArg
<1> DEFINE x == A[0]
<1> HIDE DEF x
<1>8. (IF Less(x, Num(0)) THEN Num(-x.h) ELSE x) =
      (IF x.k = "nan" THEN NaN ELSE IF x.h < 0 THEN Num(-x.h) ELSE Num(x.h))
  <2>1. x \in Float /\ x # NegZero
    BY <1>4, <1>5 DEF x
  <2>2. CASE x = NaN
    BY <2>2 DEF Less, Unordered, NaN, Num
  <2>3. CASE \E h \in Int : x = Num(h)
    BY <2>3 DEF Less, Unordered, Num
  <2> QED BY <2>1, <2>2, <2>3 DEF Float
<1> QED BY <1>6, <1>7, <1>8 DEF FloatRight, x

\* A multiply-add is always among the known divergences.
LEMMA MultiplyAdd == ASSUME MAddF64 PROVE KnownDivergence
  BY DEF MAddF64, Native, Family, KnownDivergence

\* The three low bits of a quotient survive its reduction to four.
LEMMA LowBits == ASSUME NEW q \in Nat PROVE PRemC3210(q % 16) = PRemC3210(q)
<1>1. 2^0 = 1 /\ 2^1 = 2 /\ 2^2 = 4
  OBVIOUS
<1>2. Bit(q % 16, 0) = Bit(q, 0)
  BY <1>1 DEF Bit
<1>3. Bit(q % 16, 1) = Bit(q, 1)
  BY <1>1 DEF Bit
<1>4. Bit(q % 16, 2) = Bit(q, 2)
  BY <1>1 DEF Bit
<1> QED BY <1>2, <1>3, <1>4 DEF PRemC3210

LEMMA Remainder ==
    ASSUME InitFP, ~KnownDivergence, PRemF64
    PROVE  FloatRight
<1>1. op.fam = "PRem"
  BY DEF PRemF64, Native, Family
<1>2. op.o \in {"PRem", "C3210"}
  BY <1>1, FloatOpsAre DEF InitFP, FloatOpIs, Instance
<1>3. CASE op.o = "PRem"
  BY <1>1, <1>3 DEF PRemF64, One, Return, Outcome, FloatRight, FRef, FArg, Exact
<1>4. CASE op.o = "C3210"
  <2> DEFINE x == args[2][0]
             y == args[3][0]
             q == Quot(x.h, y.h)
  <2>1. ~Unordered(x, y) /\ y.h # 0 /\ ~(q < 0)
    BY <1>1, <1>4 DEF KnownDivergence
  <2>2. x.h \in Int /\ y.h \in Int
    BY <1>1, ScalarPair, FloatIs
  <2>3. q \in Nat
    <3>1. q \in Int
      BY <2>1, <2>2, QuotientIs, Zenon
    <3> HIDE DEF q
    <3> QED BY <2>1, <3>1
  <2> HIDE DEF q
  <2>4. FRef = FArg(IntV(PRemC3210(IF q < 0 THEN -q ELSE q)))
    BY <1>1, <1>4 DEF FRef, q
  <2>5. res'.val = FArg(IntV(PRemC3210(q % 16)))
    BY <1>4, <2>1, SMT DEF PRemF64, One, Return, Outcome, FArg, q
  <2>6. PRemC3210(q % 16) = PRemC3210(q) /\ (IF q < 0 THEN -q ELSE q) = q
    BY <2>1, <2>3, LowBits
  <2> QED BY <2>4, <2>5, <2>6 DEF FloatRight
<1> QED BY <1>2, <1>3, <1>4

LEMMA Comparisons ==
    ASSUME InitFP, OPF0X_CMP_EMIT \/ OPF0X_CMP_SOFTFLOAT_EMIT \/ OPV_CMP_T_EMIT
    PROVE  FloatRight
<1>1. CASE OPF0X_CMP_EMIT \/ OPF0X_CMP_SOFTFLOAT_EMIT
  <2>1. op.fam = "OPF0X_CMP"
    BY <1>1 DEF OPF0X_CMP_EMIT, OPF0X_CMP_SOFTFLOAT_EMIT, Native, Soft, Family
  <2>2. op.o \in {"LT", "LE", "EQ", "UN"}
    BY <2>1, FloatOpsAre DEF InitFP, FloatOpIs, Instance
  <2> QED BY <1>1, <2>1, <2>2 DEF OPF0X_CMP_EMIT, OPF0X_CMP_SOFTFLOAT_EMIT, LowLane, Return, Outcome,
             FloatRight, FRef
<1>2. CASE OPV_CMP_T_EMIT
  <2>1. op.fam = "OPF_CMP"
    BY <1>2 DEF OPV_CMP_T_EMIT, Native, Family
  <2>2. op.o \in {"EQ", "GT", "GE", "LT", "LE", "UN"}
    BY <2>1, FloatOpsAre DEF InitFP, FloatOpIs, Instance
  <2> QED BY <1>2, <2>1, <2>2 DEF OPV_CMP_T_EMIT, EachF, Return, Outcome, FloatRight, FRef
<1> QED BY <1>1, <1>2

\* Only the low lanes can be unordered; where they are not, the compare and
\* select is the maximum or minimum.
Chooses(x, y) == IF (IF op.o = "Max" THEN Less(y, x) ELSE Less(x, y)) THEN x ELSE y
LEMMA Selects ==
    ASSUME InitFP, ~KnownDivergence, OPF0X_SEL_EMIT \/ BINCMPF_EMIT
    PROVE  FloatRight
<1>1. op.fam \in {"OPF0X_SEL", "BINCMPF"}
  BY DEF OPF0X_SEL_EMIT, BINCMPF_EMIT, Native, Family
<1>2. op.o \in {"Max", "Min"}
  BY <1>1, FloatOpsAre DEF InitFP, FloatOpIs, Instance
<1>3. Lane(A, op.n) /\ Lane(BB, op.n) /\ op.n \in {1, 2, 4}
  BY <1>1, Vectors DEF InVectors
<1>4. ~Unordered(A[0], BB[0])
  BY <1>1 DEF KnownDivergence
<1>5. \A i \in 0 .. op.n - 1 : Select(A[i], BB[i]) = Chooses(A[i], BB[i])
  <2> SUFFICES ASSUME NEW i \in 0 .. op.n - 1 PROVE ~Unordered(A[i], BB[i])
    BY DEF Select, Chooses
  <2>1. CASE i = 0
    BY <1>4, <2>1
  <2>2. CASE i \in 1 .. op.n - 1
    BY <1>3, <2>2 DEF Lane, Unordered
  <2> QED BY <1>3, <2>1, <2>2
<1>6. CASE OPF0X_SEL_EMIT
  <2>1. op.fam = "OPF0X_SEL"
    BY <1>6 DEF OPF0X_SEL_EMIT, Native, Family
  <2>2. FRef = [A EXCEPT ![0] = Chooses(A[0], BB[0])]
    BY <1>2, <2>1 DEF FRef, Chooses
  <2>3. Select(A[0], BB[0]) = Chooses(A[0], BB[0])
    BY <1>3, <1>5
  <2> QED BY <1>6, <2>2, <2>3 DEF OPF0X_SEL_EMIT, LowLane, Return, Outcome, FloatRight
<1>7. CASE BINCMPF_EMIT
  <2>1. op.fam = "BINCMPF"
    BY <1>7 DEF BINCMPF_EMIT, Native, Family
  <2>2. FRef = [i \in 0 .. op.n - 1 |-> Chooses(A[i], BB[i])]
    BY <1>2, <2>1 DEF FRef, Chooses
  <2>3. res'.val = [i \in 0 .. op.n - 1 |-> Select(A[i], BB[i])]
    BY <1>7 DEF BINCMPF_EMIT, EachF, Return, Outcome
  <2> QED BY <1>5, <2>2, <2>3 DEF FloatRight
<1> QED BY <1>6, <1>7

\* The four outcomes of a comparison, tested in either order.
LEMMA Codes ==
    ASSUME InitFP, vexop_cmpf64 \/ vexop_softfloat_cmpf64
    PROVE  FloatRight
<1>1. op.fam = "CmpF64"
  BY DEF vexop_cmpf64, vexop_softfloat_cmpf64, Native, Soft, Family
<1>2. op.o \notin Named /\ op.n = 1
  BY <1>1, FloatOpsAre DEF InitFP, FloatOpIs, Instance
<1>3. Lane(A, op.n) /\ Lane(BB, op.n)
  BY <1>1, Vectors DEF InVectors
<1> DEFINE x == A[0]
           y == BB[0]
           c == IF Unordered(x, y) THEN 69 ELSE IF x.h = y.h THEN 64 ELSE IF x.h < y.h THEN 1 ELSE 0
           e == IF Equal(x, y) THEN Ircr.EQ ELSE IF Less(x, y) THEN Ircr.LT
                ELSE IF Less(y, x) THEN Ircr.GT ELSE Ircr.UN
           f == IF Unordered(x, y) THEN Ircr.UN ELSE IF Equal(x, y) THEN Ircr.EQ
                ELSE IF Less(x, y) THEN Ircr.LT ELSE Ircr.GT
<1>4. x.h \in Int /\ y.h \in Int
  BY <1>2, <1>3, FloatIs DEF Lane
<1>5. FRef = FArg(IntV(c))
  BY <1>1, <1>2 DEF FRef, Named
<1>6. res'.val = FArg(IntV(e)) \/ res'.val = FArg(IntV(f))
  BY DEF vexop_cmpf64, vexop_softfloat_cmpf64, One, Return, Outcome, FArg
<1>7. e = c /\ f = c
  <2> HIDE DEF x, y
  <2> QED BY <1>4 DEF Ircr, Equal, Less, Unordered
<1> QED BY <1>5, <1>6, <1>7 DEF FloatRight

(***************************************************************************)
(* The theorem.                                                            *)
(***************************************************************************)
LEMMA FloatEmits ==
    ASSUME InitFP, ~KnownDivergence, FPEmit, ~UNIMPL
    PROVE  FloatRight
  BY NativeConversion, SoftConversion, NativeRounding, SoftRounding, NativeRoundToInt,
     LowLaneArithmetic, VectorArithmetic, ScalarArithmetic, Reciprocals, Negation, Absolute,
     MultiplyAdd, Remainder, Comparisons, Selects, Codes, Zenon DEF FPEmit

IntFamilies ==
    {"XHI_TO_Y", "X_TO_Y", "Dup8x16", "GET_ELEM", "SET_ELEM", "V128Half", "X_HL_TO_Y", "XUtoV128",
     "SetV128lo", "GETMSBS", "ILEAVE", "OPSHUF", "OPNRW", "UNOP", "BINOP", "BINOP_EXPAND", "SHIFT",
     "DIVMOD", "Count", "Cls", "OPV", "OPV_Shift", "OPVS", "BINCMP", "OPV_CMP", "OPV_EXT", "OPNRWSS",
     "QNarrowUn", "OPSAT", "OPAVG", "OPHOP"}
\* No integer emitter emits a floating point operator.
LEMMA Apart == ASSUME IntEmit PROVE op.fam \in IntFamilies
<1>1. \A f : Family(f) => op.fam = f
  BY DEF Family
<1> QED BY <1>1, Zenon DEF IntEmit, XHI_TO_Y_EMIT, X_TO_Y_EMIT, Dup8x16, GET_ELEM_EMIT, SET_ELEM_EMIT,
     V128to64, X_HL_TO_Y_EMIT, Binop64HLto128, Binop64HLtoV128, XUtoV128, SetV128lo,
     GETMSBS_8xN_EMIT, EMIT_ILEAVE, OPSHUF_EMIT, OPNRW_EMIT, UNOP_EMIT, BINOP_EMIT,
     BINOP_EXPAND_EMIT, SHIFT_EMIT, DIVMOD_EMIT, vexop_count, EMIT_HELPER_UNOP_VEC, OPV_EMIT,
     OPV_Shift, OPVS_EMIT, BINCMP_EMIT, OPV_CMP_EMIT, OPV_EXT_EMIT, OPNRWSS_EMIT, QNarrowUn16Sto8Ux8, OPSAT_EMIT,
     OPAVG_EMIT, OPHOP_EMIT, IntFamilies

Fixed == UNCHANGED <<op, unit, args, have, junk>>

LEMMA OutcomeFixed ==
    /\ \A r : Outcome(r) => Fixed
    /\ \A v : Return(v) => Fixed
  BY DEF Outcome, Return, Fixed

\* Emission leaves the operator and its operands alone.
LEMMA OperandsFixed == ASSUME Next PROVE Fixed
<1>1. IntEmit => Fixed
  BY OutcomeFixed, Zenon DEF IntEmit, XHI_TO_Y_EMIT, X_TO_Y_EMIT, Dup8x16, GET_ELEM_EMIT,
     SET_ELEM_EMIT, V128to64, X_HL_TO_Y_EMIT, Binop64HLto128, Binop64HLtoV128, XUtoV128, SetV128lo,
     GETMSBS_8xN_EMIT, EMIT_ILEAVE, OPSHUF_EMIT, OPNRW_EMIT, UNOP_EMIT, BINOP_EMIT,
     BINOP_EXPAND_EMIT, SHIFT_EMIT, DIVMOD_EMIT, vexop_count, EMIT_HELPER_UNOP_VEC, OPV_EMIT,
     OPV_Shift, OPVS_EMIT, BINCMP_EMIT, OPV_CMP_EMIT, OPV_EXT_EMIT, OPNRWSS_EMIT, QNarrowUn16Sto8Ux8, OPSAT_EMIT,
     OPAVG_EMIT, OPHOP_EMIT, EachLane
<1>2. FPEmit => Fixed
  BY OutcomeFixed, Zenon DEF FPEmit, F_X_TO_Y_EMIT, EMIT_HELPER_SOFTFP_UNOP, X_TO_Y_EMIT_ROUND,
     EMIT_CONVERT_IGNORE_ROUNDING, RoundToInt, OPF0X_EMIT, OPF0X_SOFTFLOAT_EMIT, OPF_EMIT,
     TRIOP_EXPAND_EMIT, EMIT_HELPER_IGNORE_ROUNDING, OPF0X_RSQ, OPV_RSQ, UNOP_NEG_EMIT, vexop_absf,
     MAddF64, PRemF64, OPF0X_CMP_EMIT, OPF0X_CMP_SOFTFLOAT_EMIT, OPV_CMP_T_EMIT, OPF0X_SEL_EMIT,
     BINCMPF_EMIT, vexop_cmpf64, vexop_softfloat_cmpf64, UNIMPL, One, EachF, LowLane
<1>3. createOp_unhandled => Fixed
  BY OutcomeFixed DEF createOp_unhandled
<1> QED BY <1>1, <1>2, <1>3 DEF Next

\* The inductive invariant: an operator is an integer one, or a floating point
\* one on the operands it started with.
FloatInv == (IsInt \/ InitFP) /\ FloatExact

LEMMA FloatNext == ASSUME FloatInv, [Next]_vars PROVE FloatInv'
<1>1. Fixed
  BY OperandsFixed DEF vars, Fixed
<1>2. op' = op /\ unit' = unit /\ args' = args /\ have' = have /\ junk' = junk
  BY <1>1 DEF Fixed
<1>3. (IsInt \/ InitFP)' /\ (IsInt' <=> IsInt)
  BY <1>2 DEF FloatInv, IsInt, InitFP, B, Sample
<1>4. (KnownDivergence' <=> KnownDivergence) /\ FRef' = FRef
  <2>1. A' = A /\ BB' = BB /\ B(32)' = B(32) /\ B(64)' = B(64)
    BY <1>2 DEF A, BB, B
  <2>2. KnownDivergence' <=> KnownDivergence
    BY <1>2, <2>1 DEF KnownDivergence
  <2>3. FRef' = FRef
    BY <1>2, <2>1 DEF FRef
  <2> QED BY <2>2, <2>3
<1>5. CASE IsInt
  BY <1>3, <1>5 DEF FloatInv, FloatExact
<1>6. CASE ~IsInt
  <2>1. InitFP
    BY <1>6 DEF FloatInv
  <2>2. CASE IntEmit
    <3>1. op.fam \in IntFamilies
      BY <2>2, Apart
    <3>2. FloatOpIs(op)
      BY <2>1, FloatOpsAre DEF InitFP
    <3> QED BY <3>1, <3>2 DEF FloatOpIs, Instance, IntFamilies
  <2>3. CASE UNIMPL \/ createOp_unhandled
    <3>1. ~HasValue'
      BY <2>3 DEF UNIMPL, createOp_unhandled, Outcome, Abort, Unhandled, HasValue
    <3> QED BY <1>3, <3>1 DEF FloatInv, FloatExact
  <2>4. CASE FPEmit /\ ~UNIMPL
    <3>1. ~KnownDivergence => res'.val = FRef
      BY <2>1, <2>4, FloatEmits DEF FloatRight
    <3> QED BY <1>3, <1>4, <3>1 DEF FloatInv, FloatExact
  <2>5. CASE UNCHANGED vars
    BY <1>3, <1>4, <2>5 DEF FloatInv, FloatExact, vars, HasValue
  <2> QED BY <2>2, <2>3, <2>4, <2>5 DEF Next
<1> QED BY <1>5, <1>6

\* Whichever back end is linked, a floating point operator it implements has
\* the value VEX defines for every operand the model samples, every rounding
\* mode and whatever undefined bits turn out to be, but for KnownDivergence.
THEOREM FloatsAreExact == Spec => []FloatExact
<1>1. Init => FloatInv
  BY DEF Init, InitInt, FloatInv, IsInt, FloatExact, HasValue, Pending
<1>2. FloatInv /\ [Next]_vars => FloatInv'
  BY FloatNext
<1>3. FloatInv => FloatExact
  BY DEF FloatInv
<1> QED BY <1>1, <1>2, <1>3, PTL DEF Spec

(***************************************************************************)
(* Powers of two.                                                          *)
(***************************************************************************)
Pow(n) == 2^n

\* A property of numbers that holds at 0 and is handed on holds everywhere.
LEMMA ByInduction ==
    ASSUME NEW S \in SUBSET Nat, 0 \in S, \A n \in S : n + 1 \in S
    PROVE  S = Nat
<1> SUFFICES ASSUME Nat \ S # {} PROVE FALSE
  OBVIOUS
<1>1. PICK k \in Nat \ S : \A j \in Nat \ S : ~ (<<j, k>> \in OpToRel(<, Nat))
  BY WFMin, NatLessThanWellFounded, Zenon
<1>2. k # 0 /\ k - 1 \in Nat /\ k - 1 < k
  OBVIOUS
<1>3. k - 1 \notin S
  <2>1. (k - 1) + 1 = k
    OBVIOUS
  <2> QED BY <2>1
<1>4. <<k - 1, k>> \in OpToRel(<, Nat)
  BY <1>2 DEF OpToRel
<1> QED BY <1>1, <1>2, <1>3, <1>4

LEMMA PowNat == \A n \in Nat : Pow(n) \in Nat
<1> SUFFICES ASSUME NEW n \in Nat PROVE Pow(n) \in Nat
  OBVIOUS
<1>1. IsFiniteSet(1 .. n) /\ Cardinality(1 .. n) = n
  BY FS_Interval
<1>2. IsFiniteSet(SUBSET (1 .. n)) /\ Cardinality(SUBSET (1 .. n)) = Pow(n)
  BY <1>1, FS_SUBSET DEF Pow
<1> QED BY <1>2, FS_CardinalityType

\* From the number of subsets: with one more element there are twice as many.
LEMMA PowNext == \A n \in Nat : Pow(n + 1) = Pow(n) + Pow(n)
<1> SUFFICES ASSUME NEW n \in Nat PROVE Pow(n + 1) = Pow(n) + Pow(n)
  OBVIOUS
<1> DEFINE S == 1 .. n
           T == 1 .. n + 1
           Without == SUBSET S
           With == {X \cup {n + 1} : X \in SUBSET S}
<1>1. IsFiniteSet(S) /\ Cardinality(S) = n /\ IsFiniteSet(T) /\ Cardinality(T) = n + 1
  BY FS_Interval
<1>2. /\ IsFiniteSet(Without) /\ Cardinality(Without) = Pow(n)
      /\ IsFiniteSet(SUBSET T) /\ Cardinality(SUBSET T) = Pow(n + 1)
  <2> HIDE DEF S, T
  <2> QED BY <1>1, FS_SUBSET DEF Pow
<1>3. n + 1 \notin S /\ T = S \cup {n + 1}
  OBVIOUS
<1>4. ExistsBijection(Without, With)
  <2> DEFINE f == [X \in Without |-> X \cup {n + 1}]
  <2> HIDE DEF S
  <2>1. f \in [Without -> With] /\ \A Y \in With : \E X \in Without : f[X] = Y
    OBVIOUS
  <2>2. \A X, Y \in Without : f[X] = f[Y] => X = Y
    BY <1>3
  <2> QED BY <2>1, <2>2 DEF ExistsBijection, Bijection, Injection, Surjection, IsInjective
<1>5. IsFiniteSet(With) /\ Cardinality(With) = Pow(n)
  BY <1>2, <1>4, FS_Bijection, Zenon
<1>6. Without \cup With = SUBSET T /\ Without \cap With = {}
  <2> HIDE DEF S, T
  <2>1. Without \cup With \subseteq SUBSET T /\ Without \cap With = {}
    BY <1>3
  <2>2. ASSUME NEW Y \in SUBSET T PROVE Y \in Without \cup With
    <3>1. CASE n + 1 \in Y
      <4>1. Y = (Y \ {n + 1}) \cup {n + 1} /\ Y \ {n + 1} \in SUBSET S
        BY <1>3, <3>1
      <4> QED BY <4>1
    <3>2. CASE n + 1 \notin Y
      BY <1>3, <3>2
    <3> QED BY <3>1, <3>2
  <2> QED BY <2>1, <2>2
<1> HIDE DEF Without, With, T
<1>7. Cardinality(SUBSET T) = Pow(n) + Pow(n) - Cardinality({})
  BY <1>2, <1>5, <1>6, FS_Union
<1>8. Pow(n) \in Nat /\ Cardinality({}) = 0
  BY PowNat, FS_EmptySet
<1> QED BY <1>2, <1>7, <1>8

LEMMA PowZero == Pow(0) = 1
  BY DEF Pow

(***************************************************************************)
(* Division.                                                               *)
(***************************************************************************)
Pos == Nat \ {0}
LEMMA DivIs ==
    \A a \in Int, m \in Pos :
        /\ a \div m \in Int /\ a % m \in Int /\ 0 <= a % m /\ a % m < m
        /\ a = (a \div m) * m + (a % m)
  BY DEF Pos

LEMMA TimesNext == \A a, b \in Int, m \in Pos : a + 1 <= b => a * m + m <= b * m
<1> SUFFICES ASSUME NEW a \in Int, NEW b \in Int, NEW m \in Pos, a + 1 <= b PROVE a * m + m <= b * m
  OBVIOUS
<1>1. (b - a - 1) \in Nat /\ m \in Nat
  BY DEF Pos
<1>2. (b - a - 1) * m >= 0
  BY <1>1
<1>3. (b - a - 1) * m = b * m - a * m - m
  BY <1>1
<1> QED BY <1>1, <1>2, <1>3

LEMMA DivUnique ==
    \A a, q, r \in Int, m \in Pos : a = q * m + r /\ 0 <= r /\ r < m => a \div m = q /\ a % m = r
<1> SUFFICES ASSUME NEW a \in Int, NEW q \in Int, NEW r \in Int, NEW m \in Pos,
                    a = q * m + r, 0 <= r, r < m
             PROVE  a \div m = q /\ a % m = r
  OBVIOUS
<1> DEFINE p == a \div m
           s == a % m
<1>1. p \in Int /\ s \in Int /\ 0 <= s /\ s < m /\ a = p * m + s
  BY DivIs
<1> HIDE DEF p, s
<1>2. ~(p + 1 <= q)
  <2>1. p + 1 <= q => p * m + m <= q * m
    BY <1>1, TimesNext
  <2>2. p * m \in Int /\ q * m \in Int /\ m \in Int
    BY <1>1 DEF Pos
  <2> QED BY <1>1, <2>1, <2>2
<1>3. ~(q + 1 <= p)
  <2>1. q + 1 <= p => q * m + m <= p * m
    BY <1>1, TimesNext
  <2>2. p * m \in Int /\ q * m \in Int /\ m \in Int
    BY <1>1 DEF Pos
  <2> QED BY <1>1, <2>1, <2>2
<1>4. p = q
  BY <1>1, <1>2, <1>3
<1>5. s = r
  <2>1. q * m \in Int
    BY DEF Pos
  <2> QED BY <1>1, <1>4, <2>1
<1> QED BY <1>4, <1>5 DEF p, s

\* Multiples of the divisor.
LEMMA DivAdd ==
    \A a, k \in Int, m \in Pos : (a + k * m) \div m = (a \div m) + k /\ (a + k * m) % m = a % m
<1> SUFFICES ASSUME NEW a \in Int, NEW k \in Int, NEW m \in Pos
             PROVE  (a + k * m) \div m = (a \div m) + k /\ (a + k * m) % m = a % m
  OBVIOUS
<1> DEFINE q == a \div m
           r == a % m
<1>1. q \in Int /\ r \in Int /\ 0 <= r /\ r < m /\ a = q * m + r
  BY DivIs
<1> HIDE DEF q, r
<1>2. a + k * m = (q + k) * m + r /\ a + k * m \in Int /\ q + k \in Int
  BY <1>1 DEF Pos
<1>3. (a + k * m) \div m = q + k /\ (a + k * m) % m = r
  BY <1>1, <1>2, DivUnique
<1> QED BY <1>3 DEF q, r

LEMMA ModSmall == \A a \in Int, m \in Pos : 0 <= a /\ a < m => a \div m = 0 /\ a % m = a
<1> SUFFICES ASSUME NEW a \in Int, NEW m \in Pos, 0 <= a, a < m PROVE a \div m = 0 /\ a % m = a
  OBVIOUS
<1>1. a = 0 * m + a
  BY DEF Pos
<1> QED BY <1>1, DivUnique

\* Congruence.
LEMMA Congruent ==
    \A a, b \in Int, m \in Pos : (a - b) % m = 0 <=> \E k \in Int : a = b + k * m
<1> SUFFICES ASSUME NEW a \in Int, NEW b \in Int, NEW m \in Pos
             PROVE  (a - b) % m = 0 <=> \E k \in Int : a = b + k * m
  OBVIOUS
<1>1. ASSUME (a - b) % m = 0 PROVE \E k \in Int : a = b + k * m
  <2> DEFINE k == (a - b) \div m
  <2>1. k \in Int /\ a - b = k * m + 0
    BY <1>1, DivIs
  <2> HIDE DEF k
  <2>2. a = b + k * m
    BY <2>1 DEF Pos
  <2> QED BY <2>1, <2>2
<1>2. ASSUME NEW k \in Int, a = b + k * m PROVE (a - b) % m = 0
  <2>1. a - b = k * m + 0
    BY <1>2 DEF Pos
  <2>2. 0 \in Int /\ 0 <= 0 /\ 0 < m /\ a - b \in Int
    BY DEF Pos
  <2> QED BY <2>1, <2>2, DivUnique
<1> QED BY <1>1, <1>2

LEMMA ModCongruent ==
    \A a \in Int, m \in Pos : ((a % m) - a) % m = 0 /\ (a - (a % m)) % m = 0
<1> SUFFICES ASSUME NEW a \in Int, NEW m \in Pos PROVE ((a % m) - a) % m = 0 /\ (a - (a % m)) % m = 0
  OBVIOUS
<1> DEFINE q == a \div m
           r == a % m
<1>1. q \in Int /\ r \in Int /\ a = q * m + r
  BY DivIs
<1> HIDE DEF q, r
<1>2. r = a + (-q) * m /\ a = r + q * m /\ -q \in Int
  BY <1>1 DEF Pos
<1>3. (r - a) % m = 0 /\ (a - r) % m = 0
  BY <1>1, <1>2, Congruent
<1> QED BY <1>3 DEF r

\* Dividing by a product is dividing twice, and a number is reduced to a
\* factor in any order.
LEMMA DivTwice ==
    \A a \in Int, m, n \in Pos :
        /\ m * n \in Pos
        /\ a \div (m * n) = (a \div m) \div n
        /\ a % (m * n) = ((a \div m) % n) * m + (a % m)
<1> SUFFICES ASSUME NEW a \in Int, NEW m \in Pos, NEW n \in Pos
             PROVE  /\ m * n \in Pos
                    /\ a \div (m * n) = (a \div m) \div n
                    /\ a % (m * n) = ((a \div m) % n) * m + (a % m)
  OBVIOUS
<1> DEFINE q == a \div m
           r == a % m
           p == q \div n
           s == q % n
<1>1. q \in Int /\ r \in Int /\ 0 <= r /\ r < m /\ a = q * m + r
  BY DivIs
<1>2. p \in Int /\ s \in Int /\ 0 <= s /\ s < n /\ q = p * n + s
  BY <1>1, DivIs
<1> HIDE DEF q, r, p, s
<1>3. m * n \in Pos
  BY DEF Pos
<1>4. a = p * (m * n) + (s * m + r)
  BY <1>1, <1>2 DEF Pos
<1>5. s * m + m <= n * m
  BY <1>2, TimesNext DEF Pos
<1>6. s * m + r \in Int /\ 0 <= s * m + r /\ s * m + r < m * n
  <2>1. s * m \in Int /\ 0 <= s * m /\ n * m = m * n /\ m * n \in Int /\ m \in Int
    BY <1>2 DEF Pos
  <2> QED BY <1>1, <1>5, <2>1
<1>7. a \div (m * n) = p /\ a % (m * n) = s * m + r
  BY <1>2, <1>3, <1>4, <1>6, DivUnique
<1> QED BY <1>3, <1>7 DEF p, q, s, r

LEMMA ModTwice == \A a \in Int, m, n \in Pos : (a % (m * n)) % m = a % m
<1> SUFFICES ASSUME NEW a \in Int, NEW m \in Pos, NEW n \in Pos PROVE (a % (m * n)) % m = a % m
  OBVIOUS
<1> DEFINE k == (a \div m) % n
           r == a % m
<1>1. a % (m * n) = r + k * m
  <2>1. a % (m * n) = k * m + r
    BY DivTwice
  <2>2. k \in Int /\ r \in Int /\ m \in Int
    BY DivIs DEF Pos
  <2> HIDE DEF k, r
  <2>3. k * m + r = r + k * m
    BY <2>2
  <2> QED BY <2>1, <2>3
<1>2. k \in Int /\ r \in Int /\ 0 <= r /\ r < m
  BY DivIs
<1> HIDE DEF k, r
<1>3. (r + k * m) % m = r % m /\ r % m = r
  BY <1>2, DivAdd, ModSmall
<1> QED BY <1>1, <1>3 DEF r

LEMMA PowPos == \A n \in Nat : Pow(n) \in Pos
<1> DEFINE S == {n \in Nat : Pow(n) \in Pos}
<1>1. 0 \in S
  BY PowZero DEF Pos
<1>2. \A n \in S : n + 1 \in S
  BY PowNext DEF Pos
<1> HIDE DEF S
<1>3. S \in SUBSET Nat
  BY DEF S
<1>4. S = Nat
  BY <1>1, <1>2, <1>3, ByInduction
<1> QED BY <1>4 DEF S

LEMMA PowSum == \A m, n \in Nat : Pow(m + n) = Pow(m) * Pow(n)
<1> SUFFICES ASSUME NEW m \in Nat PROVE \A n \in Nat : Pow(m + n) = Pow(m) * Pow(n)
  OBVIOUS
<1> DEFINE S == {n \in Nat : Pow(m + n) = Pow(m) * Pow(n)}
<1>1. 0 \in S
  <2>1. m + 0 = m /\ Pow(m) * 1 = Pow(m)
    BY PowNat
  <2> QED BY <2>1, PowZero
<1>2. ASSUME NEW n \in S PROVE n + 1 \in S
  <2>1. m + (n + 1) = (m + n) + 1 /\ m + n \in Nat /\ n \in Nat
    OBVIOUS
  <2>2. Pow(m + (n + 1)) = Pow(m + n) + Pow(m + n) /\ Pow(n + 1) = Pow(n) + Pow(n)
    BY <2>1, PowNext
  <2>3. Pow(m) \in Nat /\ Pow(n) \in Nat /\ Pow(m + n) = Pow(m) * Pow(n)
    BY <2>1, PowNat
  <2>4. Pow(m + (n + 1)) = Pow(m) * Pow(n + 1)
    BY <2>2, <2>3
  <2> QED BY <2>1, <2>4
<1> HIDE DEF S
<1>3. S \in SUBSET Nat
  BY DEF S
<1>4. S = Nat
  BY <1>1, <1>2, <1>3, ByInduction
<1> QED BY <1>4 DEF S

LEMMA PowMono == \A m, n \in Nat : m <= n => Pow(m) <= Pow(n)
<1> SUFFICES ASSUME NEW m \in Nat, NEW n \in Nat, m <= n PROVE Pow(m) <= Pow(n)
  OBVIOUS
<1>1. n = m + (n - m) /\ n - m \in Nat
  OBVIOUS
<1>2. Pow(n) = Pow(m) * Pow(n - m) /\ Pow(m) \in Pos /\ Pow(n - m) \in Pos
  BY <1>1, PowSum, PowPos
<1> DEFINE a == Pow(m)
           b == Pow(n - m)
<1> HIDE DEF a, b
<1>3. a \in Pos /\ b \in Pos => a <= a * b
  BY DEF Pos
<1> QED BY <1>2, <1>3 DEF a, b

(***************************************************************************)
(* Lanes.                                                                  *)
(***************************************************************************)
\* g sums the lanes of f below m.
Sums(g, f, w, m) ==
    g = [i \in 0 .. m |-> IF i = 0 THEN 0 ELSE f[i - 1] * 2^(w * (i - 1)) + g[i - 1]]

LEMMA SumsExist == ASSUME NEW f, NEW w PROVE \A m \in Nat : \E g : Sums(g, f, w, m)
<1> DEFINE S == {m \in Nat : \E g : Sums(g, f, w, m)}
           t(i) == f[i - 1] * 2^(w * (i - 1))
<1>1. 0 \in S
  <2>1. Sums([i \in 0 .. 0 |-> 0], f, w, 0)
    BY DEF Sums
  <2> QED BY <2>1
<1>2. ASSUME NEW m \in S PROVE m + 1 \in S
  <2>1. PICK g : Sums(g, f, w, m)
    OBVIOUS
  <2> DEFINE h == [i \in 0 .. m + 1 |-> IF i = m + 1 THEN t(m + 1) + g[m] ELSE g[i]]
  <2>2. m \in Nat
    OBVIOUS
  <2>3. \A i \in 0 .. m : g[i] = IF i = 0 THEN 0 ELSE t(i) + g[i - 1]
    BY <2>1 DEF Sums
  <2>4. h = [i \in 0 .. m + 1 |-> IF i = 0 THEN 0 ELSE t(i) + h[i - 1]]
    <3> SUFFICES ASSUME NEW i \in 0 .. m + 1
                 PROVE  h[i] = IF i = 0 THEN 0 ELSE t(i) + h[i - 1]
      OBVIOUS
    <3> HIDE DEF t
    <3>1. CASE i = m + 1
      <4>1. i # 0 /\ i - 1 = m /\ i - 1 \in 0 .. m + 1 /\ i - 1 # m + 1
        BY <2>2, <3>1
      <4>2. h[i - 1] = g[m]
        BY <4>1
      <4> QED BY <3>1, <4>1, <4>2
    <3>2. CASE i # m + 1 /\ i # 0
      <4>1. i \in 0 .. m /\ i - 1 \in 0 .. m + 1 /\ i - 1 # m + 1
        BY <2>2, <3>2
      <4> QED BY <2>3, <3>2, <4>1
    <3>3. CASE i # m + 1 /\ i = 0
      <4>1. i \in 0 .. m
        BY <2>2, <3>3
      <4> QED BY <2>3, <3>3, <4>1
    <3> QED BY <3>1, <3>2, <3>3
  <2>5. Sums(h, f, w, m + 1)
    BY <2>4 DEF Sums
  <2> QED BY <2>2, <2>5
<1> HIDE DEF S
<1>3. S \in SUBSET Nat
  BY DEF S
<1>4. S = Nat
  BY <1>1, <1>2, <1>3, ByInduction
<1> QED BY <1>4 DEF S

LEMMA PackIs ==
    ASSUME NEW f, NEW n \in Nat, NEW w
    PROVE  \E g : Sums(g, f, w, n) /\ Pack(f, n, w) = g[n]
<1> DEFINE g == CHOOSE P : Sums(P, f, w, n)
<1>1. Sums(g, f, w, n)
  BY SumsExist, Zenon
<1>2. Pack(f, n, w) = g[n]
  BY Zenon DEF Pack, Sums
<1> QED BY <1>1, <1>2

\* Lane i of x.
LaneAt(x, i, w) == (x \div Pow(w * i)) % Pow(w)

LEMMA WeightIs ==
    \A w, i \in Nat : /\ w * i \in Nat /\ w * (i + 1) \in Nat
                      /\ Pow(w * i) \in Pos /\ Pow(w) \in Pos
                      /\ Pow(w * (i + 1)) = Pow(w * i) * Pow(w)
<1> SUFFICES ASSUME NEW w \in Nat, NEW i \in Nat
             PROVE  /\ w * i \in Nat /\ w * (i + 1) \in Nat
                    /\ Pow(w * i) \in Pos /\ Pow(w) \in Pos
                    /\ Pow(w * (i + 1)) = Pow(w * i) * Pow(w)
  OBVIOUS
<1>1. w * i \in Nat /\ w * (i + 1) = w * i + w /\ w * (i + 1) \in Nat
  OBVIOUS
<1> QED BY <1>1, PowSum, PowPos

\* A lane above is worth a multiple of every lane below it.
LEMMA WeightAbove ==
    \A w, i, j \in Nat : i < j => \E k \in Nat : Pow(w * j) = k * (Pow(w * i) * Pow(w))
<1> SUFFICES ASSUME NEW w \in Nat, NEW i \in Nat, NEW j \in Nat, i < j
             PROVE  \E k \in Nat : Pow(w * j) = k * (Pow(w * i) * Pow(w))
  OBVIOUS
<1>1. i + 1 \in Nat /\ j - (i + 1) \in Nat
  OBVIOUS
<1>2. w * (i + 1) \in Nat /\ Pow(w * (i + 1)) = Pow(w * i) * Pow(w)
  BY WeightIs
<1> DEFINE d == j - (i + 1)
<1>3. w * j = w * d + w * (i + 1) /\ w * d \in Nat
  <2>1. j = d + (i + 1)
    OBVIOUS
  <2> HIDE DEF d
  <2> QED BY <1>1, <2>1 DEF d
<1>4. Pow(w * j) = Pow(w * d) * Pow(w * (i + 1)) /\ Pow(w * d) \in Nat
  BY <1>2, <1>3, PowSum, PowNat
<1> QED BY <1>2, <1>4

\* Adding to a lane above changes nothing below.
LEMMA LaneBelow ==
    \A a, c \in Nat, w, i, j \in Nat : i < j => LaneAt(a + c * Pow(w * j), i, w) = LaneAt(a, i, w)
<1> SUFFICES ASSUME NEW a \in Nat, NEW c \in Nat, NEW w \in Nat, NEW i \in Nat, NEW j \in Nat, i < j
             PROVE  LaneAt(a + c * Pow(w * j), i, w) = LaneAt(a, i, w)
  OBVIOUS
<1> DEFINE m == Pow(w * i)
           p == Pow(w)
<1>1. PICK k \in Nat : Pow(w * j) = k * (m * p)
  BY WeightAbove
<1>2. m \in Pos /\ p \in Pos
  BY WeightIs
<1> HIDE DEF m, p
<1> DEFINE b == c * k
           z == b * p
<1>3. c * (k * (m * p)) = z * m /\ z \in Int /\ b \in Int
  BY <1>2 DEF Pos
<1> DEFINE q == a \div m
<1>4. q \in Int /\ (q + b * p) % p = q % p
  <2>1. q \in Int
    BY <1>2, DivIs
  <2> HIDE DEF q, b, z
  <2> QED BY <1>2, <1>3, <2>1, DivAdd
<1> HIDE DEF b, z
<1>5. (a + z * m) \div m = q + z
  BY <1>2, <1>3, DivAdd
<1>6. a + c * Pow(w * j) = a + z * m
  <2> DEFINE u == Pow(w * j)
             v == k * (m * p)
  <2>1. u = v /\ c * v = z * m
    BY <1>1, <1>3
  <2> HIDE DEF u, v
  <2>2. c * u = z * m
    BY <2>1
  <2> QED BY <2>2 DEF u
<1>7. ((a + c * Pow(w * j)) \div m) % p = q % p
  BY <1>4, <1>5, <1>6 DEF z
<1> QED BY <1>7 DEF LaneAt, m, p, q

\* The lane on top of what is below its weight.
LEMMA LaneOnTop ==
    \A a, c \in Nat, w, j \in Nat :
        a < Pow(w * j) /\ c < Pow(w) => LaneAt(a + c * Pow(w * j), j, w) = c
<1> SUFFICES ASSUME NEW a \in Nat, NEW c \in Nat, NEW w \in Nat, NEW j \in Nat,
                    a < Pow(w * j), c < Pow(w)
             PROVE  LaneAt(a + c * Pow(w * j), j, w) = c
  OBVIOUS
<1> DEFINE m == Pow(w * j)
           p == Pow(w)
<1>1. m \in Pos /\ p \in Pos /\ a < m /\ c < p
  BY WeightIs
<1> HIDE DEF m, p
<1>2. (a + c * m) \div m = 0 + c
  BY <1>1, DivAdd, ModSmall
<1>3. c % p = c
  BY <1>1, ModSmall
<1> QED BY <1>2, <1>3 DEF LaneAt, m, p

LEMMA RoomAbove ==
    \A a, c \in Nat, w, j \in Nat :
        a < Pow(w * j) /\ c < Pow(w) => a + c * Pow(w * j) < Pow(w * (j + 1))
<1> SUFFICES ASSUME NEW a \in Nat, NEW c \in Nat, NEW w \in Nat, NEW j \in Nat,
                    a < Pow(w * j), c < Pow(w)
             PROVE  a + c * Pow(w * j) < Pow(w * (j + 1))
  OBVIOUS
<1> DEFINE m == Pow(w * j)
           p == Pow(w)
<1>1. m \in Pos /\ p \in Pos /\ a < m /\ c < p /\ Pow(w * (j + 1)) = m * p
  BY WeightIs
<1> HIDE DEF m, p
<1>2. c * m + m <= p * m
  BY <1>1, TimesNext DEF Pos
<1>3. c * m \in Int /\ p * m \in Int /\ p * m = m * p /\ m \in Int
  BY <1>1 DEF Pos
<1>4. a + c * m < m * p
  BY <1>1, <1>2, <1>3
<1> QED BY <1>1, <1>4 DEF m

\* Packing: below the weight of the next lane, and every lane as it was.
LEMMA PackDigits ==
    ASSUME NEW n \in Nat, NEW w \in Nat, NEW f, \A i \in 0 .. n - 1 : f[i] \in Nat /\ f[i] < Pow(w),
           NEW g, Sums(g, f, w, n)
    PROVE  \A j \in 0 .. n : /\ g[j] \in Nat /\ g[j] < Pow(w * j)
                             /\ \A i \in 0 .. j - 1 : LaneAt(g[j], i, w) = f[i]
<1> DEFINE Right(j) == /\ g[j] \in Nat /\ g[j] < Pow(w * j)
                       /\ \A i \in 0 .. j - 1 : LaneAt(g[j], i, w) = f[i]
           S == {j \in Nat : j <= n => Right(j)}
<1>1. 0 \in S
  <2>1. g[0] = 0
    BY DEF Sums
  <2>2. w * 0 = 0 /\ 0 .. 0 - 1 = {}
    OBVIOUS
  <2>3. g[0] < Pow(w * 0)
    BY <2>1, <2>2, PowZero
  <2> QED BY <2>1, <2>2, <2>3
<1>2. ASSUME NEW j \in S PROVE j + 1 \in S
  <2> SUFFICES ASSUME j + 1 <= n PROVE Right(j + 1)
    OBVIOUS
  <2>1. j \in Nat /\ j <= n /\ Right(j) /\ j \in 0 .. n - 1 /\ j + 1 \in 0 .. n
    OBVIOUS
  <2>2. f[j] \in Nat /\ f[j] < Pow(w) /\ g[j] \in Nat /\ g[j] < Pow(w * j)
    BY <2>1
  <2>3. g[j + 1] = g[j] + f[j] * Pow(w * j)
    <3>1. g[j + 1] = IF j + 1 = 0 THEN 0 ELSE f[(j + 1) - 1] * Pow(w * ((j + 1) - 1)) + g[(j + 1) - 1]
      BY <2>1 DEF Sums, Pow
    <3>2. (j + 1) - 1 = j /\ j + 1 # 0
      BY <2>1
    <3>3. Pow(w * j) \in Nat
      BY <2>1, WeightIs DEF Pos
    <3> DEFINE c == f[j] * Pow(w * j)
    <3>4. c \in Nat
      BY <2>2, <3>3
    <3>5. c + g[j] = g[j] + c
      <4> HIDE DEF c
      <4> QED BY <2>2, <3>4
    <3> QED BY <3>1, <3>2, <3>5
  <2>4. g[j + 1] < Pow(w * (j + 1))
    BY <2>1, <2>2, <2>3, RoomAbove
  <2>5. g[j + 1] \in Nat
    <3>1. Pow(w * j) \in Nat
      BY <2>1, WeightIs DEF Pos
    <3> QED BY <2>2, <2>3, <3>1
  <2>6. ASSUME NEW i \in 0 .. (j + 1) - 1 PROVE LaneAt(g[j + 1], i, w) = f[i]
    <3>1. CASE i = j
      BY <2>1, <2>2, <2>3, <3>1, LaneOnTop
    <3>2. CASE i # j
      <4>1. i \in Nat /\ i < j /\ i \in 0 .. j - 1
        BY <2>1, <3>2
      <4>2. LaneAt(g[j + 1], i, w) = LaneAt(g[j], i, w)
        BY <2>1, <2>2, <2>3, <4>1, LaneBelow
      <4> QED BY <2>1, <4>1, <4>2
    <3> QED BY <3>1, <3>2
  <2> QED BY <2>4, <2>5, <2>6
<1> HIDE DEF S
<1>3. S \in SUBSET Nat
  BY DEF S
<1>4. S = Nat
  BY <1>1, <1>2, <1>3, ByInduction
<1> QED BY <1>4 DEF S

LEMMA LaneIs == \A x, n, w : \A i \in 0 .. n - 1 : Lanes(x, n, w)[i] = LaneAt(x, i, w)
  BY DEF Lanes, LaneAt, Pow

LEMMA LaneType == \A x, w, i \in Nat : LaneAt(x, i, w) \in Nat /\ LaneAt(x, i, w) < Pow(w)
<1> SUFFICES ASSUME NEW x \in Nat, NEW w \in Nat, NEW i \in Nat
             PROVE  LaneAt(x, i, w) \in Nat /\ LaneAt(x, i, w) < Pow(w)
  OBVIOUS
<1> DEFINE q == x \div Pow(w * i)
<1>1. Pow(w * i) \in Pos /\ Pow(w) \in Pos
  BY WeightIs
<1>2. q \in Int
  BY <1>1, DivIs
<1> HIDE DEF q
<1>3. q % Pow(w) \in Int /\ 0 <= q % Pow(w) /\ q % Pow(w) < Pow(w)
  BY <1>1, <1>2, DivIs
<1> QED BY <1>3 DEF LaneAt, q

\* The lanes of a packed vector are those packed.
LEMMA Packed ==
    ASSUME NEW n \in Nat, NEW w \in Nat, NEW f, \A i \in 0 .. n - 1 : f[i] \in Nat /\ f[i] < Pow(w)
    PROVE  /\ Pack(f, n, w) \in Nat /\ Pack(f, n, w) < Pow(w * n)
           /\ \A i \in 0 .. n - 1 : LaneAt(Pack(f, n, w), i, w) = f[i]
<1>1. PICK g : Sums(g, f, w, n) /\ Pack(f, n, w) = g[n]
  BY PackIs
<1>2. n \in 0 .. n
  OBVIOUS
<1> QED BY <1>1, <1>2, PackDigits

\* Packing the lanes of a number gives it back.
LEMMA Repacked ==
    ASSUME NEW n \in Nat, NEW w \in Nat, NEW x \in Nat, x < Pow(w * n),
           NEW f, \A i \in 0 .. n - 1 : f[i] = LaneAt(x, i, w)
    PROVE  Pack(f, n, w) = x
<1>1. PICK g : Sums(g, f, w, n) /\ Pack(f, n, w) = g[n]
  BY PackIs
<1> DEFINE S == {j \in Nat : j <= n => g[j] = x % Pow(w * j)}
<1>2. 0 \in S
  <2>1. g[0] = 0
    BY <1>1 DEF Sums
  <2>2. w * 0 = 0 /\ x % 1 = 0
    OBVIOUS
  <2> QED BY <2>1, <2>2, PowZero
<1>3. ASSUME NEW j \in S PROVE j + 1 \in S
  <2> SUFFICES ASSUME j + 1 <= n PROVE g[j + 1] = x % Pow(w * (j + 1))
    OBVIOUS
  <2>1. j \in Nat /\ g[j] = x % Pow(w * j) /\ j \in 0 .. n - 1 /\ j + 1 \in 0 .. n
    OBVIOUS
  <2>2. g[j + 1] = f[j] * Pow(w * j) + g[j]
    <3>1. g[j + 1] = IF j + 1 = 0 THEN 0 ELSE f[(j + 1) - 1] * Pow(w * ((j + 1) - 1)) + g[(j + 1) - 1]
      BY <1>1, <2>1 DEF Sums, Pow
    <3>2. (j + 1) - 1 = j /\ j + 1 # 0
      BY <2>1
    <3> QED BY <3>1, <3>2
  <2>3. f[j] = (x \div Pow(w * j)) % Pow(w)
    BY <2>1 DEF LaneAt
  <2> DEFINE m == Pow(w * j)
             p == Pow(w)
             q == (x \div m) % p
             r == x % m
  <2>4. m \in Pos /\ p \in Pos /\ Pow(w * (j + 1)) = m * p
    BY <2>1, WeightIs
  <2>5. x % (m * p) = q * m + r
    BY <2>4, DivTwice
  <2>6. g[j + 1] = q * m + r
    BY <2>1, <2>2, <2>3
  <2> HIDE DEF q, r, m, p
  <2> QED BY <2>4, <2>5, <2>6
<1> HIDE DEF S
<1>4. S \in SUBSET Nat
  BY DEF S
<1>5. S = Nat
  BY <1>2, <1>3, <1>4, ByInduction
<1>6. g[n] = x % Pow(w * n)
  BY <1>5 DEF S
<1>7. Pow(w * n) \in Pos
  BY WeightIs
<1>8. x % Pow(w * n) = x
  BY <1>7, ModSmall
<1> QED BY <1>1, <1>6, <1>8

\* A number is determined by its lanes.
LEMMA SameLanes ==
    ASSUME NEW n \in Nat, NEW w \in Nat, NEW x \in Nat, NEW y \in Nat, x < Pow(w * n), y < Pow(w * n),
           \A i \in 0 .. n - 1 : LaneAt(x, i, w) = LaneAt(y, i, w)
    PROVE  x = y
<1> DEFINE f == [i \in 0 .. n - 1 |-> LaneAt(x, i, w)]
<1>1. \A i \in 0 .. n - 1 : f[i] = LaneAt(x, i, w) /\ f[i] = LaneAt(y, i, w)
  OBVIOUS
<1> HIDE DEF f
<1>2. Pack(f, n, w) = x
  <2>1. \A i \in 0 .. n - 1 : f[i] = LaneAt(x, i, w)
    BY <1>1
  <2> QED BY <2>1, Repacked
<1>3. Pack(f, n, w) = y
  <2>1. \A i \in 0 .. n - 1 : f[i] = LaneAt(y, i, w)
    BY <1>1
  <2> QED BY <2>1, Repacked
<1> QED BY <1>2, <1>3

(***************************************************************************)
(* Bits.                                                                   *)
(***************************************************************************)
LEMMA PowOne == Pow(1) = 2
  BY DEF Pow

LEMMA BitIs == \A x : \A i \in Nat : Bit(x, i) = LaneAt(x, i, 1)
<1> SUFFICES ASSUME NEW x, NEW i \in Nat PROVE Bit(x, i) = LaneAt(x, i, 1)
  OBVIOUS
<1>1. 1 * i = i
  OBVIOUS
<1> QED BY <1>1, PowOne DEF Bit, LaneAt, Pow

LEMMA BitType == \A x, i \in Nat : Bit(x, i) \in {0, 1}
<1> SUFFICES ASSUME NEW x \in Nat, NEW i \in Nat PROVE Bit(x, i) \in {0, 1}
  OBVIOUS
<1>1. LaneAt(x, i, 1) \in Nat /\ LaneAt(x, i, 1) < 2
  BY LaneType, PowOne
<1> QED BY <1>1, BitIs

LEMMA PackedBits ==
    ASSUME NEW w \in Nat, NEW f, \A i \in 0 .. w - 1 : f[i] \in {0, 1}
    PROVE  /\ Pack(f, w, 1) \in Nat /\ Pack(f, w, 1) < Pow(w)
           /\ \A i \in 0 .. w - 1 : Bit(Pack(f, w, 1), i) = f[i]
<1>1. \A i \in 0 .. w - 1 : f[i] \in Nat /\ f[i] < Pow(1)
  BY PowOne
<1>2. 1 * w = w /\ 1 \in Nat
  OBVIOUS
<1>3. /\ Pack(f, w, 1) \in Nat /\ Pack(f, w, 1) < Pow(1 * w)
      /\ \A i \in 0 .. w - 1 : LaneAt(Pack(f, w, 1), i, 1) = f[i]
  BY <1>1, <1>2, Packed
<1>4. \A i \in 0 .. w - 1 : i \in Nat
  OBVIOUS
<1> QED BY <1>2, <1>3, <1>4, BitIs

LEMMA SameBits ==
    ASSUME NEW w \in Nat, NEW x \in Nat, NEW y \in Nat, x < Pow(w), y < Pow(w),
           \A i \in 0 .. w - 1 : Bit(x, i) = Bit(y, i)
    PROVE  x = y
<1>1. 1 * w = w /\ 1 \in Nat
  OBVIOUS
<1>2. \A i \in 0 .. w - 1 : LaneAt(x, i, 1) = LaneAt(y, i, 1)
  <2>1. \A i \in 0 .. w - 1 : i \in Nat
    OBVIOUS
  <2> QED BY <2>1, BitIs
<1> QED BY <1>1, <1>2, SameLanes

\* The bitwise instructions, bit by bit.
LEMMA AndBits ==
    ASSUME NEW w \in Nat, NEW x, NEW y
    PROVE  /\ And(x, y, w) \in Nat /\ And(x, y, w) < Pow(w)
           /\ \A i \in 0 .. w - 1 : Bit(And(x, y, w), i) = Bool(Bit(x, i) = 1 /\ Bit(y, i) = 1)
<1> DEFINE f == [i \in 0 .. w - 1 |-> Bool(Bit(x, i) = 1 /\ Bit(y, i) = 1)]
<1>1. And(x, y, w) = Pack(f, w, 1)
  BY DEF And, Bitwise2
<1>2. \A i \in 0 .. w - 1 : f[i] \in {0, 1}
  BY DEF Bool
<1>3. \A i \in 0 .. w - 1 : f[i] = Bool(Bit(x, i) = 1 /\ Bit(y, i) = 1)
  OBVIOUS
<1> HIDE DEF f
<1> QED BY <1>1, <1>2, <1>3, PackedBits

LEMMA OrBits ==
    ASSUME NEW w \in Nat, NEW x, NEW y
    PROVE  /\ Or(x, y, w) \in Nat /\ Or(x, y, w) < Pow(w)
           /\ \A i \in 0 .. w - 1 : Bit(Or(x, y, w), i) = Bool(Bit(x, i) = 1 \/ Bit(y, i) = 1)
<1> DEFINE f == [i \in 0 .. w - 1 |-> Bool(Bit(x, i) = 1 \/ Bit(y, i) = 1)]
<1>1. Or(x, y, w) = Pack(f, w, 1)
  BY DEF Or, Bitwise2
<1>2. \A i \in 0 .. w - 1 : f[i] \in {0, 1}
  BY DEF Bool
<1>3. \A i \in 0 .. w - 1 : f[i] = Bool(Bit(x, i) = 1 \/ Bit(y, i) = 1)
  OBVIOUS
<1> HIDE DEF f
<1> QED BY <1>1, <1>2, <1>3, PackedBits

LEMMA XorBits ==
    ASSUME NEW w \in Nat, NEW x, NEW y
    PROVE  /\ Xor(x, y, w) \in Nat /\ Xor(x, y, w) < Pow(w)
           /\ \A i \in 0 .. w - 1 : Bit(Xor(x, y, w), i) = Bool((Bit(x, i) = 1) # (Bit(y, i) = 1))
<1> DEFINE f == [i \in 0 .. w - 1 |-> Bool((Bit(x, i) = 1) # (Bit(y, i) = 1))]
<1>1. Xor(x, y, w) = Pack(f, w, 1)
  BY DEF Xor, Bitwise2
<1>2. \A i \in 0 .. w - 1 : f[i] \in {0, 1}
  BY DEF Bool
<1>3. \A i \in 0 .. w - 1 : f[i] = Bool((Bit(x, i) = 1) # (Bit(y, i) = 1))
  OBVIOUS
<1> HIDE DEF f
<1> QED BY <1>1, <1>2, <1>3, PackedBits

(***************************************************************************)
(* The integer operators and their operands.                               *)
(***************************************************************************)
\* What an instance of an integer emitter is: operation, signedness, lanes, bits.
Emitter(p, f, os, ss, ns, ws) ==
    p.fam = f /\ p.o \in os /\ p.s \in ss /\ p.n \in ns /\ p.w \in ws
IntOpIs(p) ==
    \/ Emitter(p, "XHI_TO_Y", {p.o}, {"U"}, {1}, {16, 32, 64})
    \/ Emitter(p, "X_TO_Y", {"trunc", "zext", "sext", "asI", "asF"}, {"S", "U"}, {1, 8, 16, 32, 64}, {1, 8, 16, 32, 64, 128})
    \/ Emitter(p, "Dup8x16", {p.o}, {"U"}, {16}, {8})
    \/ Emitter(p, "GET_ELEM", {p.o}, {"U"}, {2, 8}, {8, 32})
    \/ Emitter(p, "SET_ELEM", {p.o}, {"U"}, {2, 8}, {8, 32}) /\ p.n * p.w = 64
    \/ Emitter(p, "V128Half", {"lo", "hi"}, {"U"}, {2}, {64})
    \/ Emitter(p, "X_HL_TO_Y", {"int", "128", "V128"}, {"U"}, {1}, {8, 16, 32, 64}) /\ (p.o # "int" => p.w = 64)
    \/ Emitter(p, "XUtoV128", {p.o}, {"U"}, {1}, {32, 64})
    \/ Emitter(p, "SetV128lo", {p.o}, {"U"}, {2, 4}, {32, 64}) /\ p.n * p.w = 128
    \/ Emitter(p, "GETMSBS", {p.o}, {"U"}, {8, 16}, {8})
    \/ Emitter(p, "ILEAVE", {"LO", "HI"}, {"U"}, {2, 4, 8, 16}, {8, 16, 32, 64})
    \/ Emitter(p, "OPSHUF", {"Perm"}, {"U"}, {8, 16}, {8})
    \/ Emitter(p, "OPNRW", {p.o}, {"U"}, {8, 16}, {8, 16})
    \/ Emitter(p, "UNOP", {"Not"}, {"U"}, {1}, {1, 8, 16, 32, 64, 128})
    \/ Emitter(p, "BINOP", {"Add", "And", "Mul", "Or", "Sub", "Xor", "ICmpEQ", "ICmpNE", "ICmpLE", "ICmpLT"}, {"S", "U"}, {1}, {8, 16, 32, 64, 128})
    \/ Emitter(p, "BINOP_EXPAND", {"Mull"}, {"S", "U"}, {1}, {8, 16, 32, 64})
    \/ Emitter(p, "SHIFT", {"Shl", "LShr", "AShr"}, {"U"}, {1}, {8, 16, 32, 64})
    \/ Emitter(p, "DIVMOD", {p.o}, {"S", "U"}, {1}, {64, 128})
    \/ Emitter(p, "Count", {"Ctz", "Clz"}, {"U"}, {1}, {32, 64})
    \/ Emitter(p, "Cls", {p.o}, {"U"}, {2, 4}, {32})
    \/ Emitter(p, "OPV", {"Add", "Sub", "Mul"}, {"U"}, {2, 4, 8, 16}, {8, 16, 32, 64})
    \/ Emitter(p, "OPV_Shift", {"Shl", "LShr", "AShr"}, {"U"}, {2, 4, 8, 16}, {8, 16, 32, 64})
    \/ Emitter(p, "OPVS", {"Shl", "LShr", "AShr"}, {"U"}, {2, 4, 8, 16}, {8, 16, 32, 64})
    \/ Emitter(p, "BINCMP", {"Max", "Min"}, {"S", "U"}, {4, 8, 16}, {8, 16})
    \/ Emitter(p, "OPV_CMP", {"ICmpEQ", "ICmpGT"}, {"S", "U"}, {2, 4, 8, 16}, {8, 16, 32, 64})
    \/ Emitter(p, "OPV_EXT", {"MulHi"}, {"S", "U"}, {4, 8}, {16, 32})
    \/ Emitter(p, "OPNRWSS", {p.o}, {"S", "U"}, {2, 4, 8}, {16, 32})
    \/ Emitter(p, "QNarrowUn", {"16Sto8U"}, {"U"}, {8}, {16})
    \/ Emitter(p, "OPSAT", {"Add", "Sub"}, {"S", "U"}, {1, 2, 4, 8, 16}, {8, 16, 32, 64})
    \/ Emitter(p, "OPAVG", {"Avg"}, {"S", "U"}, {4, 8, 16}, {8, 16, 32})
    \/ Emitter(p, "OPHOP", {"Add", "Sub"}, {"S", "U"}, {2, 4}, {8, 16})

LEMMA IntOpsAre == ASSUME NEW p, p \in IntOps PROVE IntOpIs(p)
<1>1. p \in XHI_TO_Y_Ops => Emitter(p, "XHI_TO_Y", {p.o}, {"U"}, {1}, {16, 32, 64})
  <2> DEFINE os == {""}
  <2>1. p \in XHI_TO_Y_Ops => p \in Op("XHI_TO_Y", os, {"U"}, Scalars({16, 32, 64}))
    BY DEF XHI_TO_Y_Ops
  <2> HIDE DEF os
  <2> QED BY <2>1 DEF Op, Scalars, Emitter
<1>2. p \in X_TO_Y_Ops => Emitter(p, "X_TO_Y", {"trunc", "zext", "sext", "asI", "asF"}, {"S", "U"}, {1, 8, 16, 32, 64}, {1, 8, 16, 32, 64, 128})
  BY DEF X_TO_Y_Ops, Op, Scalars, Ints, Shapes8to32, Emitter
<1>3. p \in Reinterp_Ops => Emitter(p, "X_TO_Y", {"trunc", "zext", "sext", "asI", "asF"}, {"S", "U"}, {1, 8, 16, 32, 64}, {1, 8, 16, 32, 64, 128})
  BY DEF Reinterp_Ops, Op, Scalars, Ints, Shapes8to32, Emitter
<1>4. p \in Dup8x16_Ops => Emitter(p, "Dup8x16", {p.o}, {"U"}, {16}, {8})
  <2> DEFINE os == {""}
  <2>1. p \in Dup8x16_Ops => p \in Op("Dup8x16", os, {"U"}, {<<16, 8>>})
    BY DEF Dup8x16_Ops
  <2> HIDE DEF os
  <2> QED BY <2>1 DEF Op, Scalars, Emitter
<1>5. p \in GET_ELEM_Ops => Emitter(p, "GET_ELEM", {p.o}, {"U"}, {2, 8}, {8, 32})
  <2> DEFINE os == {""}
  <2>1. p \in GET_ELEM_Ops => p \in Op("GET_ELEM", os, {"U"}, {<<8, 8>>, <<2, 32>>})
    BY DEF GET_ELEM_Ops
  <2> HIDE DEF os
  <2> QED BY <2>1 DEF Op, Scalars, Emitter
<1>6. p \in SET_ELEM_Ops => Emitter(p, "SET_ELEM", {p.o}, {"U"}, {2, 8}, {8, 32}) /\ p.n * p.w = 64
  <2> DEFINE os == {""}
  <2>1. p \in SET_ELEM_Ops => p \in Op("SET_ELEM", os, {"U"}, {<<8, 8>>, <<2, 32>>})
    BY DEF SET_ELEM_Ops
  <2> HIDE DEF os
  <2> QED BY <2>1 DEF Op, Scalars, Emitter
<1>7. p \in V128Half_Ops => Emitter(p, "V128Half", {"lo", "hi"}, {"U"}, {2}, {64})
  BY DEF V128Half_Ops, Op, Scalars, Ints, Shapes8to32, Emitter
<1>8. p \in X_HL_TO_Y_Ops => Emitter(p, "X_HL_TO_Y", {"int", "128", "V128"}, {"U"}, {1}, {8, 16, 32, 64}) /\ (p.o # "int" => p.w = 64)
  BY DEF X_HL_TO_Y_Ops, Op, Scalars, Ints, Shapes8to32, Emitter
<1>9. p \in HLto128_Ops => Emitter(p, "X_HL_TO_Y", {"int", "128", "V128"}, {"U"}, {1}, {8, 16, 32, 64}) /\ (p.o # "int" => p.w = 64)
  BY DEF HLto128_Ops, Op, Scalars, Ints, Shapes8to32, Emitter
<1>10. p \in XUtoV128_Ops => Emitter(p, "XUtoV128", {p.o}, {"U"}, {1}, {32, 64})
  <2> DEFINE os == {""}
  <2>1. p \in XUtoV128_Ops => p \in Op("XUtoV128", os, {"U"}, Scalars({32, 64}))
    BY DEF XUtoV128_Ops
  <2> HIDE DEF os
  <2> QED BY <2>1 DEF Op, Scalars, Emitter
<1>11. p \in SetV128lo_Ops => Emitter(p, "SetV128lo", {p.o}, {"U"}, {2, 4}, {32, 64}) /\ p.n * p.w = 128
  <2> DEFINE os == {""}
  <2>1. p \in SetV128lo_Ops => p \in Op("SetV128lo", os, {"U"}, {<<2, 64>>, <<4, 32>>})
    BY DEF SetV128lo_Ops
  <2> HIDE DEF os
  <2> QED BY <2>1 DEF Op, Scalars, Emitter
<1>12. p \in GETMSBS_Ops => Emitter(p, "GETMSBS", {p.o}, {"U"}, {8, 16}, {8})
  <2> DEFINE os == {""}
  <2>1. p \in GETMSBS_Ops => p \in Op("GETMSBS", os, {"U"}, {<<8, 8>>, <<16, 8>>})
    BY DEF GETMSBS_Ops
  <2> HIDE DEF os
  <2> QED BY <2>1 DEF Op, Scalars, Emitter
<1>13. p \in EMIT_ILEAVE_Ops => Emitter(p, "ILEAVE", {"LO", "HI"}, {"U"}, {2, 4, 8, 16}, {8, 16, 32, 64})
  BY DEF EMIT_ILEAVE_Ops, Op, Scalars, Ints, Shapes8to32, Emitter
<1>14. p \in OPSHUF_Ops => Emitter(p, "OPSHUF", {"Perm"}, {"U"}, {8, 16}, {8})
  BY DEF OPSHUF_Ops, Op, Scalars, Ints, Shapes8to32, Emitter
<1>15. p \in OPNRW_Ops => Emitter(p, "OPNRW", {p.o}, {"U"}, {8, 16}, {8, 16})
  <2> DEFINE os == {""}
  <2>1. p \in OPNRW_Ops => p \in Op("OPNRW", os, {"U"}, {<<16, 8>>, <<8, 16>>})
    BY DEF OPNRW_Ops
  <2> HIDE DEF os
  <2> QED BY <2>1 DEF Op, Scalars, Emitter
<1>16. p \in UNOP_Ops => Emitter(p, "UNOP", {"Not"}, {"U"}, {1}, {1, 8, 16, 32, 64, 128})
  BY DEF UNOP_Ops, Op, Scalars, Ints, Shapes8to32, Emitter
<1>17. p \in AddAndMul_Ops => Emitter(p, "BINOP", {"Add", "And", "Mul", "Or", "Sub", "Xor", "ICmpEQ", "ICmpNE", "ICmpLE", "ICmpLT"}, {"S", "U"}, {1}, {8, 16, 32, 64, 128})
  BY DEF AddAndMul_Ops, Op, Scalars, Ints, Shapes8to32, Emitter
<1>18. p \in Or_Ops => Emitter(p, "BINOP", {"Add", "And", "Mul", "Or", "Sub", "Xor", "ICmpEQ", "ICmpNE", "ICmpLE", "ICmpLT"}, {"S", "U"}, {1}, {8, 16, 32, 64, 128})
  BY DEF Or_Ops, Op, Scalars, Ints, Shapes8to32, Emitter
<1>19. p \in SubXorCmp_Ops => Emitter(p, "BINOP", {"Add", "And", "Mul", "Or", "Sub", "Xor", "ICmpEQ", "ICmpNE", "ICmpLE", "ICmpLT"}, {"S", "U"}, {1}, {8, 16, 32, 64, 128})
  BY DEF SubXorCmp_Ops, Op, Scalars, Ints, Shapes8to32, Emitter
<1>20. p \in CmpLELT_Ops => Emitter(p, "BINOP", {"Add", "And", "Mul", "Or", "Sub", "Xor", "ICmpEQ", "ICmpNE", "ICmpLE", "ICmpLT"}, {"S", "U"}, {1}, {8, 16, 32, 64, 128})
  BY DEF CmpLELT_Ops, Op, Scalars, Ints, Shapes8to32, Emitter
<1>21. p \in V128_Ops => Emitter(p, "BINOP", {"Add", "And", "Mul", "Or", "Sub", "Xor", "ICmpEQ", "ICmpNE", "ICmpLE", "ICmpLT"}, {"S", "U"}, {1}, {8, 16, 32, 64, 128})
  BY DEF V128_Ops, Op, Scalars, Ints, Shapes8to32, Emitter
<1>22. p \in BINOP_EXPAND_Ops => Emitter(p, "BINOP_EXPAND", {"Mull"}, {"S", "U"}, {1}, {8, 16, 32, 64})
  BY DEF BINOP_EXPAND_Ops, Op, Scalars, Ints, Shapes8to32, Emitter
<1>23. p \in SHIFT_Ops => Emitter(p, "SHIFT", {"Shl", "LShr", "AShr"}, {"U"}, {1}, {8, 16, 32, 64})
  BY DEF SHIFT_Ops, Op, Scalars, Ints, Shapes8to32, Emitter
<1>24. p \in DIVMOD_Ops => Emitter(p, "DIVMOD", {p.o}, {"S", "U"}, {1}, {64, 128})
  <2> DEFINE os == {""}
  <2>1. p \in DIVMOD_Ops => p \in Op("DIVMOD", os, {"S", "U"}, Scalars({64, 128}))
    BY DEF DIVMOD_Ops
  <2> HIDE DEF os
  <2> QED BY <2>1 DEF Op, Scalars, Emitter
<1>25. p \in Count_Ops => Emitter(p, "Count", {"Ctz", "Clz"}, {"U"}, {1}, {32, 64})
  BY DEF Count_Ops, Op, Scalars, Ints, Shapes8to32, Emitter
<1>26. p \in Cls_Ops => Emitter(p, "Cls", {p.o}, {"U"}, {2, 4}, {32})
  <2> DEFINE os == {""}
  <2>1. p \in Cls_Ops => p \in Op("Cls", os, {"U"}, {<<2, 32>>, <<4, 32>>})
    BY DEF Cls_Ops
  <2> HIDE DEF os
  <2> QED BY <2>1 DEF Op, Scalars, Emitter
<1>27. p \in OPV_Ops => Emitter(p, "OPV", {"Add", "Sub", "Mul"}, {"U"}, {2, 4, 8, 16}, {8, 16, 32, 64})
  BY DEF OPV_Ops, Op, Scalars, Ints, Shapes8to32, Emitter
<1>28. p \in OPV_Shift_Ops => Emitter(p, "OPV_Shift", {"Shl", "LShr", "AShr"}, {"U"}, {2, 4, 8, 16}, {8, 16, 32, 64})
  BY DEF OPV_Shift_Ops, Op, Scalars, Ints, Shapes8to32, Emitter
<1>29. p \in OPVS_Ops => Emitter(p, "OPVS", {"Shl", "LShr", "AShr"}, {"U"}, {2, 4, 8, 16}, {8, 16, 32, 64})
  BY DEF OPVS_Ops, Op, Scalars, Ints, Shapes8to32, Emitter
<1>30. p \in BINCMP_Ops => Emitter(p, "BINCMP", {"Max", "Min"}, {"S", "U"}, {4, 8, 16}, {8, 16})
  BY DEF BINCMP_Ops, Op, Scalars, Ints, Shapes8to32, Emitter
<1>31. p \in OPV_CMP_Ops => Emitter(p, "OPV_CMP", {"ICmpEQ", "ICmpGT"}, {"S", "U"}, {2, 4, 8, 16}, {8, 16, 32, 64})
  BY DEF OPV_CMP_Ops, Op, Scalars, Ints, Shapes8to32, Emitter
<1>32. p \in OPV_EXT_Ops => Emitter(p, "OPV_EXT", {"MulHi"}, {"S", "U"}, {4, 8}, {16, 32})
  BY DEF OPV_EXT_Ops, Op, Scalars, Ints, Shapes8to32, Emitter
<1>33. p \in OPNRWSS_Ops => Emitter(p, "OPNRWSS", {p.o}, {"S", "U"}, {2, 4, 8}, {16, 32})
  <2> DEFINE os == {""}
  <2>1. p \in OPNRWSS_Ops => p \in Op("OPNRWSS", os, {"U"}, {<<8, 16>>, <<4, 16>>, <<4, 32>>}) \/ p \in Op("OPNRWSS", os, {"S"}, {<<4, 16>>, <<8, 16>>, <<2, 32>>, <<4, 32>>})
    BY DEF OPNRWSS_Ops
  <2> HIDE DEF os
  <2> QED BY <2>1 DEF Op, Scalars, Emitter
<1>34. p \in OPSAT_Ops => Emitter(p, "OPSAT", {"Add", "Sub"}, {"S", "U"}, {1, 2, 4, 8, 16}, {8, 16, 32, 64})
  BY DEF OPSAT_Ops, Op, Scalars, Ints, Shapes8to32, Emitter
<1>35. p \in OPAVG_Ops => Emitter(p, "OPAVG", {"Avg"}, {"S", "U"}, {4, 8, 16}, {8, 16, 32})
  BY DEF OPAVG_Ops, Op, Scalars, Ints, Shapes8to32, Emitter
<1>36. p \in OPHOP_Ops => Emitter(p, "OPHOP", {"Add", "Sub"}, {"S", "U"}, {2, 4}, {8, 16})
  BY DEF OPHOP_Ops, Op, Scalars, Ints, Shapes8to32, Emitter
<1>38. p \in QNarrowUn_Ops => Emitter(p, "QNarrowUn", {"16Sto8U"}, {"U"}, {8}, {16})
  BY DEF QNarrowUn_Ops, Op, Emitter
<1>37. PICK S \in {XHI_TO_Y_Ops, X_TO_Y_Ops, Reinterp_Ops, Dup8x16_Ops, GET_ELEM_Ops, SET_ELEM_Ops, V128Half_Ops, X_HL_TO_Y_Ops, HLto128_Ops, XUtoV128_Ops, SetV128lo_Ops, GETMSBS_Ops, EMIT_ILEAVE_Ops, OPSHUF_Ops, OPNRW_Ops, UNOP_Ops, AddAndMul_Ops, Or_Ops, SubXorCmp_Ops, CmpLELT_Ops, V128_Ops, BINOP_EXPAND_Ops, SHIFT_Ops, DIVMOD_Ops, Count_Ops, Cls_Ops, OPV_Ops, OPV_Shift_Ops, OPVS_Ops, BINCMP_Ops, OPV_CMP_Ops, OPV_EXT_Ops, OPNRWSS_Ops, QNarrowUn_Ops, OPSAT_Ops, OPAVG_Ops, OPHOP_Ops} : p \in S
  BY DEF IntOps
<1> QED BY <1>1, <1>2, <1>3, <1>4, <1>5, <1>6, <1>7, <1>8, <1>9, <1>10, <1>11, <1>12, <1>13, <1>14, <1>15, <1>16, <1>17, <1>18, <1>19, <1>20, <1>21, <1>22, <1>23, <1>24, <1>25, <1>26, <1>27, <1>28, <1>29, <1>30, <1>31, <1>32, <1>33, <1>34, <1>35, <1>36, <1>37, <1>38 DEF IntOpIs

Bytes == {1, 2, 4, 8}
\* x is a value of b bits.
Word(x, b) == x \in Nat /\ x < Pow(b)

LEMMA UnitIs == Units \subseteq Bytes
<1> SUFFICES ASSUME NEW k \in 0 .. 3 PROVE Pow(k) \in Bytes
  BY UnitsAssumption DEF Pow
<1>1. Pow(0) = 1 /\ Pow(1) = 2 /\ Pow(2) = 4 /\ Pow(3) = 8
  BY DEF Pow
<1> QED BY <1>1 DEF Bytes

LEMMA PowBefore == \A b \in Pos : /\ Pow(b) = Pow(b - 1) + Pow(b - 1)
                                  /\ Pow(b) \in Nat /\ Pow(b - 1) \in Nat /\ Pow(b - 1) >= 1
<1> SUFFICES ASSUME NEW b \in Pos
             PROVE /\ Pow(b) = Pow(b - 1) + Pow(b - 1)
                   /\ Pow(b) \in Nat /\ Pow(b - 1) \in Nat /\ Pow(b - 1) >= 1
  OBVIOUS
<1>1. b - 1 \in Nat /\ (b - 1) + 1 = b /\ b \in Nat
  BY DEF Pos
<1>2. Pow(b) = Pow(b - 1) + Pow(b - 1)
  BY <1>1, PowNext
<1>3. Pow(b) \in Nat /\ Pow(b - 1) \in Pos
  BY <1>1, PowNat, PowPos
<1> QED BY <1>2, <1>3 DEF Pos

\* The operands looked at are values of their type.
LEMMA SampleFits == ASSUME NEW b \in Pos, NEW x \in Sample(b) PROVE Word(x, b)
<1> DEFINE p == Pow(b)
           h == Pow(b - 1)
<1>1. p = h + h /\ p \in Nat /\ h \in Nat /\ h >= 1
  BY PowBefore
<1>2. x \in 0 .. p - 1 \/ x \in {0, 1, h - 1, h, p - 2, p - 1} \/ \E y \in Patterns : x = y % p
  BY DEF Sample, Pow
<1> HIDE DEF p, h
<1>3. ASSUME NEW y \in Patterns, x = y % p PROVE x \in Nat /\ x < p
  BY <1>1, <1>3, PatternsAssumption
<1>4. x \in Nat /\ x < p
  BY <1>1, <1>2, <1>3
<1> QED BY <1>4 DEF Word, p

Widths == {1, 8, 16, 32, 64, 128}
LEMMA WidthIs ==
    ASSUME unit \in Bytes
    PROVE  /\ B(1) = 1 /\ B(8) = unit /\ B(16) = 2 * unit /\ B(32) = 4 * unit
           /\ B(64) = 8 * unit /\ B(128) = 16 * unit
           /\ \A x \in Widths : B(x) \in Pos
  BY DEF B, Bytes, Pos, Widths

LEMMA VectorWidth ==
    ASSUME unit \in Bytes, NEW n \in Nat, NEW w \in {8, 16, 32, 64}
    PROVE  B(n * w) = n * B(w)
<1>1. n * w # 1
  OBVIOUS
<1>2. ASSUME NEW k \in {1, 2, 4, 8}, w = 8 * k PROVE B(n * w) = n * B(w)
  <2>1. w * unit = 8 * (k * unit) /\ (n * w) * unit = 8 * (n * (k * unit))
    BY <1>2 DEF Bytes
  <2>2. k * unit \in Nat /\ n * (k * unit) \in Nat
    BY DEF Bytes
  <2>3. \A z \in Nat : (8 * z) \div 8 = z
    OBVIOUS
  <2>4. w # 1
    OBVIOUS
  <2> QED BY <1>1, <2>1, <2>2, <2>3, <2>4 DEF B
<1>3. w = 8 * 1 \/ w = 8 * 2 \/ w = 8 * 4 \/ w = 8 * 8
  OBVIOUS
<1> QED BY <1>2, <1>3

\* What the operands of each emitter are.
OneWord == {"XHI_TO_Y", "XUtoV128", "UNOP", "Count"}
OneVector == {"GETMSBS", "Cls", "V128Half", "QNarrowUn"}
WithByte == {"GET_ELEM", "OPVS", "SHIFT"}
TwoVectors == {"ILEAVE", "OPSHUF", "OPNRW", "BINOP", "BINOP_EXPAND", "OPV", "OPV_Shift", "BINCMP", "OPV_CMP",
               "OPV_EXT", "OPNRWSS", "OPSAT", "OPAVG", "OPHOP", "X_HL_TO_Y"}
OperandsFit ==
    /\ op \in IntOps /\ unit \in Bytes /\ W \in Pos /\ op.n \in Pos
    /\ op.fam = "X_TO_Y" => have \in Pos /\ Word(args[1], have)
    /\ op.fam \in OneWord => Word(args[1], W)
    /\ op.fam = "Dup8x16" => Word(args[1], unit)
    /\ op.fam \in OneVector => Word(args[1], op.n * W)
    /\ op.fam \in WithByte => Word(args[1], op.n * W) /\ Word(args[2], unit)
    /\ op.fam = "SET_ELEM" => Word(args[1], op.n * W) /\ Word(args[2], unit) /\ Word(args[3], W)
    /\ op.fam = "SetV128lo" => Word(args[1], op.n * W) /\ Word(args[2], W)
    /\ op.fam = "DIVMOD" => Word(args[1], W) /\ Word(args[2], B(op.w \div 2))
    /\ op.fam \in TwoVectors => Word(args[1], op.n * W) /\ Word(args[2], op.n * W)

LEMMA WordIs ==
    ASSUME unit \in Bytes, IntOpIs(op)
    PROVE  /\ W \in Pos /\ op.n \in Pos /\ op.n \in Nat /\ op.w \in Widths
           /\ op.fam \notin {"X_TO_Y", "UNOP", "BINOP", "DIVMOD"} => op.w \in {8, 16, 32, 64}
           /\ op.fam \in {"BINOP", "DIVMOD", "UNOP"} => op.n = 1
<1>1. /\ op.n \in Pos /\ op.w \in Widths
      /\ op.fam \notin {"X_TO_Y", "UNOP", "BINOP", "DIVMOD"} => op.w \in {8, 16, 32, 64}
      /\ op.fam \in {"BINOP", "DIVMOD", "UNOP"} => op.n = 1
  BY DEF IntOpIs, Emitter, Pos, Widths
<1> QED BY <1>1, WidthIs DEF W, Pos

LEMMA LaneCount ==
    ASSUME unit \in Bytes, IntOpIs(op), op.fam # "X_TO_Y"
    PROVE  B(op.n * op.w) = op.n * W /\ op.n * W \in Pos /\ (op.n = 1 => op.n * W = W)
<1>1. W \in Pos /\ op.n \in Pos /\ op.n \in Nat
  BY WordIs
<1>2. B(op.n * op.w) = op.n * W
  <2>1. CASE op.fam \in {"UNOP", "BINOP", "DIVMOD"}
    <3>1. op.n = 1 /\ op.w \in Nat
      BY <2>1, WordIs DEF Widths
    <3>2. 1 * op.w = op.w /\ 1 * W = W
      BY <1>1, <3>1 DEF Pos
    <3> QED BY <3>1, <3>2 DEF W
  <2>2. CASE op.fam \notin {"UNOP", "BINOP", "DIVMOD"}
    BY <1>1, <2>2, WordIs, VectorWidth DEF W
  <2> QED BY <2>1, <2>2
<1> QED BY <1>1, <1>2 DEF Pos

LEMMA OneOperand ==
    ASSUME InitInt, NEW b1, ArgBits(op) = <<b1>>, op.fam # "X_TO_Y", B(b1) \in Pos
    PROVE  Word(args[1], B(b1))
<1>1. Len(ArgBits(op)) = 1 /\ ArgBits(op)[1] = b1
  OBVIOUS
<1>2. have = B(b1)
  BY <1>1 DEF InitInt
<1>3. PICK x \in Sample(B(b1)) : args = <<x>>
  BY <1>1, <1>2 DEF InitInt
<1> QED BY <1>3, SampleFits

LEMMA TwoOperands ==
    ASSUME InitInt, NEW b1, NEW b2, ArgBits(op) = <<b1, b2>>, op.fam # "X_TO_Y", B(b1) \in Pos, B(b2) \in Pos
    PROVE  Word(args[1], B(b1)) /\ Word(args[2], B(b2))
<1>1. Len(ArgBits(op)) = 2 /\ ArgBits(op)[1] = b1 /\ ArgBits(op)[2] = b2
  OBVIOUS
<1>2. have = B(b1)
  BY <1>1 DEF InitInt
<1>3. PICK x \in Sample(B(b1)), y \in Sample(B(b2)) : args = <<x, y>>
  BY <1>1, <1>2 DEF InitInt
<1> QED BY <1>3, SampleFits

LEMMA ThreeOperands ==
    ASSUME InitInt, NEW b1, NEW b2, NEW b3, ArgBits(op) = <<b1, b2, b3>>, op.fam # "X_TO_Y",
           B(b1) \in Pos, B(b2) \in Pos, B(b3) \in Pos
    PROVE  Word(args[1], B(b1)) /\ Word(args[2], B(b2)) /\ Word(args[3], B(b3))
<1>1. Len(ArgBits(op)) = 3 /\ ArgBits(op)[1] = b1 /\ ArgBits(op)[2] = b2 /\ ArgBits(op)[3] = b3
  OBVIOUS
<1>2. have = B(b1)
  BY <1>1 DEF InitInt
<1>3. PICK x \in Sample(B(b1)), y \in Sample(B(b2)), z \in Sample(B(b3)) : args = <<x, y, z>>
  BY <1>1, <1>2 DEF InitInt
<1> QED BY <1>3, SampleFits

LEMMA InitFits == InitInt => OperandsFit
<1> SUFFICES ASSUME InitInt PROVE OperandsFit
  OBVIOUS
<1>1. op \in IntOps /\ unit \in Bytes /\ IntOpIs(op)
  BY UnitIs, IntOpsAre DEF InitInt
<1>2. /\ W \in Pos /\ op.n \in Pos /\ op.w \in Widths
      /\ \A x \in Widths : B(x) \in Pos
      /\ B(8) = unit /\ unit \in Pos /\ 8 \in Widths
  BY <1>1, WordIs, WidthIs DEF Bytes, Pos, Widths
<1>3. op.fam # "X_TO_Y" => B(op.n * op.w) = op.n * W /\ op.n * W \in Pos
  BY <1>1, LaneCount
<1>4. op.fam = "X_TO_Y" => have \in Pos /\ Word(args[1], have)
  <2> SUFFICES ASSUME op.fam = "X_TO_Y" PROVE have \in Pos /\ Word(args[1], have)
    OBVIOUS
  <2>1. PICK y \in AnyWidth \cup {op.w} : have = B(y)
    BY DEF InitInt
  <2>2. have \in Pos
    BY <1>2, <2>1 DEF AnyWidth, Widths
  <2>3. Len(ArgBits(op)) = 1
    BY DEF ArgBits
  <2>4. PICK x \in Sample(have) : args = <<x>>
    BY <2>3 DEF InitInt
  <2> QED BY <2>2, <2>4, SampleFits
<1>5. op.fam \in OneWord => Word(args[1], W)
  <2> SUFFICES ASSUME op.fam \in OneWord PROVE Word(args[1], W)
    OBVIOUS
  <2>1. ArgBits(op) = <<op.w>> /\ op.fam # "X_TO_Y"
    BY DEF ArgBits, OneWord
  <2> QED BY <1>2, <2>1, OneOperand DEF W
<1>6. op.fam = "Dup8x16" => Word(args[1], unit)
  <2> SUFFICES ASSUME op.fam = "Dup8x16" PROVE Word(args[1], unit)
    OBVIOUS
  <2>1. ArgBits(op) = <<8>>
    BY DEF ArgBits
  <2>2. Word(args[1], B(8))
    BY <1>2, <2>1, OneOperand
  <2> QED BY <1>2, <2>2
<1>7. op.fam \in OneVector => Word(args[1], op.n * W)
  <2> SUFFICES ASSUME op.fam \in OneVector PROVE Word(args[1], op.n * W)
    OBVIOUS
  <2>1. ArgBits(op) = <<op.n * op.w>> /\ op.fam # "X_TO_Y"
    BY DEF ArgBits, OneVector
  <2>2. Word(args[1], B(op.n * op.w))
    BY <1>3, <2>1, OneOperand
  <2> QED BY <1>3, <2>1, <2>2
<1>8. op.fam \in WithByte => Word(args[1], op.n * W) /\ Word(args[2], unit)
  <2> SUFFICES ASSUME op.fam \in WithByte PROVE Word(args[1], op.n * W) /\ Word(args[2], unit)
    OBVIOUS
  <2>1. ArgBits(op) = <<op.n * op.w, 8>> /\ op.fam # "X_TO_Y"
    BY DEF ArgBits, WithByte
  <2>2. Word(args[1], B(op.n * op.w)) /\ Word(args[2], B(8))
    BY <1>2, <1>3, <2>1, TwoOperands
  <2> QED BY <1>2, <1>3, <2>1, <2>2
<1>9. op.fam = "SET_ELEM" => Word(args[1], op.n * W) /\ Word(args[2], unit) /\ Word(args[3], W)
  <2> SUFFICES ASSUME op.fam = "SET_ELEM" PROVE Word(args[1], op.n * W) /\ Word(args[2], unit) /\ Word(args[3], W)
    OBVIOUS
  <2>1. ArgBits(op) = <<64, 8, op.w>> /\ op.n * op.w = 64
    BY <1>1 DEF ArgBits, IntOpIs, Emitter
  <2>2. Word(args[1], B(64)) /\ Word(args[2], B(8)) /\ Word(args[3], B(op.w))
    <3>1. B(64) \in Pos /\ B(8) \in Pos /\ B(op.w) \in Pos
      BY <1>2 DEF Widths
    <3> QED BY <2>1, <3>1, ThreeOperands
  <2> QED BY <1>2, <1>3, <2>1, <2>2 DEF W
<1>10. op.fam = "SetV128lo" => Word(args[1], op.n * W) /\ Word(args[2], W)
  <2> SUFFICES ASSUME op.fam = "SetV128lo" PROVE Word(args[1], op.n * W) /\ Word(args[2], W)
    OBVIOUS
  <2>1. ArgBits(op) = <<128, op.w>> /\ op.n * op.w = 128
    BY <1>1 DEF ArgBits, IntOpIs, Emitter
  <2>2. Word(args[1], B(128)) /\ Word(args[2], B(op.w))
    <3>1. B(128) \in Pos /\ B(op.w) \in Pos
      BY <1>2 DEF Widths
    <3> QED BY <2>1, <3>1, TwoOperands
  <2> QED BY <1>2, <1>3, <2>1, <2>2 DEF W
<1>11. op.fam = "DIVMOD" => Word(args[1], W) /\ Word(args[2], B(op.w \div 2))
  <2> SUFFICES ASSUME op.fam = "DIVMOD" PROVE Word(args[1], W) /\ Word(args[2], B(op.w \div 2))
    OBVIOUS
  <2>1. ArgBits(op) = <<op.w, op.w \div 2>> /\ op.w \in {64, 128}
    BY <1>1 DEF ArgBits, IntOpIs, Emitter
  <2>2. op.w \div 2 \in Widths
    BY <2>1 DEF Widths
  <2> QED BY <1>2, <2>1, <2>2, TwoOperands DEF W
<1>12. op.fam \in TwoVectors => Word(args[1], op.n * W) /\ Word(args[2], op.n * W)
  <2> SUFFICES ASSUME op.fam \in TwoVectors PROVE Word(args[1], op.n * W) /\ Word(args[2], op.n * W)
    OBVIOUS
  <2>1. ArgBits(op) = <<op.n * op.w, op.n * op.w>> /\ op.fam # "X_TO_Y"
    BY DEF ArgBits, TwoVectors
  <2>2. Word(args[1], B(op.n * op.w)) /\ Word(args[2], B(op.n * op.w))
    BY <1>2, <1>3, <2>1, TwoOperands
  <2> QED BY <1>3, <2>1, <2>2
<1> QED BY <1>1, <1>2, <1>4, <1>5, <1>6, <1>7, <1>8, <1>9, <1>10, <1>11, <1>12 DEF OperandsFit

(***************************************************************************)
(* The instructions.                                                       *)
(***************************************************************************)
\* A value above k bits of another is below the sum of the widths.
LEMMA Room ==
    ASSUME NEW k \in Nat, NEW h \in Nat, NEW x, NEW c, Word(x, k), Word(c, h)
    PROVE  Word(x + c * Pow(k), k + h)
<1> DEFINE m == Pow(k)
           p == Pow(h)
<1>1. m \in Pos /\ p \in Pos /\ Pow(k + h) = m * p /\ x \in Nat /\ c \in Nat /\ x < m /\ c < p
  BY PowPos, PowSum DEF Word
<1> HIDE DEF m, p
<1>2. c * m + m <= p * m
  BY <1>1, TimesNext DEF Pos
<1>3. c * m \in Nat /\ p * m \in Int /\ p * m = m * p /\ m \in Int
  BY <1>1 DEF Pos
<1>4. x + c * m < m * p /\ x + c * m \in Nat
  BY <1>1, <1>2, <1>3
<1> QED BY <1>1, <1>4 DEF Word, m

\* Bits of x + c * 2^k, below and above k.
LEMMA BitBelow ==
    ASSUME NEW k \in Nat, NEW x \in Nat, NEW c \in Nat, NEW i \in Nat, i < k
    PROVE  Bit(x + c * Pow(k), i) = Bit(x, i)
<1>1. 1 * k = k /\ 1 \in Nat
  OBVIOUS
<1>2. LaneAt(x + c * Pow(1 * k), i, 1) = LaneAt(x, i, 1)
  BY <1>1, LaneBelow
<1> QED BY <1>1, <1>2, BitIs

LEMMA BitAbove ==
    ASSUME NEW k \in Nat, NEW x \in Nat, NEW c \in Nat, x < Pow(k), NEW i \in Nat, i >= k
    PROVE  Bit(x + c * Pow(k), i) = Bit(c, i - k)
<1> DEFINE m == Pow(k)
           d == Pow(i - k)
           v == x + c * m
<1>1. i - k \in Nat /\ k + (i - k) = i
  OBVIOUS
<1>2. m \in Pos /\ d \in Pos /\ Pow(i) = m * d /\ x < m
  BY <1>1, PowPos, PowSum
<1> HIDE DEF m, d
<1>3. v \in Int /\ v \div m = 0 + c
  <2>1. v \in Int
    BY <1>2 DEF Pos
  <2> QED BY <1>2, <2>1, DivAdd, ModSmall
<1>4. v \div m = c
  BY <1>3
<1> HIDE DEF v
<1>5. v \div (m * d) = c \div d
  BY <1>2, <1>3, <1>4, DivTwice
<1> QED BY <1>2, <1>5 DEF Bit, Pow, d, v, m

LEMMA BitOfSmall ==
    ASSUME NEW k \in Nat, NEW x \in Nat, x < Pow(k), NEW i \in Nat, i >= k
    PROVE  Bit(x, i) = 0
<1>1. x < Pow(i) /\ Pow(i) \in Pos
  <2>1. Pow(k) <= Pow(i) /\ Pow(k) \in Nat /\ Pow(i) \in Nat
    BY PowMono, PowNat
  <2> QED BY <2>1, PowPos
<1>2. x \div Pow(i) = 0
  BY <1>1, ModSmall
<1>3. Bit(x, i) = (x \div Pow(i)) % 2
  BY DEF Bit, Pow
<1>4. \A z : z = 0 => (z % 2) = 0
  OBVIOUS
<1> QED BY <1>2, <1>3, <1>4, Zenon

LEMMA BitOfZero == \A i \in Nat : Bit(0, i) = 0
<1> SUFFICES ASSUME NEW i \in Nat PROVE Bit(0, i) = 0
  OBVIOUS
<1>1. Pow(0) = 1 /\ 0 < 1 /\ i >= 0
  BY PowZero
<1> QED BY <1>1, BitOfSmall

\* or of two values that share no bit is their sum.
LEMMA Combined ==
    ASSUME NEW k \in Nat, NEW h \in Nat, NEW x, NEW c, Word(x, k), Word(c, h)
    PROVE  Or(x, c * Pow(k), k + h) = x + c * Pow(k)
<1> DEFINE y == c * Pow(k)
           w == k + h
           s == x + y
<1>1. x \in Nat /\ c \in Nat /\ x < Pow(k) /\ y \in Nat /\ s \in Nat /\ w \in Nat /\ s < Pow(w)
  <2>1. x \in Nat /\ c \in Nat /\ x < Pow(k) /\ Word(x + c * Pow(k), k + h)
    BY Room DEF Word
  <2>2. Pow(k) \in Nat
    BY PowNat
  <2>3. c * Pow(k) \in Nat
    BY <2>1, <2>2
  <2> QED BY <2>1, <2>3 DEF Word
<1>2. ASSUME NEW i \in 0 .. w - 1 PROVE Bool(Bit(x, i) = 1 \/ Bit(y, i) = 1) = Bit(s, i)
  <2>1. i \in Nat /\ 0 \in Nat /\ 0 < Pow(k) /\ 0 + y = y
    BY <1>1, PowPos DEF Pos
  <2>2. CASE i < k
    <3>1. Bit(s, i) = Bit(x, i)
      BY <1>1, <2>1, <2>2, BitBelow
    <3>2. Bit(0 + y, i) = Bit(0, i)
      BY <1>1, <2>1, <2>2, BitBelow
    <3>3. Bit(x, i) \in {0, 1} /\ Bit(0, i) = 0
      BY <1>1, <2>1, BitType, BitOfZero
    <3> HIDE DEF y, s
    <3> QED BY <2>1, <3>1, <3>2, <3>3 DEF Bool
  <2>3. CASE i >= k
    <3>1. Bit(s, i) = Bit(c, i - k)
      BY <1>1, <2>1, <2>3, BitAbove
    <3>2. Bit(0 + y, i) = Bit(c, i - k)
      BY <1>1, <2>1, <2>3, BitAbove
    <3>3. Bit(x, i) = 0
      BY <1>1, <2>1, <2>3, BitOfSmall
    <3>4. Bit(c, i - k) \in {0, 1}
      BY <1>1, <2>1, <2>3, BitType
    <3> HIDE DEF y, s
    <3> QED BY <2>1, <3>1, <3>2, <3>3, <3>4 DEF Bool
  <2> QED BY <2>1, <2>2, <2>3
<1> HIDE DEF y, s, w
<1>3. /\ Or(x, y, w) \in Nat /\ Or(x, y, w) < Pow(w)
      /\ \A i \in 0 .. w - 1 : Bit(Or(x, y, w), i) = Bool(Bit(x, i) = 1 \/ Bit(y, i) = 1)
  BY <1>1, OrBits
<1>4. \A i \in 0 .. w - 1 : Bit(Or(x, y, w), i) = Bit(s, i)
  BY <1>2, <1>3
<1>5. Or(x, y, w) = s
  BY <1>1, <1>3, <1>4, SameBits
<1> QED BY <1>5 DEF y, s, w

\* A shift whose amount is in range; nothing is lost when the value fits.
LEMMA ShiftedUp ==
    ASSUME NEW k \in Nat, NEW h \in Pos, NEW x, Word(x, h), NEW j
    PROVE  Shl(x, k, k + h, j) = x * Pow(k)
<1>1. k < k + h /\ (k + h) - k = h /\ h \in Nat
  BY DEF Pos
<1>2. x % Pow(h) = x
  <2>1. x \in Int /\ 0 <= x /\ x < Pow(h) /\ Pow(h) \in Pos
    BY <1>1, PowPos DEF Word
  <2> QED BY <2>1, ModSmall
<1> QED BY <1>1, <1>2 DEF Shl, Pow

\* The value with hi above lo.
LEMMA Concatenated ==
    ASSUME NEW k \in Nat, NEW h \in Pos, NEW x, NEW c, Word(x, k), Word(c, h), NEW j
    PROVE  /\ Or(x, Shl(c, k, k + h, j), k + h) = x + c * Pow(k)
           /\ Word(x + c * Pow(k), k + h)
<1>1. h \in Nat
  BY DEF Pos
<1> QED BY <1>1, ShiftedUp, Combined, Room

(***************************************************************************)
(* Moving bits, one emitter at a time.                                     *)
(***************************************************************************)
LEMMA ValueIs == \A v : Return(v) => res' = [how |-> "value", val |-> v] /\ res'.val = v
  BY DEF Return, Outcome

LEMMA EmittedIs == ASSUME OperandsFit PROVE IntOpIs(op) /\ W \in Pos /\ W \in Nat /\ op.n \in Pos /\ op.n \in Nat /\ unit \in Bytes
  BY IntOpsAre DEF OperandsFit, Pos

\* The lanes of the operands.
LEMMA LanesOf1 ==
    ASSUME OperandsFit, NEW b, Word(args[1], b), NEW i \in 0 .. op.n - 1
    PROVE  V1[i] = LaneAt(args[1], i, W) /\ Word(V1[i], W)
<1>1. W \in Nat /\ i \in Nat /\ args[1] \in Nat
  BY EmittedIs DEF Word
<1>2. V1[i] = LaneAt(args[1], i, W)
  BY LaneIs DEF V1, W
<1> QED BY <1>1, <1>2, LaneType DEF Word

LEMMA LanesOf2 ==
    ASSUME OperandsFit, NEW b, Word(args[2], b), NEW i \in 0 .. op.n - 1
    PROVE  V2[i] = LaneAt(args[2], i, W) /\ Word(V2[i], W)
<1>1. W \in Nat /\ i \in Nat /\ args[2] \in Nat
  BY EmittedIs DEF Word
<1>2. V2[i] = LaneAt(args[2], i, W)
  BY LaneIs DEF V2, W
<1> QED BY <1>1, <1>2, LaneType DEF Word

\* What a packed result shows.
LEMMA PackedLanes ==
    ASSUME NEW n \in Nat, NEW w \in Nat, NEW f, \A i \in 0 .. n - 1 : Word(f[i], w)
    PROVE  /\ \A i \in 0 .. n - 1 : Lanes(Pack(f, n, w), n, w)[i] = f[i]
           /\ Word(Pack(f, n, w), w * n)
<1>1. \A i \in 0 .. n - 1 : f[i] \in Nat /\ f[i] < Pow(w)
  BY DEF Word
<1>2. /\ Pack(f, n, w) \in Nat /\ Pack(f, n, w) < Pow(w * n)
      /\ \A i \in 0 .. n - 1 : LaneAt(Pack(f, n, w), i, w) = f[i]
  BY <1>1, Packed
<1> QED BY <1>2, LaneIs DEF Word

\* A value cut in two.
LEMMA Halves ==
    ASSUME NEW k \in Nat, NEW h \in Nat, NEW x, Word(x, k + h)
    PROVE  /\ Word(x \div Pow(k), h) /\ Word(x % Pow(k), k)
           /\ x = (x \div Pow(k)) * Pow(k) + (x % Pow(k))
<1> DEFINE m == Pow(k)
           p == Pow(h)
           q == x \div m
           r == x % m
<1>1. m \in Pos /\ p \in Pos /\ x \in Nat /\ x < m * p
  BY PowPos, PowSum DEF Word
<1>2. q \in Int /\ r \in Int /\ 0 <= r /\ r < m /\ x = q * m + r
  BY <1>1, DivIs
<1> HIDE DEF m, p, q, r
<1>3. q < p
  <2> SUFFICES ASSUME p + 0 <= q PROVE FALSE
    BY <1>1, <1>2 DEF Pos
  <2>1. (p - 1) + 1 <= q /\ p - 1 \in Int
    BY <1>1, <1>2 DEF Pos
  <2>2. (p - 1) * m + m <= q * m
    BY <1>1, <1>2, <2>1, TimesNext
  <2>3. (p - 1) * m + m = m * p /\ m * p \in Int /\ q * m \in Int
    BY <1>1, <1>2 DEF Pos
  <2> QED BY <1>1, <1>2, <2>2, <2>3
<1>4. q >= 0
  <2> SUFFICES ASSUME q + 1 <= 0 PROVE FALSE
    BY <1>2
  <2>1. q * m + m <= 0 * m
    BY <1>1, <1>2, TimesNext
  <2>2. 0 * m = 0 /\ q * m \in Int /\ m \in Int
    BY <1>1, <1>2 DEF Pos
  <2> QED BY <1>1, <1>2, <2>1, <2>2
<1> QED BY <1>1, <1>2, <1>3, <1>4 DEF Word, m, p, q, r

LEMMA HighHalf ==
    ASSUME OperandsFit, XHI_TO_Y_EMIT
    PROVE  MovedRight(res'.val)
<1> DEFINE h == W \div 2
           a == args[1]
           q == a \div Pow(h)
<1>1. op.fam = "XHI_TO_Y" /\ Word(a, W) /\ res'.val = Trunc(LShr(a, h, W, junk), h)
  BY ValueIs DEF XHI_TO_Y_EMIT, Family, OperandsFit, OneWord
<1>2. h \in Nat /\ h < W /\ W = h + h
  <2>1. op.w \in {16, 32, 64}
    BY <1>1, EmittedIs DEF IntOpIs, Emitter
  <2>2. W \in {2 * unit, 4 * unit, 8 * unit} /\ unit \in Bytes
    BY <2>1, EmittedIs, WidthIs DEF W
  <2> QED BY <2>2 DEF Bytes
<1> HIDE DEF h
<1>3. Word(q, h) /\ Word(a % Pow(h), h) /\ a = q * Pow(h) + (a % Pow(h))
  BY <1>1, <1>2, Halves
<1>4. q \in Int /\ 0 <= q /\ q < Pow(h) /\ Pow(h) \in Pos /\ Pow(h) \in Int
  BY <1>2, <1>3, PowPos DEF Word, Pos
<1>5. q % Pow(h) = q
  BY <1>4, ModSmall
<1>6. res'.val = q
  BY <1>1, <1>2, <1>5 DEF Trunc, LShr, Pow
<1>7. a - q * Pow(h) \in 0 .. Pow(h) - 1
  <2> DEFINE p == q * Pow(h)
             r == a % Pow(h)
  <2>1. p \in Int /\ r \in Nat /\ r < Pow(h) /\ a = p + r
    BY <1>3, <1>4 DEF Word
  <2> HIDE DEF p, r
  <2>2. a - p \in 0 .. Pow(h) - 1
    BY <1>4, <2>1
  <2> QED BY <2>2 DEF p
<1> HIDE DEF q, a
<1>8. MovedRight(q) <=> a - q * 2^h \in 0 .. 2^h - 1
  BY <1>1 DEF MovedRight, h, a
<1> QED BY <1>6, <1>7, <1>8 DEF Pow

LEMMA Nothing == \A z \in Int, m \in Pos : (z - z) % m = 0
<1> SUFFICES ASSUME NEW z \in Int, NEW m \in Pos PROVE (z - z) % m = 0
  OBVIOUS
<1>1. z - z = 0 /\ 0 \in Int /\ 0 <= 0 /\ 0 < m
  BY DEF Pos
<1> QED BY <1>1, ModSmall

LEMMA SignedIs ==
    ASSUME NEW w \in Pos, NEW x, Word(x, w)
    PROVE  /\ Signed(x, w) = (IF x < Pow(w - 1) THEN x ELSE x - Pow(w))
           /\ Signed(x, w) \in Int /\ -Pow(w - 1) <= Signed(x, w) /\ Signed(x, w) < Pow(w - 1)
<1> DEFINE p == Pow(w)
           h == Pow(w - 1)
<1>1. p = h + h /\ p \in Nat /\ h \in Nat /\ h >= 1
  BY PowBefore
<1>2. Signed(x, w) = IF x < h THEN x ELSE x - p
  BY DEF Signed, Pow
<1>3. x \in Nat /\ x < p
  BY DEF Word
<1> HIDE DEF p, h
<1> QED BY <1>1, <1>2, <1>3 DEF p, h

\* A type conversion, whatever width the argument comes in.
LEMMA Conversion ==
    ASSUME OperandsFit, X_TO_Y_EMIT, HasValue'
    PROVE  MovedRight(res'.val)
<1> DEFINE a == args[1]
           v1 == IF have > W THEN Trunc(a, W) ELSE a
           c == a % Pow(W)
           m == Pow(B(op.n))
           x == res'.val
<1>1. /\ op.fam = "X_TO_Y" /\ have \in Pos /\ Word(a, have)
      /\ x = CASE op.o = "trunc" -> Trunc(v1, B(op.n))
                [] op.o = "sext" -> SExt(v1, W, B(op.n))
                [] OTHER -> v1
  BY ValueIs DEF X_TO_Y_EMIT, Family, OperandsFit, Outcome, IllTyped, HasValue
<1>2. W \in Pos /\ W \in Nat /\ Pow(W) \in Pos /\ Pow(W) \in Int /\ m \in Pos /\ op.o \in {"trunc", "zext", "sext", "asI", "asF"}
  <2>1. op.n \in Widths /\ unit \in Bytes /\ op.o \in {"trunc", "zext", "sext", "asI", "asF"}
    BY <1>1, EmittedIs DEF IntOpIs, Emitter, Widths
  <2>2. B(op.n) \in Nat
    BY <2>1, WidthIs DEF Pos
  <2> QED BY <2>1, <2>2, EmittedIs, PowPos DEF Pos
<1>3. v1 = c /\ Word(c, W)
  <2>1. a \in Int /\ 0 <= a /\ a < Pow(have) /\ have \in Nat /\ Pow(have) \in Int
    BY <1>1, PowNat DEF Word, Pos
  <2>2. c \in Int /\ 0 <= c /\ c < Pow(W)
    BY <1>2, <2>1, DivIs
  <2>3. have <= W => c = a
    <3> SUFFICES ASSUME have <= W PROVE c = a
      OBVIOUS
    <3>1. Pow(have) <= Pow(W)
      BY <1>2, <2>1, PowMono
    <3>2. a < Pow(W)
      BY <1>2, <2>1, <3>1
    <3> QED BY <1>2, <2>1, <3>2, ModSmall
  <2>4. Trunc(a, W) = c
    BY DEF Trunc, Pow
  <2> HIDE DEF c
  <2> QED BY <1>2, <2>1, <2>2, <2>3, <2>4 DEF Word
<1>4. c \in Int /\ Signed(c, W) \in Int
  BY <1>2, <1>3, SignedIs DEF Word
<1> DEFINE z == IF op.o = "sext" THEN Signed(c, W) ELSE c
<1>5. x = (z % m) \/ x = z
  <2>1. op.o = "trunc" => x = (c % m) /\ z = c
    BY <1>1, <1>3 DEF Trunc, Pow
  <2>2. op.o = "sext" => x = Signed(c, W) % m /\ z = Signed(c, W)
    BY <1>1, <1>3 DEF SExt, Trunc, Pow
  <2>3. op.o \in {"zext", "asI", "asF"} => x = c /\ z = c
    BY <1>1, <1>3
  <2> QED BY <1>2, <2>1, <2>2, <2>3
<1>6. z \in Int
  BY <1>4
<1>7. MovedRight(x) <=> (x - z) % m = 0
  BY <1>1 DEF MovedRight, Pow
<1> HIDE DEF x, z, m, c
<1>8. (x - z) % m = 0
  BY <1>2, <1>5, <1>6, ModCongruent, Nothing
<1> QED BY <1>7, <1>8 DEF x

LEMMA ElementRead ==
    ASSUME OperandsFit, IndexDefined, GET_ELEM_EMIT
    PROVE  MovedRight(res'.val)
<1>1. op.fam = "GET_ELEM" /\ res'.val = IF args[2] < op.n THEN V1[args[2]] ELSE Fill(junk, W)
  BY ValueIs DEF GET_ELEM_EMIT, Family
<1>2. res'.val = V1[args[2]]
  BY <1>1 DEF IndexDefined
<1> QED BY <1>1, <1>2 DEF MovedRight

LEMMA ElementWritten ==
    ASSUME OperandsFit, IndexDefined, SET_ELEM_EMIT
    PROVE  MovedRight(res'.val)
<1> DEFINE f == [V1 EXCEPT ![args[2]] = args[3]]
           x == res'.val
<1>1. /\ op.fam = "SET_ELEM" /\ Word(args[1], op.n * W) /\ Word(args[3], W) /\ args[2] < op.n /\ args[2] \in Nat
      /\ x = Pack(f, op.n, W)
  <2>1. op.fam = "SET_ELEM" /\ args[2] < op.n /\ Word(args[2], unit)
    BY DEF SET_ELEM_EMIT, Family, OperandsFit, IndexDefined
  <2>2. x = Pack(f, op.n, W)
    BY <2>1, ValueIs DEF SET_ELEM_EMIT
  <2> QED BY <2>1, <2>2 DEF OperandsFit, Word
<1>2. \A i \in 0 .. op.n - 1 : f[i] = IF i = args[2] THEN args[3] ELSE V1[i]
  BY DEF V1, Lanes
<1>3. \A i \in 0 .. op.n - 1 : Word(V1[i], W)
  BY <1>1, LanesOf1
<1> HIDE DEF f
<1>4. \A i \in 0 .. op.n - 1 : Word(f[i], W)
  BY <1>1, <1>2, <1>3
<1>5. \A i \in 0 .. op.n - 1 : Lanes(x, op.n, W)[i] = f[i]
  BY <1>1, <1>4, EmittedIs, PackedLanes
<1> HIDE DEF x
<1>6. MovedRight(x) <=> \A i \in 0 .. op.n - 1 : Lanes(x, op.n, W)[i] = IF i = args[2] THEN args[3] ELSE V1[i]
  BY <1>1 DEF MovedRight
<1> QED BY <1>2, <1>5, <1>6 DEF x

LEMMA HalfRead ==
    ASSUME OperandsFit, V128to64
    PROVE  MovedRight(res'.val)
<1> DEFINE a == args[1]
           x == res'.val
<1>1. op.fam = "V128Half" /\ Word(a, op.n * W) /\ x = V1[IF op.o = "hi" THEN 1 ELSE 0]
  BY ValueIs DEF V128to64, Family, OperandsFit, OneVector
<1>2. op.n = 2 /\ W \in Nat /\ op.n * W = W + W
  BY <1>1, EmittedIs DEF IntOpIs, Emitter
<1>3. Word(a \div Pow(W), W) /\ Pow(W) \in Pos
  BY <1>1, <1>2, Halves, PowPos
<1>4. (a \div Pow(W)) % Pow(W) = a \div Pow(W)
  <2> DEFINE q == a \div Pow(W)
  <2>1. q \in Int /\ 0 <= q /\ q < Pow(W)
    BY <1>3 DEF Word
  <2> HIDE DEF q
  <2>2. q % Pow(W) = q
    BY <1>3, <2>1, ModSmall
  <2> QED BY <2>2 DEF q
<1>5. V1[0] = a % Pow(W) /\ V1[1] = a \div Pow(W)
  <2>1. V1[0] = LaneAt(a, 0, W) /\ V1[1] = LaneAt(a, 1, W)
    BY <1>1, <1>2, LanesOf1
  <2>2. W * 0 = 0 /\ W * 1 = W
    BY <1>2
  <2>3. a \div 1 = a
    BY <1>1 DEF Word
  <2> QED BY <1>4, <2>1, <2>2, <2>3, PowZero DEF LaneAt
<1>6. x = IF op.o = "hi" THEN a \div Pow(W) ELSE a % Pow(W)
  BY <1>1, <1>5
<1> HIDE DEF x
<1> QED BY <1>1, <1>6 DEF MovedRight, Pow, x

LEMMA HalvesJoined ==
    ASSUME OperandsFit, X_HL_TO_Y_EMIT \/ Binop64HLto128 \/ Binop64HLtoV128
    PROVE  MovedRight(res'.val)
<1> DEFINE x == res'.val
<1>1. op.fam = "X_HL_TO_Y"
  BY DEF X_HL_TO_Y_EMIT, Binop64HLto128, Binop64HLtoV128, Family
<1>2. op.n = 1 /\ W \in Pos /\ W \in Nat /\ op.n * W = W /\ (op.o # "int" => op.w = 64)
  BY <1>1, EmittedIs DEF IntOpIs, Emitter
<1>3. Word(args[1], W) /\ Word(args[2], W)
  BY <1>1, <1>2 DEF OperandsFit, TwoVectors
<1>4. op.o # "int" => B(64) = W /\ B(128) = W + W
  <2>1. op.o # "int" => B(64) = W
    BY <1>2 DEF W
  <2>2. B(64) = 8 * unit /\ B(128) = 16 * unit /\ unit \in Nat
    BY EmittedIs, WidthIs DEF Bytes
  <2> QED BY <2>1, <2>2
<1>5. 2 * W = W + W
  BY <1>2
<1>6. x = Or(args[2], Shl(args[1], W, W + W, junk), W + W)
  BY <1>4, <1>5, ValueIs DEF X_HL_TO_Y_EMIT, Binop64HLto128, Binop64HLtoV128, Concat64
<1>7. x = args[2] + args[1] * Pow(W)
  BY <1>2, <1>3, <1>6, Concatenated
<1>8. x = args[1] * Pow(W) + args[2]
  <2>1. args[1] * Pow(W) \in Nat /\ args[2] \in Nat
    BY <1>2, <1>3, PowNat DEF Word
  <2> HIDE DEF x
  <2> QED BY <1>7, <2>1
<1> HIDE DEF x
<1> QED BY <1>1, <1>8 DEF MovedRight, Pow, x

LEMMA ZeroExtended ==
    ASSUME OperandsFit, XUtoV128
    PROVE  MovedRight(res'.val)
<1>1. op.fam = "XUtoV128" /\ res'.val = args[1]
  BY ValueIs DEF XUtoV128, Family
<1> QED BY <1>1 DEF MovedRight

\* Above the lowest lane, lanes depend only on what is above it.
LEMMA LaneHigher ==
    ASSUME NEW w \in Nat, NEW x \in Nat, NEW i \in Nat, i > 0
    PROVE  LaneAt(x, i, w) = LaneAt(x \div Pow(w), i - 1, w)
<1> DEFINE m == Pow(w)
           d == Pow(w * (i - 1))
<1>1. w * i = w + w * (i - 1) /\ w * (i - 1) \in Nat /\ i - 1 \in Nat
  OBVIOUS
<1>2. Pow(w * i) = m * d /\ m \in Pos /\ d \in Pos
  BY <1>1, PowSum, PowPos
<1> HIDE DEF m, d
<1>3. x \div (m * d) = (x \div m) \div d
  BY <1>2, DivTwice
<1> QED BY <1>2, <1>3 DEF LaneAt, m, d

LEMMA LaneLowest ==
    ASSUME NEW w \in Nat, NEW x \in Nat
    PROVE  LaneAt(x, 0, w) = x % Pow(w)
<1>1. w * 0 = 0 /\ x \div 1 = x
  OBVIOUS
<1> QED BY <1>1, PowZero DEF LaneAt

LEMMA LowLaneSet ==
    ASSUME OperandsFit, SetV128lo
    PROVE  MovedRight(res'.val)
<1> DEFINE a == args[1]
           b == args[2]
           f == [V1 EXCEPT ![0] = b]
           q == a \div Pow(W)
           z == b + q * Pow(W)
           k == (op.n - 1) * W
<1>1. op.fam = "SetV128lo" /\ Word(a, op.n * W) /\ Word(b, W) /\ res'.val = Pack(f, op.n, W)
  BY ValueIs DEF SetV128lo, Family, OperandsFit
<1>2. W \in Nat /\ op.n \in Nat /\ op.n > 0 /\ k \in Nat /\ op.n * W = W + k /\ W * op.n = W + k
  <2>1. W \in Nat /\ op.n \in {2, 4}
    BY <1>1, EmittedIs DEF IntOpIs, Emitter
  <2> QED BY <2>1
<1> HIDE DEF k
<1>3. Word(q, k) /\ Word(a % Pow(W), W) /\ a = q * Pow(W) + (a % Pow(W)) /\ Word(a, W + k)
  BY <1>1, <1>2, Halves
<1>4. q \in Nat /\ a \in Nat /\ b \in Nat /\ b < Pow(W) /\ Pow(W) \in Pos /\ a % Pow(W) \in Nat
  BY <1>1, <1>2, <1>3, PowPos DEF Word
<1> HIDE DEF q
<1>5. Word(z, W + k)
  BY <1>1, <1>2, <1>3, Room
<1>6. z \div Pow(W) = q /\ (z % Pow(W)) = b
  <2>1. b \div Pow(W) = 0 /\ b % Pow(W) = b
    BY <1>4, ModSmall
  <2>2. (b + q * Pow(W)) \div Pow(W) = (b \div Pow(W)) + q /\ (b + q * Pow(W)) % Pow(W) = b % Pow(W)
    BY <1>4, DivAdd
  <2> QED BY <1>4, <2>1, <2>2
<1> HIDE DEF z
<1>7. ASSUME NEW i \in 0 .. op.n - 1 PROVE f[i] = LaneAt(z, i, W)
  <2>1. f[i] = (IF i = 0 THEN b ELSE V1[i]) /\ V1[i] = LaneAt(a, i, W)
    <3>1. V1[i] = LaneAt(a, i, W)
      BY <1>1, LanesOf1
    <3>2. f[i] = (IF i = 0 THEN b ELSE V1[i])
      BY DEF V1, Lanes
    <3> QED BY <3>1, <3>2
  <2>2. z \in Nat
    BY <1>5 DEF Word
  <2>3. CASE i = 0
    BY <1>2, <1>6, <2>1, <2>2, <2>3, LaneLowest
  <2>4. CASE i # 0
    <3>1. i \in Nat /\ i > 0
      BY <2>4
    <3>2. LaneAt(z, i, W) = LaneAt(q, i - 1, W)
      BY <1>2, <1>6, <2>2, <3>1, LaneHigher
    <3>3. LaneAt(a, i, W) = LaneAt(q, i - 1, W)
      BY <1>2, <1>4, <3>1, LaneHigher DEF q
    <3> QED BY <2>1, <2>4, <3>2, <3>3
  <2> QED BY <2>3, <2>4
<1> HIDE DEF f
<1>8. Pack(f, op.n, W) = z
  <2>1. z \in Nat /\ z < Pow(W * op.n)
    BY <1>2, <1>5 DEF Word
  <2> QED BY <1>2, <1>7, <2>1, Repacked
<1>9. z = a - (a % Pow(W)) + b
  <2> DEFINE t == q * Pow(W)
             r == a % Pow(W)
  <2>1. z = b + t /\ a = t + r
    BY <1>3 DEF z
  <2>2. t \in Int /\ r \in Int
    BY <1>4 DEF Pos
  <2> HIDE DEF t, r
  <2>3. z = a - r + b
    BY <1>4, <2>1, <2>2
  <2> QED BY <2>3 DEF r
<1> HIDE DEF a, b
<1>10. MovedRight(z) <=> z = a - (a % 2^W) + b
  BY <1>1 DEF MovedRight, a, b
<1> QED BY <1>1, <1>8, <1>9, <1>10 DEF Pow

LEMMA Interleaved ==
    ASSUME OperandsFit, EMIT_ILEAVE
    PROVE  MovedRight(res'.val)
<1> DEFINE n == op.n
           half == n \div 2
           mask == ileave(n, op.o)
           f == Shuffle(V1, V2, n, mask)
           x == res'.val
           from(i) == IF op.o = "HI" THEN half + i ELSE i
<1>1. op.fam = "ILEAVE" /\ Word(args[1], op.n * W) /\ Word(args[2], op.n * W) /\ x = Pack(f, n, W)
  BY ValueIs DEF EMIT_ILEAVE, Family, OperandsFit, TwoVectors
<1>2. n \in {2, 4, 8, 16} /\ n \in Nat /\ W \in Nat /\ op.o \in {"LO", "HI"}
  BY <1>1, EmittedIs DEF IntOpIs, Emitter
<1>3. half \in Nat /\ n = half + half
  BY <1>2
<1>4. \A i \in 0 .. n - 1 : Word(V1[i], W) /\ Word(V2[i], W)
  BY <1>1, LanesOf1, LanesOf2
<1>5. ASSUME NEW i \in 0 .. half - 1
      PROVE  /\ 2 * i \in 0 .. n - 1 /\ 2 * i + 1 \in 0 .. n - 1 /\ from(i) \in 0 .. n - 1
             /\ mask[2 * i] = from(i) + n /\ mask[2 * i + 1] = from(i)
  <2>1. /\ 2 * i \in 0 .. n - 1 /\ 2 * i + 1 \in 0 .. n - 1 /\ from(i) \in 0 .. n - 1
        /\ (2 * i) \div 2 = i /\ (2 * i) % 2 = 0 /\ (2 * i + 1) \div 2 = i /\ (2 * i + 1) % 2 = 1
    BY <1>3
  <2>2. mask[2 * i] = i + (IF op.o = "HI" THEN half ELSE 0) + n
    BY <2>1 DEF ileave
  <2>3. mask[2 * i + 1] = i + (IF op.o = "HI" THEN half ELSE 0) + 0
    BY <2>1 DEF ileave
  <2> QED BY <1>2, <1>3, <2>1, <2>2, <2>3
<1>6. ASSUME NEW i \in 0 .. half - 1
      PROVE  f[2 * i] = V2[from(i)] /\ f[2 * i + 1] = V1[from(i)]
  <2>1. DOMAIN mask = 0 .. n - 1
    BY DEF ileave
  <2> HIDE DEF mask, from
  <2>2. /\ 2 * i \in DOMAIN mask /\ 2 * i + 1 \in DOMAIN mask /\ from(i) \in Nat /\ from(i) < n
        /\ mask[2 * i] = from(i) + n /\ mask[2 * i + 1] = from(i)
    BY <1>2, <1>5, <2>1
  <2>3. ~(mask[2 * i] < n) /\ mask[2 * i] - n = from(i) /\ mask[2 * i + 1] < n
    BY <1>2, <2>2
  <2> HIDE DEF n
  <2> QED BY <2>2, <2>3 DEF Shuffle
<1>7. ASSUME NEW j \in 0 .. n - 1 PROVE Word(f[j], W)
  <2>1. PICK i \in 0 .. half - 1 : j = 2 * i \/ j = 2 * i + 1
    <3> HIDE DEF half, n
    <3>1. j \div 2 \in 0 .. half - 1
      BY <1>2, <1>3
    <3>2. j = 2 * (j \div 2) \/ j = 2 * (j \div 2) + 1
      BY <1>2
    <3> QED BY <3>1, <3>2
  <2> HIDE DEF f, from
  <2> QED BY <1>4, <1>5, <1>6, <2>1
<1> HIDE DEF f
<1>8. \A i \in 0 .. n - 1 : Lanes(x, n, W)[i] = f[i]
  BY <1>1, <1>2, <1>7, PackedLanes
<1> HIDE DEF x
<1>9. MovedRight(x) <=> \A i \in 0 .. half - 1 : /\ Lanes(x, n, W)[2 * i + 1] = V1[from(i)]
                                                /\ Lanes(x, n, W)[2 * i] = V2[from(i)]
  BY <1>1 DEF MovedRight
<1> HIDE DEF from, n, half
<1> QED BY <1>5, <1>6, <1>8, <1>9 DEF x

LEMMA Permuted ==
    ASSUME OperandsFit, IndexDefined, OPSHUF_EMIT
    PROVE  MovedRight(res'.val)
<1> DEFINE n == op.n
           f == [i \in 0 .. n - 1 |-> IF V2[i] < n THEN V1[V2[i]] ELSE Fill(junk, W)]
           x == res'.val
<1>1. op.fam = "OPSHUF" /\ Word(args[1], op.n * W) /\ Word(args[2], op.n * W) /\ x = Pack(f, n, W)
  BY ValueIs DEF OPSHUF_EMIT, Family, OperandsFit, TwoVectors
<1>2. \A i \in 0 .. n - 1 : V2[i] < n
  BY <1>1 DEF IndexDefined
<1>3. \A i \in 0 .. n - 1 : Word(V1[i], W) /\ Word(V2[i], W)
  BY <1>1, LanesOf1, LanesOf2
<1>4. n \in Nat /\ W \in Nat
  BY EmittedIs
<1>5. \A i \in 0 .. n - 1 : f[i] = V1[V2[i]] /\ Word(f[i], W)
  <2>1. \A i \in 0 .. n - 1 : V2[i] \in 0 .. n - 1
    BY <1>2, <1>3, <1>4 DEF Word
  <2> QED BY <1>2, <1>3, <2>1
<1> HIDE DEF f
<1>6. \A i \in 0 .. n - 1 : Lanes(x, n, W)[i] = f[i]
  BY <1>1, <1>4, <1>5, PackedLanes
<1> HIDE DEF x
<1>7. MovedRight(x) <=> \A i \in 0 .. n - 1 : Lanes(x, n, W)[i] = V1[V2[i]]
  BY <1>1 DEF MovedRight
<1> QED BY <1>5, <1>6, <1>7 DEF x

\* A loop from z, whose step i takes y to t[i][y], and one that stays in S.
Runs(g, n, S, z, t) ==
    g \in [0 .. n -> S] /\ g[0] = z /\ \A i \in 1 .. n : g[i] = t[i][g[i - 1]]
Stays(n, S, t) == \A i \in 1 .. n, y \in S : t[i][y] \in S
LEMMA Loops ==
    ASSUME NEW n \in Nat, NEW S, NEW z \in S, NEW t, Stays(n, S, t)
    PROVE  \E g : Runs(g, n, S, z, t)
<1> DEFINE Run(g, m) == g \in [0 .. m -> S] /\ g[0] = z /\ \A i \in 1 .. m : g[i] = t[i][g[i - 1]]
           T == {m \in Nat : m <= n => \E g : Run(g, m)}
<1>1. 0 \in T
  <2>1. Run([i \in 0 .. 0 |-> z], 0)
    OBVIOUS
  <2> QED BY <2>1
<1>2. ASSUME NEW m \in T PROVE m + 1 \in T
  <2> SUFFICES ASSUME m + 1 <= n PROVE \E g : Run(g, m + 1)
    OBVIOUS
  <2>1. m \in Nat /\ m <= n
    OBVIOUS
  <2>2. PICK g : Run(g, m)
    BY <2>1
  <2> DEFINE h == [i \in 0 .. m + 1 |-> IF i = m + 1 THEN t[m + 1][g[m]] ELSE g[i]]
  <2>3. h \in [0 .. m + 1 -> S]
    <3>1. m + 1 \in 1 .. n /\ g[m] \in S
      BY <2>1, <2>2
    <3>2. t[m + 1][g[m]] \in S
      BY <3>1 DEF Stays
    <3>3. \A i \in 0 .. m + 1 : i # m + 1 => g[i] \in S
      BY <2>1, <2>2
    <3> QED BY <3>2, <3>3
  <2>4. h[0] = z
    BY <2>1, <2>2
  <2>5. ASSUME NEW i \in 1 .. m + 1 PROVE h[i] = t[i][h[i - 1]]
    <3>1. i - 1 \in 0 .. m + 1 /\ i - 1 # m + 1 /\ i \in 0 .. m + 1 /\ (i # m + 1 => i \in 1 .. m)
      BY <2>1
    <3>2. h[i - 1] = g[i - 1]
      BY <3>1
    <3>3. CASE i = m + 1
      <4>1. i - 1 = m
        BY <2>1, <3>3
      <4> QED BY <3>1, <3>2, <3>3, <4>1
    <3>4. CASE i # m + 1
      BY <2>2, <3>1, <3>2, <3>4
    <3> QED BY <3>3, <3>4
  <2> QED BY <2>3, <2>4, <2>5
<1> HIDE DEF T
<1>3. T \in SUBSET Nat
  BY DEF T
<1>4. T = Nat
  BY <1>1, <1>2, <1>3, ByInduction
<1>5. \E g : Run(g, n)
  BY <1>4 DEF T
<1> QED BY <1>5 DEF Runs

\* The loop that gathers top bits.
Gathers(g) ==
    g = [i \in 0 .. op.n |->
           IF i = 0 THEN 0
           ELSE Or(g[i - 1], Shl(LShr(V1[i - 1], W - 1, W, junk), i - 1, op.n, junk), op.n)]

LEMMA GatherRuns == ASSUME op.n \in Nat PROVE \E g : Gathers(g)
<1> DEFINE E(i) == Shl(LShr(V1[i - 1], W - 1, W, junk), i - 1, op.n, junk)
           t == [i \in 1 .. op.n |-> [y \in Nat |-> Or(y, E(i), op.n)]]
<1>1. \A i \in 1 .. op.n, y \in Nat : t[i][y] = Or(y, E(i), op.n)
  OBVIOUS
<1> HIDE DEF t, E
<1>2. Stays(op.n, Nat, t) /\ 0 \in Nat
  BY <1>1, OrBits DEF Stays
<1>3. PICK g : Runs(g, op.n, Nat, 0, t)
  BY <1>2, Loops
<1>4. \A i \in 1 .. op.n : g[i] = Or(g[i - 1], E(i), op.n)
  <2>1. \A i \in 1 .. op.n : g[i - 1] \in Nat
    BY <1>3 DEF Runs
  <2> QED BY <1>1, <1>3, <2>1, Zenon DEF Runs
<1>5. g = [i \in 0 .. op.n |-> IF i = 0 THEN 0 ELSE Or(g[i - 1], E(i), op.n)]
  BY <1>3, <1>4 DEF Runs
<1>6. Gathers(g)
  BY <1>5 DEF Gathers, E
<1> QED BY <1>6

\* The top bit of a lane.
LEMMA TopBit ==
    ASSUME NEW w \in Pos, NEW x, Word(x, w), NEW j
    PROVE  LShr(x, w - 1, w, j) = IF x >= Pow(w - 1) THEN 1 ELSE 0
<1> DEFINE h == Pow(w - 1)
<1>1. w - 1 < w /\ w \in Nat
  BY DEF Pos
<1>2. LShr(x, w - 1, w, j) = x \div h
  BY <1>1 DEF LShr, Pow
<1>3. x \in Nat /\ x < h + h /\ h \in Nat /\ h >= 1
  BY PowBefore DEF Word
<1> HIDE DEF h
<1>4. h \in Pos
  BY <1>3 DEF Pos
<1>5. x < h => x \div h = 0
  BY <1>3, <1>4, ModSmall
<1>6. x >= h => x \div h = 1
  <2> SUFFICES ASSUME x >= h PROVE x \div h = 1
    OBVIOUS
  <2>1. x = 1 * h + (x - h) /\ 0 <= x - h /\ x - h < h /\ x - h \in Int
    BY <1>3
  <2> QED BY <1>3, <1>4, <2>1, DivUnique
<1> QED BY <1>2, <1>3, <1>5, <1>6 DEF h

LEMMA BitOfOne == ASSUME NEW c \in {0, 1} PROVE Bit(c, 0) = c
<1>1. Bit(c, 0) = (c \div Pow(0)) % 2
  BY DEF Bit, Pow
<1>2. c \div 1 = c /\ c % 2 = c
  OBVIOUS
<1> QED BY <1>1, <1>2, PowZero

LEMMA TopBitsGathered ==
    ASSUME OperandsFit, GETMSBS_8xN_EMIT
    PROVE  MovedRight(res'.val)
<1> DEFINE n == op.n
           g == CHOOSE ret : Gathers(ret)
           x == res'.val
           top(i) == IF V1[i] >= Pow(W - 1) THEN 1 ELSE 0
<1>1. op.fam = "GETMSBS" /\ Word(args[1], op.n * W)
  BY DEF GETMSBS_8xN_EMIT, Family, OperandsFit, OneVector
<1>2. x = g[n]
  <2>1. Return(g[n])
    BY Zenon DEF GETMSBS_8xN_EMIT, Gathers
  <2> QED BY <2>1, ValueIs
<1>3. n \in Nat /\ n \in Pos /\ W \in Pos
  BY EmittedIs
<1>4. Gathers(g)
  BY <1>3, GatherRuns, Zenon
<1>5. \A i \in 0 .. n - 1 : LShr(V1[i], W - 1, W, junk) = top(i)
  BY <1>1, <1>3, LanesOf1, TopBit
<1>6. /\ g[0] = 0
      /\ \A i \in 0 .. n - 1 : g[i + 1] = Or(g[i], Shl(top(i), i, n, junk), n)
  <2> HIDE DEF g
  <2>1. g[0] = 0
    BY <1>3, <1>4 DEF Gathers
  <2>2. ASSUME NEW i \in 0 .. n - 1 PROVE g[i + 1] = Or(g[i], Shl(top(i), i, n, junk), n)
    <3>1. i + 1 \in 0 .. n /\ i + 1 # 0 /\ (i + 1) - 1 = i
      BY <1>3
    <3>2. g[i + 1] = Or(g[i], Shl(LShr(V1[i], W - 1, W, junk), i, n, junk), n)
      BY <1>4, <3>1 DEF Gathers
    <3> QED BY <1>5, <3>2
  <2> QED BY <2>1, <2>2
<1> HIDE DEF g
<1> DEFINE Right(j) == Word(g[j], j) /\ \A i \in 0 .. j - 1 : Bit(g[j], i) = top(i)
           S == {j \in Nat : j <= n => Right(j)}
<1>7. \A i \in 0 .. n - 1 : top(i) \in {0, 1}
  OBVIOUS
<1> HIDE DEF top
<1>8. 0 \in S
  <2>1. Word(g[0], 0)
    BY <1>6, PowZero DEF Word
  <2> QED BY <2>1
<1>9. ASSUME NEW j \in S PROVE j + 1 \in S
  <2> SUFFICES ASSUME j + 1 <= n PROVE Right(j + 1)
    OBVIOUS
  <2>1. j \in Nat /\ j \in 0 .. n - 1 /\ Right(j) /\ n - j \in Pos /\ j + (n - j) = n /\ n - j \in Nat
    BY <1>3 DEF Pos
  <2>2. top(j) \in {0, 1}
    BY <1>7, <2>1
  <2>3. Word(top(j), n - j) /\ Word(top(j), 1)
    <3>1. Pow(1) <= Pow(n - j) /\ Pow(n - j) \in Nat
      BY <2>1, PowMono, PowNat DEF Pos
    <3> QED BY <2>2, <3>1, PowOne DEF Word
  <2>4. g[j + 1] = g[j] + top(j) * Pow(j)
    BY <1>6, <2>1, <2>3, Concatenated
  <2>5. Word(g[j + 1], j + 1)
    BY <2>1, <2>3, <2>4, Room
  <2>6. g[j] \in Nat /\ g[j] < Pow(j)
    BY <2>1 DEF Word
  <2>7. ASSUME NEW i \in 0 .. (j + 1) - 1 PROVE Bit(g[j + 1], i) = top(i)
    <3>1. CASE i = j
      <4>1. Bit(g[j + 1], j) = Bit(top(j), j - j)
        BY <2>1, <2>2, <2>4, <2>6, BitAbove
      <4>2. j - j = 0
        BY <2>1
      <4> QED BY <2>2, <3>1, <4>1, <4>2, BitOfOne
    <3>2. CASE i # j
      <4>1. i \in Nat /\ i < j /\ i \in 0 .. j - 1
        BY <2>1, <3>2
      <4>2. Bit(g[j + 1], i) = Bit(g[j], i)
        BY <2>1, <2>2, <2>4, <2>6, <4>1, BitBelow
      <4> QED BY <2>1, <4>1, <4>2
    <3> QED BY <3>1, <3>2
  <2> QED BY <2>5, <2>7
<1> HIDE DEF S
<1>10. S \in SUBSET Nat
  BY DEF S
<1>11. S = Nat
  BY <1>8, <1>9, <1>10, ByInduction
<1>12. Right(n)
  BY <1>3, <1>11 DEF S
<1>13. \A i \in 0 .. n - 1 : Bit(x, i) = 1 <=> V1[i] >= Pow(W - 1)
  BY <1>2, <1>12 DEF top
<1> HIDE DEF x
<1>14. MovedRight(x) <=> \A i \in 0 .. n - 1 : Bit(x, i) = 1 <=> V1[i] >= 2^(W - 1)
  BY <1>1 DEF MovedRight
<1> QED BY <1>13, <1>14 DEF Pow, x

\* The loop that doubles a byte four times.
Doubles(g) ==
    g = [i \in 0 .. 4 |->
           IF i = 0 THEN args[1]
           ELSE Or(g[i - 1], Shl(g[i - 1], B(8 * 2^(i - 1)), B(128), junk), B(128))]

LEMMA DoubleRuns == ASSUME args[1] \in Nat, B(128) \in Nat PROVE \E g : Doubles(g)
<1> DEFINE F(i, y) == Or(y, Shl(y, B(8 * 2^(i - 1)), B(128), junk), B(128))
           t == [i \in 1 .. 4 |-> [y \in Nat |-> F(i, y)]]
<1>1. \A i \in 1 .. 4, y \in Nat : t[i][y] = F(i, y)
  OBVIOUS
<1>2. \A i \in 1 .. 4, y \in Nat : F(i, y) \in Nat
  BY OrBits
<1> HIDE DEF t, F
<1>3. Stays(4, Nat, t) /\ 4 \in Nat
  BY <1>1, <1>2 DEF Stays
<1>4. PICK g : Runs(g, 4, Nat, args[1], t)
  BY <1>3, Loops
<1>5. \A i \in 1 .. 4 : g[i] = F(i, g[i - 1])
  <2>1. \A i \in 1 .. 4 : g[i - 1] \in Nat
    BY <1>4 DEF Runs
  <2> QED BY <1>1, <1>4, <2>1, Zenon DEF Runs
<1>6. g = [i \in 0 .. 4 |-> IF i = 0 THEN args[1] ELSE F(i, g[i - 1])]
  BY <1>4, <1>5 DEF Runs
<1>7. Doubles(g)
  BY <1>6 DEF Doubles, F
<1> QED BY <1>7

\* A value of k bits written twice, in a wider register.
LEMMA Twice ==
    ASSUME NEW k \in Pos, NEW w \in Nat, k + k <= w, NEW v, Word(v, k), NEW j
    PROVE  /\ Or(v, Shl(v, k, w, j), w) = v * (1 + Pow(k))
           /\ Word(v * (1 + Pow(k)), k + k)
<1> DEFINE h == w - k
<1>1. h \in Pos /\ h \in Nat /\ k + h = w /\ k <= h /\ k \in Nat
  BY DEF Pos
<1>2. Word(v, h)
  <2>1. Pow(k) <= Pow(h) /\ Pow(k) \in Nat /\ Pow(h) \in Nat
    BY <1>1, PowMono, PowNat
  <2> QED BY <2>1 DEF Word
<1> HIDE DEF h
<1>3. Or(v, Shl(v, k, w, j), w) = v + v * Pow(k)
  BY <1>1, <1>2, Concatenated
<1>4. Word(v + v * Pow(k), k + k)
  BY <1>1, Room
<1>5. v + v * Pow(k) = v * (1 + Pow(k))
  <2>1. v \in Nat /\ Pow(k) \in Nat
    BY <1>1, PowNat DEF Word
  <2> QED BY <2>1
<1> QED BY <1>3, <1>4, <1>5

\* A geometric sum, one doubling at a time.
LEMMA Squares ==
    ASSUME NEW p \in Int, NEW c \in Int, NEW s \in Int, (c - 1) * s = p - 1
    PROVE  (c - 1) * (s * (1 + p)) = p * p - 1
<1>1. (c - 1) * (s * (1 + p)) = ((c - 1) * s) * (1 + p)
  <2> DEFINE d == c - 1
             e == 1 + p
  <2>1. d \in Int /\ e \in Int
    OBVIOUS
  <2> HIDE DEF d, e
  <2>2. d * (s * e) = (d * s) * e
    BY <2>1
  <2> QED BY <2>2 DEF d, e
<1>2. (p - 1) * (1 + p) = p * p - 1
  OBVIOUS
<1> QED BY <1>1, <1>2

LEMMA ByteSpread ==
    ASSUME OperandsFit, Dup8x16
    PROVE  MovedRight(res'.val)
<1> DEFINE a == args[1]
           g == CHOOSE v : Doubles(v)
           u == unit
           x == res'.val
<1>1. op.fam = "Dup8x16" /\ Word(a, u) /\ a \in Nat
  BY DEF Dup8x16, Family, OperandsFit, Word
<1>2. x = g[4]
  <2>1. Return(g[4])
    BY Zenon DEF Dup8x16, Doubles
  <2> QED BY <2>1, ValueIs
<1>3. /\ u \in Bytes /\ u \in Pos /\ u \in Nat
      /\ B(8) = u /\ B(16) = 2 * u /\ B(32) = 4 * u /\ B(64) = 8 * u /\ B(128) = 16 * u
  BY EmittedIs, WidthIs DEF Bytes, Pos
<1>4. Doubles(g)
  <2>1. B(128) \in Nat
    BY <1>3
  <2> QED BY <1>1, <2>1, DoubleRuns, Zenon
<1> HIDE DEF g
<1> DEFINE F(k, v) == Or(v, Shl(v, k, B(128), junk), B(128))
<1>5. /\ g[0] = a /\ g[1] = F(B(8), g[0]) /\ g[2] = F(B(16), g[1])
      /\ g[3] = F(B(32), g[2]) /\ g[4] = F(B(64), g[3])
  <2>1. Pow(0) = 1 /\ Pow(1) = 2 /\ Pow(2) = 4 /\ Pow(3) = 8
    BY DEF Pow
  <2>2. /\ g[0] = a
        /\ \A i \in 1 .. 4 : g[i] = F(B(8 * Pow(i - 1)), g[i - 1])
    BY <1>4 DEF Doubles, Pow
  <2> HIDE DEF F
  <2>3. g[1] = F(B(8 * Pow(1 - 1)), g[1 - 1]) /\ g[2] = F(B(8 * Pow(2 - 1)), g[2 - 1])
    BY <2>2
  <2>4. g[3] = F(B(8 * Pow(3 - 1)), g[3 - 1]) /\ g[4] = F(B(8 * Pow(4 - 1)), g[4 - 1])
    BY <2>2
  <2>5. 8 * Pow(1 - 1) = 8 /\ 8 * Pow(2 - 1) = 16 /\ 8 * Pow(3 - 1) = 32 /\ 8 * Pow(4 - 1) = 64
    BY <2>1
  <2>6. 1 - 1 = 0 /\ 2 - 1 = 1 /\ 3 - 1 = 2 /\ 4 - 1 = 3
    OBVIOUS
  <2> QED BY <2>2, <2>3, <2>4, <2>5, <2>6
<1> DEFINE k1 == u
           k2 == u + u
           k4 == k2 + k2
           k8 == k4 + k4
           w == k8 + k8
<1>6. /\ B(8) = k1 /\ B(16) = k2 /\ B(32) = k4 /\ B(64) = k8 /\ B(128) = w
      /\ k1 \in Pos /\ k2 \in Pos /\ k4 \in Pos /\ k8 \in Pos /\ w \in Nat
      /\ k1 + k1 <= w /\ k2 + k2 <= w /\ k4 + k4 <= w /\ k8 + k8 <= w
      /\ k1 \in Nat /\ k2 \in Nat /\ k4 \in Nat /\ k8 \in Nat
      /\ k2 = k1 + k1 /\ k4 = k2 + k2 /\ k8 = k4 + k4 /\ w = k8 + k8
  BY <1>3 DEF Pos
<1> HIDE DEF k1, k2, k4, k8, w, F, u
<1> DEFINE p1 == Pow(k1)
           p2 == Pow(k2)
           p4 == Pow(k4)
           p8 == Pow(k8)
           p == Pow(w)
           s1 == 1 + p1
           s2 == s1 * (1 + p2)
           s4 == s2 * (1 + p4)
           s8 == s4 * (1 + p8)
<1>7. /\ p2 = p1 * p1 /\ p4 = p2 * p2 /\ p8 = p4 * p4 /\ p = p8 * p8
      /\ p1 \in Nat /\ p2 \in Nat /\ p4 \in Nat /\ p8 \in Nat /\ p \in Nat
      /\ p1 - 1 \in Pos
  <2>1. /\ p2 = p1 * p1 /\ p4 = p2 * p2 /\ p8 = p4 * p4 /\ p = p8 * p8
        /\ p1 \in Nat /\ p2 \in Nat /\ p4 \in Nat /\ p8 \in Nat /\ p \in Nat
    BY <1>6, PowSum, PowNat
  <2>2. p1 - 1 \in Pos
    BY <1>6, PowBefore DEF Pos
  <2> QED BY <2>1, <2>2
<1> HIDE DEF p1, p2, p4, p8, p
<1>8. /\ s1 \in Int /\ s2 \in Int /\ s4 \in Int /\ s8 \in Int
  BY <1>7
<1> HIDE DEF s1, s2, s4, s8
<1>9. g[1] = a * s1 /\ Word(g[1], k2)
  <2>1. g[1] = F(k1, a) /\ Word(a, k1)
    BY <1>1, <1>5, <1>6 DEF k1
  <2>2. F(k1, a) = a * (1 + Pow(k1)) /\ Word(a * (1 + Pow(k1)), k1 + k1)
    BY <1>6, <2>1, Twice DEF F
  <2> QED BY <1>6, <2>1, <2>2 DEF s1, p1
<1>10. g[2] = a * s2 /\ Word(g[2], k4)
  <2>1. g[2] = F(k2, g[1])
    BY <1>5, <1>6
  <2>2. F(k2, g[1]) = g[1] * (1 + Pow(k2)) /\ Word(g[1] * (1 + Pow(k2)), k2 + k2)
    BY <1>6, <1>9, Twice DEF F
  <2>3. (a * s1) * (1 + p2) = a * (s1 * (1 + p2))
    BY <1>1, <1>7, <1>8
  <2> QED BY <1>6, <1>9, <2>1, <2>2, <2>3 DEF s2, p2
<1>11. g[3] = a * s4 /\ Word(g[3], k8)
  <2>1. g[3] = F(k4, g[2])
    BY <1>5, <1>6
  <2>2. F(k4, g[2]) = g[2] * (1 + Pow(k4)) /\ Word(g[2] * (1 + Pow(k4)), k4 + k4)
    BY <1>6, <1>10, Twice DEF F
  <2>3. (a * s2) * (1 + p4) = a * (s2 * (1 + p4))
    BY <1>1, <1>7, <1>8
  <2> QED BY <1>6, <1>10, <2>1, <2>2, <2>3 DEF s4, p4
<1>12. g[4] = a * s8
  <2>1. g[4] = F(k8, g[3])
    BY <1>5, <1>6
  <2>2. F(k8, g[3]) = g[3] * (1 + Pow(k8))
    BY <1>6, <1>11, Twice DEF F
  <2>3. (a * s4) * (1 + p8) = a * (s4 * (1 + p8))
    BY <1>1, <1>7, <1>8
  <2> QED BY <1>6, <1>11, <2>1, <2>2, <2>3 DEF s8, p8
<1>13. (p1 - 1) * s8 = p - 1
  <2>1. (p1 - 1) * s1 = p2 - 1
    BY <1>7 DEF s1
  <2>2. (p1 - 1) * s2 = p4 - 1
    BY <1>7, <1>8, <2>1, Squares DEF s2
  <2>3. (p1 - 1) * s4 = p8 - 1
    BY <1>7, <1>8, <2>2, Squares DEF s4
  <2>4. (p1 - 1) * s8 = p - 1
    BY <1>7, <1>8, <2>3, Squares DEF s8
  <2> QED BY <2>4
<1>14. (p - 1) \div (p1 - 1) = s8
  <2> DEFINE d == p1 - 1
             e == p - 1
  <2>1. d \in Pos /\ e \in Int /\ d * s8 = e
    BY <1>7, <1>13
  <2> HIDE DEF d, e
  <2>2. e = s8 * d + 0 /\ 0 < d /\ 0 \in Int /\ 0 <= 0
    BY <1>8, <2>1 DEF Pos
  <2>3. e \div d = s8
    BY <1>8, <2>1, <2>2, DivUnique
  <2> QED BY <2>3 DEF d, e
<1>15. x = a * ((Pow(B(128)) - 1) \div (Pow(B(8)) - 1))
  BY <1>2, <1>6, <1>12, <1>14 DEF p, p1
<1> HIDE DEF x
<1>16. MovedRight(x) <=> x = a * ((2^B(128) - 1) \div (2^B(8) - 1))
  BY <1>1 DEF MovedRight
<1> QED BY <1>15, <1>16 DEF Pow, x

(***************************************************************************)
(* Congruence, signs and extensions.                                       *)
(***************************************************************************)
Same(a, b, m) == (a - b) % m = 0

LEMMA SameIs == \A a, b \in Int, m \in Pos : Same(a, b, m) <=> \E k \in Int : a = b + k * m
  BY Congruent DEF Same

LEMMA SameSelf == \A a \in Int, m \in Pos : Same(a, a, m)
  BY Nothing DEF Same

LEMMA SameMod == \A a \in Int, m \in Pos : a % m \in Int /\ Same(a % m, a, m)
  BY ModCongruent, DivIs DEF Same

LEMMA SameTurned == \A a, b \in Int, m \in Pos : Same(a, b, m) => Same(b, a, m)
<1> SUFFICES ASSUME NEW a \in Int, NEW b \in Int, NEW m \in Pos, Same(a, b, m) PROVE Same(b, a, m)
  OBVIOUS
<1>1. PICK k \in Int : a = b + k * m
  BY SameIs
<1>2. b = a + (-k) * m /\ -k \in Int
  BY <1>1 DEF Pos
<1> QED BY <1>2, SameIs

LEMMA SameThrough == \A a, b, c \in Int, m \in Pos : Same(a, b, m) /\ Same(b, c, m) => Same(a, c, m)
<1> SUFFICES ASSUME NEW a \in Int, NEW b \in Int, NEW c \in Int, NEW m \in Pos, Same(a, b, m), Same(b, c, m)
             PROVE  Same(a, c, m)
  OBVIOUS
<1>1. PICK k \in Int : a = b + k * m
  BY SameIs
<1>2. PICK j \in Int : b = c + j * m
  BY SameIs
<1>3. a = c + (k + j) * m /\ k + j \in Int
  BY <1>1, <1>2 DEF Pos
<1> QED BY <1>3, SameIs

LEMMA SameAdd == \A a, b, c, d \in Int, m \in Pos :
    Same(a, b, m) /\ Same(c, d, m) => Same(a + c, b + d, m) /\ Same(a - c, b - d, m)
<1> SUFFICES ASSUME NEW a \in Int, NEW b \in Int, NEW c \in Int, NEW d \in Int, NEW m \in Pos,
                    Same(a, b, m), Same(c, d, m)
             PROVE  Same(a + c, b + d, m) /\ Same(a - c, b - d, m)
  OBVIOUS
<1>1. PICK k \in Int : a = b + k * m
  BY SameIs
<1>2. PICK j \in Int : c = d + j * m
  BY SameIs
<1>3. a + c = (b + d) + (k + j) * m /\ k + j \in Int /\ a + c \in Int /\ b + d \in Int
  BY <1>1, <1>2 DEF Pos
<1>4. a - c = (b - d) + (k - j) * m /\ k - j \in Int /\ a - c \in Int /\ b - d \in Int
  BY <1>1, <1>2 DEF Pos
<1>5. Same(a + c, b + d, m)
  BY <1>3, SameIs
<1>6. Same(a - c, b - d, m)
  BY <1>4, SameIs
<1> QED BY <1>5, <1>6

LEMMA SameTimes == \A a, b, c, d \in Int, m \in Pos :
    Same(a, b, m) /\ Same(c, d, m) => Same(a * c, b * d, m)
<1> SUFFICES ASSUME NEW a \in Int, NEW b \in Int, NEW c \in Int, NEW d \in Int, NEW m \in Pos,
                    Same(a, b, m), Same(c, d, m)
             PROVE  Same(a * c, b * d, m)
  OBVIOUS
<1>1. PICK k \in Int : a = b + k * m
  BY SameIs
<1>2. PICK j \in Int : c = d + j * m
  BY SameIs
<1> DEFINE e == b * j + k * d + (k * j) * m
<1>3. a * c = b * d + e * m /\ e \in Int /\ a * c \in Int /\ b * d \in Int
  <2>1. m \in Int
    BY DEF Pos
  <2>2. a * c = (b + k * m) * (d + j * m)
    BY <1>1, <1>2
  <2>3. (b + k * m) * (d + j * m) = b * d + e * m
    BY <2>1
  <2>4. e \in Int /\ a * c \in Int /\ b * d \in Int
    BY <2>1
  <2> QED BY <2>2, <2>3, <2>4
<1> HIDE DEF e
<1> QED BY <1>3, SameIs

\* Two numbers of one range that are the same up to its size are equal.
LEMMA SameEqual ==
    \A a, b, l \in Int, m \in Pos : Same(a, b, m) /\ l <= a /\ a < l + m /\ l <= b /\ b < l + m => a = b
<1> SUFFICES ASSUME NEW a \in Int, NEW b \in Int, NEW l \in Int, NEW m \in Pos, Same(a, b, m),
                    l <= a, a < l + m, l <= b, b < l + m
             PROVE  a = b
  OBVIOUS
<1>1. a - b \in Int /\ m \in Int /\ -m < a - b /\ a - b < m
  BY DEF Pos
<1> DEFINE d == a - b
<1>2. CASE d >= 0
  <2>1. d % m = d
    BY <1>1, <1>2, ModSmall
  <2> QED BY <1>1, <2>1 DEF Same
<1>3. CASE d < 0
  <2>1. Same(b, a, m)
    BY SameTurned
  <2>2. b - a \in Int /\ 0 <= b - a /\ b - a < m
    BY <1>1, <1>3
  <2>3. (b - a) % m = b - a
    BY <2>2, ModSmall
  <2> QED BY <2>1, <2>3, <1>3 DEF Same
<1> QED BY <1>1, <1>2, <1>3

LEMMA SameRest == \A a, b \in Int, m \in Pos : Same(a, b, m) => a % m = b % m
<1> SUFFICES ASSUME NEW a \in Int, NEW b \in Int, NEW m \in Pos, Same(a, b, m) PROVE a % m = b % m
  OBVIOUS
<1>1. PICK k \in Int : a = b + k * m
  BY SameIs
<1> QED BY <1>1, DivAdd

\* What is the same up to a product is the same up to a factor.
LEMMA SameFactor == \A a, b \in Int, m, n \in Pos : Same(a, b, m * n) => Same(a, b, m)
<1> SUFFICES ASSUME NEW a \in Int, NEW b \in Int, NEW m \in Pos, NEW n \in Pos, Same(a, b, m * n)
             PROVE  Same(a, b, m)
  OBVIOUS
<1>1. m * n \in Pos
  BY DivTwice
<1>2. PICK k \in Int : a = b + k * (m * n)
  BY <1>1, SameIs
<1>3. a = b + (k * n) * m /\ k * n \in Int
  BY <1>2 DEF Pos
<1> QED BY <1>3, SameIs

\* Powers of two.
LEMMA SameLess ==
    \A a, b \in Int, k, w \in Nat : k <= w /\ Same(a, b, Pow(w)) => Same(a, b, Pow(k))
<1> SUFFICES ASSUME NEW a \in Int, NEW b \in Int, NEW k \in Nat, NEW w \in Nat, k <= w, Same(a, b, Pow(w))
             PROVE  Same(a, b, Pow(k))
  OBVIOUS
<1>1. w - k \in Nat /\ k + (w - k) = w
  OBVIOUS
<1>2. Pow(w) = Pow(k) * Pow(w - k) /\ Pow(k) \in Pos /\ Pow(w - k) \in Pos
  BY <1>1, PowSum, PowPos
<1> QED BY <1>2, SameFactor

\* A word and the number it stands for.
LEMMA SignedSame ==
    ASSUME NEW w \in Pos, NEW x, Word(x, w)
    PROVE  Same(Signed(x, w), x, Pow(w))
<1>1. x \in Int /\ Signed(x, w) \in Int /\ Pow(w) \in Pos /\ Pow(w) \in Int
  BY SignedIs, PowPos DEF Word, Pos
<1>2. Signed(x, w) = x \/ Signed(x, w) = x + (-1) * Pow(w)
  <2>1. Signed(x, w) = x \/ Signed(x, w) = x - Pow(w)
    BY SignedIs
  <2>2. x - Pow(w) = x + (-1) * Pow(w)
    BY <1>1
  <2> QED BY <2>1, <2>2
<1>3. -1 \in Int
  OBVIOUS
<1> QED BY <1>1, <1>2, <1>3, SameIs, SameSelf

\* A signed number in range survives being cut to the width.
LEMMA SignedBack ==
    ASSUME NEW w \in Pos, NEW z \in Int, -Pow(w - 1) <= z, z < Pow(w - 1)
    PROVE  Word(z % Pow(w), w) /\ Signed(z % Pow(w), w) = z
<1> DEFINE m == Pow(w)
           h == Pow(w - 1)
           r == z % m
           s == Signed(r, w)
<1>1. m = h + h /\ m \in Nat /\ h \in Nat /\ h >= 1 /\ m \in Pos
  BY PowBefore DEF Pos
<1>2. r \in Int /\ 0 <= r /\ r < m
  BY <1>1, DivIs
<1>3. Word(r, w)
  BY <1>2 DEF Word
<1>4. Same(s, r, m) /\ s \in Int /\ -h <= s /\ s < h
  BY <1>3, SignedSame, SignedIs
<1>5. Same(r, z, m)
  BY <1>1, SameMod
<1> HIDE DEF m, h, r, s
<1>6. Same(s, z, m)
  BY <1>1, <1>2, <1>4, <1>5, SameThrough
<1>7. -h \in Int /\ s < (-h) + m /\ z < (-h) + m /\ -h <= z
  BY <1>1, <1>4 DEF h
<1>8. s = z
  BY <1>1, <1>4, <1>6, <1>7, SameEqual
<1> QED BY <1>3, <1>8 DEF s, r, m

\* Cutting to a width.
LEMMA TruncIs ==
    ASSUME NEW w \in Nat, NEW z \in Int
    PROVE  /\ Trunc(z, w) = z % Pow(w) /\ Word(Trunc(z, w), w) /\ Same(Trunc(z, w), z, Pow(w))
           /\ Trunc(z, w) \in Int
<1>1. Trunc(z, w) = z % Pow(w)
  BY DEF Trunc, Pow
<1>2. Pow(w) \in Pos /\ Pow(w) \in Int
  BY PowPos DEF Pos
<1>3. z % Pow(w) \in Int /\ 0 <= z % Pow(w) /\ z % Pow(w) < Pow(w) /\ Same(z % Pow(w), z, Pow(w))
  BY <1>2, DivIs, SameMod
<1> QED BY <1>1, <1>3 DEF Word

LEMMA TruncSmall ==
    ASSUME NEW w \in Nat, NEW z, Word(z, w)
    PROVE  Trunc(z, w) = z
<1>1. z \in Int /\ 0 <= z /\ z < Pow(w) /\ Pow(w) \in Pos
  BY PowPos DEF Word
<1> QED BY <1>1, ModSmall DEF Trunc, Pow

\* The extension of an operand stands for the same number.
Reads(x, w) == IF op.s = "S" THEN Signed(x, w) ELSE x
LEMMA Extended ==
    ASSUME NEW w \in Pos, NEW v \in Nat, v > w, NEW x, Word(x, w)
    PROVE  /\ Word(Ext(x, w, v), v) /\ Signed(Ext(x, w, v), v) = Reads(x, w)
           /\ Same(Ext(x, w, v), Reads(x, w), Pow(v))
           /\ Reads(x, w) \in Int /\ -Pow(w - 1) <= Reads(x, w) /\ Reads(x, w) < Pow(w)
<1>1. /\ v \in Pos /\ w - 1 \in Nat /\ v - 1 \in Nat /\ w <= v - 1 /\ w \in Nat /\ w - 1 <= w
  BY DEF Pos
<1>2. Pow(w - 1) <= Pow(v - 1) /\ Pow(w) <= Pow(v - 1) /\ Pow(w - 1) <= Pow(w) /\ Pow(v - 1) <= Pow(v)
  <2>1. w - 1 <= v - 1 /\ v - 1 <= v
    BY <1>1
  <2> QED BY <1>1, <2>1, PowMono
<1>3. Pow(w - 1) \in Nat /\ Pow(v - 1) \in Nat /\ Pow(w) \in Nat /\ Pow(v) \in Nat /\ Pow(v) \in Pos
  BY <1>1, PowNat, PowPos
<1>4. x \in Nat /\ x < Pow(w)
  BY DEF Word
<1>5. CASE op.s = "S"
  <2> DEFINE z == Signed(x, w)
  <2>1. z \in Int /\ -Pow(w - 1) <= z /\ z < Pow(w - 1)
    BY SignedIs
  <2>2. Ext(x, w, v) = z % Pow(v) /\ Reads(x, w) = z
    BY <1>5 DEF Ext, SExt, Trunc, Pow, Reads
  <2> HIDE DEF z
  <2>3. -Pow(v - 1) <= z /\ z < Pow(v - 1) /\ z < Pow(w)
    BY <1>2, <1>3, <2>1
  <2>4. Word(z % Pow(v), v) /\ Signed(z % Pow(v), v) = z
    BY <1>1, <2>1, <2>3, SignedBack
  <2>5. Same(z % Pow(v), z, Pow(v))
    BY <1>3, <2>1, SameMod
  <2> QED BY <2>1, <2>2, <2>3, <2>4, <2>5
<1>6. CASE op.s # "S"
  <2>1. Ext(x, w, v) = x /\ Reads(x, w) = x
    BY <1>6 DEF Ext, Reads
  <2>2. Word(x, v) /\ x < Pow(v - 1)
    BY <1>2, <1>3, <1>4 DEF Word
  <2>3. Signed(x, v) = x
    BY <1>1, <2>2, SignedIs
  <2>4. Same(x, x, Pow(v))
    BY <1>3, <1>4, SameSelf
  <2>5. -Pow(w - 1) <= x
    BY <1>3, <1>4
  <2> QED BY <1>4, <2>1, <2>2, <2>3, <2>4, <2>5
<1> QED BY <1>5, <1>6

(***************************************************************************)
(* Scalar arithmetic, one emitter at a time.                               *)
(***************************************************************************)
\* The operands of an emitter on one lane.
LEMMA ScalarOperands ==
    ASSUME OperandsFit, op.fam \in {"BINOP", "BINOP_EXPAND", "SHIFT"}
    PROVE  /\ Word(args[1], W) /\ W \in Pos /\ W \in Nat
           /\ op.fam # "SHIFT" => Word(args[2], W)
           /\ op.fam = "SHIFT" => args[2] \in Nat
<1>1. op.n = 1 /\ W \in Pos /\ W \in Nat
  BY EmittedIs DEF IntOpIs, Emitter
<1>2. op.n * W = W
  BY <1>1
<1>3. Word(args[1], op.n * W) /\ (op.fam # "SHIFT" => Word(args[2], op.n * W)) /\ (op.fam = "SHIFT" => Word(args[2], unit))
  BY DEF OperandsFit, WithByte, TwoVectors
<1> QED BY <1>1, <1>2, <1>3 DEF Word

LEMMA Complemented ==
    ASSUME OperandsFit, UNOP_EMIT
    PROVE  ComputedRight(res'.val)
<1> DEFINE a == args[1]
           x == res'.val
<1>1. op.fam = "UNOP" /\ Word(a, W) /\ x = Pow(W) - 1 - a
  BY ValueIs DEF UNOP_EMIT, Family, OperandsFit, OneWord, Not, Pow
<1>2. a \in Nat /\ Pow(W) \in Nat
  BY <1>1, EmittedIs, PowNat DEF Word
<1>3. a + x = Pow(W) - 1
  BY <1>1, <1>2
<1> HIDE DEF x, a
<1>4. ComputedRight(x) <=> a + x = 2^W - 1
  BY <1>1 DEF ComputedRight, a
<1> QED BY <1>3, <1>4 DEF Pow, x

\* Sums, differences and products, cut to the width.
LEMMA SumsAndProducts ==
    ASSUME NEW x, NEW y, Word(x, W), Word(y, W), W \in Pos
    PROVE  /\ Word(Create("Add", x, y), W) /\ Same(Create("Add", x, y), x + y, Pow(W))
           /\ Word(Create("Sub", x, y), W) /\ Same(Create("Sub", x, y), x - y, Pow(W))
           /\ Word(Create("Mul", x, y), W) /\ Same(Create("Mul", x, y), Signed(x, W) * Signed(y, W), Pow(W))
<1>1. x \in Int /\ y \in Int /\ Signed(x, W) \in Int /\ Signed(y, W) \in Int /\ W \in Nat
  BY SignedIs DEF Word, Pos
<1>2. x + y \in Int /\ x - y \in Int /\ Signed(x, W) * Signed(y, W) \in Int
  BY <1>1
<1>3. /\ Create("Add", x, y) = Trunc(x + y, W)
      /\ Create("Sub", x, y) = Trunc(x - y, W)
      /\ Create("Mul", x, y) = Trunc(Signed(x, W) * Signed(y, W), W)
  BY DEF Create, Add, Sub, Mul
<1> QED BY <1>1, <1>2, <1>3, TruncIs

LEMMA BinaryOperators ==
    ASSUME OperandsFit, BINOP_EMIT
    PROVE  ComputedRight(res'.val)
<1> DEFINE a == args[1]
           b == args[2]
           x == res'.val
<1>1. op.fam = "BINOP" /\ x = Create(op.o, a, b)
  BY ValueIs DEF BINOP_EMIT, Family
<1>2. Word(a, W) /\ Word(b, W) /\ W \in Pos /\ W \in Nat /\ a \in Nat /\ b \in Nat
  BY <1>1, ScalarOperands DEF Word
<1>3. op.o \in {"Add", "And", "Mul", "Or", "Sub", "Xor", "ICmpEQ", "ICmpNE", "ICmpLE", "ICmpLT"}
  BY <1>1, EmittedIs DEF IntOpIs, Emitter
<1>4. CASE op.o \in {"Add", "Sub", "Mul"}
  <2> DEFINE e == CASE op.o = "Add" -> a + b [] op.o = "Sub" -> a - b
                    [] op.o = "Mul" -> Signed(a, W) * Signed(b, W)
  <2>1. Same(x, e, Pow(W))
    BY <1>1, <1>2, <1>4, SumsAndProducts
  <2> HIDE DEF x, a, b
  <2>2. ComputedRight(x) <=> (x - e) % 2^W = 0
    BY <1>1, <1>4 DEF ComputedRight, a, b
  <2> QED BY <2>1, <2>2 DEF Same, Pow, x
<1>5. CASE op.o \in {"And", "Or", "Xor"}
  <2> DEFINE e(i) == CASE op.o = "And" -> Bit(a, i) * Bit(b, i)
                       [] op.o = "Or" -> 1 - (1 - Bit(a, i)) * (1 - Bit(b, i))
                       [] op.o = "Xor" -> (Bit(a, i) + Bit(b, i)) % 2
  <2>1. ASSUME NEW i \in 0 .. W - 1 PROVE Bit(x, i) = e(i)
    <3>1. Bit(a, i) \in {0, 1} /\ Bit(b, i) \in {0, 1}
      <4>1. i \in Nat
        BY <1>2
      <4> QED BY <1>2, <4>1, BitType
    <3>2. CASE op.o = "And"
      <4>1. Bit(x, i) = Bool(Bit(a, i) = 1 /\ Bit(b, i) = 1)
        BY <1>1, <1>2, <3>2, AndBits DEF Create
      <4> QED BY <3>1, <3>2, <4>1 DEF Bool
    <3>3. CASE op.o = "Or"
      <4>1. Bit(x, i) = Bool(Bit(a, i) = 1 \/ Bit(b, i) = 1)
        BY <1>1, <1>2, <3>3, OrBits DEF Create
      <4> QED BY <3>1, <3>3, <4>1 DEF Bool
    <3>4. CASE op.o = "Xor"
      <4>1. Bit(x, i) = Bool((Bit(a, i) = 1) # (Bit(b, i) = 1))
        BY <1>1, <1>2, <3>4, XorBits DEF Create
      <4> QED BY <3>1, <3>4, <4>1 DEF Bool
    <3> QED BY <1>5, <3>2, <3>3, <3>4
  <2> HIDE DEF x, a, b
  <2>2. ComputedRight(x) <=> \A i \in 0 .. W - 1 : Bit(x, i) = e(i)
    BY <1>1, <1>5 DEF ComputedRight, a, b
  <2> QED BY <2>1, <2>2 DEF x
<1>6. CASE op.o \in {"ICmpEQ", "ICmpNE", "ICmpLE", "ICmpLT"}
  <2> HIDE DEF x, a, b
  <2>1. x = Bool(CASE op.o = "ICmpEQ" -> a = b
                   [] op.o = "ICmpNE" -> a # b
                   [] op.o = "ICmpLE" -> Value(a) <= Value(b)
                   [] op.o = "ICmpLT" -> Value(a) < Value(b))
    BY <1>1, <1>6 DEF Create
  <2> QED BY <1>1, <1>6, <2>1 DEF ComputedRight, a, b, x
<1> QED BY <1>3, <1>4, <1>5, <1>6

LEMMA ValueReads == \A x : Value(x) = Reads(x, W)
  BY DEF Value, Reads

\* The full product, of operands extended to twice the width.
LEMMA FullProduct ==
    ASSUME NEW x, NEW y, Word(x, W), Word(y, W), W \in Pos
    PROVE  LET p == Mul(Ext(x, W, 2 * W), Ext(y, W, 2 * W), 2 * W)
           IN  /\ p = (Value(x) * Value(y)) % Pow(2 * W)
               /\ Value(x) \in Int /\ Value(y) \in Int /\ Value(x) * Value(y) \in Int
<1> DEFINE v == 2 * W
           s == Ext(x, W, v)
           t == Ext(y, W, v)
<1>1. v \in Nat /\ v > W /\ v \in Pos
  BY DEF Pos
<1>2. Signed(s, v) = Value(x) /\ Signed(t, v) = Value(y) /\ Value(x) \in Int /\ Value(y) \in Int
  BY <1>1, Extended, ValueReads
<1>3. Value(x) * Value(y) \in Int
  BY <1>2
<1>4. Mul(s, t, v) = (Value(x) * Value(y)) % Pow(v)
  BY <1>2 DEF Mul, Trunc, Pow
<1> QED BY <1>2, <1>3, <1>4

LEMMA WideProducts ==
    ASSUME OperandsFit, BINOP_EXPAND_EMIT
    PROVE  ComputedRight(res'.val)
<1> DEFINE a == args[1]
           b == args[2]
           x == res'.val
           e == Value(a) * Value(b)
<1>1. op.fam = "BINOP_EXPAND" /\ x = Mul(Ext(a, W, 2 * W), Ext(b, W, 2 * W), 2 * W)
  BY ValueIs DEF BINOP_EXPAND_EMIT, Family
<1>2. Word(a, W) /\ Word(b, W) /\ W \in Pos /\ W \in Nat
  BY <1>1, ScalarOperands
<1>3. x = e % Pow(2 * W) /\ e \in Int
  BY <1>1, <1>2, FullProduct
<1>4. Pow(2 * W) \in Pos
  <2>1. 2 * W \in Nat
    BY <1>2
  <2> QED BY <2>1, PowPos
<1> HIDE DEF x, e
<1>5. Same(x, e, Pow(2 * W))
  BY <1>3, <1>4, SameMod
<1>6. ComputedRight(x) <=> (x - e) % 2^(2 * W) = 0
  BY <1>1 DEF ComputedRight, e
<1> QED BY <1>5, <1>6 DEF Same, Pow, x

\* A shift by less than the width.
LEMMA ShiftIs ==
    ASSUME NEW x, NEW k \in Nat, Word(x, W), W \in Pos, k < W, NEW o \in {"Shl", "LShr", "AShr"}
    PROVE  Word(CreateShift(o, x, k), W) /\ Same(CreateShift(o, x, k), Shifted(o, x, k), Pow(W))
<1> DEFINE h == W - k
           p == Pow(k)
           q == Pow(h)
           m == Pow(W)
<1>1. h \in Nat /\ k + h = W /\ W \in Nat /\ h + k = W
  BY DEF Pos
<1>2. p \in Pos /\ q \in Pos /\ m = p * q /\ m = q * p /\ m \in Pos
  BY <1>1, PowPos, PowSum
<1>3. x \in Nat /\ x < m
  BY DEF Word
<1>4. CASE o = "Shl"
  <2> DEFINE r == x % q
             d == x \div q
  <2>1. CreateShift(o, x, k) = r * p /\ Shifted(o, x, k) = x * p
    BY <1>4 DEF CreateShift, Shifted, Shl, Pow
  <2>2. r \in Int /\ 0 <= r /\ r < q /\ d \in Int /\ x = d * q + r
    BY <1>2, <1>3, DivIs
  <2>3. Word(0 + r * Pow(k), k + h)
    <3>1. Word(r, h) /\ Word(0, k)
      BY <1>2, <2>2 DEF Word, Pos
    <3> QED BY <1>1, <3>1, Room
  <2> HIDE DEF r, d, p, q, m
  <2>4. Word(r * p, W)
    <3>1. 0 + r * p = r * p
      BY <1>2, <2>2 DEF Pos
    <3> QED BY <1>1, <2>3, <3>1 DEF p
  <2>5. Same(r * p, x * p, m)
    <3>1. r * p = x * p + (-d) * m /\ -d \in Int /\ r * p \in Int /\ x * p \in Int
      <4>1. p \in Int /\ q \in Int
        BY <1>2 DEF Pos
      <4>2. x * p = (d * q + r) * p
        BY <2>2
      <4>3. (d * q + r) * p = r * p + d * (q * p)
        BY <2>2, <4>1
      <4>4. d * (q * p) = d * m /\ d * m \in Int /\ (-d) * m = -(d * m) /\ m \in Int
        BY <1>2, <2>2 DEF Pos
      <4>5. r * p \in Int /\ x * p \in Int
        BY <1>3, <2>2, <4>1
      <4> HIDE DEF h
      <4> QED BY <2>2, <4>2, <4>3, <4>4, <4>5
    <3> QED BY <1>2, <3>1, SameIs
  <2> QED BY <2>1, <2>4, <2>5 DEF m
<1>5. CASE o = "LShr"
  <2> DEFINE d == x \div p
  <2>1. CreateShift(o, x, k) = d /\ Shifted(o, x, k) = d
    BY <1>5 DEF CreateShift, Shifted, LShr, Pow
  <2>2. Word(d, h)
    BY <1>1, Halves
  <2>3. Word(d, W) /\ d \in Int
    <3>1. Pow(h) <= Pow(W) /\ Pow(h) \in Nat /\ Pow(W) \in Nat
      BY <1>1, PowMono, PowNat
    <3> HIDE DEF d, h
    <3> QED BY <2>2, <3>1 DEF Word
  <2> HIDE DEF d
  <2>4. Same(d, d, m)
    BY <1>2, <2>3, SameSelf
  <2> QED BY <2>1, <2>3, <2>4
<1>6. CASE o = "AShr"
  <2> DEFINE d == Signed(x, W) \div p
  <2>1. CreateShift(o, x, k) = Trunc(d, W) /\ Shifted(o, x, k) = d
    BY <1>6 DEF CreateShift, Shifted, AShr, Pow
  <2>2. d \in Int
    BY <1>2, SignedIs, DivIs
  <2> HIDE DEF d
  <2> QED BY <1>1, <2>1, <2>2, TruncIs
<1> QED BY <1>4, <1>5, <1>6

\* A width that is a power of two, and its logarithm.
LEMMA Log2Is ==
    ASSUME NEW w \in {1, 2, 4, 8, 16, 32, 64}
    PROVE  Log2(w) \in Nat /\ Pow(Log2(w)) = w
<1>1. /\ Pow(0) = 1 /\ Pow(1) = 2 /\ Pow(2) = 4 /\ Pow(3) = 8 /\ Pow(4) = 16 /\ Pow(5) = 32 /\ Pow(6) = 64
  BY DEF Pow
<1>2. \E k \in 0 .. 8 : Pow(k) = w
  BY <1>1
<1>3. Log2(w) = CHOOSE k \in 0 .. 8 : Pow(k) = w
  BY DEF Log2, Pow
<1>4. Log2(w) \in 0 .. 8 /\ Pow(Log2(w)) = w
  BY <1>2, <1>3
<1> QED BY <1>4

LEMMA ScalarShifts ==
    ASSUME OperandsFit, SHIFT_EMIT
    PROVE  ComputedRight(res'.val)
<1> DEFINE a == args[1]
           b == args[2]
           k == Log2(W)
           x == res'.val
           c == b % W
<1>1. op.fam = "SHIFT" /\ x = CreateShift(op.o, a, Trunc(b, k))
  BY ValueIs DEF SHIFT_EMIT, Family
<1>2. Word(a, W) /\ W \in Pos /\ W \in Nat /\ b \in Nat
  BY <1>1, ScalarOperands
<1>3. W \in {1, 2, 4, 8, 16, 32, 64} /\ op.o \in {"Shl", "LShr", "AShr"}
  <2>1. op.w \in {8, 16, 32, 64} /\ op.o \in {"Shl", "LShr", "AShr"} /\ unit \in Bytes
    BY <1>1, EmittedIs DEF IntOpIs, Emitter
  <2>2. W \in {unit, 2 * unit, 4 * unit, 8 * unit}
    BY <2>1, WidthIs DEF W
  <2> QED BY <2>1, <2>2 DEF Bytes
<1>4. Trunc(b, k) = c /\ c \in Nat /\ c < W
  <2>1. k \in Nat /\ Pow(k) = W
    BY <1>3, Log2Is
  <2>2. Trunc(b, k) = c
    BY <2>1 DEF Trunc, Pow
  <2>3. c \in Nat /\ c < W
    BY <1>2, <1>3
  <2> QED BY <2>2, <2>3
<1> HIDE DEF c
<1>5. Same(x, Shifted(op.o, a, c), Pow(W))
  BY <1>1, <1>2, <1>3, <1>4, ShiftIs
<1> HIDE DEF x
<1>6. ComputedRight(x) <=> (x - Shifted(op.o, a, c)) % 2^W = 0
  BY <1>1 DEF ComputedRight, c
<1> QED BY <1>5, <1>6 DEF Same, Pow, x

\* Division towards zero.
LEMMA QuotRem ==
    ASSUME NEW a \in Int, NEW b \in Int, b # 0
    PROVE  /\ Quot(a, b) \in Int /\ Rem(a, b) \in Int
           /\ a = Quot(a, b) * b + Rem(a, b)
           /\ Rem(a, b) < (IF b < 0 THEN -b ELSE b)
           /\ -Rem(a, b) < (IF b < 0 THEN -b ELSE b)
           /\ Rem(a, b) = 0 \/ (Rem(a, b) < 0 <=> a < 0)
           /\ a >= 0 /\ b >= 0 => Quot(a, b) >= 0
<1> DEFINE A_ == IF a < 0 THEN -a ELSE a
           B_ == IF b < 0 THEN -b ELSE b
           q == A_ \div B_
           r == A_ % B_
<1>1. A_ \in Nat /\ B_ \in Pos /\ B_ \in Int
  BY DEF Pos
<1>2. Quot(a, b) = IF (a < 0) = (b < 0) THEN q ELSE -q
  BY DEF Quot
<1>3. q \in Int /\ r \in Int /\ 0 <= r /\ r < B_ /\ A_ = q * B_ + r
  <2> HIDE DEF A_, B_
  <2> QED BY <1>1, DivIs
<1>4. q >= 0
  BY <1>1
<1> HIDE DEF q, r
<1>5. Rem(a, b) = a - b * Quot(a, b) /\ Quot(a, b) \in Int
  BY <1>2, <1>3 DEF Rem
<1>6. b * Quot(a, b) = IF a < 0 THEN -(q * B_) ELSE q * B_
  <2>1. CASE a < 0 /\ b < 0
    <3>1. Quot(a, b) = q /\ B_ = -b /\ b * q = -(q * (-b))
      BY <1>2, <1>3, <2>1
    <3> QED BY <2>1, <3>1
  <2>2. CASE a < 0 /\ ~(b < 0)
    <3>1. Quot(a, b) = -q /\ B_ = b /\ b * (-q) = -(q * b)
      BY <1>2, <1>3, <2>2
    <3> QED BY <2>2, <3>1
  <2>3. CASE ~(a < 0) /\ b < 0
    <3>1. Quot(a, b) = -q /\ B_ = -b /\ b * (-q) = q * (-b)
      BY <1>2, <1>3, <2>3
    <3> QED BY <2>3, <3>1
  <2>4. CASE ~(a < 0) /\ ~(b < 0)
    <3>1. Quot(a, b) = q /\ B_ = b /\ b * q = q * b
      BY <1>2, <1>3, <2>4
    <3> QED BY <2>4, <3>1
  <2> QED BY <2>1, <2>2, <2>3, <2>4
<1> DEFINE t == q * B_
<1>7. t \in Int /\ A_ = t + r
  BY <1>1, <1>3
<1> HIDE DEF t
<1>8. Rem(a, b) = IF a < 0 THEN -r ELSE r
  <2>1. b * Quot(a, b) = IF a < 0 THEN -t ELSE t
    BY <1>6 DEF t
  <2> QED BY <1>3, <1>5, <1>7, <2>1
<1>9. a = Quot(a, b) * b + Rem(a, b)
  <2> DEFINE z == Quot(a, b)
  <2>1. z \in Int /\ Rem(a, b) = a - b * z
    BY <1>5
  <2> HIDE DEF z
  <2>2. a = z * b + (a - b * z)
    BY <2>1
  <2> QED BY <2>1, <2>2 DEF z
<1>10. Rem(a, b) \in Int /\ Quot(a, b) \in Int
  BY <1>3, <1>5, <1>8
<1>11. a >= 0 /\ b >= 0 => Quot(a, b) >= 0
  BY <1>2, <1>3, <1>4
<1> HIDE DEF A_
<1> QED BY <1>3, <1>8, <1>9, <1>10, <1>11 DEF B_

LEMMA DivisionWidths ==
    ASSUME OperandsFit, op.fam = "DIVMOD"
    PROVE  LET h == W \div 2
           IN  /\ h \in Pos /\ h \in Nat /\ W = h + h /\ W \in Pos /\ W > h
               /\ Word(args[1], W) /\ Word(args[2], h) /\ op.s \in {"S", "U"}
<1>1. op.w \in {64, 128} /\ unit \in Bytes /\ op.s \in {"S", "U"}
  BY EmittedIs DEF IntOpIs, Emitter
<1>2. W = B(op.w) /\ (op.w = 64 => op.w \div 2 = 32) /\ (op.w = 128 => op.w \div 2 = 64)
  BY <1>1 DEF W
<1>3. B(op.w \div 2) = W \div 2 /\ W = (W \div 2) + (W \div 2) /\ W \div 2 \in Pos /\ W \in Pos
  BY <1>1, <1>2, WidthIs DEF Bytes, Pos
<1>4. Word(args[1], W) /\ Word(args[2], B(op.w \div 2))
  BY DEF OperandsFit
<1> QED BY <1>1, <1>3, <1>4 DEF Pos

LEMMA Divisions ==
    ASSUME OperandsFit, ArithDefined, DIVMOD_EMIT, HasValue'
    PROVE  ComputedRight(res'.val)
<1> DEFINE h == W \div 2
           a == Value(args[1])
           b == Reads(args[2], h)
           x == res'.val
           q == Quot(a, b)
           r == Rem(a, b)
           P == Pow(h)
           Half(y) == IF op.s = "S" THEN Signed(y, h) ELSE y
<1>1. op.fam = "DIVMOD"
  BY DEF DIVMOD_EMIT, Family
<1>2. /\ h \in Pos /\ h \in Nat /\ W = h + h /\ W \in Pos /\ W > h /\ W \in Nat
      /\ Word(args[1], W) /\ Word(args[2], h) /\ op.s \in {"S", "U"}
  BY <1>1, DivisionWidths DEF Pos
<1> HIDE DEF h
<1>3. Value(Ext(args[2], h, W)) = b /\ b \in Int /\ a \in Int
  <2>1. /\ Signed(Ext(args[2], h, W), W) = Reads(args[2], h) /\ Reads(args[2], h) \in Int
    BY <1>2, Extended
  <2>2. op.s # "S" => Ext(args[2], h, W) = args[2]
    BY DEF Ext
  <2>3. a \in Int
    BY <1>2, SignedIs DEF Value, Word
  <2> QED BY <2>1, <2>2, <2>3 DEF Value, Reads
<1>4. /\ b # 0
      /\ x = Or(Trunc(q, h), Shl(Trunc(r, W), h, W, junk), W)
  <2>1. LET c == Value(Ext(args[2], h, W))
        IN  IF c = 0 \/ (op.s = "S" /\ a = -(2^(W - 1)) /\ c = -1)
            THEN Outcome(Trap)
            ELSE Return(Or(Trunc(Quot(a, c), h), Shl(Trunc(Rem(a, c), W), h, W, junk), W))
    BY DEF DIVMOD_EMIT, h
  <2>2. ~Outcome(Trap)
    BY DEF Outcome, Trap, HasValue
  <2> QED BY <1>3, <2>1, <2>2, ValueIs
<1>5. IF op.s = "S" THEN -Pow(h - 1) <= q /\ q < Pow(h - 1) ELSE q < P
  <2>1. Quotient(Value(args[1]), IF op.s = "S" THEN Signed(args[2], h) ELSE args[2]) = q
    BY <1>4 DEF Quotient, Reads
  <2> HIDE DEF q
  <2> QED BY <1>1, <2>1 DEF ArithDefined, FitsSigned, Pow, h
<1>6. /\ q \in Int /\ r \in Int /\ a = q * b + r
      /\ r < (IF b < 0 THEN -b ELSE b) /\ -r < (IF b < 0 THEN -b ELSE b)
      /\ r = 0 \/ (r < 0 <=> a < 0)
      /\ a >= 0 /\ b >= 0 => q >= 0
  <2>1. a \in Int /\ b \in Int /\ b # 0
    BY <1>3, <1>4
  <2> HIDE DEF a, b
  <2> QED BY <2>1, QuotRem
<1> HIDE DEF q, r, a
<1>7. op.s = "S" => -Pow(h - 1) <= b /\ b < Pow(h - 1)
  BY <1>2, SignedIs DEF Reads
<1>8. op.s # "S" => b >= 0 /\ b < P /\ a >= 0
  BY <1>2 DEF Reads, Word, a, Value
<1> HIDE DEF b
<1>9. P \in Pos /\ P \in Nat /\ Pow(h - 1) \in Nat /\ Pow(W) = P * P
  BY <1>2, PowPos, PowNat, PowBefore, PowSum
<1> HIDE DEF P
<1> DEFINE ql == q % P
           rl == r % P
<1>10. Word(ql, h) /\ Word(rl, h) /\ Trunc(q, h) = ql
  <2>1. Trunc(q, h) = ql /\ Word(Trunc(q, h), h) /\ Trunc(r, h) = rl /\ Word(Trunc(r, h), h)
    BY <1>2, <1>6, TruncIs DEF P
  <2> QED BY <2>1
<1>11. Shl(Trunc(r, W), h, W, junk) = rl * P
  <2>1. h < W /\ W - h = h
    BY <1>2
  <2>2. Trunc(r, W) = r % (P * P)
    BY <1>9 DEF Trunc, Pow
  <2>3. Trunc(r, W) % P = rl
    BY <1>6, <1>9, <2>2, ModTwice
  <2>4. Shl(Trunc(r, W), h, W, junk) = (Trunc(r, W) % Pow(h)) * Pow(h)
    BY <2>1 DEF Shl, Pow
  <2> QED BY <2>3, <2>4 DEF P
<1> HIDE DEF ql, rl
<1>12. x = ql + rl * P
  BY <1>2, <1>4, <1>10, <1>11, Combined DEF P
<1>13. x % P = ql /\ x \div P = rl
  <2>1. ql \in Int /\ rl \in Int /\ 0 <= ql /\ ql < P
    BY <1>10 DEF Word, P
  <2>2. ql + rl * P = rl * P + ql /\ ql + rl * P \in Int
    BY <1>9, <2>1
  <2> HIDE DEF x
  <2>3. x = rl * P + ql /\ x \in Int
    BY <1>12, <2>2
  <2> QED BY <1>9, <2>1, <2>3, DivUnique
<1>14. Half(ql) = q
  <2>1. CASE op.s = "S"
    BY <1>2, <1>5, <1>6, <2>1, SignedBack DEF ql, P
  <2>2. CASE op.s # "S"
    <3>1. 0 <= q /\ q < P
      BY <1>5, <1>6, <1>8, <1>3, <2>2
    <3> QED BY <1>6, <1>9, <2>2, <3>1, ModSmall DEF ql
  <2> QED BY <2>1, <2>2
<1>15. Half(rl) = r
  <2>1. CASE op.s = "S"
    <3>1. -Pow(h - 1) <= r /\ r < Pow(h - 1)
      BY <1>3, <1>6, <1>7, <1>9, <2>1
    <3> QED BY <1>2, <1>6, <2>1, <3>1, SignedBack DEF rl, P
  <2>2. CASE op.s # "S"
    <3>1. 0 <= r /\ r < P
      BY <1>3, <1>6, <1>8, <1>9, <2>2
    <3> QED BY <1>6, <1>9, <2>2, <3>1, ModSmall DEF rl
  <2> QED BY <2>1, <2>2
<1>16. Half(args[2]) = b
  BY DEF Reads, b
<1> DEFINE Q == Half(x % 2^h)
           R == Half(x \div 2^h)
           D == Half(args[2])
<1>17. Q = q /\ R = r /\ D = b
  <2>1. x % 2^h = ql /\ x \div 2^h = rl
    BY <1>13 DEF P, Pow
  <2> HIDE DEF x
  <2> QED BY <1>14, <1>15, <1>16, <2>1
<1> HIDE DEF x
<1>18. ComputedRight(x) <=> /\ a = Q * D + R
                            /\ R < (IF D < 0 THEN -D ELSE D)
                            /\ -R < (IF D < 0 THEN -D ELSE D)
                            /\ R = 0 \/ (R < 0 <=> a < 0)
  BY <1>1 DEF ComputedRight, h, a
<1> HIDE DEF Q, R, D
<1>19. ComputedRight(x)
  BY <1>6, <1>17, <1>18
<1> QED BY <1>19 DEF x

(***************************************************************************)
(* Arithmetic lane by lane, one emitter at a time.                         *)
(***************************************************************************)
\* The number a word stands for, which is the word up to its size.
LEMMA ValueIsWord ==
    ASSUME NEW x, Word(x, W), W \in Pos
    PROVE  /\ Value(x) \in Int /\ Same(Value(x), x, Pow(W)) /\ Same(x, Value(x), Pow(W))
           /\ op.s # "S" => Value(x) = x
<1>1. x \in Int /\ Signed(x, W) \in Int /\ Pow(W) \in Pos
  BY SignedIs, PowPos DEF Word, Pos
<1>2. Same(Signed(x, W), x, Pow(W)) /\ Same(x, x, Pow(W))
  BY <1>1, SignedSame, SameSelf
<1>3. Value(x) \in Int /\ Same(Value(x), x, Pow(W)) /\ (op.s # "S" => Value(x) = x)
  BY <1>1, <1>2 DEF Value
<1>4. Same(x, Value(x), Pow(W))
  BY <1>1, <1>3, SameTurned
<1> QED BY <1>3, <1>4

LEMMA VectorOperands ==
    ASSUME OperandsFit, op.fam \in TwoVectors
    PROVE  \A i \in 0 .. op.n - 1 : Word(V1[i], W) /\ Word(V2[i], W)
<1>1. Word(args[1], op.n * W) /\ Word(args[2], op.n * W)
  BY DEF OperandsFit
<1> QED BY <1>1, LanesOf1, LanesOf2

\* A packed result whose lanes are right is right.
LEMMA LanesRight ==
    ASSUME OperandsFit, NEW f, NEW e, \A i \in 0 .. op.n - 1 : Word(f[i], W) /\ Same(f[i], e[i], Pow(W))
    PROVE  \A i \in 0 .. op.n - 1 : (Lanes(Pack(f, op.n, W), op.n, W)[i] - e[i]) % 2^W = 0
<1>1. op.n \in Nat /\ W \in Nat
  BY EmittedIs
<1>2. \A i \in 0 .. op.n - 1 : Lanes(Pack(f, op.n, W), op.n, W)[i] = f[i]
  BY <1>1, PackedLanes
<1> QED BY <1>2 DEF Same, Pow

LEMMA LaneArithmetic ==
    ASSUME OperandsFit, OPV_EMIT
    PROVE  ComputedRight(res'.val)
<1> DEFINE x == res'.val
           f == [i \in 0 .. op.n - 1 |-> Create(op.o, V1[i], V2[i])]
           e == [i \in 0 .. op.n - 1 |-> CASE op.o = "Add" -> L1(i) + L2(i)
                                           [] op.o = "Sub" -> L1(i) - L2(i)
                                           [] op.o = "Mul" -> L1(i) * L2(i)]
<1>1. op.fam = "OPV" /\ x = Pack(f, op.n, W)
  BY ValueIs DEF OPV_EMIT, Family, EachLane
<1>2. W \in Pos /\ op.o \in {"Add", "Sub", "Mul"} /\ op.s # "S"
  BY <1>1, EmittedIs DEF IntOpIs, Emitter
<1>3. ASSUME NEW i \in 0 .. op.n - 1 PROVE Word(f[i], W) /\ Same(f[i], e[i], Pow(W))
  <2> DEFINE a == V1[i]
             b == V2[i]
  <2>1. Word(a, W) /\ Word(b, W)
    BY <1>1, VectorOperands DEF TwoVectors
  <2>2. f[i] = Create(op.o, a, b) /\ L1(i) = a /\ L2(i) = b
    BY <1>2, <2>1, ValueIsWord DEF L1, L2
  <2>3. e[i] = CASE op.o = "Add" -> a + b [] op.o = "Sub" -> a - b [] op.o = "Mul" -> a * b
    BY <2>2
  <2>4. a \in Int /\ b \in Int /\ Pow(W) \in Pos /\ Signed(a, W) \in Int /\ Signed(b, W) \in Int
    BY <1>2, <2>1, PowPos, SignedIs DEF Word, Pos
  <2> HIDE DEF a, b, f, e
  <2>5. Same(Signed(a, W) * Signed(b, W), a * b, Pow(W))
    BY <1>2, <2>1, <2>4, SignedSame, SameTimes
  <2>6. Word(Create("Mul", a, b), W) /\ Same(Create("Mul", a, b), a * b, Pow(W))
    <3> DEFINE c == Create("Mul", a, b)
               p == Signed(a, W) * Signed(b, W)
               q == a * b
    <3>1. Word(c, W) /\ Same(c, p, Pow(W)) /\ c \in Int /\ p \in Int /\ q \in Int
      BY <1>2, <2>1, <2>4, SumsAndProducts DEF Word
    <3>2. Same(p, q, Pow(W))
      BY <2>5
    <3> HIDE DEF c, p, q
    <3>3. Same(c, q, Pow(W))
      BY <2>4, <3>1, <3>2, SameThrough
    <3> QED BY <3>1, <3>3 DEF c, q
  <2>7. /\ Word(Create("Add", a, b), W) /\ Same(Create("Add", a, b), a + b, Pow(W))
        /\ Word(Create("Sub", a, b), W) /\ Same(Create("Sub", a, b), a - b, Pow(W))
    BY <1>2, <2>1, SumsAndProducts
  <2> QED BY <1>2, <2>2, <2>3, <2>6, <2>7
<1> HIDE DEF f
<1>4. \A i \in 0 .. op.n - 1 : (Lanes(x, op.n, W)[i] - e[i]) % 2^W = 0
  <2> HIDE DEF e
  <2> QED BY <1>1, <1>3, LanesRight
<1> HIDE DEF x
<1>5. ComputedRight(x) <=> \A i \in 0 .. op.n - 1 : (Lanes(x, op.n, W)[i] - e[i]) % 2^W = 0
  BY <1>1 DEF ComputedRight, LanesAre
<1> QED BY <1>4, <1>5 DEF x

LEMMA LaneShifts ==
    ASSUME OperandsFit, ArithDefined, OPV_Shift
    PROVE  ComputedRight(res'.val)
<1> DEFINE x == res'.val
           f == [i \in 0 .. op.n - 1 |-> CreateShift(op.o, V1[i], V2[i])]
           e == [i \in 0 .. op.n - 1 |-> Shifted(op.o, V1[i], V2[i])]
<1>1. op.fam = "OPV_Shift" /\ x = Pack(f, op.n, W)
  BY ValueIs DEF OPV_Shift, Family, EachLane
<1>2. W \in Pos /\ op.o \in {"Shl", "LShr", "AShr"}
  BY <1>1, EmittedIs DEF IntOpIs, Emitter
<1>3. ASSUME NEW i \in 0 .. op.n - 1 PROVE Word(f[i], W) /\ Same(f[i], e[i], Pow(W))
  <2>1. Word(V1[i], W) /\ Word(V2[i], W) /\ V2[i] < W
    BY <1>1, VectorOperands DEF TwoVectors, ArithDefined
  <2>2. f[i] = CreateShift(op.o, V1[i], V2[i]) /\ e[i] = Shifted(op.o, V1[i], V2[i]) /\ V2[i] \in Nat
    BY <2>1 DEF Word
  <2> HIDE DEF f, e
  <2> QED BY <1>2, <2>1, <2>2, ShiftIs
<1> HIDE DEF f
<1>4. \A i \in 0 .. op.n - 1 : (Lanes(x, op.n, W)[i] - e[i]) % 2^W = 0
  <2> HIDE DEF e
  <2> QED BY <1>1, <1>3, LanesRight
<1> HIDE DEF x
<1>5. ComputedRight(x) <=> \A i \in 0 .. op.n - 1 : (Lanes(x, op.n, W)[i] - e[i]) % 2^W = 0
  BY <1>1 DEF ComputedRight, LanesAre
<1> QED BY <1>4, <1>5 DEF x

LEMMA PowAbove == \A n \in Nat : n < Pow(n)
<1> DEFINE S == {n \in Nat : n < Pow(n)}
<1>1. 0 \in S
  BY PowZero
<1>2. ASSUME NEW n \in S PROVE n + 1 \in S
  <2>1. Pow(n + 1) = Pow(n) + Pow(n) /\ Pow(n) \in Nat /\ n < Pow(n) /\ n \in Nat
    BY PowNext, PowNat
  <2> QED BY <2>1
<1> HIDE DEF S
<1>3. S \in SUBSET Nat
  BY DEF S
<1>4. S = Nat
  BY <1>1, <1>2, <1>3, ByInduction
<1> QED BY <1>4 DEF S

LEMMA ShiftsByOneAmount ==
    ASSUME OperandsFit, ArithDefined, OPVS_EMIT
    PROVE  ComputedRight(res'.val)
<1> DEFINE x == res'.val
           b == args[2]
           f == [i \in 0 .. op.n - 1 |-> CreateShift(op.o, V1[i], Trunc(b, W))]
           e == [i \in 0 .. op.n - 1 |-> Shifted(op.o, V1[i], b)]
<1>1. op.fam = "OPVS" /\ x = Pack(f, op.n, W)
  BY ValueIs DEF OPVS_EMIT, Family
<1>2. W \in Pos /\ W \in Nat /\ op.o \in {"Shl", "LShr", "AShr"}
  BY <1>1, EmittedIs DEF IntOpIs, Emitter
<1>3. b \in Nat /\ b < W /\ Word(args[1], op.n * W)
  BY <1>1 DEF ArithDefined, OperandsFit, WithByte, Word
<1>4. Trunc(b, W) = b
  <2>1. W < Pow(W) /\ Pow(W) \in Nat
    BY <1>2, PowAbove, PowNat
  <2>2. Word(b, W)
    BY <1>2, <1>3, <2>1 DEF Word
  <2> QED BY <1>2, <2>2, TruncSmall
<1>5. ASSUME NEW i \in 0 .. op.n - 1 PROVE Word(f[i], W) /\ Same(f[i], e[i], Pow(W))
  <2>1. Word(V1[i], W)
    BY <1>3, LanesOf1
  <2>2. f[i] = CreateShift(op.o, V1[i], b) /\ e[i] = Shifted(op.o, V1[i], b)
    BY <1>4
  <2> HIDE DEF f, e, b
  <2> QED BY <1>2, <1>3, <2>1, <2>2, ShiftIs
<1> HIDE DEF f
<1>6. \A i \in 0 .. op.n - 1 : (Lanes(x, op.n, W)[i] - e[i]) % 2^W = 0
  <2> HIDE DEF e
  <2> QED BY <1>1, <1>5, LanesRight
<1> HIDE DEF x
<1>7. ComputedRight(x) <=> \A i \in 0 .. op.n - 1 : (Lanes(x, op.n, W)[i] - e[i]) % 2^W = 0
  BY <1>1 DEF ComputedRight, LanesAre
<1> QED BY <1>6, <1>7 DEF x

LEMMA Extremes ==
    ASSUME OperandsFit, BINCMP_EMIT
    PROVE  ComputedRight(res'.val)
<1> DEFINE x == res'.val
           cmp == IF op.o = "Max" THEN "ICmpGT" ELSE "ICmpLT"
           f == [i \in 0 .. op.n - 1 |-> IF Create(cmp, V1[i], V2[i]) = 1 THEN V1[i] ELSE V2[i]]
           e == [i \in 0 .. op.n - 1 |-> IF (op.o = "Max") = (L1(i) >= L2(i)) THEN L1(i) ELSE L2(i)]
<1>1. op.fam = "BINCMP" /\ x = Pack(f, op.n, W)
  BY ValueIs DEF BINCMP_EMIT, Family, EachLane
<1>2. W \in Pos /\ op.o \in {"Max", "Min"}
  BY <1>1, EmittedIs DEF IntOpIs, Emitter
<1>3. ASSUME NEW i \in 0 .. op.n - 1 PROVE Word(f[i], W) /\ Same(f[i], e[i], Pow(W))
  <2> DEFINE a == V1[i]
             b == V2[i]
             s == Value(a)
             t == Value(b)
  <2>1. Word(a, W) /\ Word(b, W)
    BY <1>1, VectorOperands DEF TwoVectors
  <2>2. s \in Int /\ t \in Int /\ Same(a, s, Pow(W)) /\ Same(b, t, Pow(W))
    BY <1>2, <2>1, ValueIsWord
  <2>3. e[i] = IF (op.o = "Max") = (s >= t) THEN s ELSE t
    BY DEF L1, L2
  <2>4. f[i] = IF (IF op.o = "Max" THEN s > t ELSE s < t) THEN a ELSE b
    <3>1. Create("ICmpGT", a, b) = Bool(s > t) /\ Create("ICmpLT", a, b) = Bool(s < t)
      BY DEF Create
    <3>2. f[i] = IF Create(cmp, a, b) = 1 THEN a ELSE b
      OBVIOUS
    <3> HIDE DEF f, a, b, s, t
    <3> QED BY <3>1, <3>2 DEF Bool
  <2> HIDE DEF f, e, a, b, s, t
  <2>5. CASE op.o = "Max"
    <3>1. CASE s > t
      BY <2>1, <2>2, <2>3, <2>4, <2>5, <3>1
    <3>2. CASE s = t
      BY <2>1, <2>2, <2>3, <2>4, <2>5, <3>2
    <3>3. CASE s < t
      BY <2>1, <2>2, <2>3, <2>4, <2>5, <3>3
    <3> QED BY <2>2, <3>1, <3>2, <3>3
  <2>6. CASE op.o # "Max"
    <3>1. CASE s < t
      BY <2>1, <2>2, <2>3, <2>4, <2>6, <3>1
    <3>2. CASE s >= t
      BY <2>1, <2>2, <2>3, <2>4, <2>6, <3>2
    <3> QED BY <2>2, <3>1, <3>2
  <2> QED BY <2>5, <2>6
<1> HIDE DEF f
<1>4. \A i \in 0 .. op.n - 1 : (Lanes(x, op.n, W)[i] - e[i]) % 2^W = 0
  <2> HIDE DEF e
  <2> QED BY <1>1, <1>3, LanesRight
<1> HIDE DEF x
<1>5. ComputedRight(x) <=> \A i \in 0 .. op.n - 1 : (Lanes(x, op.n, W)[i] - e[i]) % 2^W = 0
  BY <1>1 DEF ComputedRight, LanesAre
<1> QED BY <1>4, <1>5 DEF x

\* Different words stand for different numbers.
LEMMA ValueOnce ==
    ASSUME NEW x, NEW y, Word(x, W), Word(y, W), W \in Pos
    PROVE  Value(x) = Value(y) <=> x = y
<1>1. /\ x \in Nat /\ y \in Nat /\ Pow(W) \in Nat /\ x < Pow(W) /\ y < Pow(W)
      /\ Pow(W) = Pow(W - 1) + Pow(W - 1) /\ Pow(W - 1) \in Nat
  BY PowBefore DEF Word
<1>2. /\ Signed(x, W) = IF x < Pow(W - 1) THEN x ELSE x - Pow(W)
      /\ Signed(y, W) = IF y < Pow(W - 1) THEN y ELSE y - Pow(W)
  BY SignedIs
<1>3. Signed(x, W) = Signed(y, W) <=> x = y
  BY <1>1, <1>2
<1> QED BY <1>3 DEF Value

\* A comparison's bit, spread over a lane.
LEMMA BitSpread ==
    ASSUME NEW c, W \in Pos
    PROVE  Word(SExt(Bool(c), 1, W), W) /\ Same(SExt(Bool(c), 1, W), Ones(c), Pow(W))
<1>1. Signed(Bool(c), 1) = Ones(c) /\ Ones(c) \in Int
  <2>1. Word(Bool(c), 1) /\ 1 \in Pos
    BY PowOne DEF Bool, Word, Pos
  <2>2. Signed(Bool(c), 1) = IF Bool(c) < Pow(1 - 1) THEN Bool(c) ELSE Bool(c) - Pow(1)
    BY <2>1, SignedIs
  <2>3. 1 - 1 = 0
    OBVIOUS
  <2>4. Signed(Bool(c), 1) = IF Bool(c) < 1 THEN Bool(c) ELSE Bool(c) - 2
    BY <2>2, <2>3, PowZero, PowOne
  <2> QED BY <2>4 DEF Bool, Ones
<1>2. SExt(Bool(c), 1, W) = Trunc(Ones(c), W) /\ W \in Nat
  BY <1>1 DEF SExt, Pos
<1> QED BY <1>1, <1>2, TruncIs

LEMMA LaneComparisons ==
    ASSUME OperandsFit, OPV_CMP_EMIT
    PROVE  ComputedRight(res'.val)
<1> DEFINE x == res'.val
           f == [i \in 0 .. op.n - 1 |-> SExt(Create(op.o, V1[i], V2[i]), 1, W)]
           e == [i \in 0 .. op.n - 1 |-> Ones(IF op.o = "ICmpEQ" THEN L1(i) = L2(i) ELSE L1(i) > L2(i))]
<1>1. op.fam = "OPV_CMP" /\ x = Pack(f, op.n, W)
  BY ValueIs DEF OPV_CMP_EMIT, Family, EachLane
<1>2. W \in Pos /\ op.o \in {"ICmpEQ", "ICmpGT"}
  BY <1>1, EmittedIs DEF IntOpIs, Emitter
<1>3. ASSUME NEW i \in 0 .. op.n - 1 PROVE Word(f[i], W) /\ Same(f[i], e[i], Pow(W))
  <2> DEFINE a == V1[i]
             b == V2[i]
             c == IF op.o = "ICmpEQ" THEN Value(a) = Value(b) ELSE Value(a) > Value(b)
  <2>1. Word(a, W) /\ Word(b, W)
    BY <1>1, VectorOperands DEF TwoVectors
  <2>2. Value(a) = Value(b) <=> a = b
    BY <1>2, <2>1, ValueOnce
  <2>3. e[i] = Ones(c)
    BY DEF L1, L2
  <2>4. f[i] = SExt(Create(op.o, a, b), 1, W)
    OBVIOUS
  <2> HIDE DEF f, e, a, b
  <2>5. Create(op.o, a, b) = Bool(c)
    BY <1>2, <2>2 DEF Create, Bool
  <2> HIDE DEF c
  <2> QED BY <1>2, <2>3, <2>4, <2>5, BitSpread
<1> HIDE DEF f
<1>4. \A i \in 0 .. op.n - 1 : (Lanes(x, op.n, W)[i] - e[i]) % 2^W = 0
  <2> HIDE DEF e
  <2> QED BY <1>1, <1>3, LanesRight
<1> HIDE DEF x
<1>5. ComputedRight(x) <=> \A i \in 0 .. op.n - 1 : (Lanes(x, op.n, W)[i] - e[i]) % 2^W = 0
  BY <1>1 DEF ComputedRight, LanesAre
<1> QED BY <1>4, <1>5 DEF x

\* The upper half of a number cut to twice a width.
LEMMA UpperHalf ==
    ASSUME NEW m \in Pos, NEW z \in Int
    PROVE  (z % (m * m)) \div m = (z \div m) % m
<1> DEFINE q == (z \div m) % m
           r == z % m
<1>1. z \div m \in Int /\ r \in Int /\ 0 <= r /\ r < m
  BY DivIs
<1>2. q \in Int
  BY <1>1, DivIs
<1>3. m * m \in Pos /\ z % (m * m) = q * m + r
  BY DivTwice
<1>4. z % (m * m) \in Int
  BY <1>3, DivIs
<1> HIDE DEF q, r
<1>5. (z % (m * m)) \div m = q
  BY <1>1, <1>2, <1>3, <1>4, DivUnique
<1> QED BY <1>5 DEF q

LEMMA HighProducts ==
    ASSUME OperandsFit, OPV_EXT_EMIT
    PROVE  ComputedRight(res'.val)
<1> DEFINE x == res'.val
           p(a, b) == Mul(Ext(a, W, 2 * W), Ext(b, W, 2 * W), 2 * W)
           f == [i \in 0 .. op.n - 1 |-> Trunc(LShr(p(V1[i], V2[i]), W, 2 * W, junk), W)]
           e == [i \in 0 .. op.n - 1 |-> (L1(i) * L2(i)) \div 2^W]
<1>1. op.fam = "OPV_EXT" /\ x = Pack(f, op.n, W)
  BY ValueIs DEF OPV_EXT_EMIT, Family, EachLane
<1>2. W \in Pos /\ W \in Nat
  BY EmittedIs
<1>3. ASSUME NEW i \in 0 .. op.n - 1 PROVE Word(f[i], W) /\ Same(f[i], e[i], Pow(W))
  <2> DEFINE a == V1[i]
             b == V2[i]
             m == Pow(W)
             z == Value(a) * Value(b)
             y == p(a, b)
             d == z \div m
  <2>1. Word(a, W) /\ Word(b, W)
    BY <1>1, VectorOperands DEF TwoVectors
  <2>2. y = z % Pow(2 * W) /\ z \in Int
    BY <1>2, <2>1, FullProduct
  <2>3. Pow(2 * W) = m * m /\ m \in Pos
    <3>1. 2 * W = W + W
      BY <1>2
    <3> QED BY <1>2, <3>1, PowSum, PowPos
  <2>4. e[i] = d
    BY DEF L1, L2, Pow
  <2>5. f[i] = Trunc(y \div m, W)
    <3>1. f[i] = Trunc(LShr(y, W, 2 * W, junk), W)
      OBVIOUS
    <3>2. W < 2 * W
      BY <1>2 DEF Pos
    <3> HIDE DEF y, f
    <3>3. LShr(y, W, 2 * W, junk) = y \div m
      BY <3>2 DEF LShr, Pow
    <3> QED BY <3>1, <3>3
  <2> HIDE DEF a, b, y, z, m, f, e
  <2>6. y \div m = d % m /\ d \in Int
    BY <2>2, <2>3, UpperHalf, DivIs
  <2> HIDE DEF d
  <2> DEFINE g == d % m
  <2>7. g \in Int /\ Same(g, d, m)
    BY <2>3, <2>6, SameMod
  <2>8. f[i] = Trunc(g, W)
    BY <2>5, <2>6
  <2> HIDE DEF g
  <2> DEFINE t == Trunc(g, W)
  <2>9. Word(t, W) /\ Same(t, g, m) /\ t \in Int
    BY <1>2, <2>7, TruncIs DEF m
  <2> HIDE DEF t
  <2>10. Same(t, d, m)
    BY <2>3, <2>6, <2>7, <2>9, SameThrough
  <2> QED BY <2>4, <2>8, <2>9, <2>10 DEF t, m
<1> HIDE DEF f
<1>4. \A i \in 0 .. op.n - 1 : (Lanes(x, op.n, W)[i] - e[i]) % 2^W = 0
  <2> HIDE DEF e
  <2> QED BY <1>1, <1>3, LanesRight
<1> HIDE DEF x
<1>5. ComputedRight(x) <=> \A i \in 0 .. op.n - 1 : (Lanes(x, op.n, W)[i] - e[i]) % 2^W = 0
  BY <1>1 DEF ComputedRight, LanesAre
<1> QED BY <1>4, <1>5 DEF x

\* Half of a number that was cut to twice the width.
LEMMA HalfOf ==
    ASSUME NEW w \in Pos, NEW z \in Int, NEW y, y = z % Pow(2 * w), NEW j
    PROVE  /\ Word(Trunc(LShr(y, 1, 2 * w, j), w), w)
           /\ Same(Trunc(LShr(y, 1, 2 * w, j), w), z \div 2, Pow(w))
<1> DEFINE v == 2 * w
           k == v - 1
           m == Pow(v)
           p == Pow(k)
<1>1. w \in Nat /\ v \in Nat /\ k \in Nat /\ w <= k /\ 1 < v /\ v \in Pos
  BY DEF Pos
<1>2. m = p + p /\ p \in Nat /\ m \in Pos /\ Pow(w) \in Pos
  BY <1>1, PowBefore, PowPos
<1>3. LShr(y, 1, v, j) = y \div 2
  <2>1. LShr(y, 1, v, j) = y \div Pow(1)
    BY <1>1 DEF LShr, Pow
  <2> QED BY <2>1, PowOne
<1> HIDE DEF v, k, m, p
<1>4. y \in Int /\ Same(y, z, m)
  <2>1. y = z % m
    BY DEF m, v
  <2> QED BY <1>2, <2>1, SameMod
<1>5. PICK c \in Int : y = z + c * m
  BY <1>2, <1>4, SameIs
<1> DEFINE d == y \div 2
           e == z \div 2
<1>6. d = e + c * p /\ c * p \in Int /\ d \in Int /\ e \in Int
  <2>1. c * p \in Int /\ c * m = (c * p) * 2
    BY <1>2
  <2>2. 2 \in Pos
    BY DEF Pos
  <2>3. (z + (c * p) * 2) \div 2 = (z \div 2) + c * p
    BY <2>1, <2>2, DivAdd
  <2>4. d \in Int /\ e \in Int
    BY <1>4, <2>2, DivIs
  <2> QED BY <1>5, <2>1, <2>3, <2>4
<1> HIDE DEF d, e
<1>7. Same(d, e, p) /\ p \in Pos
  <2>1. p \in Pos
    BY <1>1, PowPos DEF p
  <2> QED BY <1>6, <2>1, SameIs
<1>8. Same(d, e, Pow(w))
  BY <1>1, <1>6, <1>7, SameLess DEF p
<1> DEFINE t == Trunc(d, w)
<1>9. Word(t, w) /\ Same(t, d, Pow(w)) /\ t \in Int
  BY <1>1, <1>6, TruncIs
<1> HIDE DEF t
<1>10. Same(t, e, Pow(w))
  BY <1>2, <1>6, <1>8, <1>9, SameThrough
<1> QED BY <1>3, <1>9, <1>10 DEF t, d, e, v

\* Sums and differences of extended operands.
LEMMA WideSums ==
    ASSUME NEW v \in Nat, v > W, W \in Pos, NEW x, NEW y, Word(x, W), Word(y, W)
    PROVE  /\ Value(x) \in Int /\ Value(y) \in Int
           /\ Add(Ext(x, W, v), Ext(y, W, v), v) = (Value(x) + Value(y)) % Pow(v)
           /\ Sub(Ext(x, W, v), Ext(y, W, v), v) = (Value(x) - Value(y)) % Pow(v)
<1> DEFINE a == Ext(x, W, v)
           b == Ext(y, W, v)
           s == Value(x)
           t == Value(y)
<1>1. Word(a, v) /\ Word(b, v) /\ s \in Int /\ t \in Int /\ Same(a, s, Pow(v)) /\ Same(b, t, Pow(v))
  BY Extended, ValueReads
<1>2. a \in Int /\ b \in Int /\ Pow(v) \in Pos
  BY <1>1, PowPos DEF Word
<1> HIDE DEF a, b, s, t
<1>3. Same(a + b, s + t, Pow(v)) /\ Same(a - b, s - t, Pow(v))
  BY <1>1, <1>2, SameAdd
<1>4. a + b \in Int /\ s + t \in Int /\ a - b \in Int /\ s - t \in Int
  BY <1>1, <1>2
<1>5. (a + b) % Pow(v) = (s + t) % Pow(v) /\ (a - b) % Pow(v) = (s - t) % Pow(v)
  BY <1>2, <1>3, <1>4, SameRest
<1> QED BY <1>1, <1>5 DEF Add, Sub, Trunc, Pow, a, b, s, t

LEMMA Averages ==
    ASSUME OperandsFit, OPAVG_EMIT
    PROVE  ComputedRight(res'.val)
<1> DEFINE x == res'.val
           w == 2 * W
           g(a, b) == Add(Add(Ext(a, W, w), Ext(b, W, w), w), 1, w)
           f == [i \in 0 .. op.n - 1 |-> Trunc(LShr(g(V1[i], V2[i]), 1, w, junk), W)]
           e == [i \in 0 .. op.n - 1 |-> (L1(i) + L2(i) + 1) \div 2]
<1>1. op.fam = "OPAVG" /\ x = Pack(f, op.n, W)
  BY ValueIs DEF OPAVG_EMIT, Family, EachLane
<1>2. W \in Pos /\ W \in Nat /\ w \in Nat /\ w > W
  BY EmittedIs DEF Pos
<1>3. ASSUME NEW i \in 0 .. op.n - 1 PROVE Word(f[i], W) /\ Same(f[i], e[i], Pow(W))
  <2> DEFINE a == V1[i]
             b == V2[i]
             z == Value(a) + Value(b)
             y == z % Pow(w)
             s == g(a, b)
  <2>1. Word(a, W) /\ Word(b, W)
    BY <1>1, VectorOperands DEF TwoVectors
  <2> HIDE DEF w
  <2>2. Add(Ext(a, W, w), Ext(b, W, w), w) = y /\ z \in Int
    BY <1>2, <2>1, WideSums
  <2>3. s = (y + 1) % Pow(w)
    BY <2>2 DEF Add, Trunc, Pow
  <2>4. f[i] = Trunc(LShr(s, 1, w, junk), W) /\ e[i] = (z + 1) \div 2
    BY DEF L1, L2
  <2> HIDE DEF f, e, s, a, b, z, g
  <2>5. Pow(w) \in Pos
    BY <1>2, PowPos
  <2>6. y \in Int /\ Same(y, z, Pow(w)) /\ 1 \in Int /\ Same(1, 1, Pow(w))
    BY <2>2, <2>5, SameMod, SameSelf
  <2> HIDE DEF y
  <2>7. Same(y + 1, z + 1, Pow(w)) /\ y + 1 \in Int /\ z + 1 \in Int
    BY <2>2, <2>5, <2>6, SameAdd
  <2>8. s = (z + 1) % Pow(w)
    BY <2>3, <2>5, <2>7, SameRest
  <2> DEFINE z1 == z + 1
  <2>9. z1 \in Int /\ s = z1 % Pow(2 * W) /\ w = 2 * W /\ e[i] = z1 \div 2
    BY <2>4, <2>7, <2>8 DEF w
  <2> HIDE DEF z1
  <2> QED BY <1>2, <2>4, <2>9, HalfOf
<1> HIDE DEF f
<1>4. \A i \in 0 .. op.n - 1 : (Lanes(x, op.n, W)[i] - e[i]) % 2^W = 0
  <2> HIDE DEF e
  <2> QED BY <1>1, <1>3, LanesRight
<1> HIDE DEF x
<1>5. ComputedRight(x) <=> \A i \in 0 .. op.n - 1 : (Lanes(x, op.n, W)[i] - e[i]) % 2^W = 0
  BY <1>1 DEF ComputedRight, LanesAre
<1> QED BY <1>4, <1>5 DEF x

LEMMA HalvedSums ==
    ASSUME OperandsFit, OPHOP_EMIT
    PROVE  ComputedRight(res'.val)
<1> DEFINE x == res'.val
           w == 2 * W
           g(a, b) == IF op.o = "Add" THEN Add(Ext(a, W, w), Ext(b, W, w), w)
                      ELSE Sub(Ext(a, W, w), Ext(b, W, w), w)
           f == [i \in 0 .. op.n - 1 |-> Trunc(LShr(g(V1[i], V2[i]), 1, w, junk), W)]
           e == [i \in 0 .. op.n - 1 |-> (IF op.o = "Add" THEN L1(i) + L2(i) ELSE L1(i) - L2(i)) \div 2]
<1>1. op.fam = "OPHOP" /\ x = Pack(f, op.n, W)
  BY ValueIs DEF OPHOP_EMIT, Family, EachLane
<1>2. W \in Pos /\ W \in Nat /\ w \in Nat /\ w > W
  BY EmittedIs DEF Pos
<1>3. ASSUME NEW i \in 0 .. op.n - 1 PROVE Word(f[i], W) /\ Same(f[i], e[i], Pow(W))
  <2> DEFINE a == V1[i]
             b == V2[i]
             z == IF op.o = "Add" THEN Value(a) + Value(b) ELSE Value(a) - Value(b)
             s == g(a, b)
  <2>1. Word(a, W) /\ Word(b, W)
    BY <1>1, VectorOperands DEF TwoVectors
  <2> HIDE DEF w
  <2>2. s = z % Pow(w) /\ z \in Int
    BY <1>2, <2>1, WideSums
  <2>3. f[i] = Trunc(LShr(s, 1, w, junk), W) /\ e[i] = z \div 2
    BY DEF L1, L2
  <2> HIDE DEF f, e, s, a, b, z, g
  <2>4. s = z % Pow(2 * W) /\ w = 2 * W
    BY <2>2 DEF w
  <2> QED BY <1>2, <2>2, <2>3, <2>4, HalfOf
<1> HIDE DEF f
<1>4. \A i \in 0 .. op.n - 1 : (Lanes(x, op.n, W)[i] - e[i]) % 2^W = 0
  <2> HIDE DEF e
  <2> QED BY <1>1, <1>3, LanesRight
<1> HIDE DEF x
<1>5. ComputedRight(x) <=> \A i \in 0 .. op.n - 1 : (Lanes(x, op.n, W)[i] - e[i]) % 2^W = 0
  BY <1>1 DEF ComputedRight, LanesAre
<1> QED BY <1>4, <1>5 DEF x

\* A word cut to fewer bits, and the signed number it stood for.
LEMMA CutSigned ==
    ASSUME NEW v \in Pos, NEW w \in Nat, w <= v, NEW r, Word(r, v)
    PROVE  Word(Trunc(r, w), w) /\ Same(Trunc(r, w), Signed(r, v), Pow(w))
<1> DEFINE s == Signed(r, v)
           t == Trunc(r, w)
<1>1. r \in Int /\ s \in Int /\ Same(s, r, Pow(v)) /\ v \in Nat /\ Pow(v) \in Pos /\ Pow(w) \in Pos
  BY SignedIs, SignedSame, PowPos DEF Word, Pos
<1>2. Word(t, w) /\ Same(t, r, Pow(w)) /\ t \in Int
  BY <1>1, TruncIs
<1> HIDE DEF s, t
<1>3. Same(r, s, Pow(w))
  BY <1>1, SameLess, SameTurned
<1>4. Same(t, s, Pow(w))
  BY <1>1, <1>2, <1>3, SameThrough
<1> QED BY <1>2, <1>4 DEF s, t

\* Clamped between two words compared as signed.
LEMMA Clamped ==
    ASSUME NEW v \in Pos, NEW r, NEW lo, NEW hi, Word(r, v), Word(lo, v), Word(hi, v),
           Signed(lo, v) <= Signed(hi, v), NEW w \in Nat, w <= v
    PROVE  LET a == IF Signed(r, v) > Signed(hi, v) THEN hi ELSE r
               b == IF Signed(a, v) < Signed(lo, v) THEN lo ELSE a
           IN  Word(Trunc(b, w), w) /\ Same(Trunc(b, w), Clamp(Signed(r, v), Signed(lo, v), Signed(hi, v)), Pow(w))
<1> DEFINE a == IF Signed(r, v) > Signed(hi, v) THEN hi ELSE r
           b == IF Signed(a, v) < Signed(lo, v) THEN lo ELSE a
           c == Clamp(Signed(r, v), Signed(lo, v), Signed(hi, v))
<1>1. Signed(r, v) \in Int /\ Signed(lo, v) \in Int /\ Signed(hi, v) \in Int
  BY SignedIs
<1>2. Word(b, v) /\ Signed(b, v) = c
  <2>1. CASE Signed(r, v) > Signed(hi, v)
    <3>1. a = hi /\ b = hi /\ c = Signed(hi, v)
      BY <1>1, <2>1 DEF Clamp
    <3> QED BY <3>1
  <2>2. CASE ~(Signed(r, v) > Signed(hi, v))
    <3>1. a = r
      BY <2>2
    <3>2. CASE Signed(r, v) < Signed(lo, v)
      <4>1. b = lo /\ c = Signed(lo, v)
        BY <1>1, <3>1, <3>2 DEF Clamp
      <4> QED BY <4>1
    <3>3. CASE ~(Signed(r, v) < Signed(lo, v))
      <4>1. b = r /\ c = Signed(r, v)
        BY <1>1, <2>2, <3>1, <3>3 DEF Clamp
      <4> QED BY <4>1
    <3> QED BY <3>2, <3>3
  <2> QED BY <2>1, <2>2
<1> HIDE DEF b, c
<1>3. Word(Trunc(b, w), w) /\ Same(Trunc(b, w), Signed(b, v), Pow(w))
  BY <1>2, CutSigned
<1> QED BY <1>2, <1>3 DEF b, c

\* Saturation of one lane, computed with one bit more.
LEMMA Saturated ==
    ASSUME W \in Pos, NEW x, NEW y, Word(x, W), Word(y, W), op.s \in {"S", "U"}
    PROVE  LET w == W + 1
               max == Ext(IF op.s = "S" THEN 2^(W - 1) - 1 ELSE 2^W - 1, W, w)
               min == Ext(IF op.s = "S" THEN 2^(W - 1) ELSE 0, W, w)
               part == IF op.o = "Add" THEN Add(Ext(x, W, w), Ext(y, W, w), w)
                       ELSE Sub(Ext(x, W, w), Ext(y, W, w), w)
               high == IF (IF op.s = "S" THEN Signed(part, w) > Signed(max, w)
                           ELSE op.o = "Add" /\ part > max)
                       THEN max ELSE part
               low == IF (op.s = "S" \/ op.o = "Sub") /\ Signed(high, w) < Signed(min, w)
                      THEN min ELSE high
               z == IF op.o = "Add" THEN Value(x) + Value(y) ELSE Value(x) - Value(y)
               c == IF op.s = "S" THEN Clamp(z, -(2^(W - 1)), 2^(W - 1) - 1) ELSE Clamp(z, 0, 2^W - 1)
           IN  op.o \in {"Add", "Sub"} => Word(Trunc(low, W), W) /\ Same(Trunc(low, W), c, Pow(W))
<1> DEFINE w == W + 1
           h == Pow(W - 1)
           m == Pow(W)
           max == Ext(IF op.s = "S" THEN h - 1 ELSE m - 1, W, w)
           min == Ext(IF op.s = "S" THEN h ELSE 0, W, w)
           part == IF op.o = "Add" THEN Add(Ext(x, W, w), Ext(y, W, w), w)
                   ELSE Sub(Ext(x, W, w), Ext(y, W, w), w)
           high == IF (IF op.s = "S" THEN Signed(part, w) > Signed(max, w)
                       ELSE op.o = "Add" /\ part > max)
                   THEN max ELSE part
           low == IF (op.s = "S" \/ op.o = "Sub") /\ Signed(high, w) < Signed(min, w)
                  THEN min ELSE high
           z == IF op.o = "Add" THEN Value(x) + Value(y) ELSE Value(x) - Value(y)
           c == IF op.s = "S" THEN Clamp(z, -h, h - 1) ELSE Clamp(z, 0, m - 1)
<1> SUFFICES ASSUME op.o \in {"Add", "Sub"} PROVE Word(Trunc(low, W), W) /\ Same(Trunc(low, W), c, m)
  BY DEF Pow
<1>1. W \in Nat /\ w \in Nat /\ w > W /\ w \in Pos /\ w - 1 = W /\ W <= w
  BY DEF Pos
<1> HIDE DEF w
<1>2. m = h + h /\ m \in Nat /\ h \in Nat /\ h >= 1 /\ Pow(w) = m + m /\ Pow(w - 1) = m
  <2>1. m = h + h /\ m \in Nat /\ h \in Nat /\ h >= 1
    BY PowBefore
  <2>2. Pow(w) = Pow(w - 1) + Pow(w - 1)
    BY <1>1, PowBefore
  <2> QED BY <1>1, <2>1, <2>2
<1>3. /\ part = z % Pow(w) /\ z \in Int /\ Value(x) \in Int /\ Value(y) \in Int
  BY <1>1, WideSums
<1>4. /\ x \in Nat /\ y \in Nat /\ x < m /\ y < m
      /\ Signed(x, W) \in Int /\ Signed(y, W) \in Int
      /\ -h <= Signed(x, W) /\ Signed(x, W) < h /\ -h <= Signed(y, W) /\ Signed(y, W) < h
  BY SignedIs DEF Word
<1>5. CASE op.s = "S"
  <2>1. Value(x) = Signed(x, W) /\ Value(y) = Signed(y, W)
    BY <1>5 DEF Value
  <2> HIDE DEF h, m
  <2>2. -m <= z /\ z < m
    BY <1>2, <1>4, <2>1
  <2>3. Word(h - 1, W) /\ Word(h, W)
    BY <1>2 DEF Word, m
  <2>4. Signed(h - 1, W) = h - 1 /\ Signed(h, W) = -h
    <3>1. Signed(h - 1, W) = IF h - 1 < h THEN h - 1 ELSE h - 1 - m
      BY <2>3, SignedIs DEF h, m
    <3>2. Signed(h, W) = IF h < h THEN h ELSE h - m
      BY <2>3, SignedIs DEF h, m
    <3> QED BY <1>2, <3>1, <3>2
  <2>5. max = Ext(h - 1, W, w) /\ min = Ext(h, W, w)
    BY <1>5
  <2> HIDE DEF part, z, max, min
  <2>6. Word(max, w) /\ Word(min, w) /\ Signed(max, w) = h - 1 /\ Signed(min, w) = -h
    <3>1. Reads(h - 1, W) = h - 1 /\ Reads(h, W) = -h
      BY <1>5, <2>4 DEF Reads
    <3> QED BY <1>1, <2>3, <2>5, <3>1, Extended
  <2>7. Word(part, w) /\ Signed(part, w) = z
    BY <1>1, <1>2, <1>3, <2>2, SignedBack
  <2>8. low = LET a == IF Signed(part, w) > Signed(max, w) THEN max ELSE part
              IN  IF Signed(a, w) < Signed(min, w) THEN min ELSE a
    BY <1>5
  <2>9. c = Clamp(Signed(part, w), Signed(min, w), Signed(max, w))
    BY <1>5, <2>6, <2>7
  <2>10. Signed(min, w) <= Signed(max, w)
    BY <1>2, <2>6
  <2> HIDE DEF c
  <2> QED BY <1>1, <2>6, <2>7, <2>8, <2>9, <2>10, Clamped DEF m
<1>6. CASE op.s = "U"
  <2>1. Value(x) = x /\ Value(y) = y /\ max = m - 1 /\ min = 0
    BY <1>6 DEF Value, Ext
  <2> HIDE DEF h, m, part, z, max, min
  <2>2. c = Clamp(z, 0, m - 1)
    BY <1>6
  <2>3. Word(max, w) /\ Word(max, W) /\ Word(0, w) /\ Word(0, W) /\ max \in Int /\ m \in Pos
    BY <1>2, <2>1 DEF Word, m, Pos
  <2>4. CASE op.o = "Add"
    <3>1. z = x + y /\ 0 <= z /\ z < Pow(w)
      BY <1>2, <1>4, <2>1, <2>4 DEF z
    <3>2. part = z
      <4>1. Pow(w) \in Pos
        BY <1>1, PowPos
      <4> QED BY <1>3, <3>1, <4>1, ModSmall
    <3>3. low = IF z > m - 1 THEN m - 1 ELSE z
      BY <1>6, <2>1, <2>4, <3>2
    <3>4. c = IF z > m - 1 THEN m - 1 ELSE z
      BY <1>2, <1>3, <2>2, <3>1 DEF Clamp
    <3> HIDE DEF low, c
    <3>5. Word(low, W) /\ low = c
      BY <1>2, <1>3, <2>1, <2>3, <3>1, <3>3, <3>4 DEF Word, m
    <3>6. Trunc(low, W) = low /\ low \in Int
      BY <1>1, <3>5, TruncSmall DEF Word
    <3> QED BY <2>3, <3>5, <3>6, SameSelf
  <2>5. CASE op.o = "Sub"
    <3>1. z = x - y /\ -m <= z /\ z < m
      BY <1>2, <1>4, <2>1, <2>5 DEF z
    <3>2. Word(part, w) /\ Signed(part, w) = z
      BY <1>1, <1>2, <1>3, <3>1, SignedBack
    <3>3. Signed(0, w) = 0
      <4>1. Signed(0, w) = IF 0 < m THEN 0 ELSE 0 - Pow(w)
        BY <1>1, <1>2, <2>3, SignedIs
      <4> QED BY <1>2, <4>1
    <3>4. low = IF z < 0 THEN 0 ELSE part
      BY <1>6, <2>1, <2>5, <3>2, <3>3
    <3>5. c = IF z < 0 THEN 0 ELSE z
      BY <1>2, <1>3, <2>2, <3>1 DEF Clamp
    <3> HIDE DEF low, c
    <3>6. Word(low, w) /\ Signed(low, w) = c
      BY <2>3, <3>2, <3>3, <3>4, <3>5
    <3> QED BY <1>1, <3>6, CutSigned DEF m
  <2> QED BY <2>4, <2>5
<1> QED BY <1>5, <1>6

LEMMA Saturations ==
    ASSUME OperandsFit, OPSAT_EMIT
    PROVE  ComputedRight(res'.val)
<1> DEFINE x == res'.val
           w == W + 1
           max == Ext(IF op.s = "S" THEN 2^(W - 1) - 1 ELSE 2^W - 1, W, w)
           min == Ext(IF op.s = "S" THEN 2^(W - 1) ELSE 0, W, w)
           part(a, b) == IF op.o = "Add" THEN Add(Ext(a, W, w), Ext(b, W, w), w)
                         ELSE Sub(Ext(a, W, w), Ext(b, W, w), w)
           high(d) == IF (IF op.s = "S" THEN Signed(d, w) > Signed(max, w)
                          ELSE op.o = "Add" /\ d > max)
                      THEN max ELSE d
           low(d) == IF (op.s = "S" \/ op.o = "Sub") /\ Signed(d, w) < Signed(min, w)
                     THEN min ELSE d
           f == [i \in 0 .. op.n - 1 |-> Trunc(low(high(part(V1[i], V2[i]))), W)]
           z(i) == IF op.o = "Add" THEN L1(i) + L2(i) ELSE L1(i) - L2(i)
           e == [i \in 0 .. op.n - 1 |-> IF op.s = "S" THEN Clamp(z(i), -(2^(W - 1)), 2^(W - 1) - 1)
                                         ELSE Clamp(z(i), 0, 2^W - 1)]
<1>1. op.fam = "OPSAT" /\ x = Pack(f, op.n, W)
  BY ValueIs DEF OPSAT_EMIT, Family, EachLane
<1>2. W \in Pos /\ op.o \in {"Add", "Sub"} /\ op.s \in {"S", "U"}
  BY <1>1, EmittedIs DEF IntOpIs, Emitter
<1>3. ASSUME NEW i \in 0 .. op.n - 1 PROVE Word(f[i], W) /\ Same(f[i], e[i], Pow(W))
  <2> DEFINE a == V1[i]
             b == V2[i]
             c == IF op.o = "Add" THEN Value(a) + Value(b) ELSE Value(a) - Value(b)
             r == Trunc(low(high(part(a, b))), W)
             s == IF op.s = "S" THEN Clamp(c, -(2^(W - 1)), 2^(W - 1) - 1) ELSE Clamp(c, 0, 2^W - 1)
  <2>1. Word(a, W) /\ Word(b, W)
    BY <1>1, VectorOperands DEF TwoVectors
  <2>2. f[i] = r /\ e[i] = s
    BY DEF L1, L2
  <2> HIDE DEF f, e, a, b
  <2>3. Word(r, W) /\ Same(r, s, Pow(W))
    BY <1>2, <2>1, Saturated
  <2> QED BY <2>2, <2>3
<1> HIDE DEF f
<1>4. \A i \in 0 .. op.n - 1 : (Lanes(x, op.n, W)[i] - e[i]) % 2^W = 0
  <2> HIDE DEF e
  <2> QED BY <1>1, <1>3, LanesRight
<1> HIDE DEF x
<1>5. ComputedRight(x) <=> \A i \in 0 .. op.n - 1 : (Lanes(x, op.n, W)[i] - e[i]) % 2^W = 0
  BY <1>1 DEF ComputedRight, LanesAre
<1> QED BY <1>4, <1>5 DEF x

\* A lane narrowed to half its width, clamped between signed bounds.
NarrowUpper(h) == IF op.s = "S" THEN 2^(h - 1) - 1 ELSE 2^h - 1
NarrowLower(h) == IF op.s = "S" THEN 2^W - 2^(h - 1) ELSE 0
NarrowHigh(y, h) == IF Signed(y, W) > Signed(NarrowUpper(h), W) THEN NarrowUpper(h) ELSE y
NarrowLow(y, h) == IF Signed(y, W) < Signed(NarrowLower(h), W) THEN NarrowLower(h) ELSE y
NarrowLane(y, h) == Trunc(NarrowLow(NarrowHigh(y, h), h), h)
NarrowTo(y, h) == IF op.s = "S" THEN Clamp(Signed(y, W), -(2^(h - 1)), 2^(h - 1) - 1)
                  ELSE Clamp(Signed(y, W), 0, 2^h - 1)

LEMMA NarrowLaneIs ==
    ASSUME W \in Pos, NEW h \in Pos, W = 2 * h, NEW y, Word(y, W)
    PROVE  Word(NarrowLane(y, h), h) /\ Same(NarrowLane(y, h), NarrowTo(y, h), Pow(h))
<1> DEFINE p == Pow(h - 1)
           q == Pow(h)
           t == Pow(W - 1)
           m == Pow(W)
           hi == NarrowUpper(h)
           lo == NarrowLower(h)
<1>1. h \in Nat /\ W \in Nat /\ h <= W - 1 /\ W - 1 \in Nat /\ h <= W
  BY DEF Pos
<1>2. /\ q = p + p /\ p \in Nat /\ p >= 1 /\ q \in Nat
      /\ m = t + t /\ t \in Nat /\ m \in Nat /\ q <= t
  <2>1. q = p + p /\ p \in Nat /\ p >= 1 /\ q \in Nat
    BY PowBefore
  <2>2. m = t + t /\ t \in Nat /\ m \in Nat
    BY PowBefore
  <2>3. q <= t
    BY <1>1, PowMono
  <2> QED BY <2>1, <2>2, <2>3
<1>3. hi = (IF op.s = "S" THEN p - 1 ELSE q - 1) /\ lo = (IF op.s = "S" THEN m - p ELSE 0)
  BY DEF Pow, NarrowUpper, NarrowLower
<1> HIDE DEF p, q, t, m, hi, lo
<1>4. Word(hi, W) /\ Word(lo, W) /\ hi < t
  BY <1>2, <1>3 DEF Word, m
<1>5. /\ Signed(hi, W) = IF hi < t THEN hi ELSE hi - m
      /\ Signed(lo, W) = IF lo < t THEN lo ELSE lo - m
  BY <1>4, SignedIs DEF t, m
<1>6. Signed(hi, W) = hi /\ Signed(lo, W) = (IF op.s = "S" THEN -p ELSE 0)
  BY <1>2, <1>3, <1>4, <1>5
<1>7. Signed(lo, W) <= Signed(hi, W)
  BY <1>2, <1>3, <1>6
<1>8. NarrowTo(y, h) = Clamp(Signed(y, W), Signed(lo, W), Signed(hi, W))
  BY <1>3, <1>6 DEF NarrowTo, Pow, p, q
<1>9. NarrowLane(y, h) = LET a == IF Signed(y, W) > Signed(hi, W) THEN hi ELSE y
                           b == IF Signed(a, W) < Signed(lo, W) THEN lo ELSE a
                       IN  Trunc(b, h)
  BY DEF NarrowLane, NarrowHigh, NarrowLow, hi, lo
<1>10. LET a == IF Signed(y, W) > Signed(hi, W) THEN hi ELSE y
           b == IF Signed(a, W) < Signed(lo, W) THEN lo ELSE a
       IN  Word(Trunc(b, h), h) /\ Same(Trunc(b, h), Clamp(Signed(y, W), Signed(lo, W), Signed(hi, W)), Pow(h))
  BY <1>1, <1>4, <1>7, Clamped
<1> QED BY <1>8, <1>9, <1>10

LEMMA Narrowings ==
    ASSUME OperandsFit, OPNRWSS_EMIT
    PROVE  ComputedRight(res'.val)
<1> DEFINE x == res'.val
           n == op.n
           h == W \div 2
           f == [i \in 0 .. 2 * n - 1 |-> IF i < n THEN NarrowLane(V2[i], h) ELSE NarrowLane(V1[i - n], h)]
<1>1. op.fam = "OPNRWSS" /\ x = Pack(f, 2 * n, h)
  BY ValueIs DEF OPNRWSS_EMIT, Family, NarrowLane, NarrowHigh, NarrowLow, NarrowUpper, NarrowLower
<1>2. W \in Pos /\ h \in Pos /\ W = 2 * h /\ n \in Nat /\ h \in Nat
  <2>1. op.w \in {16, 32} /\ unit \in Bytes /\ n \in Nat /\ W \in Pos
    BY <1>1, EmittedIs DEF IntOpIs, Emitter
  <2>2. W = 2 * unit \/ W = 4 * unit
    BY <2>1, WidthIs DEF W
  <2>3. unit \in {1, 2, 4, 8}
    BY <2>1 DEF Bytes
  <2> QED BY <2>1, <2>2, <2>3 DEF Pos
<1> HIDE DEF h
<1>3. \A i \in 0 .. n - 1 : Word(V1[i], W) /\ Word(V2[i], W)
  BY <1>1, VectorOperands DEF TwoVectors
<1>4. ASSUME NEW i \in 0 .. n - 1
      PROVE  /\ Word(NarrowLane(V1[i], h), h) /\ Same(NarrowLane(V1[i], h), NarrowTo(V1[i], h), Pow(h))
             /\ Word(NarrowLane(V2[i], h), h) /\ Same(NarrowLane(V2[i], h), NarrowTo(V2[i], h), Pow(h))
  BY <1>2, <1>3, NarrowLaneIs
<1>5. ASSUME NEW i \in 0 .. n - 1 PROVE f[i] = NarrowLane(V2[i], h) /\ f[n + i] = NarrowLane(V1[i], h)
  <2>1. i \in 0 .. 2 * n - 1 /\ n + i \in 0 .. 2 * n - 1 /\ i < n /\ ~(n + i < n) /\ (n + i) - n = i
    BY <1>2
  <2> QED BY <2>1
<1>6. ASSUME NEW i \in 0 .. 2 * n - 1 PROVE Word(f[i], h)
  <2>1. CASE i < n
    <3>1. i \in 0 .. n - 1
      BY <1>2, <2>1
    <3> QED BY <1>4, <1>5, <3>1
  <2>2. CASE ~(i < n)
    <3>1. i - n \in 0 .. n - 1 /\ f[i] = NarrowLane(V1[i - n], h)
      BY <1>2, <2>2
    <3> QED BY <1>4, <3>1
  <2> QED BY <2>1, <2>2
<1> HIDE DEF f
<1>7. \A i \in 0 .. 2 * n - 1 : Lanes(x, 2 * n, h)[i] = f[i]
  <2>1. 2 * n \in Nat
    BY <1>2
  <2> QED BY <1>1, <1>2, <1>6, <2>1, PackedLanes
<1>8. ASSUME NEW i \in 0 .. n - 1
      PROVE  /\ Same(Lanes(x, 2 * n, h)[i], NarrowTo(V2[i], h), Pow(h))
             /\ Same(Lanes(x, 2 * n, h)[n + i], NarrowTo(V1[i], h), Pow(h))
  <2>1. i \in 0 .. 2 * n - 1 /\ n + i \in 0 .. 2 * n - 1
    BY <1>2
  <2> QED BY <1>4, <1>5, <1>7, <2>1
<1> HIDE DEF x
<1>9. ComputedRight(x) <=> \A i \in 0 .. n - 1 :
                              /\ (Lanes(x, 2 * n, h)[i] - NarrowTo(V2[i], h)) % 2^h = 0
                              /\ (Lanes(x, 2 * n, h)[n + i] - NarrowTo(V1[i], h)) % 2^h = 0
  BY <1>1 DEF ComputedRight, NarrowTo, h
<1> QED BY <1>8, <1>9 DEF Same, Pow, x

\* The loop that counts zeros: the word is shifted until the bit appears.
CountStep(y) == IF op.o = "Ctz" THEN y \div 2 ELSE Shl(y, 1, W, junk)
CountFound(y) == IF op.o = "Ctz" THEN y % 2 = 1 ELSE y >= 2^(W - 1)
Counts(g) == g = [i \in 0 .. W |-> IF i = 0 THEN args[1] ELSE CountStep(g[i - 1])]
First(g, i) == CountFound(g[i]) /\ \A j \in 0 .. i - 1 : ~CountFound(g[j])

LEMMA CountRuns ==
    ASSUME W \in Nat, W > 1, args[1] \in Nat
    PROVE  \E g : Counts(g) /\ g[0] = args[1] /\ \A i \in 0 .. W - 1 : g[i] \in Nat /\ g[i + 1] = CountStep(g[i])
<1> DEFINE t == [i \in 1 .. W |-> [y \in Nat |-> CountStep(y)]]
<1>1. \A i \in 1 .. W, y \in Nat : t[i][y] = CountStep(y)
  OBVIOUS
<1>2. ASSUME NEW y \in Nat PROVE CountStep(y) \in Nat
  <2>1. y \div 2 \in Nat
    OBVIOUS
  <2>2. Shl(y, 1, W, junk) = (y % Pow(W - 1)) * Pow(1)
    BY DEF Shl, Pow
  <2>3. Pow(W - 1) \in Pos
    BY PowPos
  <2>4. y % Pow(W - 1) \in Nat
    BY <2>3, DivIs
  <2>5. (y % Pow(W - 1)) * Pow(1) \in Nat
    BY <2>4, PowOne
  <2> QED BY <2>1, <2>2, <2>5 DEF CountStep
<1> HIDE DEF t
<1>3. Stays(W, Nat, t)
  BY <1>1, <1>2 DEF Stays
<1>4. PICK g : Runs(g, W, Nat, args[1], t)
  BY <1>3, Loops
<1>5. \A i \in 1 .. W : g[i - 1] \in Nat /\ g[i] = CountStep(g[i - 1])
  <2>1. \A i \in 1 .. W : g[i - 1] \in Nat
    BY <1>4 DEF Runs
  <2> QED BY <1>1, <1>4, <2>1, Zenon DEF Runs
<1>6. g = [i \in 0 .. W |-> IF i = 0 THEN args[1] ELSE CountStep(g[i - 1])] /\ g[0] = args[1]
  BY <1>4, <1>5 DEF Runs
<1>7. ASSUME NEW i \in 0 .. W - 1 PROVE g[i] \in Nat /\ g[i + 1] = CountStep(g[i])
  <2>1. i + 1 \in 1 .. W /\ (i + 1) - 1 = i
    OBVIOUS
  <2> QED BY <1>5, <2>1
<1> QED BY <1>6, <1>7 DEF Counts

\* The first member of a set of numbers.
LEMMA FirstOf ==
    ASSUME NEW P, NEW n \in Nat, \E i \in 0 .. n - 1 : i \in P
    PROVE  \E i \in 0 .. n - 1 : i \in P /\ \A j \in 0 .. i - 1 : j \notin P
<1> DEFINE S == {k \in Nat : \/ \A j \in 0 .. k - 1 : j \notin P
                             \/ \E i \in 0 .. k - 1 : i \in P /\ \A j \in 0 .. i - 1 : j \notin P}
<1>1. 0 \in S
  OBVIOUS
<1>2. ASSUME NEW k \in S PROVE k + 1 \in S
  <2>1. k \in Nat
    OBVIOUS
  <2>2. CASE \E i \in 0 .. k - 1 : i \in P /\ \A j \in 0 .. i - 1 : j \notin P
    <3>1. PICK i \in 0 .. k - 1 : i \in P /\ \A j \in 0 .. i - 1 : j \notin P
      BY <2>2
    <3>2. i \in 0 .. (k + 1) - 1
      BY <2>1
    <3> QED BY <2>1, <3>1, <3>2
  <2>3. CASE \A j \in 0 .. k - 1 : j \notin P
    <3>1. k \in 0 .. (k + 1) - 1
      BY <2>1
    <3>2. CASE k \in P
      BY <2>1, <2>3, <3>1, <3>2
    <3>3. CASE k \notin P
      <4>1. \A j \in 0 .. (k + 1) - 1 : j = k \/ j \in 0 .. k - 1
        BY <2>1
      <4> QED BY <2>1, <2>3, <3>3, <4>1
    <3> QED BY <3>2, <3>3
  <2> QED BY <2>2, <2>3
<1> HIDE DEF S
<1>3. S \in SUBSET Nat
  BY DEF S
<1>4. S = Nat
  BY <1>1, <1>2, <1>3, ByInduction
<1> QED BY <1>4 DEF S

\* A number whose low bits are clear.
LEMMA LowBitsClear ==
    ASSUME NEW a \in Nat, NEW k \in Nat, \A j \in 0 .. k - 1 : Bit(a, j) = 0
    PROVE  a % Pow(k) = 0
<1> DEFINE p == Pow(k)
           r == a % p
           c == a \div p
<1>1. p \in Pos /\ p \in Nat
  BY PowPos, PowNat
<1>2. r \in Int /\ 0 <= r /\ r < p /\ c \in Int /\ a = c * p + r
  BY <1>1, DivIs
<1>3. c >= 0
  BY <1>1 DEF Pos
<1> HIDE DEF p, r, c
<1>4. a = r + c * p
  BY <1>1, <1>2
<1>5. r \in Nat /\ c \in Nat
  BY <1>2, <1>3
<1>6. \A j \in 0 .. k - 1 : Bit(r, j) = Bit(0, j)
  <2> TAKE j \in 0 .. k - 1
  <2>1. j \in Nat /\ j < k
    OBVIOUS
  <2>2. Bit(r + c * Pow(k), j) = Bit(r, j)
    BY <1>5, <2>1, BitBelow
  <2>3. Bit(r, j) = 0
    BY <1>4, <2>2 DEF p
  <2> QED BY <2>1, <2>3, BitOfZero
<1>7. 0 < Pow(k) /\ r < Pow(k) /\ 0 \in Nat
  BY <1>1, <1>2 DEF p, Pos
<1>8. r = 0
  BY <1>5, <1>6, <1>7, SameBits
<1> QED BY <1>8 DEF r, p

\* Counting from the bottom: what is left after i shifts.
LEMMA LowZeros ==
    ASSUME W \in Nat, op.o = "Ctz", NEW a \in Nat, a # 0, a < Pow(W), NEW g, g[0] = a,
           \A i \in 0 .. W - 1 : g[i] \in Nat /\ g[i + 1] = CountStep(g[i])
    PROVE  /\ \E i \in 0 .. W - 1 : First(g, i)
           /\ \A i \in 0 .. W - 1 : First(g, i) => a % Pow(i) = 0 /\ (a \div Pow(i)) % 2 = 1
<1> DEFINE S == {i \in Nat : i <= W => g[i] = a \div Pow(i)}
<1>1. 0 \in S
  <2>1. a \div 1 = a
    OBVIOUS
  <2> QED BY <2>1, PowZero
<1>2. ASSUME NEW i \in S PROVE i + 1 \in S
  <2> SUFFICES ASSUME i + 1 <= W PROVE g[i + 1] = a \div Pow(i + 1)
    OBVIOUS
  <2>1. i \in Nat /\ i \in 0 .. W - 1 /\ g[i] = a \div Pow(i)
    OBVIOUS
  <2>2. g[i + 1] = (a \div Pow(i)) \div 2
    BY <2>1 DEF CountStep
  <2>3. Pow(i + 1) = Pow(i) * 2 /\ Pow(i) \in Pos /\ 2 \in Pos
    BY <2>1, PowSum, PowOne, PowPos DEF Pos
  <2>4. a \div (Pow(i) * 2) = (a \div Pow(i)) \div 2
    BY <2>3, DivTwice
  <2> QED BY <2>2, <2>3, <2>4
<1> HIDE DEF S
<1>3. S \in SUBSET Nat
  BY DEF S
<1>4. S = Nat
  BY <1>1, <1>2, <1>3, ByInduction
<1>5. \A i \in 0 .. W - 1 : g[i] = a \div Pow(i)
  <2>1. \A i \in 0 .. W - 1 : i \in Nat /\ i <= W
    OBVIOUS
  <2> QED BY <1>4, <2>1 DEF S
<1>6. \A i \in 0 .. W - 1 : CountFound(g[i]) <=> Bit(a, i) = 1
  BY <1>5 DEF CountFound, Bit, Pow
<1>7. \A i \in 0 .. W - 1 : Bit(a, i) \in {0, 1}
  <2>1. \A i \in 0 .. W - 1 : i \in Nat
    OBVIOUS
  <2> QED BY <2>1, BitType
<1> DEFINE P == {i \in Nat : i < W /\ Bit(a, i) = 1}
<1>8. \E i \in 0 .. W - 1 : i \in P
  <2> SUFFICES ASSUME \A i \in 0 .. W - 1 : i \notin P PROVE FALSE
    OBVIOUS
  <2>1. \A i \in 0 .. W - 1 : Bit(a, i) = 0
    BY <1>7
  <2>2. a % Pow(W) = 0
    BY <2>1, LowBitsClear
  <2>3. Pow(W) \in Pos /\ a \in Int /\ 0 <= a
    BY PowPos
  <2>4. a % Pow(W) = a
    BY <2>3, ModSmall
  <2> QED BY <2>2, <2>4
<1>9. PICK i \in 0 .. W - 1 : i \in P /\ \A j \in 0 .. i - 1 : j \notin P
  <2> HIDE DEF P
  <2> QED BY <1>8, FirstOf
<1>10. First(g, i)
  <2>1. \A j \in 0 .. i - 1 : j \in 0 .. W - 1 /\ j \in Nat /\ j < W
    OBVIOUS
  <2>2. \A j \in 0 .. i - 1 : Bit(a, j) # 1
    BY <1>9, <2>1
  <2> QED BY <1>6, <1>9, <2>1, <2>2 DEF First
<1>11. ASSUME NEW k \in 0 .. W - 1, First(g, k) PROVE a % Pow(k) = 0 /\ (a \div Pow(k)) % 2 = 1
  <2>1. Bit(a, k) = 1 /\ k \in Nat
    BY <1>6, <1>11 DEF First
  <2>2. \A j \in 0 .. k - 1 : j \in 0 .. W - 1
    OBVIOUS
  <2>3. \A j \in 0 .. k - 1 : Bit(a, j) = 0
    BY <1>6, <1>7, <1>11, <2>2 DEF First
  <2>4. a % Pow(k) = 0
    BY <2>1, <2>3, LowBitsClear
  <2> QED BY <2>1, <2>4 DEF Bit, Pow
<1> QED BY <1>10, <1>11

LEMMA NotLess == \A a, b \in Int, m \in Pos : a * m < b * m => a < b
<1> SUFFICES ASSUME NEW a \in Int, NEW b \in Int, NEW m \in Pos, a * m < b * m, b <= a PROVE FALSE
  OBVIOUS
<1>1. CASE a = b
  <2>1. a * m \in Int
    BY DEF Pos
  <2> QED BY <1>1, <2>1
<1>2. CASE b + 1 <= a
  <2>1. b * m + m <= a * m
    BY <1>2, TimesNext
  <2>2. a * m \in Int /\ b * m \in Int /\ m \in Int /\ m > 0
    BY DEF Pos
  <2> DEFINE s == a * m
             t == b * m
  <2> HIDE DEF s, t
  <2>3. s \in Int /\ t \in Int /\ s < t /\ t + m <= s
    BY <2>1, <2>2 DEF s, t
  <2> QED BY <2>2, <2>3
<1> QED BY <1>1, <1>2

\* Counting from the top: until the top bit appears nothing is shifted out.
LEMMA HighZeros ==
    ASSUME W \in Nat, W > 1, op.o = "Clz", NEW a \in Nat, a # 0, a < Pow(W), NEW g, g[0] = a,
           \A i \in 0 .. W - 1 : g[i] \in Nat /\ g[i + 1] = CountStep(g[i])
    PROVE  /\ \E i \in 0 .. W - 1 : First(g, i)
           /\ \A i \in 0 .. W - 1 : First(g, i) => Pow(W - 1 - i) <= a /\ a < Pow(W - i)
<1> DEFINE h == Pow(W - 1)
           m == Pow(W)
           Small(i) == \A j \in 0 .. i - 1 : g[j] < h
           S == {i \in Nat : i <= W - 1 /\ Small(i) => g[i] = a * Pow(i) /\ g[i] < m}
<1>1. m = h + h /\ h \in Nat /\ m \in Nat /\ h >= 1
  <2>1. W \in Pos
    BY DEF Pos
  <2> QED BY <2>1, PowBefore
<1>2. \A i \in 0 .. W - 1 : CountFound(g[i]) <=> g[i] >= h
  BY DEF CountFound, Pow
<1> HIDE DEF h, m
<1>3. 0 \in S
  <2>1. g[0] = a * Pow(0) /\ g[0] < m
    BY PowZero DEF m
  <2> QED BY <2>1
<1>4. ASSUME NEW i \in S PROVE i + 1 \in S
  <2> SUFFICES ASSUME i + 1 <= W - 1, Small(i + 1) PROVE g[i + 1] = a * Pow(i + 1) /\ g[i + 1] < m
    OBVIOUS
  <2>1. i \in Nat /\ i \in 0 .. W - 1 /\ i \in 0 .. (i + 1) - 1 /\ i <= W - 1
    OBVIOUS
  <2>2. g[i] < h
    BY <2>1
  <2>3. Small(i)
    <3>1. \A j \in 0 .. i - 1 : j \in 0 .. (i + 1) - 1
      BY <2>1
    <3> QED BY <3>1
  <2>4. g[i] = a * Pow(i) /\ g[i] \in Nat
    BY <2>1, <2>3
  <2>5. g[i + 1] = Shl(g[i], 1, W, junk)
    BY <2>1 DEF CountStep
  <2>6. Shl(g[i], 1, W, junk) = g[i] * Pow(1)
    <3>1. W - 1 \in Pos /\ 1 + (W - 1) = W
      BY DEF Pos
    <3>2. Word(g[i], W - 1)
      BY <2>2, <2>4 DEF Word, h
    <3>3. Shl(g[i], 1, 1 + (W - 1), junk) = g[i] * Pow(1)
      BY <3>1, <3>2, ShiftedUp
    <3> QED BY <3>1, <3>3
  <2>7. g[i + 1] = g[i] * 2 /\ g[i + 1] < m
    BY <1>1, <2>2, <2>4, <2>5, <2>6, PowOne
  <2>8. a * Pow(i + 1) = (a * Pow(i)) * 2
    <3>1. Pow(i + 1) = Pow(i) * 2 /\ Pow(i) \in Nat
      <4>1. Pow(i) \in Nat /\ Pow(i + 1) = Pow(i) + Pow(i)
        BY <2>1, PowNext, PowNat
      <4> QED BY <4>1
    <3> DEFINE p == Pow(i)
    <3>2. p \in Nat
      BY <3>1
    <3> HIDE DEF p
    <3>3. a * (p * 2) = (a * p) * 2
      BY <3>2
    <3> QED BY <3>1, <3>3 DEF p
  <2> QED BY <2>4, <2>7, <2>8
<1> HIDE DEF S
<1>5. S \in SUBSET Nat
  BY DEF S
<1>6. S = Nat
  BY <1>3, <1>4, <1>5, ByInduction
<1>7. \A i \in 0 .. W - 1 : Small(i) => g[i] = a * Pow(i) /\ g[i] < m
  <2>1. \A i \in 0 .. W - 1 : i \in Nat /\ i <= W - 1
    OBVIOUS
  <2> QED BY <1>6, <2>1 DEF S
<1> DEFINE P == {i \in Nat : i < W /\ g[i] >= h}
<1>8. \E i \in 0 .. W - 1 : i \in P
  <2> SUFFICES ASSUME \A i \in 0 .. W - 1 : i \notin P PROVE FALSE
    OBVIOUS
  <2>1. \A i \in 0 .. W - 1 : g[i] < h
    BY <1>1
  <2>2. W - 1 \in 0 .. W - 1 /\ \A j \in 0 .. (W - 1) - 1 : j \in 0 .. W - 1
    OBVIOUS
  <2>3. g[W - 1] = a * h
    BY <1>7, <2>1, <2>2 DEF h
  <2>4. a * h >= h
    <3>1. 0 + 1 <= a /\ h \in Pos
      BY <1>1 DEF Pos
    <3>2. 0 * h + h <= a * h
      BY <3>1, TimesNext
    <3>3. 0 * h + h = h
      BY <1>1
    <3> QED BY <3>2, <3>3
  <2>5. a * h \in Int
    BY <1>1
  <2> QED BY <1>1, <2>1, <2>2, <2>3, <2>4, <2>5
<1>9. PICK i \in 0 .. W - 1 : i \in P /\ \A j \in 0 .. i - 1 : j \notin P
  <2> HIDE DEF P
  <2> QED BY <1>8, FirstOf
<1>10. First(g, i)
  <2>1. \A j \in 0 .. i - 1 : j \in 0 .. W - 1 /\ j \in Nat /\ j < W
    OBVIOUS
  <2>2. \A j \in 0 .. i - 1 : ~(g[j] >= h)
    BY <1>9, <2>1
  <2> QED BY <1>2, <1>9, <2>1, <2>2 DEF First
<1>11. ASSUME NEW k \in 0 .. W - 1, First(g, k) PROVE Pow(W - 1 - k) <= a /\ a < Pow(W - k)
  <2>1. \A j \in 0 .. k - 1 : j \in 0 .. W - 1
    OBVIOUS
  <2>2. Small(k)
    BY <1>1, <1>2, <1>11, <2>1 DEF First
  <2>3. g[k] = a * Pow(k) /\ g[k] < m /\ g[k] >= h
    BY <1>2, <1>7, <1>11, <2>2 DEF First
  <2> DEFINE p == Pow(k)
             l == Pow(W - 1 - k)
             u == Pow(W - k)
  <2>4. h = l * p /\ m = u * p /\ p \in Pos /\ l \in Nat /\ u \in Nat /\ l \in Int /\ u \in Int /\ a \in Int
    <3>1. W - 1 - k \in Nat /\ W - k \in Nat /\ k \in Nat /\ (W - 1 - k) + k = W - 1 /\ (W - k) + k = W
      OBVIOUS
    <3>2. Pow((W - 1 - k) + k) = l * p /\ Pow((W - k) + k) = u * p
      BY <3>1, PowSum
    <3> QED BY <3>1, <3>2, PowPos, PowNat DEF h, m
  <2> HIDE DEF p, l, u
  <2>5. a * p < u * p /\ l * p <= a * p
    BY <2>3, <2>4, <1>1 DEF p
  <2>6. a < u
    BY <2>4, <2>5, NotLess
  <2>7. l <= a
    <3>1. a * p < l * p => a < l
      BY <2>4, NotLess
    <3>2. CASE a < l
      <4>1. a + 1 <= l
        BY <2>4, <3>2
      <4>2. a * p + p <= l * p
        BY <2>4, <4>1, TimesNext
      <4> DEFINE s == a * p
                 t == l * p
      <4>3. s \in Int /\ t \in Int /\ p \in Int /\ p > 0
        BY <2>4 DEF Pos
      <4>4. s + p <= t /\ t <= s
        BY <2>5, <4>2
      <4> HIDE DEF s, t
      <4> QED BY <4>3, <4>4
    <3> QED BY <2>4, <3>2
  <2> QED BY <2>6, <2>7 DEF l, u
<1> QED BY <1>10, <1>11

LEMMA ZerosCounted ==
    ASSUME OperandsFit, vexop_count
    PROVE  ComputedRight(res'.val)
<1> DEFINE x == res'.val
           a == args[1]
           g == CHOOSE v : Counts(v)
<1>1. op.fam = "Count" /\ Word(a, W) /\ a \in Nat /\ a < Pow(W)
  BY DEF vexop_count, Family, OperandsFit, OneWord, Word
<1>2. x = IF a = 0 THEN W ELSE CHOOSE i \in 0 .. W - 1 : First(g, i)
  <2>1. Return(IF a = 0 THEN W ELSE CHOOSE i \in 0 .. W - 1 : First(g, i))
    BY Zenon DEF vexop_count, Counts, First, CountStep, CountFound
  <2> QED BY <2>1, ValueIs
<1>3. W \in Nat /\ W > 1 /\ op.o \in {"Ctz", "Clz"}
  <2>1. op.w \in {32, 64} /\ unit \in Bytes /\ op.o \in {"Ctz", "Clz"}
    BY <1>1, EmittedIs DEF IntOpIs, Emitter
  <2>2. W = 4 * unit \/ W = 8 * unit
    BY <2>1, WidthIs DEF W
  <2> QED BY <2>1, <2>2 DEF Bytes
<1>4. Counts(g)
  <2>1. \E v : Counts(v)
    BY <1>1, <1>3, CountRuns
  <2> QED BY <2>1, Zenon
<1> HIDE DEF g
<1>5. g[0] = a /\ \A i \in 0 .. W - 1 : g[i] \in Nat /\ g[i + 1] = CountStep(g[i])
  <2>1. PICK v : Counts(v) /\ v[0] = args[1] /\ \A i \in 0 .. W - 1 : v[i] \in Nat /\ v[i + 1] = CountStep(v[i])
    BY <1>1, <1>3, CountRuns
  <2> DEFINE S == {i \in Nat : i <= W => g[i] = v[i]}
  <2>2. 0 \in S
    BY <1>3, <1>4, <2>1 DEF Counts
  <2>3. ASSUME NEW i \in S PROVE i + 1 \in S
    <3> SUFFICES ASSUME i + 1 <= W PROVE g[i + 1] = v[i + 1]
      OBVIOUS
    <3>1. i \in Nat /\ i \in 0 .. W - 1 /\ i + 1 \in 0 .. W /\ i + 1 # 0 /\ (i + 1) - 1 = i /\ g[i] = v[i]
      BY <1>3
    <3>2. g[i + 1] = CountStep(g[i])
      BY <1>4, <3>1 DEF Counts
    <3> QED BY <2>1, <3>1, <3>2
  <2> HIDE DEF S
  <2>4. S \in SUBSET Nat
    BY DEF S
  <2>5. S = Nat
    BY <2>2, <2>3, <2>4, ByInduction
  <2>6. \A i \in 0 .. W : g[i] = v[i]
    BY <1>3, <2>5 DEF S
  <2>7. \A i \in 0 .. W - 1 : i \in 0 .. W /\ i + 1 \in 0 .. W
    BY <1>3
  <2>8. 0 \in 0 .. W
    BY <1>3
  <2> QED BY <2>1, <2>6, <2>7, <2>8
<1> HIDE DEF x
<1>6. ComputedRight(x) <=> IF a = 0 THEN x = W
                           ELSE IF op.o = "Ctz" THEN a % 2^x = 0 /\ (a \div 2^x) % 2 = 1
                           ELSE 2^(W - 1 - x) <= a /\ a < 2^(W - x)
  BY <1>1 DEF ComputedRight
<1>7. CASE a = 0
  BY <1>2, <1>6, <1>7 DEF x
<1>8. CASE a # 0 /\ op.o = "Ctz"
  <2> HIDE DEF a
  <2>1. /\ \E i \in 0 .. W - 1 : First(g, i)
        /\ \A i \in 0 .. W - 1 : First(g, i) => a % Pow(i) = 0 /\ (a \div Pow(i)) % 2 = 1
    BY <1>1, <1>3, <1>5, <1>8, LowZeros
  <2>2. x \in 0 .. W - 1 /\ First(g, x)
    BY <1>2, <1>8, <2>1
  <2>3. a % Pow(x) = 0 /\ (a \div Pow(x)) % 2 = 1
    BY <2>1, <2>2
  <2> QED BY <1>6, <1>8, <2>3 DEF Pow, x
<1>9. CASE a # 0 /\ op.o = "Clz"
  <2> HIDE DEF a
  <2>1. /\ \E i \in 0 .. W - 1 : First(g, i)
        /\ \A i \in 0 .. W - 1 : First(g, i) => Pow(W - 1 - i) <= a /\ a < Pow(W - i)
    BY <1>1, <1>3, <1>5, <1>9, HighZeros
  <2>2. x \in 0 .. W - 1 /\ First(g, x)
    BY <1>2, <1>9, <2>1
  <2>3. Pow(W - 1 - x) <= a /\ a < Pow(W - x)
    BY <2>1, <2>2
  <2> QED BY <1>6, <1>9, <2>3 DEF Pow, x
<1> QED BY <1>3, <1>7, <1>8, <1>9

(***************************************************************************)
(* Every emitter that moves bits.                                          *)
(***************************************************************************)
LEMMA Moves ==
    ASSUME OperandsFit, IndexDefined, IntEmit, op.fam \in MovesBits, HasValue'
    PROVE  MovedRight(res'.val)
<1>1. \/ XHI_TO_Y_EMIT \/ X_TO_Y_EMIT \/ Dup8x16 \/ GET_ELEM_EMIT \/ SET_ELEM_EMIT \/ V128to64
      \/ X_HL_TO_Y_EMIT \/ Binop64HLto128 \/ Binop64HLtoV128 \/ XUtoV128 \/ SetV128lo
      \/ GETMSBS_8xN_EMIT \/ EMIT_ILEAVE \/ OPSHUF_EMIT
  BY DEF IntEmit, MovesBits, Family, OPNRW_EMIT, UNOP_EMIT, BINOP_EMIT, BINOP_EXPAND_EMIT, SHIFT_EMIT,
     DIVMOD_EMIT, vexop_count, EMIT_HELPER_UNOP_VEC, OPV_EMIT, OPV_Shift, OPVS_EMIT, BINCMP_EMIT,
     OPV_CMP_EMIT, OPV_EXT_EMIT, OPNRWSS_EMIT, QNarrowUn16Sto8Ux8, OPSAT_EMIT, OPAVG_EMIT, OPHOP_EMIT
<1> QED BY <1>1, HighHalf, Conversion, ByteSpread, ElementRead, ElementWritten, HalfRead, HalvesJoined,
           ZeroExtended, LowLaneSet, TopBitsGathered, Interleaved, Permuted

\* The operands stay values of their types.
Operands == InitFP \/ OperandsFit
LEMMA OperandsNext == ASSUME Operands, Fixed PROVE Operands'
<1>1. op' = op /\ unit' = unit /\ args' = args /\ have' = have /\ junk' = junk
  BY DEF Fixed
<1>2. InitFP => InitFP'
  BY <1>1 DEF InitFP, B, Sample
<1>3. OperandsFit => OperandsFit'
  BY <1>1 DEF OperandsFit, W, B
<1> QED BY <1>2, <1>3 DEF Operands

LEMMA NotFloat == ASSUME InitFP PROVE op.fam \notin IntFamilies
<1>1. FloatOpIs(op)
  BY FloatOpsAre DEF InitFP
<1> QED BY <1>1 DEF FloatOpIs, Instance, IntFamilies

\* No other step leaves a value behind for an integer operator.
LEMMA IntSteps ==
    ASSUME OperandsFit, Next
    PROVE  IntEmit \/ ~HasValue'
<1>1. CASE FPEmit
  <2>1. op.fam \in FloatFamilies
    BY <1>1 DEF FPEmit, FloatFamilies, Family, F_X_TO_Y_EMIT, EMIT_HELPER_SOFTFP_UNOP, X_TO_Y_EMIT_ROUND,
     EMIT_CONVERT_IGNORE_ROUNDING, RoundToInt, OPF0X_EMIT, OPF0X_SOFTFLOAT_EMIT, OPF_EMIT,
     TRIOP_EXPAND_EMIT, EMIT_HELPER_IGNORE_ROUNDING, OPF0X_RSQ, OPV_RSQ, UNOP_NEG_EMIT, vexop_absf,
     MAddF64, PRemF64, OPF0X_CMP_EMIT, OPF0X_CMP_SOFTFLOAT_EMIT, OPV_CMP_T_EMIT, OPF0X_SEL_EMIT,
     BINCMPF_EMIT, vexop_cmpf64, vexop_softfloat_cmpf64, UNIMPL, UNIMPL_LowLane, UNIMPL_VectorCmp,
     UNIMPL_Vector, UNIMPL_Rest, Native, Soft
  <2>2. IntOpIs(op)
    BY EmittedIs
  <2> QED BY <2>1, <2>2 DEF IntOpIs, Emitter, FloatFamilies
<1>2. CASE createOp_unhandled
  BY <1>2 DEF createOp_unhandled, Outcome, Unhandled, HasValue
<1> QED BY <1>1, <1>2 DEF Next

MovementInv == Operands /\ MovementExact

LEMMA MovementNext == ASSUME MovementInv, [Next]_vars PROVE MovementInv'
<1>1. Fixed
  BY OperandsFixed DEF vars, Fixed
<1>2. op' = op /\ unit' = unit /\ args' = args /\ have' = have /\ junk' = junk
  BY <1>1 DEF Fixed
<1>3. Operands /\ Operands' /\ MovementExact
  BY <1>1, OperandsNext DEF MovementInv
<1>4. (IndexDefined' <=> IndexDefined) /\ \A x : MovedRight(x)' <=> MovedRight(x)
  <2>1. W' = W /\ V1' = V1 /\ V2' = V2 /\ B(op.n)' = B(op.n) /\ B(128)' = B(128) /\ B(8)' = B(8)
    BY <1>2 DEF W, V1, V2, B
  <2>2. IndexDefined' <=> IndexDefined
    BY <1>2, <2>1 DEF IndexDefined
  <2>3. \A x : MovedRight(x)' <=> MovedRight(x)
    BY <1>2, <2>1 DEF MovedRight
  <2> QED BY <2>2, <2>3
<1>5. CASE InitFP
  <2>1. op.fam \notin MovesBits
    BY <1>5, NotFloat DEF MovesBits, IntFamilies
  <2> QED BY <1>2, <1>3, <2>1 DEF MovementInv, MovementExact
<1>6. CASE UNCHANGED vars
  <2>1. res' = res
    BY <1>6 DEF vars
  <2>2. MovementExact'
    BY <1>2, <1>3, <1>4, <2>1 DEF MovementExact, HasValue
  <2> QED BY <1>3, <2>2 DEF MovementInv
<1>7. CASE OperandsFit /\ Next
  <2>1. CASE ~HasValue'
    BY <1>3, <2>1 DEF MovementInv, MovementExact
  <2>2. CASE HasValue' /\ IntEmit /\ op.fam \in MovesBits /\ IndexDefined
    <3>1. MovedRight(res'.val)
      BY <1>7, <2>2, Moves
    <3>2. MovementExact'
      BY <1>4, <3>1 DEF MovementExact
    <3> QED BY <1>3, <3>2 DEF MovementInv
  <2>3. CASE op.fam \notin MovesBits \/ ~IndexDefined
    BY <1>2, <1>3, <1>4, <2>3 DEF MovementInv, MovementExact
  <2> QED BY <1>7, <2>1, <2>2, <2>3, IntSteps
<1> QED BY <1>3, <1>5, <1>6, <1>7 DEF Operands

\* Whatever the operands, the widths and the undefined bits, every operator
\* that rearranges bits puts each source lane where VEX defines it: the halves
\* joined by shift and or, the loop that doubles a byte, the one that gathers
\* the top bits and the shuffles all move exactly what they should.
THEOREM MovementIsExact == Spec => []MovementExact
<1>1. Init => MovementInv
  BY InitFits DEF Init, MovementInv, Operands, MovementExact, HasValue, Pending
<1>2. MovementInv /\ [Next]_vars => MovementInv'
  BY MovementNext
<1>3. MovementInv => MovementExact
  BY DEF MovementInv
<1> QED BY <1>1, <1>2, <1>3, PTL DEF Spec

(***************************************************************************)
(* Every emitter that computes.                                            *)
(***************************************************************************)
LEMMA Computes ==
    ASSUME OperandsFit, ArithDefined, IntEmit, op.fam \notin MovesBits, HasValue'
    PROVE  ComputedRight(res'.val)
<1>1. ~OPNRW_EMIT /\ ~EMIT_HELPER_UNOP_VEC /\ ~QNarrowUn16Sto8Ux8
  BY DEF OPNRW_EMIT, EMIT_HELPER_UNOP_VEC, QNarrowUn16Sto8Ux8, Outcome, Abort, IllTyped, HasValue
<1>2. \/ UNOP_EMIT \/ BINOP_EMIT \/ BINOP_EXPAND_EMIT \/ SHIFT_EMIT \/ DIVMOD_EMIT \/ vexop_count
      \/ OPV_EMIT \/ OPV_Shift \/ OPVS_EMIT \/ BINCMP_EMIT \/ OPV_CMP_EMIT \/ OPV_EXT_EMIT
      \/ OPNRWSS_EMIT \/ OPSAT_EMIT \/ OPAVG_EMIT \/ OPHOP_EMIT
  BY <1>1 DEF IntEmit, MovesBits, Family, XHI_TO_Y_EMIT, X_TO_Y_EMIT, Dup8x16, GET_ELEM_EMIT, SET_ELEM_EMIT,
     V128to64, X_HL_TO_Y_EMIT, Binop64HLto128, Binop64HLtoV128, XUtoV128, SetV128lo, GETMSBS_8xN_EMIT,
     EMIT_ILEAVE, OPSHUF_EMIT
<1> QED BY <1>2, Complemented, BinaryOperators, WideProducts, ScalarShifts, Divisions, ZerosCounted,
           LaneArithmetic, LaneShifts, ShiftsByOneAmount, Extremes, LaneComparisons, HighProducts,
           Narrowings, Saturations, Averages, HalvedSums

LEMMA IntOpFamily == ASSUME op \in IntOps PROVE op.fam \in IntFamilies
<1>1. IntOpIs(op)
  BY IntOpsAre
<1> QED BY <1>1 DEF IntOpIs, Emitter, IntFamilies

ArithmeticInv == Operands /\ ArithmeticExact

LEMMA ArithmeticNext == ASSUME ArithmeticInv, [Next]_vars PROVE ArithmeticInv'
<1>1. Fixed
  BY OperandsFixed DEF vars, Fixed
<1>2. op' = op /\ unit' = unit /\ args' = args /\ have' = have /\ junk' = junk
  BY <1>1 DEF Fixed
<1>3. Operands /\ Operands' /\ ArithmeticExact
  BY <1>1, OperandsNext DEF ArithmeticInv
<1>4. (ArithDefined' <=> ArithDefined) /\ (IsInt' <=> IsInt) /\ \A x : ComputedRight(x)' <=> ComputedRight(x)
  <2>1. W' = W /\ V1' = V1 /\ V2' = V2
    BY <1>2 DEF W, V1, V2, B
  <2>2. \A x : Value(x)' = Value(x)
    BY <1>2, <2>1 DEF Value
  <2>3. \A o, x, k : Shifted(o, x, k)' = Shifted(o, x, k)
    BY <2>1 DEF Shifted
  <2>4. \A i : L1(i)' = L1(i) /\ L2(i)' = L2(i)
    BY <2>1, <2>2 DEF L1, L2
  <2>5. ArithDefined' <=> ArithDefined
    BY <1>2, <2>1, <2>2 DEF ArithDefined, Quotient
  <2>6. \A x : ComputedRight(x)' <=> ComputedRight(x)
    BY <1>2, <2>1, <2>2, <2>3, <2>4 DEF ComputedRight, LanesAre
  <2> QED BY <1>2, <2>5, <2>6 DEF IsInt
<1>5. CASE InitFP
  <2>1. ~IsInt
    BY <1>5, NotFloat, IntOpFamily DEF IsInt
  <2> QED BY <1>3, <1>4, <2>1 DEF ArithmeticInv, ArithmeticExact
<1>6. CASE UNCHANGED vars
  <2>1. res' = res
    BY <1>6 DEF vars
  <2>2. ArithmeticExact'
    BY <1>2, <1>3, <1>4, <2>1 DEF ArithmeticExact, HasValue
  <2> QED BY <1>3, <2>2 DEF ArithmeticInv
<1>7. CASE OperandsFit /\ Next
  <2>1. CASE ~HasValue'
    BY <1>3, <2>1 DEF ArithmeticInv, ArithmeticExact
  <2>2. CASE HasValue' /\ IntEmit /\ op.fam \notin MovesBits /\ ArithDefined
    <3>1. ComputedRight(res'.val)
      BY <1>7, <2>2, Computes
    <3>2. ArithmeticExact'
      BY <1>4, <3>1 DEF ArithmeticExact
    <3> QED BY <1>3, <3>2 DEF ArithmeticInv
  <2>3. CASE op.fam \in MovesBits \/ ~ArithDefined
    BY <1>2, <1>3, <1>4, <2>3 DEF ArithmeticInv, ArithmeticExact
  <2> QED BY <1>7, <2>1, <2>2, <2>3, IntSteps
<1> QED BY <1>3, <1>5, <1>6, <1>7 DEF Operands

\* Whatever the operands, the widths and the undefined bits, every operator
\* that computes yields the exact integer result reduced to its lanes, wherever
\* VEX defines one: the saturations clamp with one bit more, the averages and
\* high products keep the carry, the quotient and the remainder fill their
\* halves, and the loops that count zeros stop at the right bit.
THEOREM ArithmeticIsExact == Spec => []ArithmeticExact
<1>1. Init => ArithmeticInv
  BY InitFits DEF Init, ArithmeticInv, Operands, ArithmeticExact, HasValue, Pending
<1>2. ArithmeticInv /\ [Next]_vars => ArithmeticInv'
  BY ArithmeticNext
<1>3. ArithmeticInv => ArithmeticExact
  BY DEF ArithmeticInv
<1> QED BY <1>1, <1>2, <1>3, PTL DEF Spec
=============================================================================
