------------------------------- MODULE VexOp -------------------------------
(***************************************************************************)
(* Emitting one operator expression: any operator of createOp's table, on  *)
(* sampled operands, with either floating point back end.  The invariants  *)
(* compare the emitted value with what the operator computes, defined here *)
(* directly on integers and lanes.                                         *)
(***************************************************************************)
EXTENDS VexOpInt, VexOpFP

AnyWidth == {1, 8, 16, 32, 64}

\* The widths of an integer operator's arguments.
ArgBits(p) ==
    CASE p.fam \in {"XHI_TO_Y", "X_TO_Y", "XUtoV128", "UNOP", "Count"} -> <<p.w>>
      [] p.fam = "Dup8x16" -> <<8>>
      [] p.fam \in {"GETMSBS", "Cls", "V128Half", "QNarrowUn"} -> <<p.n * p.w>>
      [] p.fam \in {"GET_ELEM", "OPVS", "SHIFT"} -> <<p.n * p.w, 8>>
      [] p.fam = "SET_ELEM" -> <<64, 8, p.w>>
      [] p.fam = "SetV128lo" -> <<128, p.w>>
      [] p.fam = "DIVMOD" -> <<p.w, p.w \div 2>>
      [] OTHER -> <<p.n * p.w, p.n * p.w>>

\* The widest value the emitter handles.
Widest(p) ==
    CASE p.fam = "X_TO_Y" -> IF p.n > p.w THEN p.n ELSE p.w
      [] p.fam \in {"X_HL_TO_Y", "BINOP_EXPAND"} -> 2 * p.w
      [] p.fam \in {"XUtoV128", "Dup8x16"} -> 128
      [] OTHER -> p.n * p.w

ScaledTo(x, u) == IF x = 1 THEN 1 ELSE (x * u) \div 8

InitInt ==
    /\ op \in IntOps
    /\ unit \in Units
    /\ ScaledTo(Widest(op), unit) <= MaxBits
    /\ have \in IF op.fam = "X_TO_Y"
                THEN {B(x) : x \in {y \in AnyWidth \cup {op.w} :
                                      B(y) <= MaxBits}}
                ELSE {B(ArgBits(op)[1])}
    /\ \E x \in Sample(have) :
         \/ Len(ArgBits(op)) = 1 /\ args = <<x>>
         \/ /\ Len(ArgBits(op)) > 1
            /\ \E y \in Sample(B(ArgBits(op)[2])) :
                 \/ Len(ArgBits(op)) = 2 /\ args = <<x, y>>
                 \/ /\ Len(ArgBits(op)) = 3
                    /\ \E z \in Sample(B(ArgBits(op)[3])) : args = <<x, y, z>>

Floats == {Num(h) : h \in {-34, -15, -5, -3, -1, 0, 1, 3, 4, 5, 19, 32}}
          \cup {NaN, NegZero}
\* Vectors whose lanes but the first are fixed, and differ by operand.
FVec(x, n, other) == [i \in 0 .. n - 1 |-> IF i = 0 THEN x ELSE Num(other + i)]
FArg(x) == [i \in {0} |-> x]

InitFP ==
    /\ op \in FPOps
    /\ unit = 1
    /\ have = B(op.w)
    /\ CASE op.o \in {"I32StoF64", "I32UtoF64"} ->
              \E i \in Sample(B(32)) : args = <<FArg(IntV(i))>>
         [] op.o \in {"I64StoF64", "I64UtoF64"} ->
              \E i \in Sample(B(64)), rm \in RoundingModes :
                 args = <<rm, FArg(IntV(i))>>
         [] op.fam \in {"FROUND", "RoundToInt"} /\ op.o \notin
              {"I64StoF64", "I64UtoF64"} ->
              \E x \in Floats, rm \in RoundingModes : args = <<rm, FArg(x)>>
         [] op.fam \in {"TRIOP", "PRem"} ->
              \E x, y \in Floats, rm \in RoundingModes :
                 args = <<rm, FArg(x), FArg(y)>>
         [] op.fam = "MAdd" ->
              \E x, y \in Floats, rm \in RoundingModes :
                 args = <<rm, FArg(x), FArg(y), FArg(Num(2))>>
         [] OTHER ->
              \E x, y \in Floats : args = <<FVec(x, op.n, 40), FVec(y, op.n, 60)>>

Init == /\ InitInt \/ InitFP
        /\ junk \in BOOLEAN
        /\ res = Pending

Next == IntEmit \/ FPEmit \/ createOp_unhandled
Spec == Init /\ [][Next]_vars

----------------------------------------------------------------------------
(* What the integer operators compute.                                     *)

L1(i) == Value(V1[i])
L2(i) == Value(V2[i])
LanesAre(x, F(_)) ==
    \A i \in 0 .. op.n - 1 : (Lanes(x, op.n, W)[i] - F(i)) % 2^W = 0
Clamp(x, lo, hi) == IF x < lo THEN lo ELSE IF x > hi THEN hi ELSE x
Ones(b) == IF b THEN -1 ELSE 0
Shifted(o, x, k) == CASE o = "Shl"  -> x * 2^k
                      [] o = "LShr" -> x \div 2^k
                      [] o = "AShr" -> Signed(x, W) \div 2^k

MovesBits ==
    {"XHI_TO_Y", "X_TO_Y", "Dup8x16", "GET_ELEM", "SET_ELEM", "V128Half",
     "X_HL_TO_Y", "XUtoV128", "SetV128lo", "GETMSBS", "ILEAVE", "OPSHUF"}

\* Element and permutation indices in range, as VEX requires.
IndexDefined ==
    /\ op.fam \in {"GET_ELEM", "SET_ELEM"} => args[2] < op.n
    /\ op.fam = "OPSHUF" => \A i \in 0 .. op.n - 1 : V2[i] < op.n

MovedRight(x) ==
    LET In(i) == V1[i]
        Out(n, i) == Lanes(x, n, W)[i]
        half == op.n \div 2
    IN  CASE op.fam = "XHI_TO_Y" -> args[1] - x * 2^(W \div 2) \in 0 .. 2^(W \div 2) - 1
          [] op.fam = "X_TO_Y" ->
               (x - (IF op.o = "sext" THEN Signed(args[1] % 2^W, W)
                     ELSE args[1] % 2^W)) % 2^B(op.n) = 0
          [] op.fam = "Dup8x16" ->
               x = args[1] * ((2^B(128) - 1) \div (2^B(8) - 1))
          [] op.fam = "GET_ELEM" -> x = In(args[2])
          [] op.fam = "SET_ELEM" ->
               \A i \in 0 .. op.n - 1 :
                  Out(op.n, i) = IF i = args[2] THEN args[3] ELSE In(i)
          [] op.fam = "V128Half" ->
               x = IF op.o = "hi" THEN args[1] \div 2^W ELSE args[1] % 2^W
          [] op.fam = "X_HL_TO_Y" -> x = args[1] * 2^W + args[2]
          [] op.fam = "XUtoV128" -> x = args[1]
          [] op.fam = "SetV128lo" -> x = args[1] - (args[1] % 2^W) + args[2]
          [] op.fam = "GETMSBS" ->
               \A i \in 0 .. op.n - 1 : Bit(x, i) = 1 <=> In(i) >= 2^(W - 1)
          [] op.fam = "ILEAVE" ->
               \A i \in 0 .. half - 1 :
                  LET from == IF op.o = "HI" THEN half + i ELSE i
                  IN  /\ Out(op.n, 2 * i + 1) = V1[from]
                      /\ Out(op.n, 2 * i) = V2[from]
          [] op.fam = "OPSHUF" ->
               \A i \in 0 .. op.n - 1 : Out(op.n, i) = In(V2[i])

\* Lane shift amounts below the lane width, a divisor that is not zero and a
\* quotient that fits: elsewhere VEX defines nothing.
Quotient(a, b) == IF b = 0 THEN 2^W ELSE Quot(a, b)
ArithDefined ==
    LET half == W \div 2
        q == Quotient(Value(args[1]), IF op.s = "S" THEN Signed(args[2], half)
                                      ELSE args[2])
    IN  /\ op.fam = "OPV_Shift" => \A i \in 0 .. op.n - 1 : V2[i] < W
        /\ op.fam = "OPVS" => args[2] < W
        /\ op.fam = "DIVMOD" =>
             IF op.s = "S" THEN FitsSigned(q, half) ELSE q < 2^half

ComputedRight(x) ==
    LET a == args[1]
        b == args[2]
        half == W \div 2
    IN
    CASE op.fam = "UNOP" -> a + x = 2^W - 1
      [] op.fam = "BINOP" /\ op.o \in {"Add", "Sub", "Mul"} ->
           (x - (CASE op.o = "Add" -> a + b [] op.o = "Sub" -> a - b
                   [] op.o = "Mul" -> Signed(a, W) * Signed(b, W))) % 2^W = 0
      [] op.fam = "BINOP" /\ op.o \in {"And", "Or", "Xor"} ->
           \A i \in 0 .. W - 1 :
              Bit(x, i) = (CASE op.o = "And" -> Bit(a, i) * Bit(b, i)
                             [] op.o = "Or" -> 1 - (1 - Bit(a, i)) * (1 - Bit(b, i))
                             [] op.o = "Xor" -> (Bit(a, i) + Bit(b, i)) % 2)
      [] op.fam = "BINOP" /\ op.o \notin {"Add", "Sub", "Mul", "And", "Or", "Xor"} ->
           x = Bool(CASE op.o = "ICmpEQ" -> a = b
                      [] op.o = "ICmpNE" -> a # b
                      [] op.o = "ICmpLE" -> Value(a) <= Value(b)
                      [] op.o = "ICmpLT" -> Value(a) < Value(b))
      [] op.fam = "BINOP_EXPAND" -> (x - Value(a) * Value(b)) % 2^(2 * W) = 0
      [] op.fam = "SHIFT" -> (x - Shifted(op.o, a, b % W)) % 2^W = 0
      [] op.fam = "DIVMOD" ->
           LET Half(y) == IF op.s = "S" THEN Signed(y, half) ELSE y
               q == Half(x % 2^half)
               r == Half(x \div 2^half)
           IN  /\ Value(a) = q * Half(b) + r
               /\ r < (IF Half(b) < 0 THEN -Half(b) ELSE Half(b))
               /\ -r < (IF Half(b) < 0 THEN -Half(b) ELSE Half(b))
               /\ r = 0 \/ (r < 0 <=> Value(a) < 0)
      [] op.fam = "Count" ->
           IF a = 0 THEN x = W
           ELSE IF op.o = "Ctz" THEN a % 2^x = 0 /\ (a \div 2^x) % 2 = 1
           ELSE 2^(W - 1 - x) <= a /\ a < 2^(W - x)
      [] op.fam = "OPV" ->
           LanesAre(x, LAMBDA i : CASE op.o = "Add" -> L1(i) + L2(i)
                                    [] op.o = "Sub" -> L1(i) - L2(i)
                                    [] op.o = "Mul" -> L1(i) * L2(i))
      [] op.fam = "OPV_Shift" -> LanesAre(x, LAMBDA i : Shifted(op.o, V1[i], V2[i]))
      [] op.fam = "OPVS" -> LanesAre(x, LAMBDA i : Shifted(op.o, V1[i], b))
      [] op.fam = "BINCMP" ->
           LanesAre(x, LAMBDA i : IF (op.o = "Max") = (L1(i) >= L2(i))
                                  THEN L1(i) ELSE L2(i))
      [] op.fam = "OPV_CMP" ->
           LanesAre(x, LAMBDA i : Ones(IF op.o = "ICmpEQ" THEN L1(i) = L2(i)
                                       ELSE L1(i) > L2(i)))
      [] op.fam = "OPV_EXT" -> LanesAre(x, LAMBDA i : (L1(i) * L2(i)) \div 2^W)
      [] op.fam = "OPNRWSS" ->
           LET Narrow(y) == IF op.s = "S"
                            THEN Clamp(Signed(y, W), -(2^(half - 1)), 2^(half - 1) - 1)
                            ELSE Clamp(Signed(y, W), 0, 2^half - 1)
               out == Lanes(x, 2 * op.n, half)
           IN  \A i \in 0 .. op.n - 1 :
                  /\ (out[i] - Narrow(V2[i])) % 2^half = 0
                  /\ (out[op.n + i] - Narrow(V1[i])) % 2^half = 0
      [] op.fam = "OPSAT" ->
           LanesAre(x, LAMBDA i :
              LET y == IF op.o = "Add" THEN L1(i) + L2(i) ELSE L1(i) - L2(i)
              IN  IF op.s = "S" THEN Clamp(y, -(2^(W - 1)), 2^(W - 1) - 1)
                  ELSE Clamp(y, 0, 2^W - 1))
      [] op.fam = "OPAVG" -> LanesAre(x, LAMBDA i : (L1(i) + L2(i) + 1) \div 2)
      [] op.fam = "OPHOP" ->
           LanesAre(x, LAMBDA i : (IF op.o = "Add" THEN L1(i) + L2(i)
                                   ELSE L1(i) - L2(i)) \div 2)

IsInt == op \in IntOps
HasValue == res.how = "value"

\* Every operator that rearranges bits (conversions, halves, element access,
\* interleaving, permutation: vexop.cc:719-918, 1125-1199, 1644-1676) puts
\* each source lane where VEX defines it, for every shape, whenever the
\* indices are in range; undefined bits never show.
MovementExact ==
    (HasValue /\ op.fam \in MovesBits /\ IndexDefined) => MovedRight(res.val)

\* Every integer operator that computes (vexop.cc:920-1110, 1201-1639) yields,
\* lane by lane, the exact integer result reduced to the lane: widening,
\* saturation, averaging, high products, remainders and comparisons agree
\* with arithmetic on the integers the lanes stand for.  A scalar shift is by
\* its amount modulo the width, and so never undefined.  Ctz counts the zeros
\* below the lowest one, as VEX says and the helpers do: the comment at
\* vexop.cc:1085-1090 ("0x1 -> 1", "0x2 -> 2", "0x4 -> 3") numbers bits from one.
ArithmeticExact ==
    (HasValue /\ IsInt /\ op.fam \notin MovesBits /\ ArithDefined)
       => ComputedRight(res.val)

----------------------------------------------------------------------------
(* What the floating point operators compute.                              *)

\* The sign bit, that of zero included.
Negative(x) == x.k = "negzero" \/ (x.k = "num" /\ x.h < 0)

\* The operators given a rounding mode use it; those on lanes, which VEX gives
\* none, round to nearest.  A multiply-add rounds once, and rounding to an
\* integer keeps the sign of the operand.
FRef ==
    LET L(F(_, _)) == [i \in 0 .. op.n - 1 |-> F(A[i], BB[i])]
        Low(v) == [A EXCEPT ![0] = v]
        IntWidth == IF op.o = "F64toI64S" THEN B(64) ELSE B(32)
        MaxMin(x, y) == IF (IF op.o = "Max" THEN Less(y, x) ELSE Less(x, y))
                        THEN x ELSE y
        Lane1(o, x, y) == Sym(o, "nearest", x, y)
        Rsq(x) == CASE op.o = "Sqrt" -> Lane1("sqrt", x, x)
                    [] op.o = "Recip" -> Lane1("Div", Num(2), x)
                    [] op.o = "RSqrt" -> Lane1("Div", Num(2), Lane1("sqrt", x, x))
        ToFloat(o, x) == FArg(Sym(o, args[1], x, x))
        Integral(x) == Num(2 * RoundTo(args[1], x.h))
    IN
    CASE op.o \in {"F32toF64"} -> A
      [] op.o = "F64toF32" -> ToFloat("toF32", BB[0])
      [] op.o = "I32StoF64" -> FArg(Num(2 * Signed(A[0].h, B(32))))
      [] op.o = "I32UtoF64" -> FArg(Num(2 * A[0].h))
      [] op.o = "I64StoF64" -> ToFloat("toF64", Num(2 * Signed(BB[0].h, B(64))))
      [] op.o = "I64UtoF64" -> ToFloat("toF64", Num(2 * BB[0].h))
      [] op.o \in {"F64toI32S", "F64toI32U", "F64toI64S"} ->
           FArg(IntV(Trunc(RoundTo(args[1], BB[0].h), IntWidth)))
      [] op.fam = "RoundToInt" ->
           FArg(IF BB[0].k = "nan" THEN NaN
                ELSE IF Integral(BB[0]) = Num(0) /\ Negative(BB[0]) THEN NegZero
                ELSE Integral(BB[0]))
      [] op.fam = "OPF0X" -> Low(Lane1(op.o, A[0], BB[0]))
      [] op.fam = "OPF" -> L(LAMBDA x, y : Lane1(op.o, x, y))
      [] op.fam = "TRIOP" -> FArg(Sym(op.o, args[1], args[2][0], args[3][0]))
      [] op.fam = "RSQ" -> Low(Rsq(A[0]))
      [] op.fam = "RSQV" -> L(LAMBDA x, y : Rsq(x))
      [] op.fam = "NEG" -> L(LAMBDA x, y : IF x.k = "nan" THEN NaN
                                          ELSE IF x = Num(0) THEN NegZero
                                          ELSE Num(-x.h))
      [] op.fam = "AbsF" ->
           FArg(IF A[0].k = "nan" THEN NaN ELSE IF A[0].h < 0 THEN Num(-A[0].h)
                ELSE Num(A[0].h))
      [] op.fam = "MAdd" ->
           FArg(Sym("MulAdd", args[1], <<args[2][0], args[3][0]>>, args[4][0]))
      [] op.o = "PRem" -> FArg(Sym("frem", "exact", args[2][0], args[3][0]))
      [] op.o = "C3210" ->
           LET q == Quot(args[2][0].h, args[3][0].h)
           IN  FArg(IntV(PRemC3210(IF q < 0 THEN -q ELSE q)))
      [] op.fam = "OPF0X_CMP" -> Low(Mask(CmpOp(op.o, A[0], BB[0])))
      [] op.fam = "OPF_CMP" -> L(LAMBDA x, y : Mask(CmpOp(op.o, x, y)))
      [] op.fam = "OPF0X_SEL" -> Low(MaxMin(A[0], BB[0]))
      [] op.fam = "BINCMPF" -> L(MaxMin)
      [] op.fam = "CmpF64" ->
           FArg(IntV(IF Unordered(A[0], BB[0]) THEN 69
                     ELSE IF A[0].h = BB[0].h THEN 64
                     ELSE IF A[0].h < BB[0].h THEN 1 ELSE 0))

\* Where the emitters are known to differ from VEX.  The rounding mode is
\* ignored: by the scalar arithmetic and the conversions to float, which round
\* to nearest (vexop_macros.h:76, "probably wrong to discard rounding info";
\* vexop_softfloat.cc:156, "FIXME: ignores first parameter, rounding mode"), by
\* the conversions to integer, where the native build truncates and softfloat
\* rounds to nearest, and by rounding to an integral float, which truncates
\* (vexop_fp.cc:166, "TODO: rounding mode") and makes a negative operand's zero
\* +0.  A multiply-add rounds its product as well as its sum;
\* unsigned values with the top bit set are read as signed by softfloat, and
\* both builds convert to unsigned as if to signed; negating zero gives +0
\* and |-0| stays -0; an unordered minimum or maximum picks the first operand;
\* a negative partial-remainder quotient is shown in two's complement.
KnownDivergence ==
    \/ /\ op.o \in {"F64toI32S", "F64toI32U", "F64toI64S"}
       /\ \/ BB[0].k = "nan"
          \/ LET w == IF op.o = "F64toI64S" THEN B(64) ELSE B(32)
             IN  ~FitsSigned(RoundTo(args[1], BB[0].h), w)
          \/ args[1] # (IF op.s = "native" THEN "zero" ELSE "nearest")
    \/ op.fam = "TRIOP" /\ args[1] # "nearest"
    \/ op.o \in {"F64toF32", "I64StoF64", "I64UtoF64"} /\ args[1] # "nearest"
    \/ op.fam = "MAdd"
    \/ /\ op.fam = "RoundToInt"
       /\ \/ args[1] # "zero"
          \/ Negative(BB[0]) /\ RoundTo("zero", BB[0].h) = 0
    \/ op.s = "soft" /\ op.o = "I32UtoF64" /\ A[0].h >= 2^(B(32) - 1)
    \/ op.s = "soft" /\ op.o = "I64UtoF64" /\ BB[0].h >= 2^(B(64) - 1)
    \/ op.fam = "NEG" /\ \E i \in DOMAIN A : A[i] = Num(0)
    \/ op.fam = "AbsF" /\ A[0] = NegZero
    \/ op.fam \in {"OPF0X_SEL", "BINCMPF"} /\ Unordered(A[0], BB[0])
    \/ /\ op.o = "C3210"
       /\ \/ Unordered(args[2][0], args[3][0]) \/ args[3][0].h = 0
          \/ Quot(args[2][0].h, args[3][0].h) < 0

\* Whichever floating point back end is linked, an operator it implements
\* gives the value VEX defines, in the rounding mode it was given, except where
\* KnownDivergence says: the two builds are otherwise interchangeable
\* (vexop_fp.cc, vexop_softfloat.cc).
FloatExact ==
    (HasValue /\ ~IsInt /\ ~KnownDivergence) => res.val = FRef

=============================================================================
