------------------------------- MODULE VexExpr -------------------------------
(***************************************************************************)
(* The emit() methods of VexExpr (vexexpr.cc).  Emitting an expression     *)
(* returns the emission state and the value; the arms of a mux open blocks *)
(* of their own.                                                           *)
(***************************************************************************)
EXTENDS GenLLVM

\* Each bit of a V128 constant stands for a byte; one word at a time.
bitmask8_to_bytemask64(w8) ==
    [i \in 1 .. 2 |-> IF (w8 \div 2^(i - 1)) % 2 = 1 THEN Digits - 1 ELSE 0]

ConstV128(mask) ==
    Constant("v4x8", bitmask8_to_bytemask64(mask % 4) \o bitmask8_to_bytemask64((mask \div 4) % 4))

EmitConst(e, x) ==
    [e |-> e, v |-> IF x.ty = "V" THEN ConstV128(x.mask) ELSE Constant(LLVMType[x.ty], x.b)]

\* getRegValue asserts that the temporary was set.  A value made in the
\* branch of a guarded dirty call does not dominate what follows it.
RdTmp(e, t) ==
    LET v == em.vals[t]
    IN  IF t > Len(em.vals) THEN [e |-> Fail(e, "assert"), v |-> Constant("i1", <<0>>)]
        ELSE [v |-> v,
              e |-> Check(e, Dominates(v.def, e),
                          IF v.def # <<>> /\ Last(v.def) = "dirty_then"
                          THEN "guarded dirty value" ELSE "dominance")]

EmitAtom(e, x) == IF x.k = "RdTmp" THEN RdTmp(e, x.t) ELSE EmitConst(e, x)

EmitGetI(e, x) ==
    LET ix == EmitAtom(e, x.ix)
    IN  readCtxI(ix.e, x.base, x.bias, x.len, ix.v, LLVMType[x.ty])

EmitLoad(e, x) ==
    LET addr == EmitAtom(e, x.addr) IN load(addr.e, addr.v, LLVMType[x.ty])

\* An operator casts its arguments to the shape it works on.
EmitOp(e, x) ==
    LET a == EmitAtom(e, x.x) IN Fresh(a.e, OpLLVMType[x.op], ApplyOp(x.op, a.v.b))

EmitCCall(e, x) ==
    LET a == EmitAtom(e, x.x)
        b == EmitAtom(a.e, x.y)
    IN  Fresh(Integer(Integer(b.e, a.v), b.v), "i16", Helper(a.v.b, b.v.b))

EmitLeaf(e, x) ==
    CASE x.k \in {"RdTmp", "Const"} -> EmitAtom(e, x)
      [] x.k = "Get"   -> readCtx(e, x.off, LLVMType[x.ty])
      [] x.k = "GetI"  -> EmitGetI(e, x)
      [] x.k = "Load"  -> EmitLoad(e, x)
      [] x.k = "Op"    -> EmitOp(e, x)
      [] x.k = "CCall" -> EmitCCall(e, x)

\* A vector that fits a register becomes an integer.
flattenType(v) == IF v.ty = "v2x8" THEN [v EXCEPT !.ty = "i16"] ELSE v

\* Mutant: the phi names the block the arm began in.
ArmBegins(begin, end) == begin

\* The block that branches to the merge is the one the arm ended in, which a
\* mux inside the arm has moved on.
ArmEnds(begin, end) == end

\* VexExprMux0X::emit: the condition c, then the two arms in blocks of their
\* own, the nonzero one first, then the merge.
MuxThen(c) == Open(c.e, "mux0X_nonzero")
MuxElse(c, nz) == At(nz.e, Append(c.e.blk, "mux0X_zero"))
EmitMux(c, nz, z) ==
    LET nzv == flattenType(nz.v)
        zv  == flattenType(z.v)
        merge == At(z.e, Append(c.e.blk, "mux0X_merge"))
        phi == {ArmEnds(MuxThen(c).blk, nz.e.blk), ArmEnds(MuxElse(c, nz).blk, z.e.blk)}
        ok1 == Check(merge, phi = {nz.e.blk, z.e.blk}, "phi")
        ok2 == Check(ok1, zv.ty = nzv.ty, IF Bytes[zv.ty] > 2 THEN "wide phi" ELSE "type")
    IN  Fresh(ok2, zv.ty, IF c.v.b[1] = 0 THEN zv.b ELSE nzv.b)

\* Conditionals nest in the arms of another, one level deep here.
EmitArm(e, x) ==
    LET c  == EmitAtom(e, x.cond)
        nz == EmitLeaf(MuxThen(c), x.iftrue)
        z  == EmitLeaf(MuxElse(c, nz), x.iffalse)
    IN  IF x.k = "ITE" THEN EmitMux(c, nz, z) ELSE EmitLeaf(e, x)
Emit(e, x) ==
    LET c  == EmitAtom(e, x.cond)
        nz == EmitArm(MuxThen(c), x.iftrue)
        z  == EmitArm(MuxElse(c, nz), x.iffalse)
    IN  IF x.k = "ITE" THEN EmitMux(c, nz, z) ELSE EmitLeaf(e, x)
=============================================================================
