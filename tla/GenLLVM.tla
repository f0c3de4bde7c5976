------------------------------- MODULE GenLLVM -------------------------------
(***************************************************************************)
(* The LLVM emission context: the function being built, the caches of      *)
(* pointers into the guest registers, and the instructions that read and   *)
(* write registers and guest memory (genllvm.cc, memlog.cc).               *)
(*                                                                         *)
(* em is what the emitter holds, run the machine the emitted instructions  *)
(* run on: an operator that emits an instruction also says what executing  *)
(* it does.  A value is its LLVM type, its bytes on this run, the block    *)
(* that defines it, and whether it is a constant.                          *)
(*                                                                         *)
(* A basic block is named by its function and the branches that lead to    *)
(* it: the blocks a branch in b opens, and the one where they meet again,  *)
(* are b extended by a label.  So b dominates c when b is a prefix of c.   *)
(***************************************************************************)
EXTENDS VexIR, SequencesExt

CONSTANTS Base,               \* guest.getMem()->getBase()
          fake_vsys_reads,    \* VEXLLVM_FAKE_VSYS
          log_last_store,     \* VEXLLVM_LAST_STORE
          JumpKinds,          \* the kinds of exit a run looks at
          MaxStmts, MaxBlocks \* bounds: statements in all, blocks

ASSUME EmitAssumption ==
    /\ Base \in Nat
    /\ fake_vsys_reads \in BOOLEAN /\ log_last_store \in BOOLEAN
    /\ JumpKinds \subseteq DOMAIN ExitType
    /\ MaxStmts \in Nat /\ MaxBlocks \in Nat

VARIABLES em,     \* emission: insert block, values[], the two context caches
          run,    \* the machine the emitted instructions run on
          g,      \* the machine the statements run on
          odd,    \* a double CAS has left what VexIR says
          count   \* statements in all, in this block, and blocks

emitVars == <<em, run, g, odd, count>>

ExitTypeOffset == 6        \* exit_type follows the register file
HostAddresses == Base .. Base + 3

LLVMType == [I1 |-> "i1", I8 |-> "i8", I16 |-> "i16", V |-> "v4x8"]
Bytes == [i1 |-> 1, i8 |-> 1, i16 |-> 2, v2x8 |-> 2, v4x8 |-> 4, v2x16 |-> 4]
IsVector(ty) == ty \in {"v2x8", "v4x8", "v2x16"}
OpLLVMType == [CmpNEZ8 |-> "i1", Lanes16 |-> "v2x8", LanesV |-> "v2x16"]

\* e is the emission state; the first thing that goes wrong is kept in e.bad.
Fail(e, why) == IF e.bad = "" THEN [e EXCEPT !.bad = why] ELSE e
Check(e, ok, why) == IF ok THEN e ELSE Fail(e, why)
Open(e, label) == [e EXCEPT !.blk = Append(@, label)]
At(e, blk) == [e EXCEPT !.blk = blk]
InEntry(e) == Len(e.blk) = 1      \* entry_bb == GetInsertBlock()
Dominates(d, e) == IsPrefix(d, e.blk)
Constant(ty, b) == [ty |-> ty, b |-> b, def |-> <<>>, const |-> TRUE]
Fresh(e, ty, b) ==
    [e |-> e, v |-> [ty |-> ty, b |-> b, def |-> e.blk, const |-> FALSE]]
\* A value that LLVM requires to be an integer: an address, an argument, a
\* comparison that decides a branch.
Integer(e, v) == Check(e, ~IsVector(v.ty), "vector operand")
-----------------------------------------------------------------------------
(* GenLLVM: access to the guest registers and to guest memory.             *)

\* Casts of the context pointer are shared within the entry block only.
\* off is in units of ty.
getCtxTyGEP(e, off, ty) ==
    [e |-> IF InEntry(e) THEN [e EXCEPT !.cast = @ \cup {ty}] ELSE e,
     p |-> [at |-> off * Bytes[ty], ty |-> ty, def |-> e.blk]]

Key(off, ty) == <<off, Bytes[ty]>>

\* Mutant: a cached pointer is used wherever it was made.
GEPFromAnyBlock(e, byteOff, ty) ==
    LET key == Key(byteOff, ty)
        new == getCtxTyGEP(e, byteOff \div Bytes[ty], ty)
    IN  IF key \in DOMAIN e.gep /\ e.gep[key].ty = ty THEN [e |-> e, p |-> e.gep[key]]
        ELSE IF key \in DOMAIN e.gep THEN new
        ELSE [new EXCEPT !.e.gep = [k \in DOMAIN @ \cup {key} |->
                                        IF k = key THEN new.p ELSE @[k]]]

\* Mutant: the type of a cached pointer is not looked at.
GEPOfAnyType(e, byteOff, ty) ==
    LET key == Key(byteOff, ty)
        new == getCtxTyGEP(e, byteOff \div Bytes[ty], ty)
    IN  IF key \in DOMAIN e.gep /\ InEntry(e) THEN [e |-> e, p |-> e.gep[key]]
        ELSE IF key \in DOMAIN e.gep THEN new
        ELSE [new EXCEPT !.e.gep = [k \in DOMAIN @ \cup {key} |->
                                        IF k = key THEN new.p ELSE @[k]]]

\* gepbyte_map remembers the first pointer made for an offset and a size,
\* and gives it out in the entry block to accesses of the same type.
getCtxByteGEP(e, byteOff, ty) ==
    LET key == Key(byteOff, ty)
        new == getCtxTyGEP(e, byteOff \div Bytes[ty], ty)
    IN  IF key \in DOMAIN e.gep /\ InEntry(e) /\ e.gep[key].ty = ty
        THEN [e |-> e, p |-> e.gep[key]]
        ELSE IF key \in DOMAIN e.gep THEN new
        ELSE [new EXCEPT !.e.gep = [k \in DOMAIN @ \cup {key} |->
                                        IF k = key THEN new.p ELSE @[k]]]

\* A load or store of type ty through pointer p.
Through(e, p, ty) ==
    Check(Check(e, Dominates(p.def, e), "dominance"), p.ty = ty, "type")

readCtx(e, byteOff, ty) ==
    LET r == getCtxByteGEP(e, byteOff, ty)
    IN  Fresh(Through(r.e, r.p, ty), ty, Read(run.ctx, r.p.at, Bytes[ty]))

\* Mutant: the base is not scaled to elements.
IndexOfBytes(byteOff, bias, len, ix, ty) ==
    (((Num(ix) + bias) % Word) % len) + byteOff

\* The index of a register array element in units of ty, computed in the
\* width of an int: CreateAdd of ix and bias, CreateURem, CreateAdd.
indexCtx(byteOff, bias, len, ix, ty) ==
    (((Num(ix) + bias) % Word) % len) + (byteOff \div Bytes[ty])

ElementGEP(e, byteOff, bias, len, ix, ty) ==
    getCtxTyGEP(Check(e, byteOff % Bytes[ty] = 0, "assert"),
                indexCtx(byteOff, bias, len, ix.b, ty), ty)

readCtxI(e, byteOff, bias, len, ix, ty) ==
    LET r == ElementGEP(e, byteOff, bias, len, ix, ty)
    IN  Fresh(r.e, ty, Read(run.ctx, r.p.at, Bytes[ty]))

\* writeCtx returns the registers after the store has run.
writeCtx(e, byteOff, v) ==
    LET r == getCtxByteGEP(e, byteOff, v.ty)
    IN  [e |-> Through(r.e, r.p, v.ty), ctx |-> Write(run.ctx, r.p.at, v.b)]

writeCtxI(e, byteOff, bias, len, ix, v) ==
    LET r == ElementGEP(e, byteOff, bias, len, ix, v.ty)
    IN  [e |-> r.e, ctx |-> Write(run.ctx, r.p.at, v.b)]

setExitType(e, t) == writeCtx(e, ExitTypeOffset, Constant("i8", <<t>>))

\* MemLog::recordStore overwrites the one entry of the log: guest address,
\* size and the value.
recordStore(l, addr, v) == IF log_last_store THEN [addr |-> Num(addr.b), b |-> v.b] ELSE l

\* r is a machine; the guest address is widened and relocated by Base.  Loads and
\* stores are marked as aligned to 8 bytes whatever the address (setAlignment),
\* which allows LLVM to assume it: the model has the plain access that the x86
\* back end makes of it.
store(e, r, addr, v) ==
    [e |-> Integer(e, addr),
     run |-> [r EXCEPT !.mem = Write(@, Base + Num(addr.b), v.b),
                       !.log = recordStore(@, addr, v)]]

\* A constant address in the vsyscall page is read while translating.
load(e, addr, ty) ==
    LET f == Integer(e, addr)
    IN  IF fake_vsys_reads /\ addr.const /\ Num(addr.b) = SysAddr
        THEN [e |-> f, v |-> Constant(ty, <<SysByte>>)]
        ELSE Fresh(f, ty, Read(run.mem, Base + Num(addr.b), Bytes[ty]))

\* No link is ever recorded: markLinked does nothing.
getLinked == Constant("i1", <<1>>)

\* endBB drops the function and everything cached for it.
endBB == [blk |-> <<>>, vals |-> <<>>, gep |-> <<>>, cast |-> {}, bad |-> ""]

\* beginBB opens function number i; values[] was cleared by VexSB::emit.
beginBB(i) == [em EXCEPT !.blk = <<i>>]
=============================================================================
