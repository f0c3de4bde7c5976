------------------------------- MODULE VexStmt -------------------------------
(***************************************************************************)
(* The emit() methods of VexStmt and VexSB (vexstmt.cc, vexsb.cc): one     *)
(* action emits one statement, executes what was emitted on run and the    *)
(* statement itself, as VexIR says, on g.  Executing while emitting is     *)
(* sound because emitted code never branches backwards.  Statements after  *)
(* an exit that is taken are emitted on the runs on which it is not.       *)
(***************************************************************************)
EXTENDS VexExpr

\* Statement arguments are temporaries or constants.
Consts(ty) ==
    CASE ty = "I1"  -> {[k |-> "Const", ty |-> ty, b |-> <<x>>] : x \in {0, 1}}
      [] ty = "I8"  -> {[k |-> "Const", ty |-> ty, b |-> <<2>>]}
      [] ty = "I16" -> {[k |-> "Const", ty |-> ty, b |-> <<x, 0>>] : x \in {0, 2}}
      [] ty = "V"   -> {[k |-> "Const", ty |-> ty, b |-> <<3, 0, 0, 3>>, mask |-> 9]}
Tmps(ty) == {[k |-> "RdTmp", t |-> t] : t \in {i \in DOMAIN g.tmp : g.tmp[i].ty = ty}}
Atoms(ty) == Consts(ty) \cup Tmps(ty)
Data == Atoms("I8") \cup Atoms("I16") \cup Atoms("V")

\* Addresses at which a value of ty lies in the guest's memory.
Places(ty) == {a \in Atoms("I16") : InMemory(Num(ValueOf(g, a)), Size[ty])}
Arrays == {[base |-> 2, ty |-> "I16", len |-> 2], [base |-> 2, ty |-> "I8", len |-> 2]}
Biases == {-1, 0}

Gets == {[k |-> "Get", off |-> 1, ty |-> "I8"], [k |-> "Get", off |-> 2, ty |-> "I16"],
         [k |-> "Get", off |-> 0, ty |-> "V"]}
GetIs == {[k |-> "GetI", base |-> r.base, ty |-> r.ty, len |-> r.len, ix |-> x, bias |-> b]
            : r \in Arrays, x \in Atoms("I16"), b \in Biases}
Loads == (UNION {{[k |-> "Load", ty |-> ty, addr |-> a] : a \in Places(ty)} : ty \in {"I8", "I16"}})
         \cup {[k |-> "Load", ty |-> "I8", addr |-> [k |-> "Const", ty |-> "I16", b |-> <<0, 1>>]]}
ArgType == [CmpNEZ8 |-> "I8", Lanes16 |-> "I16", LanesV |-> "V"]
Ops == UNION {{[k |-> "Op", op |-> o, x |-> x, ty |-> OpType[o]] : x \in Atoms(ArgType[o])}
            : o \in DOMAIN ArgType}
CCalls == {[k |-> "CCall", x |-> x, y |-> y, ty |-> "I16"]
            : x \in Atoms("I16"), y \in Consts("I16")}
Mux(ty, arms) == {[k |-> "ITE", ty |-> ty, cond |-> c, iffalse |-> f, iftrue |-> t]
                    : c \in Atoms("I1"), f \in arms, t \in arms}
Arms(ty) == Atoms(ty) \cup {x \in Gets : x.ty = ty}
Muxes == Mux("V", Arms("V")) \cup Mux("I16", Tmps("I16") \cup {x \in Gets : x.ty = "I16"})
\* A mux in the arm of a mux.
Nested == {[k |-> "ITE", ty |-> "I16", cond |-> c, iffalse |-> m, iftrue |-> x]
            : c \in Atoms("I1"), x \in Consts("I16"), m \in Mux("I16", Consts("I16"))}
Exprs == Consts("I1") \cup Tmps("I16") \cup Gets \cup GetIs \cup Loads \cup Ops \cup CCalls
         \cup Muxes \cup Nested

ExprType(x) == IF x.k = "RdTmp" THEN g.tmp[x.t].ty ELSE x.ty
-----------------------------------------------------------------------------
Emitting == em.blk # <<>> /\ em.bad = "" /\ run.out = -1 /\ count.stmts < MaxStmts

Commit(e, r, h) ==
    /\ em' = e /\ run' = r /\ g' = h
    /\ count' = [count EXCEPT !.stmts = @ + 1, !.here = @ + 1]
    /\ odd' = odd

If(c, then, else) == IF c.b[1] # 0 THEN then ELSE else
\* The temporary the next statement defines; each is defined once.
Dst == Len(g.tmp) + 1
setRegValue(e, t, v) ==
    IF t <= Len(e.vals) THEN Fail(e, "assert") ELSE [e EXCEPT !.vals = Append(@, v)]

\* IMark, AbiHint and NoOp emit nothing.
NoOp == Emitting /\ Commit(em, run, g)

\* The fence orders memory for other threads; this guest has one.
MBE == Emitting /\ Commit(em, run, g)

Put ==
    /\ Emitting
    /\ \E x \in Data, off \in Offsets :
        /\ off % Size[TypeOf(g, x)] = 0 /\ off \in {0, 1, 2}
        /\ LET d == EmitAtom(em, x)
               w == writeCtx(d.e, off, d.v)
           IN  Commit(w.e, [run EXCEPT !.ctx = w.ctx],
                      [g EXCEPT !.ctx = Write(@, off, ValueOf(g, x))])

PutI ==
    /\ Emitting
    /\ \E r \in Arrays, ix \in Atoms("I16"), bias \in Biases : \E x \in Atoms(r.ty) :
        LET d == EmitAtom(em, x)
            i == EmitAtom(d.e, ix)
            w == writeCtxI(i.e, r.base, bias, r.len, i.v, d.v)
        IN  Commit(w.e, [run EXCEPT !.ctx = w.ctx],
                   [g EXCEPT !.ctx = Write(@, Element(r.base, r.ty, r.len, ValueOf(g, ix), bias),
                                           ValueOf(g, x))])

WrTmp ==
    /\ Emitting
    /\ \E x \in Exprs :
        LET r == Emit(em, x)
        IN  Commit(setRegValue(r.e, Dst, r.v), run, SetTmp(g, ExprType(x), Eval(g, x)))

Store ==
    /\ Emitting
    /\ \E x \in Data : \E a \in Places(TypeOf(g, x)) :
        LET d == EmitAtom(em, x)
            p == EmitAtom(d.e, a)
            s == store(p.e, run, p.v, d.v)
        IN  Commit(s.e, s.run, StoreAt(g, Num(ValueOf(g, a)), ValueOf(g, x)))

\* LLSC without data: an ordinary load; the link is not recorded.
LLSC_emitLoad ==
    /\ Emitting
    /\ \E a \in Places("I16") :
        LET p == EmitAtom(em, a)
            v == load(p.e, p.v, "i16")
        IN  Commit(setRegValue(v.e, Dst, v.v), run,
                   SetTmp(g, "I16", Read(g.mem, Num(ValueOf(g, a)), 2)))

\* LLSC with data: a branch on the constant getLinked() around the store.
LLSC_emitStore ==
    /\ Emitting
    /\ \E x \in Atoms("I16") : \E a \in Places("I16") :
        LET p == EmitAtom(Open(em, "linked"), a)
            d == EmitAtom(p.e, x)
            s == store(d.e, run, p.v, d.v)
            merge == At(s.e, Append(em.blk, "unlinked"))
        IN  Commit(setRegValue(merge, Dst, getLinked), If(getLinked, s.run, run),
                   SetTmp(StoreAt(g, Num(ValueOf(g, a)), ValueOf(g, x)), "I1", <<1>>))

StoreG ==
    /\ Emitting
    /\ \E c \in Atoms("I1"), x \in Data : \E a \in Places(TypeOf(g, x)) :
        LET q == EmitAtom(em, c)
            p == EmitAtom(Open(q.e, "storeg_then"), a)
            d == EmitAtom(p.e, x)
            s == store(d.e, run, p.v, d.v)
        IN  Commit(At(s.e, Append(q.e.blk, "storeg_merge")), If(q.v, s.run, run),
                   IF ValueOf(g, c)[1] = 1
                   THEN StoreAt(g, Num(ValueOf(g, a)), ValueOf(g, x)) ELSE g)

\* What LoadG loads, in type and bytes, and what it makes of it.
LoadGs == [Ident32 |-> "I16", IdentV128 |-> "V", Uto32 |-> "I8", Sto32 |-> "I8"]
LoadGType(cvt) == IF cvt = "IdentV128" THEN "V" ELSE "I16"
Convert(cvt, b) ==
    CASE cvt \in {"Ident32", "IdentV128"} -> b
      [] cvt = "Uto32" -> b \o <<0>>
      [] cvt = "Sto32" -> b \o <<IF b[1] >= Digits \div 2 THEN Digits - 1 ELSE 0>>

\* CreateZExt and CreateSExt of the loaded value.
loadg_ext(cvt, b) ==
    CASE cvt \in {"Ident32", "IdentV128"} -> b
      [] cvt = "Uto32" -> [i \in 1 .. 2 |-> IF i = 1 THEN b[1] ELSE 0]
      [] cvt = "Sto32" -> [i \in 1 .. 2 |-> IF i = 1 THEN b[1] ELSE (b[1] \div 2) * 3]

\* Guard, address and alternative are emitted before the branch; only the
\* load is guarded.
LoadG ==
    /\ Emitting
    /\ \E cvt \in DOMAIN LoadGs, c \in Atoms("I1") :
       \E a \in Places(LoadGs[cvt]), alt \in Atoms(LoadGType(cvt)) :
        LET q == EmitAtom(em, c)
            p == EmitAtom(q.e, a)
            o == EmitAtom(p.e, alt)
            l == load(Open(o.e, "loadg_then"), p.v, LLVMType[LoadGs[cvt]])
            ty == LLVMType[LoadGType(cvt)]
            merge == At(l.e, Append(o.e.blk, "loadg_merge"))
            phi == Fresh(Check(merge, o.v.ty = ty, "alternative"), ty,
                         If(q.v, loadg_ext(cvt, l.v.b), o.v.b))
            wide == Read(g.mem, Num(ValueOf(g, a)), Size[LoadGs[cvt]])
        IN  Commit(setRegValue(phi.e, Dst, phi.v), run,
                   SetTmp(g, LoadGType(cvt),
                          IF ValueOf(g, c)[1] = 1 THEN Convert(cvt, wide) ELSE ValueOf(g, alt)))

\* Single compare and swap: the new value is emitted in the branch.
CAS ==
    /\ Emitting
    /\ \E a \in Places("I16"), x \in Atoms("I16"), y \in Atoms("I16") :
        LET p == EmitAtom(em, a)
            ex == EmitAtom(p.e, x)
            old == load(Integer(ex.e, ex.v), p.v, ex.v.ty)
            new == EmitAtom(Open(old.e, "cas_match_expect"), y)
            s == store(new.e, run, p.v, new.v)
            merge == At(s.e, Append(old.e.blk, "cas_merge"))
            at == Num(ValueOf(g, a))
            was == Read(g.mem, at, 2)
        IN  Commit(setRegValue(merge, Dst, old.v), IF ex.v.b = old.v.b THEN s.run ELSE run,
                   SetTmp(IF was = ValueOf(g, x) THEN StoreAt(g, at, ValueOf(g, y)) ELSE g,
                          "I16", was))

\* Both halves of a double CAS: bytes at 0 and 1 with expected and new values
\* lo and hi.  The two comparisons are themselves compared, and the value
\* emitted for the high half is new_val again.
Bytes8 == {[k |-> "Const", ty |-> "I8", b |-> <<x>>] : x \in {1, 2}}
DoubleCAS ==
    /\ Emitting
    /\ \E a \in {x \in Consts("I16") : x.b = <<0, 0>>},
          lo \in Bytes8, hi \in Bytes8, newLo \in Bytes8, newHi \in Bytes8 :
        LET p == EmitAtom(em, a)
            exLo == EmitConst(p.e, lo)
            oldLo == load(exLo.e, p.v, exLo.v.ty)
            exHi == EmitConst(oldLo.e, hi)
            p2 == [p.v EXCEPT !.b = <<p.v.b[1] + 1, p.v.b[2]>>]
            oldHi == load(exHi.e, p2, exLo.v.ty)
            match == (exLo.v.b = oldLo.v.b) = (exHi.v.b = oldHi.v.b)
            new == EmitConst(Open(oldHi.e, "cas_match_expect"), newLo)
            s1 == store(new.e, run, p.v, new.v)
            s2 == store(s1.e, s1.run, p2, new.v)
            merge == At(s2.e, Append(oldHi.e.blk, "cas_merge"))
            e1 == setRegValue(merge, Dst, oldLo.v)
            was == Read(g.mem, 0, 2)
            equal == was = lo.b \o hi.b
            h == IF equal THEN StoreAt(StoreAt(g, 0, newLo.b), 1, newHi.b) ELSE g
        IN  /\ em' = setRegValue(e1, Dst + 1, oldHi.v)
            /\ run' = IF match THEN s2.run ELSE run
            /\ g' = SetTmp(SetTmp(h, "I8", <<was[1]>>), "I8", <<was[2]>>)
            /\ count' = [count EXCEPT !.stmts = @ + 1, !.here = @ + 1]
            \* neither half matches, or the halves are to differ
            /\ odd' = (odd \/ (was[1] # lo.b[1] /\ was[2] # hi.b[1])
                           \/ (equal /\ newLo # newHi))

\* A result is fitted to its temporary by zero extension or truncation.
Fit(b, n) == [i \in 1 .. n |-> IF i <= Len(b) THEN b[i] ELSE 0]

\* Mutant: the call is made whatever the guard says.
DirtyUnguarded(e, c) == [e |-> e, br |-> FALSE]

\* Only a guard that is the constant 1 needs no branch.
DirtyBranch(e, c) ==
    IF c.const /\ c.b = <<1>> THEN [e |-> e, br |-> FALSE]
    ELSE [e |-> Open(e, "dirty_then"), br |-> TRUE]

\* The helper gets the context pointer and writes a register; ret is the
\* width of what it returns, tmp the type of the temporary, if it has one.
\* The cast of the first argument presumes that there is one.
Dirty ==
    /\ Emitting
    /\ \E c \in Atoms("I1"), ret \in {1, 2}, tmp \in {"none", "I8", "I16"},
          args \in {<<>>} \cup {<<x>> : x \in Atoms("I16")} :
        LET q == EmitAtom(em, c)
            b == DirtyBranch(q.e, q.v)
        IN  IF args = <<>>
            THEN Commit(Fail(b.e, "no arguments"), run, g)
            ELSE LET x == EmitAtom(b.e, args[1])
                     call == Integer(x.e, x.v)
                     bytes == Fit(Dirtied(x.v.b), ret)
                     res == Fresh(call, LLVMType[tmp], Fit(bytes, Size[tmp]))
                     e1 == IF tmp = "none" THEN call ELSE setRegValue(call, Dst, res.v)
                     arg == ValueOf(g, args[1])
                     h == IF ValueOf(g, c)[1] = 1
                          THEN [g EXCEPT !.ctx = Write(@, 0, <<arg[1]>>)] ELSE g
                 IN  Commit(IF b.br THEN At(e1, Append(q.e.blk, "dirty_merge")) ELSE e1,
                            IF b.br /\ q.v.b[1] = 0 THEN run
                            ELSE [run EXCEPT !.ctx = Write(@, 0, <<x.v.b[1]>>)],
                            IF tmp = "none" THEN h
                            ELSE SetTmp(h, tmp, Fit(Fit(Dirtied(arg), ret), Size[tmp])))

\* The kinds of side exit the constructor of VexStmtExit knows.
exit_type ==
    [Boring |-> "GE_IGNORE", Call |-> "GE_CALL", Ret |-> "GE_RETURN",
     Sys_int128 |-> "GE_INT", Sys_syscall |-> "GE_SYSCALL",
     Sys_sysenter |-> "GE_SYSCALL", MapFail |-> "GE_SIGSEGV",
     SigSEGV |-> "GE_SIGSEGV", EmWarn |-> "GE_EMWARN", NoDecode |-> "GE_EMWARN"]

\* A side exit: a special kind stores its exit type in the branch that leaves.
Exit ==
    /\ Emitting
    /\ \E c \in Atoms("I1"), jk \in JumpKinds, dst \in {7} :
        LET q == EmitAtom(em, c)
            then == Open(q.e, "exit_then")
            w == IF jk = "Boring" THEN [e |-> then, ctx |-> run.ctx]
                 ELSE setExitType(then, exit_type[jk])
            else == At(w.e, Append(q.e.blk, "exit_else"))
        IN  IF jk \notin DOMAIN exit_type
            THEN Commit(Fail(em, "jump kind"), run, g)
            ELSE Commit(else, If(q.v, [run EXCEPT !.ctx = w.ctx, !.out = dst], run),
                        IF ValueOf(g, c)[1] = 1
                        THEN [g EXCEPT !.out = [to |-> dst, jk |-> jk]] ELSE g)
-----------------------------------------------------------------------------
\* VexSB::emit after the last statement, for the kinds loadJump admits.
jump_type ==
    [Boring |-> "GE_IGNORE", NoRedir |-> "GE_IGNORE", ClientReq |-> "GE_IGNORE",
     Call |-> "GE_CALL", Ret |-> "GE_RETURN", Yield |-> "GE_YIELD",
     Sys_int128 |-> "GE_INT", Sys_syscall |-> "GE_SYSCALL",
     Sys_sysenter |-> "GE_SYSCALL", SigTRAP |-> "GE_SIGTRAP"]
EndAddr == 9

\* The destination; after a sysenter it is the end of the block, constant.
loadJump(jk, next) ==
    IF jk = "Sys_sysenter" THEN [k |-> "Const", ty |-> "I16", b |-> <<EndAddr % Digits, EndAddr \div Digits>>]
    ELSE next

EmitEnd ==
    /\ em.blk # <<>> /\ em.bad = ""
    /\ \E jk \in JumpKinds \ {"NoDecode"}, next \in Atoms("I16") :
        LET d == EmitAtom(em, loadJump(jk, next))
            w == IF jump_type[jk] = "GE_IGNORE" THEN [e |-> d.e, ctx |-> run.ctx]
                 ELSE setExitType(d.e, jump_type[jk])
            ok == Integer(w.e, d.v)
        IN  IF jk \notin DOMAIN jump_type
            THEN em' = Fail(em, "jump kind") /\ UNCHANGED <<run, g>>
            ELSE /\ em' = IF ok.bad = "" THEN endBB ELSE ok
                 /\ run' = IF run.out # -1 THEN run
                           ELSE [run EXCEPT !.ctx = w.ctx, !.out = Num(d.v.b)]
                 /\ g' = IF g.out # Live THEN g
                         ELSE [g EXCEPT !.out =
                                [to |-> IF jk = "Sys_sysenter" THEN EndAddr ELSE Num(ValueOf(g, next)),
                                 jk |-> jk]]
    /\ UNCHANGED <<odd, count>>

\* The next block.  The dispatcher has consumed the exit type.
EmitBegin ==
    /\ em.blk = <<>> /\ em.bad = "" /\ count.blocks < MaxBlocks
    /\ em' = beginBB(count.blocks + 1)
    /\ run' = [run EXCEPT !.ctx[ExitTypeOffset] = "GE_IGNORE", !.out = -1]
    /\ g' = [g EXCEPT !.tmp = <<>>, !.out = Live]
    /\ count' = [count EXCEPT !.here = 0, !.blocks = @ + 1]
    /\ odd' = odd

Registers == <<1, 2, 3, 0, 2, 1>>
Memory == <<2, 1, 0, 3>>

EmitInit ==
    /\ em = endBB
    /\ run = [ctx |-> [i \in Offsets \cup {ExitTypeOffset} |->
                        IF i = ExitTypeOffset THEN "GE_IGNORE" ELSE Registers[i + 1]],
              mem |-> [a \in HostAddresses |-> Memory[a - Base + 1]],
              log |-> NoStore, out |-> -1]
    /\ g = [ctx |-> [i \in Offsets |-> Registers[i + 1]],
            mem |-> [a \in Addresses \cup {SysAddr} |-> IF a = SysAddr THEN SysByte ELSE Memory[a + 1]],
            tmp |-> <<>>, out |-> Live, log |-> NoStore]
    /\ odd = FALSE
    /\ count = [stmts |-> 0, here |-> 0, blocks |-> 0]

EmitStmt ==
    \/ NoOp \/ MBE \/ Put \/ PutI \/ WrTmp \/ Store \/ LLSC_emitLoad \/ LLSC_emitStore
    \/ StoreG \/ LoadG \/ CAS \/ DoubleCAS \/ Dirty \/ Exit

EmitNext == EmitBegin \/ EmitStmt \/ EmitEnd
EmitSpec == EmitInit /\ [][EmitNext]_emitVars
-----------------------------------------------------------------------------
\* The machines agree: registers, memory, every temporary a later statement
\* can use, where control is, the exit type the dispatcher will read and the
\* last store the cross-checker will compare.  Not after a double CAS that
\* VexStmtCAS::emit gets wrong.
Faithful ==
    em.bad = "" /\ ~odd =>
        /\ \A i \in Offsets : run.ctx[i] = g.ctx[i]
        /\ \A a \in Addresses : run.mem[Base + a] = g.mem[a]
        /\ \A t \in DOMAIN em.vals :
               Dominates(em.vals[t].def, em) => em.vals[t].b = g.tmp[t].b
        /\ run.out = g.out.to
        /\ g.out # Live => run.ctx[ExitTypeOffset] = ExitType[g.out.jk]
        /\ log_last_store => run.log = g.log

\* The ways a legal superblock can still break the emitter.
KnownIllFormed ==
    {"", "guarded dirty value", "vector operand", "wide phi", "alternative",
     "no arguments", "jump kind"}

\* Whatever the order of statements, emission asserts nothing, and the IR it
\* builds is well formed: definitions dominate uses through every branch a
\* statement opens, cached pointers included, phis name their predecessors,
\* and types match.
WellFormed == em.bad \in KnownIllFormed

\* VexStmtCAS::emit, vexstmt.cc:236: "If addr contains the same value as
\* expected_val, then new_val is written there, else there is no write."
CASWritesOnMatch ==
    em.bad = "" => \A a \in Addresses : run.mem[Base + a] = g.mem[a]
=============================================================================
