-------------------------------- MODULE VexIR --------------------------------
(***************************************************************************)
(* What a VEX superblock means: the reference the emitted code is compared *)
(* with.  Types and statements are those of libVEX as the visitors in      *)
(* vexstmt.cc and vexexpr.cc receive them; none of this is vexllvm's code. *)
(*                                                                         *)
(* A byte is a digit 0 .. 3.  I8, I16 and V stand for one byte, one word   *)
(* (addresses and indices are words) and one vector register of two words; *)
(* values are little-endian sequences of bytes.                            *)
(***************************************************************************)
EXTENDS Integers, Sequences

Digits == 4
Word   == Digits * Digits
Size   == [I1 |-> 1, I8 |-> 1, I16 |-> 2, V |-> 4]

Offsets   == 0 .. 5        \* the guest register file
Addresses == 0 .. 3        \* the guest's memory
SysAddr   == 4             \* a byte of the vsyscall page, which nothing writes
SysByte   == 2
Live == [to |-> -1, jk |-> "none"]   \* control has not left the block
NoStore == [addr |-> -1, b |-> <<>>]

\* Bytes as a number; nothing longer than a word is used as one.
Num(b) == b[1] + (IF Len(b) > 1 THEN Digits * b[2] ELSE 0)
Read(m, a, n) == [i \in 1 .. n |-> m[a + i - 1]]
Write(m, a, b) ==
    [x \in DOMAIN m |-> IF a <= x /\ x < a + Len(b) THEN b[x - a + 1] ELSE m[x]]
InMemory(a, n) == a + n - 1 \in Addresses

\* The operators themselves are VexOp's subject; these three differ in the
\* LLVM type their emitters return.
ApplyOp(o, b) ==
    CASE o = "CmpNEZ8" -> <<IF b[1] = 0 THEN 0 ELSE 1>>
      [] o \in {"Lanes16", "LanesV"} -> [i \in DOMAIN b |-> Digits - 1 - b[i]]
OpType == [CmpNEZ8 |-> "I1", Lanes16 |-> "I16", LanesV |-> "V"]

\* A clean helper: a function of its arguments alone.
Helper(x, y) == <<x[1], y[1]>>
\* The value a dirty helper returns, before it is fitted to the temporary.
Dirtied(x) == <<x[1], 3>>

\* The element of a register array that PutI and GetI address.
Element(base, ty, len, ix, bias) == base + Size[ty] * ((Num(ix) + bias) % len)

\* g = [ctx, mem, tmp, out, log]: registers, memory, temporaries, the exit
\* taken and the last store.
ValueOf(g, e) == IF e.k = "RdTmp" THEN g.tmp[e.t].b ELSE e.b
TypeOf(g, e)  == IF e.k = "RdTmp" THEN g.tmp[e.t].ty ELSE e.ty

EvalLeaf(g, e) ==
    CASE e.k \in {"RdTmp", "Const"} -> ValueOf(g, e)
      [] e.k = "Get"   -> Read(g.ctx, e.off, Size[e.ty])
      [] e.k = "GetI"  -> Read(g.ctx, Element(e.base, e.ty, e.len, ValueOf(g, e.ix), e.bias), Size[e.ty])
      [] e.k = "Load"  -> Read(g.mem, Num(ValueOf(g, e.addr)), Size[e.ty])
      [] e.k = "Op"    -> ApplyOp(e.op, ValueOf(g, e.x))
      [] e.k = "CCall" -> Helper(ValueOf(g, e.x), ValueOf(g, e.y))

EvalArm(g, e) ==
    IF e.k # "ITE" THEN EvalLeaf(g, e)
    ELSE EvalLeaf(g, IF ValueOf(g, e.cond)[1] # 0 THEN e.iftrue ELSE e.iffalse)

Eval(g, e) ==
    IF e.k # "ITE" THEN EvalLeaf(g, e)
    ELSE EvalArm(g, IF ValueOf(g, e.cond)[1] # 0 THEN e.iftrue ELSE e.iffalse)

SetTmp(g, ty, b) == [g EXCEPT !.tmp = Append(@, [ty |-> ty, b |-> b])]
StoreAt(g, a, b) == [g EXCEPT !.mem = Write(@, a, b), !.log = [addr |-> a, b |-> b]]

\* The exit type the dispatcher must see for an exit of each kind.
ExitType ==
    [Boring |-> "GE_IGNORE", NoRedir |-> "GE_IGNORE", ClientReq |-> "GE_IGNORE",
     Call |-> "GE_CALL", Ret |-> "GE_RETURN", Yield |-> "GE_YIELD",
     Sys_int128 |-> "GE_INT", Sys_syscall |-> "GE_SYSCALL",
     Sys_sysenter |-> "GE_SYSCALL", SigTRAP |-> "GE_SIGTRAP",
     MapFail |-> "GE_SIGSEGV", SigSEGV |-> "GE_SIGSEGV",
     EmWarn |-> "GE_EMWARN", NoDecode |-> "GE_EMWARN"]
=============================================================================
