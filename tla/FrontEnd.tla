------------------------------- MODULE FrontEnd -------------------------------
(***************************************************************************)
(* From guest bytes to LLVM functions: VexXlate delivers a superblock,     *)
(* VexSB::emit turns it into a function, on one thread.                    *)
(***************************************************************************)
EXTENDS VexXlate, VexStmt

vars == <<emitVars, xlVars>>

Init == XlateInit /\ EmitInit

\* The caller of xlate gives up, or emits the block it got.
GiveUp ==
    /\ xl.pc = "return" /\ xl.ret = NULL
    /\ xl' = [xl EXCEPT !.pc = "idle", !.guest = <<>>, !.bytes = <<>>]
    /\ frags' = {}
    /\ UNCHANGED <<emitVars, cb_vexsb>>

\* What the call left behind plays no further part.
Deliver ==
    /\ xl.pc = "return" /\ xl.ret # NULL
    /\ EmitBegin
    /\ xl' = [pc |-> "idle", guest |-> <<>>, bytes |-> <<>>, ret |-> NULL, calls |-> xl.calls]
    /\ cb_vexsb' = Freed /\ frags' = {}

Translate ==
    /\ em.blk = <<>> /\ em.bad = ""
    /\ UNCHANGED emitVars
    /\ \/ \E c \in Codes : xlate(c)
       \/ AccessFail \/ vex_finaltidy \/ patchBadDecode \/ RecordAndReturn

Next ==
    \/ Translate \/ GiveUp \/ Deliver
    \/ EmitStmt /\ UNCHANGED xlVars
    \/ EmitEnd /\ UNCHANGED xlVars

Spec == Init /\ [][Next]_vars
-----------------------------------------------------------------------------
\* What the guest meant: Windows system calls are system calls.
Intended(c) == [i \in DOMAIN c |-> IF c[i] = "int2e" THEN "int80" ELSE c[i]]
HasBytesInOperand(c) == \E i \in DOMAIN c : c[i] = "imm2e"

\* A call of xlate answers with the block of its own bytes, never with one
\* left in the global by an earlier call, in which only system calls were
\* patched and every operator is known; and it ends, since every retry of
\* patchBadDecode has fewer places left to patch.  Operands that look like
\* the system call are the exception.
TranslationSound ==
    [][ /\ xl'.pc = "return" /\ xl'.ret # NULL =>
            /\ xl'.ret.how = "block"
            /\ \A i \in DOMAIN xl'.ret.code : xl'.ret.code[i] # "unk"
            /\ ~HasBytesInOperand(xl.guest) => xl'.ret.code = Decoded(Intended(xl.guest))
        /\ xl.pc = "tidied" /\ xl'.pc = "translate" =>
            Cardinality(Patchable(xl'.bytes)) < Cardinality(Patchable(xl.bytes))
      ]_vars
=============================================================================
