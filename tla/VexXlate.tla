------------------------------- MODULE VexXlate -------------------------------
(***************************************************************************)
(* VexXlate::xlate (vexxlate.cc): guest bytes to a VexSB, through a        *)
(* callback that leaves its block in a global and longjmps out of libVEX,  *)
(* and through a retry on patched bytes when x86 code does not decode.     *)
(*                                                                         *)
(* Guest code is a sequence of instructions.  "int2e" is the Windows       *)
(* system call that libVEX rejects, "imm2e" an ordinary instruction whose  *)
(* operand holds the same two bytes, "bad" one that does not decode, "unk" *)
(* one with an operator that createOp does not know.                       *)
(***************************************************************************)
EXTENDS Integers, Sequences, FiniteSets

CONSTANTS Codes,      \* guest code a run translates
          IsX86,      \* arch == VexArchX86
          MaxCalls    \* bound on calls of xlate

Insns == {"op", "ret", "int80", "imm80", "int2e", "imm2e", "bad", "unk"}
\* libVEX (external) decodes up to the first instruction that leaves the
\* block, or that it does not know; guest code has one.
Stops == {"ret", "int80", "int2e", "bad"}
HasStop(c) == \E i \in DOMAIN c : c[i] \in Stops
ASSUME XlateAssumption ==
    /\ Codes \subseteq Seq(Insns) /\ \A c \in Codes : HasStop(c)
    /\ IsX86 \in BOOLEAN /\ MaxCalls \in Nat

VARIABLES xl,       \* the call in progress
          cb_vexsb, \* g_cb.cb_vexsb: no block, a block, or one that was deleted
          frags     \* what went to the fragment cache

xlVars == <<xl, cb_vexsb, frags>>

NULL == [how |-> "null", code |-> <<>>]
Freed == [how |-> "freed", code |-> <<>>]
Block(c) == [how |-> "block", code |-> c]

StopAt(c) == CHOOSE i \in DOMAIN c : c[i] \in Stops /\ \A j \in 1 .. i - 1 : c[j] \notin Stops
Decoded(c) == SubSeq(c, 1, StopAt(c))
NoDecode(c) == c[StopAt(c)] \in {"int2e", "bad"}

XlateInit ==
    /\ xl = [pc |-> "idle", guest |-> <<>>, bytes |-> <<>>, ret |-> NULL, calls |-> 0]
    /\ cb_vexsb = NULL /\ frags = {}

xlate(c) ==
    /\ xl.pc = "idle" /\ xl.calls < MaxCalls
    /\ xl' = [pc |-> "translate", guest |-> c, bytes |-> c, ret |-> NULL,
              calls |-> xl.calls + 1]
    /\ UNCHANGED <<cb_vexsb, frags>>

\* VexTransAccessFail: nothing was called back, the global is not looked at.
AccessFail ==
    /\ xl.pc = "translate"
    /\ xl' = [xl EXCEPT !.pc = "return", !.ret = NULL]
    /\ UNCHANGED <<cb_vexsb, frags>>

\* VexSB::create refuses a block that ends in NoDecode.
vex_finaltidy ==
    /\ xl.pc = "translate"
    /\ cb_vexsb' = IF NoDecode(xl.bytes) THEN NULL ELSE Block(Decoded(xl.bytes))
    /\ xl' = [xl EXCEPT !.pc = "tidied"]
    /\ UNCHANGED frags

\* The first place where patchBadDecode sees the two bytes.
Patchable(c) == {i \in DOMAIN c : c[i] \in {"int2e", "imm2e"}}
First(S) == CHOOSE i \in S : \A j \in S : i <= j

\* Mutant: the copy is retried without the change.
Unpatched(c) == c

patched(c) ==
    LET i == First(Patchable(c))
    IN  [c EXCEPT ![i] = IF @ = "int2e" THEN "int80" ELSE "imm80"]

patchBadDecode ==
    /\ xl.pc = "tidied" /\ cb_vexsb = NULL
    /\ xl' = IF IsX86 /\ Patchable(xl.bytes) # {}
             THEN [xl EXCEPT !.pc = "translate", !.bytes = patched(@)]
             ELSE [xl EXCEPT !.pc = "return", !.ret = NULL]
    /\ UNCHANGED <<cb_vexsb, frags>>

\* The fragment is recorded before the unhandled operators are counted, and
\* it is recorded as it was translated, patched.
RecordAndReturn ==
    /\ xl.pc = "tidied" /\ cb_vexsb # NULL
    /\ frags' = frags \cup {cb_vexsb.code}
    /\ LET unhandled == \E i \in DOMAIN cb_vexsb.code : cb_vexsb.code[i] = "unk"
       IN  /\ cb_vexsb' = IF unhandled THEN Freed ELSE cb_vexsb
           /\ xl' = [xl EXCEPT !.pc = "return", !.ret = IF unhandled THEN NULL ELSE cb_vexsb]
=============================================================================
