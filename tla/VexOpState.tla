----------------------------- MODULE VexOpState -----------------------------
(***************************************************************************)
(* What every operator emitter shares (vexop_macros.h): an operator        *)
(* expression whose arguments have been emitted, and the value its own     *)
(* emit() leaves behind.  The integer emitters (vexop.cc) are the actions  *)
(* of VexOpInt, the two floating point back ends (vexop_fp.cc and          *)
(* vexop_softfloat.cc) those of VexOpFP.                                   *)
(*                                                                         *)
(* The emitters are macros over widths, so the widths are scaled: a byte   *)
(* has `unit' bits, one of Units, and an i<x> of the code is an i<B(x)>    *)
(* here.  Every width keeps its ratio to every other, which is all that    *)
(* the concatenations, bitcasts and extensions depend on.                  *)
(***************************************************************************)
EXTENDS LLVMInt, Sequences

CONSTANTS Units,     \* bits in a scaled byte, powers of two
          MaxBits,   \* the widest value looked at
          Patterns   \* operands to look at, cut to the width wanted

ASSUME UnitsAssumption == Units \subseteq {2^k : k \in 0 .. 3}
ASSUME MaxBitsAssumption == MaxBits \in Nat
ASSUME PatternsAssumption == Patterns \subseteq Nat

VARIABLES op,        \* the operator: its emitter and the emitter's arguments
          unit,      \* bits in a byte
          args,      \* the values of the emitted arguments
          have,      \* the width of the first argument's LLVM type
          junk,      \* what undefined bits turn out to be
          res        \* the emitted value, or one of the outcomes below

vars == <<op, unit, args, have, junk, res>>

Pending  == [how |-> "pending", val |-> 0]
Trap     == [how |-> "trap", val |-> 0]       \* division faults at run time
Unhandled == [how |-> "unhandled", val |-> 0] \* no emitter: block given up
Abort    == [how |-> "abort", val |-> 0]      \* assert() while emitting
IllTyped == [how |-> "illtyped", val |-> 0]   \* a call LLVM rejects

B(x) == IF x = 1 THEN 1 ELSE (x * unit) \div 8
Log2(x) == CHOOSE k \in 0 .. 8 : 2^k = x

\* Operands: all of a narrow type, otherwise the boundaries of the type and
\* the patterns (which are every value of the type when Patterns is Nat).
Sample(b) ==
    IF b <= 3 THEN 0 .. 2^b - 1
    ELSE {0, 1, 2^(b - 1) - 1, 2^(b - 1), 2^b - 2, 2^b - 1}
         \cup {x % 2^b : x \in Patterns}

Outcome(r) == res' = r /\ UNCHANGED <<op, unit, args, have, junk>>
Return(v) == res.how = "pending" /\ Outcome([how |-> "value", val |-> v])

\* createOp's table: emitters exist for the 64-bit lane shifts, the vector
\* negations and the low-lane reciprocals, but it does not name them.
Handled(p) ==
    /\ ~(p.fam = "OPV_Shift" /\ p.w = 64)
    /\ ~(p.fam = "NEG" /\ p.n > 1)
    /\ ~(p.fam = "RSQ" /\ p.o # "Sqrt")

\* An operator createOp does not know is counted in unhandled_expr_c, which
\* makes VexXlate drop the whole block.
createOp_unhandled ==
    /\ res.how = "pending" /\ ~Handled(op)
    /\ Outcome(Unhandled)

Family(f) == op.fam = f /\ res.how = "pending" /\ Handled(op)
=============================================================================
