------------------------------ MODULE MCXCheck ------------------------------
(* Guest programs for XCheck.  Address 9 is in no mapping.                  *)
EXTENDS XCheck

\* 0: op; 1: jcc 0 (a loop of one block); 2: jcc 4; 3: syscall; 4: jcc;
\* 5: an instruction the host does not know.
LoopSucc == [p \in Insn |-> CASE p = 1 -> {0, 2} [] p = 2 -> {3, 4} [] p = 3 -> {4}
                            [] p = 4 -> {0, 2, 5, 9} [] p = 5 -> {0} [] OTHER -> {p + 1}]
LoopEnd == [p \in Insn |-> IF p < 2 THEN 2 ELSE IF p < 4 THEN 4 ELSE p + 1]

\* The program is one of those the theorems are about.
ASSUME ProgramComparable == Comparable /\ FixablesLeave
=============================================================================
