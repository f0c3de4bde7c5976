---------------------------- MODULE MCCheckpoint ----------------------------
(* A mapping of two pages, one of one page and the vsyscall page.           *)
EXTENDS Checkpoint, TLC
MCMapOf == [p \in Pages |-> IF p <= 2 THEN "data" ELSE IF p = 3 THEN "stack" ELSE "vsyscall"]
Swap == Permutations(Values)
=============================================================================
