------------------------------- MODULE MCVexOp -------------------------------
(* Every operator at every scale of a byte whose values fit in 16 bits.     *)
EXTENDS VexOp
MCUnits == {1, 2, 4, 8}
\* Bit patterns that put boundary values into the lanes of every shape.
MCPatterns == {27437, 36721, 33153, 32639, 21845, 6120}
=============================================================================
