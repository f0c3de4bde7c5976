------------------------------- MODULE MCFront -------------------------------
(* Three statements in one or two blocks.  The first of a block defines a   *)
(* temporary that the others can use: a vector or a condition.  A second    *)
(* block follows short ones only.                                           *)
EXTENDS FrontEnd
MCCodes == {<<a, b, c>> : a \in {"op", "imm2e", "unk", "int2e"},
                          b \in {"op", "int2e", "bad"}, c \in {"ret", "int2e"}}
Opening == count.here > 0 /\ em.blk # <<>> =>
    em.vals # <<>> /\ em.vals[1].ty \in {"v2x8", "i1"}
Short ==
    /\ count.blocks = 1 /\ xl.pc # "idle" => count.stmts <= 1
    /\ count.blocks = 1 /\ count.stmts > 1 => xl.calls = 1
=============================================================================
