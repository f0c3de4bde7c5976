------------------------------ MODULE MCVexExec ------------------------------
(* Instances of VexExec.  Mappings "a" = [16, 32) and "b" = [64, 80) hold   *)
(* the blocks; any other address is in no known mapping.                    *)
EXTENDS VexExec
MCMapOf == [a \in Addr |-> IF a \in 16 .. 31 THEN "a" ELSE IF a \in 64 .. 79 THEN "b" ELSE NoMap]
MCStart == [m \in Maps |-> IF m = "a" THEN 16 ELSE 64]
MCEnd == [m \in Maps |-> IF m = "a" THEN 32 ELSE 80]
MCEndAddr == [a \in Addr |-> a + 4]
MCAllRWX == [m \in Maps |-> {"R", "W", "X"}]
MCOneData == [m \in Maps |-> IF m = "a" THEN {"R", "W", "X"} ELSE {"R"}]
MCExits == [a \in Addr |-> IF MapOf[a] = NoMap THEN Addr
                          ELSE {b \in Addr : MapOf[b] = MapOf[a] /\ b # a}]
MCRanges == {<<Start[m] - MAX_CODE_BYTES, End[m] + MAX_CODE_BYTES>> : m \in Maps}
=============================================================================
