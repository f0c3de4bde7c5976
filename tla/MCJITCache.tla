----------------------------- MODULE MCJITCache -----------------------------
(* An instance of JITCache: three block addresses, two of which share a    *)
(* direct-cache slot, and a small exit graph.                              *)
EXTENDS JITCache
MCExits == [a \in Addr |-> CASE a = 4 -> {8, 12} [] a = 8 -> {4, 12} [] OTHER -> {4}]
MCRanges == {r \in Addr \X Addr : r[1] <= r[2]}
=============================================================================
