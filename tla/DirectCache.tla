----------------------------- MODULE DirectCache -----------------------------
(***************************************************************************)
(* The direct-mapped lookup cache (directcache.h) that sits in front of    *)
(* each std::map of VexFCache and VexJITCache.  A slot remembers the last  *)
(* guest address stored in it and the pointer it maps to; two addresses    *)
(* that share a slot evict each other.                                     *)
(*                                                                         *)
(* A slot whose pointer is NULL answers NULL to every get, whatever        *)
(* address it remembers, so all such slots are the one value EmptyEnt.     *)
(***************************************************************************)
EXTENDS Integers

CONSTANTS
    Addr,       \* the guest addresses
    DC_SIZE,    \* number of slots
    Null,       \* the NULL pointer
    Absent      \* std::map::find returned end()

ASSUME AddrAssumption == Addr \subseteq Nat \ {0}
ASSUME NullAssumption == Null # Absent

Slot(p) == (p \div 4) % DC_SIZE
Slots == {Slot(p) : p \in Addr}

EmptyEnt == [ptr |-> 0, t |-> Null]

put(dc, p, t) ==
    [dc EXCEPT ![Slot(p)] = IF t = Null THEN EmptyEnt ELSE [ptr |-> p, t |-> t]]

get(dc, p) == IF dc[Slot(p)].ptr = p THEN dc[Slot(p)].t ELSE Null

flushed == [s \in Slots |-> EmptyEnt]

\* put(p, NULL) for every p in S, whatever the order
putNulls(dc, S) ==
    [s \in Slots |-> IF s \in {Slot(p) : p \in S} THEN EmptyEnt ELSE dc[s]]

-----------------------------------------------------------------------------
(* A direct cache in front of a map: look in the cache, fall back to the   *)
(* map and, when the map has the key, refill the slot.                     *)

lookup(dc, map, p) ==
    IF get(dc, p) # Null THEN get(dc, p)
    ELSE IF map[p] = Absent THEN Null ELSE map[p]

refill(dc, map, p) ==
    IF get(dc, p) # Null \/ map[p] = Absent THEN dc ELSE put(dc, p, map[p])

\* Every pointer a slot can answer is the one its map holds for that address,
\* and it sits in the slot its address hashes to.
Coherent(dc, map) ==
    \A s \in Slots : dc[s].t # Null =>
        /\ dc[s].ptr \in Addr
        /\ Slot(dc[s].ptr) = s
        /\ map[dc[s].ptr] = dc[s].t
=============================================================================
