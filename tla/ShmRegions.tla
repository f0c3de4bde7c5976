----------------------------- MODULE ShmRegions -----------------------------
(***************************************************************************)
(* Shared memory segments: shm_regions[] with do_shmat() and do_shmdt() of *)
(* src/src/qemu/translatedsyscall.c, the host's attachments and the page   *)
(* flags of guest memory (page_set_flags()).                               *)
(*                                                                         *)
(* An address stands for the segment of memory that starts there, all      *)
(* segments have one size, and addresses do not overlap.  External: the    *)
(* host attaches over an attached segment only with SHM_REMAP, and         *)
(* detaches exactly what is attached; mprotect() of guest memory fails     *)
(* where nothing is mapped.                                                *)
(***************************************************************************)
EXTENDS Naturals, Sequences

CONSTANTS
    Addrs,            \* where segments may be attached; 0 is not one of them
    N_SHM_REGIONS

ASSUME ShmAssumption == Addrs \subseteq Nat \ {0} /\ N_SHM_REGIONS \in Nat \ {0}

Slots == 1 .. N_SHM_REGIONS

VARIABLES
    shm_regions,   \* start and size of each slot: a free slot has start 0 and
                   \* keeps its size
    attached,      \* what the host has attached
    flags,         \* the page flags of guest memory at an address
    overflowed,    \* segments attached when no slot was free
    doubled,       \* segments attached over an attached one
    failed         \* page_set_flags() asserted

shmvars == <<shm_regions, attached, flags, overflowed, doubled, failed>>

ShmInit ==
    /\ shm_regions = [i \in Slots |-> [start |-> 0, size |-> 0]]
    /\ attached = {}
    /\ flags = [a \in Addrs |-> "none"]
    /\ overflowed = {} /\ doubled = {} /\ failed = FALSE

\* the lowest slot with this start
First(start) ==
    CHOOSE i \in Slots : /\ shm_regions[i].start = start
                         /\ \A j \in Slots : shm_regions[j].start = start => i <= j
Found(start) == \E i \in Slots : shm_regions[i].start = start

\* The segment's size is asked, then it is attached at the guest's address or
\* at one that is free (with SHM_REMAP, which finds nothing to replace there);
\* failures of the two host calls leave everything as it was.
do_shmat(a, remap, access) ==
    /\ ~failed
    /\ a \in attached => remap
    /\ attached' = attached \cup {a}
    /\ flags' = [flags EXCEPT ![a] = access]
    /\ doubled' = IF a \in attached THEN doubled \cup {a} ELSE doubled
    /\ IF Found(0)
       THEN /\ shm_regions' = [shm_regions EXCEPT ![First(0)] = [start |-> a, size |-> 1]]
            /\ UNCHANGED overflowed
       ELSE /\ UNCHANGED shm_regions
            /\ overflowed' = overflowed \cup {a}
    /\ UNCHANGED failed

\* page_set_flags(shmaddr, shmaddr + size, 0), which must not fail
ClearFlags(a, size) ==
    IF a \in attached \/ size = 0
    THEN /\ flags' = [b \in Addrs |-> IF b = a THEN "none" ELSE flags[b]]
         /\ UNCHANGED failed
    ELSE failed' = TRUE /\ UNCHANGED flags

FlagsKept(a) ==
    /\ ~failed
    /\ IF Found(a)
       THEN shm_regions' = [shm_regions EXCEPT ![First(a)].start = 0]
       ELSE UNCHANGED shm_regions
    /\ attached' = attached \ {a}
    /\ UNCHANGED <<overflowed, doubled, flags, failed>>

OnlyTheHost(a) ==
    /\ ~failed /\ a \in attached
    /\ attached' = attached \ {a}
    /\ UNCHANGED <<shm_regions, flags, overflowed, doubled, failed>>

SlotKept(a) ==
    /\ ~failed
    /\ IF Found(a)
       THEN ClearFlags(a, shm_regions[First(a)].size)
       ELSE UNCHANGED <<flags, failed>>
    /\ attached' = attached \ {a}
    /\ UNCHANGED <<shm_regions, overflowed, doubled>>

\* The first slot with the address is freed and its pages lose their flags,
\* then the host detaches what is there.  A free slot has the address 0.
do_shmdt(a) ==
    /\ ~failed
    /\ IF Found(a)
       THEN /\ shm_regions' = [shm_regions EXCEPT ![First(a)].start = 0]
            /\ ClearFlags(a, shm_regions[First(a)].size)
       ELSE UNCHANGED <<shm_regions, flags, failed>>
    /\ attached' = attached \ {a}
    /\ UNCHANGED <<overflowed, doubled>>

ShmNext ==
    \/ \E a \in Addrs, remap \in BOOLEAN, access \in {"r", "rw"} : do_shmat(a, remap, access)
    \/ \E a \in Addrs \cup {0} : do_shmdt(a)

(***************************************************************************)
(* Properties.                                                             *)
(***************************************************************************)
ShmTypeOK ==
    /\ shm_regions \in [Slots -> [start : Addrs \cup {0}, size : {0, 1}]]
    /\ attached \in SUBSET Addrs /\ overflowed \in SUBSET Addrs /\ doubled \in SUBSET Addrs
    /\ flags \in [Addrs -> {"none", "r", "rw"}]
    /\ failed \in BOOLEAN

\* A slot in use is a segment the host has attached, whatever calls failed in
\* between, unless the guest attached twice at its address: then one detach
\* frees one of two slots.
TrackedIsAttached ==
    \A i \in Slots : LET a == shm_regions[i].start
                     IN  a # 0 /\ a \notin doubled => a \in attached

\* Guest memory is accessible exactly where a segment is attached, however
\* the slots were reused, unless the table was full or the segment replaced.
AccessFollowsAttachment ==
    \A a \in Addrs : a \notin overflowed \cup doubled => (flags[a] # "none" <=> a \in attached)

\* page_set_flags() asserts only when the guest detaches a NULL address or one
\* it attached twice.
AbortOnlyOnMisuse ==
    [][failed' /\ ~failed => \E a \in doubled \cup {0} : do_shmdt(a)]_shmvars
=============================================================================
