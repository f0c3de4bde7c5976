------------------------------ MODULE FragStore ------------------------------
(***************************************************************************)
(* What FragCache promises: a set of code fragments that outlives the      *)
(* process.  A fragment is first held in memory and later on disk.  While  *)
(* the cache is open nothing is lost or stored twice; when the process     *)
(* ends, what is left on disk was stored before.                           *)
(***************************************************************************)
CONSTANT Fragments

VARIABLES disk, memory, open

TypeOK == disk \subseteq Fragments /\ memory \subseteq Fragments /\ open \in BOOLEAN

Init == disk = {} /\ memory = {} /\ open = FALSE

Open ==
    /\ ~open
    /\ open' = TRUE
    /\ UNCHANGED <<disk, memory>>

\* A new fragment is stored, and what is in memory may reach the disk.
Add(f) ==
    /\ open
    /\ f \notin disk \cup memory
    /\ disk' \cup memory' = disk \cup memory \cup {f}
    /\ disk \subseteq disk'
    /\ memory' \in SUBSET (memory \cup {f})
    /\ UNCHANGED open

\* What is in memory reaches the disk without a new fragment: the process added
\* one that a damaged file hid from it.
Sync ==
    /\ open
    /\ disk' \cup memory' = disk \cup memory
    /\ disk \subseteq disk'
    /\ memory' \in SUBSET memory
    /\ UNCHANGED open

\* The process ends, in order or by a crash, possibly while f is added: what is
\* on disk is some of what was there.  The store promises no more of an orderly
\* end; that Close of FragCache writes everything is CloseKeepsAll.
End(f) ==
    /\ open
    /\ disk' \in SUBSET (disk \cup memory \cup {f})
    /\ memory' = {}
    /\ open' = FALSE

Next == Open \/ Sync \/ \E f \in Fragments : Add(f) \/ End(f)

Spec == Init /\ [][Next]_<<disk, memory, open>>
=============================================================================
