---------------------------- MODULE GuestKernel -----------------------------
(***************************************************************************)
(* The two tables the translator keeps for the guest, side by side: signal *)
(* actions and shared memory segments.                                     *)
(***************************************************************************)
EXTENDS SignalState, ShmRegions

vars == <<sigvars, shmvars>>

Init == SigInit /\ ShmInit

\* a process that has ended, or whose emulator has, makes no calls
Next ==
    \/ alive /\ ~failed /\ SigNext /\ UNCHANGED shmvars
    \/ alive /\ ~failed /\ ShmNext /\ UNCHANGED sigvars

TypeOK == SigTypeOK /\ ShmTypeOK

Spec == Init /\ [][Next]_vars
=============================================================================
