--------------------------- MODULE MCGuestKernel ----------------------------
(* Nine signals stand for the kinds the code tells apart: 1 TERM, 2 KILL,   *)
(* 3 BUS, 4 SEGV, 5 CHLD, 6 STOP, 7 the first real time signal, 8 the other *)
(* one the C library keeps, 9 the last.  Three addresses compete for two    *)
(* slots.                                                                   *)
EXTENDS GuestKernel

\* The two tables do not meet: each is explored beside the other's first state.
Apart == SigInit \/ ShmInit
MCMaskSets == {{1, 7}, {2, 4}, {8, 9}}

\* The rules that the theorems about the translated calls rest on, evaluated on
\* every case of the switch.
Rules == INSTANCE SyscallRules WITH MaxTemps <- 2
ASSUME CallsFollowRules ==
    /\ Rules!AllWellMade /\ Rules!AllCheckFirst /\ Rules!AllStoreLast /\ Rules!AllReadAll
    /\ Rules!AllReportResult /\ Rules!AllFillGuest /\ Rules!AllConvert
=============================================================================
