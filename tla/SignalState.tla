---------------------------- MODULE SignalState -----------------------------
(***************************************************************************)
(* The signal state the translator keeps and changes for the guest:        *)
(* src/src/qemu/translatedsignal.c and the signal calls of do_syscall().   *)
(*                                                                         *)
(* Guest and emulator share one process: a guest's sigaction() changes the *)
(* emulator's dispositions, its sigprocmask() the emulator's mask.  The    *)
(* dispatcher (VexExec) needs SIGSEGV for self-modifying code.             *)
(*                                                                         *)
(* The host's calls are external: sigaction() fails for the signals the C  *)
(* library reserves, sigprocmask() silently leaves those, SIGKILL and      *)
(* SIGSTOP out of the mask.                                                *)
(***************************************************************************)
EXTENDS Naturals, FiniteSets

CONSTANTS
    NSIG,                              \* TARGET_NSIG, and _NSIG - 1
    SIGKILL, SIGSTOP, SIGSEGV, SIGBUS, \* numbers that are the same on both sides
    NonFatal,                          \* ignored or stopping by default
    SIGRTMIN, SIGRTMAX,                \* __SIGRTMIN and __SIGRTMAX of the host
    Reserved,                          \* host signals the C library keeps
    OldWord,                           \* signals in the first word of a set
    MaskSets                           \* the guest's sets for sigprocmask

Sigs == 1 .. NSIG

ASSUME SigAssumption ==
    /\ NSIG \in Nat
    /\ {SIGKILL, SIGSTOP, SIGSEGV, SIGBUS, SIGRTMIN, SIGRTMAX} \subseteq Sigs
    /\ SIGRTMIN <= SIGRTMAX
    /\ NonFatal \subseteq Sigs /\ Reserved \subseteq Sigs /\ OldWord \subseteq Sigs
    /\ MaskSets \subseteq SUBSET Sigs

(***************************************************************************)
(* Numbers and sets.                                                       *)
(***************************************************************************)
\* fill_host_to_target_signal_table(): named signals keep their number on
\* these targets, the two ends of the real time range change places; the
\* entries nobody filled are 0
fill_host_to_target_signal_table ==
    [h \in Sigs |-> CASE h = SIGRTMIN -> SIGRTMAX
                      [] h = SIGRTMAX -> SIGRTMIN
                      [] h < SIGRTMIN -> h
                      [] OTHER -> 0]

\* signal_init(): the gaps are filled with the identity, the inverse is made
host_to_target_signal_table ==
    [h \in Sigs |-> IF fill_host_to_target_signal_table[h] = 0
                    THEN h ELSE fill_host_to_target_signal_table[h]]
target_to_host_signal_table ==
    [t \in Sigs |-> CHOOSE h \in Sigs \cup {0} :
                        \/ h \in Sigs /\ host_to_target_signal_table[h] = t
                        \/ h = 0 /\ \A k \in Sigs : host_to_target_signal_table[k] # t]

\* numbers past the table are left alone
host_to_target_signal(h) == IF h \in Sigs THEN host_to_target_signal_table[h] ELSE h
target_to_host_signal(t) == IF t \in Sigs THEN target_to_host_signal_table[t] ELSE t

host_to_target_sigset(S) == {host_to_target_signal(h) : h \in S}
target_to_host_sigset(S) == {target_to_host_signal(t) : t \in S}
\* the old calls carry the first word only
target_to_host_old_sigset(S) == target_to_host_sigset(S \cap OldWord)

fatal_signal(t) == t \notin NonFatal

(***************************************************************************)
(* State.                                                                  *)
(***************************************************************************)
VARIABLES
    sigact_table,   \* the guest's handlers: "DFL", "IGN", "guest"
    disposition,    \* the host's: "DFL", "IGN", "emulator" (host_signal_handler,
                    \* which asserts), "smc" (VexExec::signalHandler)
    blocked,        \* the host mask of the emulator's thread
    asked,          \* the mask the guest last set, as it would read it back
    alive           \* the process is

sigvars == <<sigact_table, disposition, blocked, asked, alive>>

\* host_signal_handler of the guest's default action for a fatal signal too:
\* the emulator must see it
HostAction(t, handler) ==
    CASE handler = "IGN" -> "IGN"
      [] handler = "DFL" /\ ~fatal_signal(t) -> "DFL"
      [] OTHER -> "emulator"

\* beginStepping() installed the handler of SIGSEGV
SigInit ==
    /\ sigact_table = [t \in Sigs |-> "DFL"]
    /\ disposition = [h \in Sigs |-> IF h = SIGSEGV THEN "smc" ELSE "DFL"]
    /\ blocked = {} /\ asked = {} /\ alive = TRUE

BusOnly(t, handler) ==
    LET h == target_to_host_signal(t)
    IN  /\ alive /\ t \notin {SIGKILL, SIGSTOP}
        /\ sigact_table' = [sigact_table EXCEPT ![t] = handler]
        /\ IF h \in {SIGBUS} \cup Reserved
           THEN UNCHANGED disposition
           ELSE disposition' = [disposition EXCEPT ![h] = HostAction(t, handler)]
        /\ UNCHANGED <<blocked, asked, alive>>

IgnoreForgotten(t, handler) ==
    LET h == target_to_host_signal(t)
    IN  /\ alive /\ t \notin {SIGKILL, SIGSTOP}
        /\ sigact_table' = [sigact_table EXCEPT ![t] = handler]
        /\ IF h \in {SIGSEGV, SIGBUS} \cup Reserved \/ handler = "IGN"
           THEN UNCHANGED disposition
           ELSE disposition' = [disposition EXCEPT ![h] = HostAction(t, handler)]
        /\ UNCHANGED <<blocked, asked, alive>>

\* the table changes first, then the host's disposition, unless the signal is
\* one the emulator needs or the host refuses
do_sigaction(t, handler) ==
    LET h == target_to_host_signal(t)
    IN  /\ alive /\ t \notin {SIGKILL, SIGSTOP}
        /\ sigact_table' = [sigact_table EXCEPT ![t] = handler]
        /\ IF h \in {SIGSEGV, SIGBUS} \cup Reserved
           THEN UNCHANGED disposition
           ELSE disposition' = [disposition EXCEPT ![h] = HostAction(t, handler)]
        /\ UNCHANGED <<blocked, asked, alive>>

\* how the host's sigprocmask() combines the sets
Mask(how, S, old) ==
    CASE how = "BLOCK" -> old \cup S
      [] how = "UNBLOCK" -> old \ S
      [] how = "SETMASK" -> S
Unblockable == Reserved \cup {SIGKILL, SIGSTOP}

\* the new mask of the process, and what the guest must find there
SetMask(host, guest) ==
    /\ alive
    /\ blocked' = host \ Unblockable
    /\ asked' = guest
    /\ UNCHANGED <<sigact_table, disposition, alive>>

Untranslated(how, S) == SetMask(Mask(how, S, blocked), Mask(how, S, asked))

rt_sigprocmask(how, S) == SetMask(Mask(how, target_to_host_sigset(S), blocked), Mask(how, S, asked))
\* The old calls ask for the first word only.  Two departures from Linux are
\* taken for what the guest asked: SIG_SETMASK clears the second word, which
\* Linux keeps, and ssetmask adds to the mask (sigorset), where Linux sets it.
sigprocmask(how, S) ==
    SetMask(Mask(how, target_to_host_old_sigset(S), blocked), Mask(how, S \cap OldWord, asked))
ssetmask(S) ==
    SetMask(Mask("BLOCK", target_to_host_old_sigset(S), blocked),
            Mask("BLOCK", S \cap OldWord, asked))

\* A signal of the host arrives unblocked (Linux; external).
Arrives(h) ==
    /\ alive /\ h \notin blocked
    /\ alive' = CASE disposition[h] = "emulator" -> FALSE
                  [] disposition[h] = "DFL" -> h \in NonFatal
                  [] OTHER -> TRUE
    /\ UNCHANGED <<sigact_table, disposition, blocked, asked>>

\* The guest stores into a page of translated code: the kernel forces SIGSEGV
\* and kills a process that has it blocked.
StoreToCode ==
    /\ alive
    /\ alive' = (SIGSEGV \notin blocked /\ disposition[SIGSEGV] = "smc")
    /\ UNCHANGED <<sigact_table, disposition, blocked, asked>>

SigNext ==
    \/ \E t \in Sigs, handler \in {"DFL", "IGN", "guest"} : do_sigaction(t, handler)
    \/ \E how \in {"BLOCK", "UNBLOCK", "SETMASK"}, S \in MaskSets :
        rt_sigprocmask(how, S) \/ sigprocmask(how, S)
    \/ \E S \in MaskSets : ssetmask(S)
    \/ \E h \in Sigs : Arrives(h)
    \/ StoreToCode

(***************************************************************************)
(* Properties.                                                             *)
(***************************************************************************)
SigTypeOK ==
    /\ sigact_table \in [Sigs -> {"DFL", "IGN", "guest"}]
    /\ disposition \in [Sigs -> {"DFL", "IGN", "emulator", "smc"}]
    /\ blocked \in SUBSET Sigs
    /\ asked \in SUBSET Sigs
    /\ alive \in BOOLEAN

\* Whatever the guest does with sigaction(), the handler that detects stores to
\* translated code stays installed; with SIGSEGV unblocked such a store never
\* ends the process.
SmcHandlerKept == disposition[SIGSEGV] = "smc"

\* The host treats a signal the way the guest's table says: ignored when the
\* guest ignores it ("to avoid getting unexpected interrupted syscalls"),
\* caught by the emulator when the guest has a handler.  Not so for the two
\* the emulator needs and for those the host refuses, where the table has
\* changed and the host has not.
DispositionFollowsTable ==
    \A t \in Sigs : LET h == target_to_host_signal(t)
                    IN  h \notin {SIGSEGV, SIGBUS} \cup Reserved =>
                            disposition[h] \in {HostAction(t, sigact_table[t])}
                                \cup (IF sigact_table[t] = "DFL" THEN {"DFL"} ELSE {})

\* The guest reads back the mask it set, after any sequence of mask calls and
\* although the two ends of the real time range have changed places on the
\* host, except for the signals that end up on ones that cannot be blocked.
\* asked is built from the guest's own sets, never from the host's mask; what
\* ssetmask() and the old SIG_SETMASK are taken to ask is said with them.
MaskReadsBack ==
    host_to_target_sigset(blocked) = asked \ host_to_target_sigset(Unblockable)
=============================================================================
