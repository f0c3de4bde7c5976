------------------------------- MODULE XCheck -------------------------------
(***************************************************************************)
(* Cross-checking against a ptraced shadow process: VexExecChk (after      *)
(* every block) and VexExecFastChk (at every system call), with PTImgChk's *)
(* comparison and fixups and the shadow's stepping.                        *)
(*                                                                         *)
(* tr is the path the guest program takes when nothing is emulated wrong;  *)
(* v and s are how far along it VexExec and the shadow are.  A machine     *)
(* state is its place on tr, so two states are equal when their places     *)
(* are, unless an emulation error has corrupted VexExec's registers.  The  *)
(* part of tr behind both machines is dropped when they are seen equal.    *)
(***************************************************************************)
EXTENDS Integers, Sequences

CONSTANTS
    Insn,        \* instruction addresses; each instruction is one unit long
    Entry,       \* where the guest starts
    Succ,        \* Succ[p]: addresses the guest may go to from p
    BlockEnd,    \* BlockEnd[p]: getEndAddr of the superblock that starts at p
    Syscalls,    \* instructions that are system calls
    Fixable,     \* instructions canFixup knows to differ from the hardware's
    Illegal,     \* instructions the host does not understand (SIGILL)
    MaxLag       \* bound: length of tr ahead of the last place seen equal

ASSUME ProgramAssumption ==
    /\ Insn \subseteq Nat /\ Entry \in Insn
    /\ Succ \in [Insn -> SUBSET Nat]
    /\ BlockEnd \in [Insn -> Nat] /\ \A p \in Insn : BlockEnd[p] > p
    /\ \A p \in Insn : p .. (BlockEnd[p] - 1) \subseteq Insn
    /\ Syscalls \subseteq Insn /\ Fixable \subseteq Insn /\ Illegal \subseteq Insn
    /\ \A p \in Syscalls : Succ[p] = {p + 1}
    /\ MaxLag \in Nat

VARIABLES
    fast,         \* VexExecFastChk rather than VexExecChk
    phase,        \* where the dispatcher is
    blk,          \* address of the block being run
    epc,          \* VexExec's PC
    exit_type,
    v, s, tr,     \* places of VexExec and of the shadow on the correct path
    corrupt,      \* VexExec's registers differ from the correct ones
    bug,          \* an instruction or system call was once emulated wrong
    is_deferred,
    deferred_bound, \* <<start, end>>
    bound,        \* the bounds the shadow is stepped through
    hit_syscall,
    sigill,       \* the shadow's last stop was a SIGILL
    bps           \* the shadow's breakpoints

vars == <<fast, phase, blk, epc, exit_type, v, s, tr, corrupt, bug, is_deferred,
          deferred_bound, bound, hit_syscall, sigill, bps>>

Within(p, b) == b[1] <= p /\ p < b[2]
Bounds(p) == <<p, BlockEnd[p]>>

\* VexSB::isSyscall looks at the jump kind the block ends with.
isSyscall(p) == BlockEnd[p] - 1 \in Syscalls

\* The correct path after place i, extended when it has not been taken yet.
NextPCs(i) == IF i < Len(tr) THEN {tr[i + 1]} ELSE Succ[tr[i]]
Extended(i, p) == IF i < Len(tr) THEN tr ELSE Append(tr, p)

Init ==
    /\ fast \in BOOLEAN
    /\ phase = "start"
    /\ blk = Entry /\ epc = Entry
    /\ exit_type = "GE_IGNORE"
    /\ v = 1 /\ s = 1 /\ tr = <<Entry>>
    /\ corrupt = FALSE /\ bug = FALSE
    /\ is_deferred = FALSE
    /\ deferred_bound = <<0, 0>> /\ bound = <<0, 0>>
    /\ hit_syscall = FALSE /\ sigill = FALSE
    /\ bps = {}

\* PTImgChk::isMatch on the registers, which include the PC.
Same(e, ve, p, vs, wrong) == e = p /\ ve = vs /\ ~wrong

isMatch == Same(epc, v, tr[s], s, corrupt)

-----------------------------------------------------------------------------
(* Running a block.                                                        *)

\* Entry of doVexSB; FastChk first sets breakpoints on the block's syscalls.
\* No superblock at an address outside the program: the run ends.
DoVexSB ==
    /\ phase = "start"
    /\ IF epc \notin Insn
       THEN phase' = "stopped" /\ UNCHANGED <<blk, v, s, tr, bps>>
       ELSE IF ~fast /\ ~is_deferred /\ ~isMatch
       THEN phase' = "dead" /\ UNCHANGED <<blk, v, s, tr, bps>>
       ELSE /\ phase' = "run"
            /\ blk' = epc
            /\ IF fast
               THEN /\ bps' = bps \cup {p \in Syscalls : Within(p, Bounds(epc))}
                    /\ UNCHANGED <<v, s, tr>>
               ELSE /\ UNCHANGED bps
                    /\ IF is_deferred
                       THEN UNCHANGED <<v, s, tr>>
                       ELSE v' = 1 /\ s' = 1 /\ tr' = <<epc>>
    /\ UNCHANGED <<fast, epc, exit_type, corrupt, bug, is_deferred,
                   deferred_bound, bound, hit_syscall, sigill>>

\* Where the block leaves for: FastChk compares nothing before a system call.
AfterBlock == IF fast THEN "exit" ELSE "check"

\* The block emulates one instruction.  A jump back into the block leaves it
\* unless the block was unrolled.
EmuInsn(p, leave) ==
    /\ phase = "run"
    /\ epc \notin Syscalls
    /\ v < MaxLag
    /\ p \in IF corrupt THEN Succ[epc] ELSE NextPCs(v)
    /\ leave = TRUE \/ (leave = FALSE /\ Within(p, Bounds(blk)))
    /\ (p = epc + 1 /\ Within(p, Bounds(blk))) => ~leave
    /\ v' = v + 1
    /\ tr' = IF corrupt THEN tr ELSE Extended(v, p)
    /\ epc' = p
    /\ phase' = IF leave THEN AfterBlock ELSE "run"
    /\ UNCHANGED <<fast, blk, exit_type, s, corrupt, bug, is_deferred,
                   deferred_bound, bound, hit_syscall, sigill, bps>>

\* The registers go wrong: an emulation error, unless VexExecChk knows that the
\* instruction differs.  VexExecFastChk knows no such instruction.
EmuBug ==
    /\ phase = "run"
    /\ ~corrupt
    /\ corrupt' = TRUE
    /\ bug' = (bug \/ fast \/ epc \notin Fixable)
    /\ UNCHANGED <<fast, phase, blk, epc, exit_type, v, s, tr, is_deferred,
                   deferred_bound, bound, hit_syscall, sigill, bps>>

\* The block ends at a system call, past it and with the call still to be made.
\* VexExecFastChk::doVexSB sets the PC too, except with a MemLog
\* (VEXLLVM_LAST_STORE, a debugging aid), which is left out.
EmuSyscall ==
    /\ phase = "run"
    /\ epc \in Syscalls
    /\ epc' = epc + 1
    /\ exit_type' = "GE_SYSCALL"
    /\ phase' = AfterBlock
    /\ UNCHANGED <<fast, blk, v, s, tr, corrupt, bug, is_deferred, deferred_bound,
                   bound, hit_syscall, sigill, bps>>

-----------------------------------------------------------------------------
(* VexExecChk::doVexSB after the block: defer, or let the shadow catch up. *)

Defer ==
    /\ is_deferred' = TRUE
    /\ deferred_bound' = Bounds(blk)
    /\ phase' = "exit"
    /\ UNCHANGED <<bound, hit_syscall>>

\* Still inside the block's bounds after a deferral: keep waiting.
KeepDeferring ==
    /\ phase' = "exit"
    /\ UNCHANGED <<is_deferred, deferred_bound, bound, hit_syscall>>

\* Mutant: the shadow does not catch up when the deferral ends.
ResumeUnstepped ==
    /\ is_deferred' = FALSE
    /\ deferred_bound' = <<0, 0>>
    /\ phase' = "exit"
    /\ UNCHANGED <<bound, hit_syscall>>

Resume ==
    /\ bound' = deferred_bound
    /\ is_deferred' = FALSE
    /\ deferred_bound' = <<0, 0>>
    /\ phase' = "step"
    /\ UNCHANGED hit_syscall

\* Mutant: a block that ends in a system call is not stepped through.
CatchUpUnstepped ==
    /\ bound' = Bounds(blk)
    /\ hit_syscall' = (hit_syscall \/ isSyscall(blk))
    /\ phase' = IF isSyscall(blk) THEN "exit" ELSE "step"
    /\ UNCHANGED <<is_deferred, deferred_bound>>

CatchUp ==
    /\ bound' = Bounds(blk)
    /\ hit_syscall' = (hit_syscall \/ isSyscall(blk))
    /\ phase' = IF isSyscall(blk) THEN "step_syscall" ELSE "step"
    /\ UNCHANGED <<is_deferred, deferred_bound>>

Check ==
    LET in_bounds == Within(epc, Bounds(blk))
    IN  /\ phase = "check"
        /\ \/ is_deferred /\ in_bounds /\ KeepDeferring
           \/ ~is_deferred /\ ~in_bounds /\ CatchUp
           \/ is_deferred /\ ~in_bounds /\ Resume
           \/ ~is_deferred /\ in_bounds /\ Defer
        /\ UNCHANGED <<fast, blk, epc, exit_type, v, s, tr, corrupt, bug, sigill, bps>>

\* Mutant: a block that ends in a system call is compared before the call.
AfterStepVerify == "verify"

\* After stepThroughBounds a block that ends in a system call is not compared.
AfterStep == IF phase = "step" THEN "verify" ELSE "exit"

\* Mutant: the end of the bounds is taken to be inside them.
ShadowDonePast(p) == ~(bound[1] <= p /\ p <= bound[2]) \/ p \in Syscalls

\* The shadow has left the bounds or is about to make a system call.
ShadowDone(p) == ~Within(p, bound) \/ p \in Syscalls

\* stepThroughBounds: the shadow single-steps until it is out of bounds, on a
\* system call or stuck on an instruction the host does not know.
ShadowStep ==
    /\ phase \in {"step", "step_syscall"}
    /\ IF ShadowDone(tr[s])
       THEN /\ phase' = AfterStep
            /\ UNCHANGED <<s, tr, sigill>>
       ELSE IF tr[s] \in Illegal
       THEN /\ phase' = AfterStep
            /\ sigill' = TRUE
            /\ UNCHANGED <<s, tr>>
       ELSE /\ s < MaxLag
            /\ \E p \in NextPCs(s) : tr' = Extended(s, p)
            /\ s' = s + 1
            /\ sigill' = FALSE
            /\ UNCHANGED phase
    /\ UNCHANGED <<fast, blk, epc, exit_type, v, corrupt, bug, is_deferred,
                   deferred_bound, bound, hit_syscall, bps>>

\* canFixup: an instruction of the block is known to differ.
canFixup == \E p \in Fixable : Within(p, Bounds(blk))

\* Both machines are now in the same state, with this PC.
Rejoin(p) ==
    /\ epc' = p /\ tr' = <<p>> /\ v' = 1 /\ s' = 1
    /\ corrupt' = FALSE /\ sigill' = FALSE
    /\ phase' = "exit"

\* verifyBlockRun: check, fix (the shadow from VexExec after a SIGILL, else
\* VexExec from the shadow), die.  isSigSegv(), external, is taken to hold when
\* the shadow stands outside every mapping, where its next step faults.
Verify ==
    /\ phase = "verify"
    /\ \/ /\ isMatch
          /\ phase' = "exit"
          /\ UNCHANGED <<epc, v, s, tr, corrupt, sigill>>
       \/ /\ ~isMatch
          /\ epc \notin Insn /\ tr[s] \notin Insn
          /\ phase' = "stopped"
          /\ UNCHANGED <<epc, v, s, tr, corrupt, sigill>>
       \/ /\ ~isMatch
          /\ epc \in Insn \/ tr[s] \in Insn
          /\ IF sigill THEN Rejoin(epc)
             ELSE IF canFixup THEN Rejoin(tr[s])
             ELSE phase' = "dead" /\ UNCHANGED <<epc, v, s, tr, corrupt, sigill>>
    /\ UNCHANGED <<fast, blk, exit_type, bug, is_deferred, deferred_bound,
                   bound, hit_syscall, bps>>

-----------------------------------------------------------------------------
(* The exit switch of doNextSB and the system calls.                       *)

Exit ==
    /\ phase = "exit"
    /\ phase' = IF exit_type = "GE_IGNORE" THEN "start"
                ELSE IF fast THEN "break" ELSE "syscall"
    /\ UNCHANGED <<fast, blk, epc, exit_type, v, s, tr, corrupt, bug, is_deferred,
                   deferred_bound, bound, hit_syscall, sigill, bps>>

\* doSysCallCore: VexExec makes the call and the shadow steps over it (the other
\* way round for brk); the emulated call may go wrong.  The states are compared
\* after it, and the call may have been exit.
SysCallCore(wrong) ==
    /\ corrupt' = (corrupt \/ wrong)
    /\ bug' = (bug \/ wrong)
    /\ exit_type' = "GE_IGNORE"
    /\ sigill' = FALSE
    /\ IF Same(epc, v + 1, tr[s] + 1, s + 1, corrupt \/ wrong)
       THEN /\ phase' \in {"start", "stopped"}
            /\ v' = 1 /\ s' = 1 /\ tr' = <<epc>>
       ELSE /\ phase' = "dead"
            /\ UNCHANGED <<v, s, tr>>

\* VexExecChk::doSysCall and its assertion.
DoSysCall ==
    /\ phase = "syscall"
    /\ IF hit_syscall /\ ~is_deferred
       THEN (\E wrong \in BOOLEAN : SysCallCore(wrong)) /\ hit_syscall' = FALSE
       ELSE /\ phase' = "dead"
            /\ UNCHANGED <<v, s, tr, exit_type, corrupt, bug, hit_syscall, sigill>>
    /\ UNCHANGED <<fast, blk, epc, is_deferred, deferred_bound, bound, bps>>

\* VexExecFastChk::doSysCall, first half: the shadow runs to a breakpoint.
StepToBreakpoint ==
    /\ phase = "break"
    /\ tr[s] \in Insn \ (bps \cup Illegal)
    /\ s < MaxLag
    /\ \E p \in NextPCs(s) : tr' = Extended(s, p)
    /\ s' = s + 1
    /\ UNCHANGED <<fast, phase, blk, epc, exit_type, v, corrupt, bug, is_deferred,
                   deferred_bound, bound, hit_syscall, sigill, bps>>

\* Second half: the states are compared at the call (VexExec's PC is moved back
\* onto it for that), then the call is made and they are compared again.  The
\* breakpoint is lifted for the call and set again after it.
FastDoSysCall ==
    /\ phase = "break"
    /\ tr[s] \in bps
    /\ IF Same(epc - 1, v, tr[s], s, corrupt)
       THEN \E wrong \in BOOLEAN : SysCallCore(wrong)
       ELSE /\ phase' = "dead"
            /\ UNCHANGED <<v, s, tr, exit_type, corrupt, bug, sigill>>
    /\ UNCHANGED <<fast, blk, epc, is_deferred, deferred_bound, bound,
                   hit_syscall, bps>>

Next ==
    \/ DoVexSB
    \/ \E p \in UNION {Succ[q] : q \in Insn}, leave \in BOOLEAN : EmuInsn(p, leave)
    \/ EmuBug \/ EmuSyscall
    \/ Check \/ ShadowStep \/ Verify
    \/ Exit \/ DoSysCall \/ StepToBreakpoint \/ FastDoSysCall

Spec == Init /\ [][Next]_vars
-----------------------------------------------------------------------------
(* The programs VexExecChk compares without false alarms.                  *)

\* libVEX ends a superblock at a system call.
SyscallsEndBlocks ==
    \A p \in Insn, q \in Syscalls : Within(q, Bounds(p)) => q = BlockEnd[p] - 1

\* A jump into the block it leaves goes to the block's start: what deferring
\* takes for granted, since it remembers the bounds of one block.
LoopsRestart ==
    \A p, q \in Insn : Within(q, Bounds(p)) =>
        \A r \in Succ[q] : Within(r, Bounds(p)) => r \in {q + 1, p}

\* A block that ends in a system call, which is not compared before the call,
\* neither loops nor has an instruction that needs a fixup.
SyscallBlocksPlain ==
    \A p, q \in Insn : isSyscall(p) /\ Within(q, Bounds(p)) =>
        q \notin Fixable \cup Illegal /\ p \notin Succ[q]

Comparable == SyscallsEndBlocks /\ LoopsRestart /\ SyscallBlocksPlain

\* An instruction that may need a fixup leaves its block.
FixablesLeave ==
    \A p \in Insn, f \in Fixable : Within(f, Bounds(p)) =>
        f \notin Syscalls /\ \A r \in Succ[f] : ~Within(r, Bounds(p))
-----------------------------------------------------------------------------
TypeOK ==
    /\ fast \in BOOLEAN /\ corrupt \in BOOLEAN /\ bug \in BOOLEAN
    /\ phase \in {"start", "run", "check", "step", "step_syscall", "verify",
                  "exit", "syscall", "break", "stopped", "dead"}
    /\ blk \in Insn /\ epc \in Nat
    /\ exit_type \in {"GE_IGNORE", "GE_SYSCALL"}
    /\ tr \in Seq(Nat) /\ s \in 1 .. Len(tr) /\ v \in Nat \ {0}
    /\ is_deferred \in BOOLEAN /\ hit_syscall \in BOOLEAN /\ sigill \in BOOLEAN
    /\ deferred_bound \in Nat \X Nat /\ bound \in Nat \X Nat
    /\ bps \subseteq Syscalls

\* A mismatch means an emulation error: as long as every instruction and system
\* call is emulated right, the checker never dies, whatever it has deferred,
\* stepped through or skipped ("MISMATCH: END OF BLOCK. FIND NEW EMU BUG").
NoFalseAlarm == ~bug => phase # "dead"

\* doVexSB's "ensures that shadow process's state <= llvm process's state".
ShadowBehind == ~bug => s <= v

\* Both processes make the same system call at the same place: what stepSysCall
\* takes for granted of the shadow, in both checkers.
SyscallInStep ==
    /\ phase = "syscall" /\ ~bug => v = s /\ tr[s] \in Syscalls
    /\ phase = "break" /\ tr[s] \in bps /\ ~bug => v = s

\* When VexExecChk starts a block without a deferral pending and no emulation
\* error has happened, the two processes are in the same state: the paranoid
\* "MISMATCH PRIOR TO doVexSB. HOW??" cannot fire.
InSync == phase = "start" /\ ~fast /\ ~is_deferred /\ ~bug => isMatch
=============================================================================
