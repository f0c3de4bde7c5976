---------------------------- MODULE XCheckProofs ----------------------------
(***************************************************************************)
(* Proofs about the cross checkers: VexExecFastChk for every program, and  *)
(* VexExecChk for every program whose blocks it can compare.               *)
(***************************************************************************)
EXTENDS XCheck, TLAPS

(***************************************************************************)
(* Types.                                                                  *)
(***************************************************************************)
\* The bounds the shadow is stepped through are those of a block, or none yet.
BlockBounds == {<<0, 0>>} \cup {Bounds(p) : p \in Insn}
TypeInv == TypeOK /\ bound \in BlockBounds /\ deferred_bound \in BlockBounds

(***************************************************************************)
(* Both machines on one path.                                              *)
(***************************************************************************)
\* Where the last step of VexExec left it.
At == IF exit_type = "GE_SYSCALL" THEN epc - 1 ELSE epc

\* VexExec is at the end of the path, the shadow somewhere on it, and no system
\* call lies between them.
OnPath ==
    /\ v = Len(tr) /\ s <= v /\ tr[v] = At
    /\ \A i \in s .. (v - 1) : tr[i] \notin Syscalls

\* VexExecFastChk: the breakpoint of the call VexExec stopped at is set.
FastInv == fast /\ ~bug =>
    /\ ~corrupt /\ OnPath
    /\ phase \in {"start", "run", "exit", "break", "stopped"}
    /\ phase \in {"start", "run"} => exit_type = "GE_IGNORE"
    /\ phase = "break" => exit_type = "GE_SYSCALL"
    /\ exit_type = "GE_SYSCALL" => epc - 1 \in bps
    /\ phase = "run" => /\ Within(epc, Bounds(blk))
                        /\ {p \in Syscalls : Within(p, Bounds(blk))} \subseteq bps

\* VexExecChk: where the dispatcher can be, and what is pending there.
ChkControl ==
    /\ phase \notin {"dead", "break"}
    /\ phase \in {"start", "run", "step", "verify"} => exit_type = "GE_IGNORE"
    /\ phase = "syscall" => exit_type = "GE_SYSCALL"
    /\ exit_type = "GE_SYSCALL" => isSyscall(blk) /\ epc - 1 = BlockEnd[blk] - 1
    /\ exit_type = "GE_SYSCALL" /\ phase \in {"exit", "syscall"} => hit_syscall
    /\ phase = "run" => Within(epc, Bounds(blk))
    /\ phase = "check" /\ Within(epc, Bounds(blk)) => epc = blk /\ ~isSyscall(blk)
    /\ phase = "step_syscall" => isSyscall(blk) /\ hit_syscall
    /\ phase \in {"step", "step_syscall"} => bound = Bounds(blk) /\ ~Within(epc, Bounds(blk))

\* A deferral is for one block that starts over.
Deferral == is_deferred =>
    /\ phase \in {"start", "run", "check", "exit", "stopped"}
    /\ deferred_bound = Bounds(blk) /\ ~isSyscall(blk)
    /\ phase \in {"start", "exit"} => epc = blk

\* Registers that are wrong without an emulation error are fixed before the
\* block is left.
Fixing == corrupt =>
    /\ canFixup
    /\ phase \in {"run", "check", "step", "verify", "stopped"} \/ is_deferred

\* The shadow has only the block's own instructions to catch up with, and has
\* done so wherever the machines are compared or make a call.
CatchingUp == ~corrupt =>
    /\ OnPath
    /\ \A i \in s .. (v - 1) : Within(tr[i], Bounds(blk))
    /\ phase \in {"start", "exit", "syscall"} /\ ~is_deferred => s = v
    /\ phase = "verify" => s = v \/ sigill

ChkInv == ~fast /\ ~bug => ChkControl /\ Deferral /\ Fixing /\ CatchingUp

\* With instructions to fix that leave their block, the shadow stays behind
\* until they are fixed.
FixBehind == ~fast /\ ~bug /\ corrupt =>
    /\ s <= v /\ s <= Len(tr)
    /\ phase = "run" => v = Len(tr) /\ tr[v] = epc /\ epc \in Fixable
    /\ phase # "run" => /\ phase \in {"check", "step", "verify", "stopped"}
                        /\ v \in {Len(tr), Len(tr) + 1} /\ v > 1
                        /\ tr[v - 1] \in Fixable /\ Within(tr[v - 1], Bounds(blk))
                        /\ v = Len(tr) => tr[v] \in Succ[tr[v - 1]]
    /\ phase = "check" => ~Within(epc, Bounds(blk))

(***************************************************************************)
(* Type correctness, for every program.                                    *)
(***************************************************************************)
\* A block's instructions are instructions of the program.
LEMMA InBlock ==
    ASSUME NEW b \in BlockBounds, NEW p \in Nat, Within(p, b)
    PROVE  p \in Insn
<1>1. CASE b = <<0, 0>>
  BY <1>1 DEF Within
<1>2. ASSUME NEW q \in Insn, b = Bounds(q) PROVE p \in Insn
  <2>1. /\ q \in Nat /\ BlockEnd[q] \in Nat /\ q <= p /\ p < BlockEnd[q]
        /\ q .. (BlockEnd[q] - 1) \subseteq Insn
    BY <1>2, ProgramAssumption DEF Within, Bounds
  <2>2. p \in q .. (BlockEnd[q] - 1)
    BY <2>1
  <2> QED BY <2>1, <2>2
<1> QED BY <1>1, <1>2 DEF BlockBounds

LEMMA BoundsType ==
    ASSUME NEW p \in Insn
    PROVE  /\ p \in Nat /\ BlockEnd[p] \in Nat /\ p < BlockEnd[p]
           /\ Bounds(p) \in Nat \X Nat /\ Bounds(p) \in BlockBounds
           /\ Succ[p] \subseteq Nat
BY ProgramAssumption DEF Bounds, BlockBounds

\* A block begins at its start.
LEMMA StartIn ==
    ASSUME NEW p \in Insn
    PROVE  Within(p, Bounds(p))
<1>1. p <= p /\ p < BlockEnd[p]
  BY BoundsType
<1> QED BY <1>1 DEF Within, Bounds

LEMMA Singleton ==
    ASSUME NEW p \in Nat
    PROVE  /\ <<p>> \in Seq(Nat) /\ Len(<<p>>) = 1 /\ <<p>>[1] = p
           /\ 1 \in 1 .. Len(<<p>>) /\ 1 \in Nat \ {0}
OBVIOUS

\* The shadow stays on the path when it takes a step on it.
LEMMA ShadowOnPath ==
    ASSUME NEW t \in Seq(Nat), NEW i \in 1 .. Len(t), t[i] \in Insn, tr = t,
           NEW p \in NextPCs(i)
    PROVE  Extended(i, p) \in Seq(Nat) /\ i + 1 \in 1 .. Len(Extended(i, p))
<1>1. Len(t) \in Nat /\ i \in Nat
  OBVIOUS
<1>2. CASE i < Len(t)
  BY <1>1, <1>2 DEF Extended
<1>3. CASE ~(i < Len(t))
  <2>1. p \in Nat
    BY <1>3, BoundsType DEF NextPCs
  <2>2. Append(t, p) \in Seq(Nat) /\ Len(Append(t, p)) = Len(t) + 1
    BY <2>1
  <2> QED BY <1>1, <1>3, <2>2 DEF Extended
<1> QED BY <1>2, <1>3

LEMMA ExtendedType ==
    ASSUME tr \in Seq(Nat), NEW i, NEW p \in Nat
    PROVE  Extended(i, p) \in Seq(Nat) /\ Len(tr) <= Len(Extended(i, p))
BY DEF Extended

\* The outcome of a system call.
LEMMA SysCallType ==
    ASSUME TypeInv, NEW wrong \in BOOLEAN, SysCallCore(wrong)
    PROVE  /\ corrupt' \in BOOLEAN /\ bug' \in BOOLEAN /\ sigill' \in BOOLEAN
           /\ exit_type' = "GE_IGNORE" /\ phase' \in {"start", "stopped", "dead"}
           /\ tr' \in Seq(Nat) /\ s' \in 1 .. Len(tr') /\ v' \in Nat \ {0}
<1>1. epc \in Nat /\ tr \in Seq(Nat) /\ s \in 1 .. Len(tr) /\ v \in Nat \ {0}
  BY DEF TypeInv, TypeOK
<1>2. /\ corrupt' = (corrupt \/ wrong) /\ bug' = (bug \/ wrong)
      /\ exit_type' = "GE_IGNORE" /\ sigill' = FALSE
      /\ \/ s' = 1 /\ v' = 1 /\ tr' = <<epc>> /\ phase' \in {"start", "stopped"}
         \/ s' = s /\ v' = v /\ tr' = tr /\ phase' = "dead"
  BY DEF SysCallCore
<1>3. corrupt' \in BOOLEAN /\ bug' \in BOOLEAN /\ sigill' \in BOOLEAN
  BY <1>2
<1>4. tr' \in Seq(Nat) /\ s' \in 1 .. Len(tr') /\ v' \in Nat \ {0}
  BY <1>1, <1>2, Singleton
<1> QED BY <1>2, <1>3, <1>4

LEMMA RejoinType ==
    ASSUME NEW p \in Nat, Rejoin(p)
    PROVE  /\ epc' \in Nat /\ tr' \in Seq(Nat) /\ s' \in 1 .. Len(tr') /\ v' \in Nat \ {0}
           /\ corrupt' \in BOOLEAN /\ sigill' \in BOOLEAN /\ phase' = "exit"
BY Singleton DEF Rejoin

LEMMA TypeKept == TypeInv /\ [Next]_vars => TypeInv'
<1> SUFFICES ASSUME TypeInv, [Next]_vars PROVE TypeInv'
  OBVIOUS
<1> USE DEF TypeInv, TypeOK
<1>1. CASE DoVexSB
  <2>1. CASE epc \in Insn
    <3>1. tr' \in Seq(Nat) /\ s' \in 1 .. Len(tr') /\ v' \in Nat \ {0}
      BY <1>1, <2>1, Singleton DEF DoVexSB
    <3> QED BY <1>1, <2>1, <3>1 DEF DoVexSB
  <2>2. CASE epc \notin Insn
    BY <1>1, <2>2 DEF DoVexSB
  <2> QED BY <2>1, <2>2
<1>2. ASSUME NEW p \in UNION {Succ[q] : q \in Insn}, NEW leave \in BOOLEAN, EmuInsn(p, leave)
      PROVE  TypeInv'
  <2>1. p \in Nat
    BY BoundsType
  <2>2. tr' \in Seq(Nat) /\ s' \in 1 .. Len(tr')
    BY <1>2, <2>1, ExtendedType DEF EmuInsn
  <2> QED BY <1>2, <2>1, <2>2 DEF EmuInsn, AfterBlock
<1>3. CASE EmuBug
  BY <1>3 DEF EmuBug
<1>4. CASE EmuSyscall
  BY <1>4 DEF EmuSyscall, AfterBlock
<1>5. CASE Check
  <2>1. Bounds(blk) \in Nat \X Nat /\ Bounds(blk) \in BlockBounds
    BY BoundsType
  <2>2. <<0, 0>> \in Nat \X Nat /\ <<0, 0>> \in BlockBounds
    BY DEF BlockBounds
  <2> QED BY <1>5, <2>1, <2>2 DEF Check, KeepDeferring, CatchUp, Resume, Defer
<1>6. CASE ShadowStep
  <2>1. CASE ShadowDone(tr[s]) \/ tr[s] \in Illegal
    BY <1>6, <2>1 DEF ShadowStep, AfterStep
  <2>2. CASE ~ShadowDone(tr[s]) /\ tr[s] \notin Illegal
    <3>1. tr[s] \in Nat
      OBVIOUS
    <3>2. tr[s] \in Insn
      BY <2>2, <3>1, InBlock DEF ShadowDone
    <3>3. PICK p \in NextPCs(s) : tr' = Extended(s, p)
      BY <1>6, <2>2 DEF ShadowStep
    <3>4. tr' \in Seq(Nat) /\ s + 1 \in 1 .. Len(tr')
      BY <3>2, <3>3, ShadowOnPath
    <3> QED BY <1>6, <2>2, <3>4 DEF ShadowStep
  <2> QED BY <2>1, <2>2
<1>7. CASE Verify
  <2>1. epc \in Nat /\ tr[s] \in Nat
    OBVIOUS
  <2>2. CASE Rejoin(epc) \/ Rejoin(tr[s])
    BY <1>7, <2>1, <2>2, RejoinType DEF Verify
  <2>3. CASE ~(Rejoin(epc) \/ Rejoin(tr[s]))
    BY <1>7, <2>3 DEF Verify
  <2> QED BY <2>2, <2>3
<1>8. CASE Exit
  BY <1>8 DEF Exit
<1>9. CASE DoSysCall
  BY <1>9, SysCallType DEF DoSysCall
<1>10. CASE StepToBreakpoint
  <2>1. PICK p \in NextPCs(s) : tr' = Extended(s, p)
    BY <1>10 DEF StepToBreakpoint
  <2>2. tr' \in Seq(Nat) /\ s + 1 \in 1 .. Len(tr')
    BY <1>10, <2>1, ShadowOnPath DEF StepToBreakpoint
  <2> QED BY <1>10, <2>2 DEF StepToBreakpoint
<1>11. CASE FastDoSysCall
  BY <1>11, SysCallType DEF FastDoSysCall
<1>12. CASE UNCHANGED vars
  BY <1>12 DEF vars
<1> QED BY <1>1, <1>2, <1>3, <1>4, <1>5, <1>6, <1>7, <1>8, <1>9, <1>10, <1>11, <1>12 DEF Next

LEMMA TypeAlways == Spec => []TypeInv
<1>1. Init => TypeInv
  <2> SUFFICES ASSUME Init PROVE TypeInv
    OBVIOUS
  <2>1. Entry \in Nat /\ Entry \in Insn
    BY ProgramAssumption
  <2>2. tr \in Seq(Nat) /\ s \in 1 .. Len(tr) /\ v \in Nat \ {0}
    BY <2>1, Singleton DEF Init
  <2>3. <<0, 0>> \in Nat \X Nat /\ <<0, 0>> \in BlockBounds
    BY DEF BlockBounds
  <2> QED BY <2>1, <2>2, <2>3 DEF Init, TypeInv, TypeOK
<1> QED BY <1>1, TypeKept, PTL DEF Spec

\* The shadow is always at a place of the path the guest takes, and the bounds
\* it is stepped through are those of a block.
THEOREM TypeCorrect == Spec => []TypeOK
<1>1. TypeInv => TypeOK
  BY DEF TypeInv
<1> QED BY <1>1, TypeAlways, PTL

(***************************************************************************)
(* VexExecFastChk, for every program.                                      *)
(***************************************************************************)
\* The mode is fixed and an error is not forgotten.
LEMMA Monotone ==
    ASSUME TypeInv, [Next]_vars
    PROVE  fast' = fast /\ (bug => bug')
<1>1. bug \in BOOLEAN
  BY DEF TypeInv, TypeOK
<1>2. ASSUME NEW p, NEW leave, EmuInsn(p, leave) PROVE fast' = fast /\ bug' = bug
  BY <1>2 DEF EmuInsn
<1>3. CASE DoVexSB \/ EmuSyscall \/ Check \/ ShadowStep \/ Verify \/ Exit \/ StepToBreakpoint
  BY <1>3 DEF DoVexSB, EmuSyscall, Check, ShadowStep, Verify, Exit, StepToBreakpoint
<1>4. CASE EmuBug
  BY <1>1, <1>4 DEF EmuBug
<1>5. CASE DoSysCall \/ FastDoSysCall
  <2>1. fast' = fast
    BY <1>5 DEF DoSysCall, FastDoSysCall
  <2>2. bug' = bug \/ \E wrong \in BOOLEAN : SysCallCore(wrong)
    BY <1>5 DEF DoSysCall, FastDoSysCall
  <2>3. ASSUME NEW wrong \in BOOLEAN, SysCallCore(wrong), bug PROVE bug'
    BY <2>3 DEF SysCallCore
  <2> QED BY <2>1, <2>2, <2>3
<1>6. CASE UNCHANGED vars
  BY <1>6 DEF vars
<1> QED BY <1>2, <1>3, <1>4, <1>5, <1>6 DEF Next

\* VexExec takes an instruction at the end of the path.
LEMMA PathGrows ==
    ASSUME TypeInv, OnPath, exit_type = "GE_IGNORE", exit_type' = exit_type, epc \notin Syscalls,
           NEW p \in Nat, v' = v + 1, s' = s, tr' = Extended(v, p), epc' = p
    PROVE  OnPath' /\ tr' = Append(tr, p) /\ NextPCs(v) = Succ[epc]
<1>1. tr \in Seq(Nat) /\ v = Len(tr) /\ s \in 1 .. Len(tr) /\ v \in Nat \ {0} /\ tr[v] = epc
  BY DEF TypeInv, TypeOK, OnPath, At
<1>2. tr' = Append(tr, p) /\ NextPCs(v) = Succ[epc]
  BY <1>1 DEF Extended, NextPCs
<1>3. v' = Len(tr') /\ s' <= v' /\ tr'[v'] = epc'
  BY <1>1, <1>2
<1>4. At' = epc'
  BY DEF At
<1>5. ASSUME NEW i \in s' .. (v' - 1) PROVE tr'[i] \notin Syscalls
  <2>1. i \in 1 .. Len(tr) /\ (i \in s .. (v - 1) \/ i = v)
    BY <1>1
  <2>2. \A j \in 1 .. Len(tr) : Append(tr, p)[j] = tr[j]
    BY <1>1
  <2> QED BY <1>1, <1>2, <2>1, <2>2 DEF OnPath
<1> QED BY <1>2, <1>3, <1>4, <1>5 DEF OnPath

\* VexExec stops at a system call, past it.
LEMMA PathStops ==
    ASSUME TypeInv, OnPath, exit_type = "GE_IGNORE", exit_type' = "GE_SYSCALL", epc' = epc + 1,
           UNCHANGED <<v, s, tr>>
    PROVE  OnPath'
<1>1. epc \in Nat
  BY DEF TypeInv, TypeOK
<1>2. At' = At
  BY <1>1 DEF At
<1> QED BY <1>2 DEF OnPath

\* The shadow takes a step behind VexExec.
LEMMA PathFollowed ==
    ASSUME TypeInv, OnPath, s < v, s' = s + 1, NEW p \in NextPCs(s), tr' = Extended(s, p),
           UNCHANGED <<v, epc, exit_type>>
    PROVE  OnPath' /\ tr' = tr
<1>1. tr \in Seq(Nat) /\ v = Len(tr) /\ s \in 1 .. Len(tr)
  BY DEF TypeInv, TypeOK, OnPath
<1>2. tr' = tr
  BY <1>1 DEF Extended
<1>3. s' <= v' /\ s' .. (v' - 1) \subseteq s .. (v - 1)
  BY <1>1
<1>4. At' = At
  BY DEF At
<1> QED BY <1>2, <1>3, <1>4 DEF OnPath

\* Both machines are at one place.
LEMMA PathStarts ==
    ASSUME epc' \in Nat, tr' = <<epc'>>, v' = 1, s' = 1, exit_type' = "GE_IGNORE"
    PROVE  OnPath'
<1>1. v' = Len(tr') /\ s' <= v' /\ tr'[v'] = epc'
  BY Singleton
<1>2. s' .. (v' - 1) = {}
  OBVIOUS
<1> QED BY <1>1, <1>2 DEF OnPath, At

\* The outcome of a system call both machines make at one place, without errors.
LEMMA CallTogether ==
    ASSUME TypeInv, OnPath, s = v, exit_type = "GE_SYSCALL", ~corrupt,
           NEW wrong \in BOOLEAN, SysCallCore(wrong), ~bug', epc' = epc
    PROVE  /\ OnPath' /\ ~corrupt' /\ phase' \in {"start", "stopped"}
           /\ exit_type' = "GE_IGNORE" /\ s' = v' /\ v' = 1
<1>1. ~wrong
  BY DEF SysCallCore
<1>2. epc \in Nat /\ epc = tr[s] + 1
  BY DEF TypeInv, TypeOK, OnPath, At
<1>3. Same(epc, v + 1, tr[s] + 1, s + 1, corrupt \/ wrong)
  BY <1>1, <1>2 DEF Same
<1>4. /\ v' = 1 /\ s' = 1 /\ tr' = <<epc>> /\ phase' \in {"start", "stopped"}
      /\ exit_type' = "GE_IGNORE" /\ ~corrupt'
  BY <1>1, <1>3 DEF SysCallCore
<1> QED BY <1>2, <1>4, PathStarts

LEMMA FastKept == TypeInv /\ FastInv /\ [Next]_vars => FastInv'
<1> SUFFICES ASSUME TypeInv, FastInv, [Next]_vars, fast', ~bug'
             PROVE  /\ ~corrupt' /\ OnPath'
                    /\ phase' \in {"start", "run", "exit", "break", "stopped"}
                    /\ phase' \in {"start", "run"} => exit_type' = "GE_IGNORE"
                    /\ phase' = "break" => exit_type' = "GE_SYSCALL"
                    /\ exit_type' = "GE_SYSCALL" => epc' - 1 \in bps'
                    /\ phase' = "run" =>
                          /\ Within(epc', Bounds(blk'))
                          /\ {p \in Syscalls : Within(p, Bounds(blk'))} \subseteq bps'
  BY DEF FastInv, Within, Bounds
<1>0. /\ fast /\ ~bug /\ ~corrupt /\ OnPath
      /\ phase \in {"start", "run", "exit", "break", "stopped"}
      /\ phase \in {"start", "run"} => exit_type = "GE_IGNORE"
      /\ phase = "break" => exit_type = "GE_SYSCALL"
      /\ exit_type = "GE_SYSCALL" => epc - 1 \in bps
      /\ phase = "run" => /\ Within(epc, Bounds(blk))
                          /\ {p \in Syscalls : Within(p, Bounds(blk))} \subseteq bps
      /\ epc \in Nat
      /\ exit_type \in {"GE_IGNORE", "GE_SYSCALL"}
  BY Monotone DEF FastInv, TypeInv, TypeOK
<1>a. ASSUME UNCHANGED <<v, s, tr, epc, exit_type>> PROVE OnPath'
  BY <1>0, <1>a DEF OnPath, At
<1>1. CASE DoVexSB
  <2>1. OnPath' /\ ~corrupt' /\ exit_type' = "GE_IGNORE" /\ epc' = epc
    BY <1>0, <1>1, <1>a DEF DoVexSB
  <2>2. CASE epc \notin Insn
    BY <1>1, <2>1, <2>2 DEF DoVexSB
  <2>3. CASE epc \in Insn
    <3>1. /\ phase' = "run" /\ blk' = epc
          /\ bps' = bps \cup {p \in Syscalls : Within(p, Bounds(epc))}
      BY <1>0, <1>1, <2>3 DEF DoVexSB
    <3>2. Within(epc, Bounds(epc))
      BY <2>3, StartIn
    <3> QED BY <2>1, <3>1, <3>2
  <2> QED BY <2>2, <2>3
<1>2. ASSUME NEW p \in UNION {Succ[q] : q \in Insn}, NEW leave \in BOOLEAN, EmuInsn(p, leave)
      PROVE  FastInv'
  <2>1. p \in Nat
    BY BoundsType
  <2>2. /\ phase = "run" /\ epc \notin Syscalls /\ v' = v + 1 /\ s' = s /\ epc' = p
        /\ tr' = Extended(v, p) /\ UNCHANGED <<exit_type, corrupt, blk, bps>>
        /\ phase' = (IF leave THEN "exit" ELSE "run")
        /\ leave \/ Within(p, Bounds(blk))
    BY <1>0, <1>2 DEF EmuInsn, AfterBlock
  <2>3. OnPath'
    BY <1>0, <2>1, <2>2, PathGrows
  <2>4. phase' = "run" => Within(epc', Bounds(blk'))
    BY <2>2 DEF Bounds, Within
  <2>5. phase' = "run" => {q \in Syscalls : Within(q, Bounds(blk'))} \subseteq bps'
    BY <1>0, <2>2 DEF Bounds, Within
  <2> QED BY <1>0, <2>2, <2>3, <2>4, <2>5 DEF FastInv, Bounds, Within
<1>3. CASE EmuBug
  BY <1>0, <1>3 DEF EmuBug
<1>4. CASE EmuSyscall
  <2>1. /\ phase = "run" /\ epc \in Syscalls /\ epc' = epc + 1 /\ exit_type' = "GE_SYSCALL"
        /\ phase' = "exit" /\ UNCHANGED <<v, s, tr, corrupt, bps>>
    BY <1>0, <1>4 DEF EmuSyscall, AfterBlock
  <2>2. OnPath'
    BY <1>0, <2>1, PathStops
  <2>3. epc \in bps /\ epc' - 1 = epc
    BY <1>0, <2>1
  <2> QED BY <1>0, <2>1, <2>2, <2>3
<1>5. CASE Check \/ ShadowStep \/ Verify \/ DoSysCall
  BY <1>0, <1>5 DEF Check, ShadowStep, Verify, DoSysCall
<1>6. CASE Exit
  <2>1. OnPath'
    BY <1>6, <1>a DEF Exit
  <2> QED BY <1>0, <1>6, <2>1 DEF Exit
<1>7. CASE StepToBreakpoint
  <2>1. s # v
    BY <1>0, <1>7 DEF StepToBreakpoint, OnPath, At
  <2>2. s < v
    BY <1>0, <2>1 DEF OnPath, TypeInv, TypeOK
  <2>3. PICK p \in NextPCs(s) : tr' = Extended(s, p)
    BY <1>7 DEF StepToBreakpoint
  <2>4. s' = s + 1 /\ UNCHANGED <<v, epc, exit_type, phase, corrupt, bps>> /\ phase = "break"
    BY <1>7 DEF StepToBreakpoint
  <2>5. OnPath'
    BY <1>0, <2>2, <2>3, <2>4, PathFollowed
  <2> QED BY <1>0, <2>4, <2>5
<1>8. CASE FastDoSysCall
  <2>1. phase = "break" /\ tr[s] \in bps /\ epc' = epc
    BY <1>8 DEF FastDoSysCall
  <2>2. s = v
    <3>1. tr[s] \in Syscalls
      BY <2>1 DEF TypeInv, TypeOK
    <3> QED BY <1>0, <3>1 DEF OnPath, TypeInv, TypeOK
  <2>3. Same(epc - 1, v, tr[s], s, corrupt)
    BY <1>0, <2>1, <2>2 DEF Same, OnPath, At
  <2>4. PICK wrong \in BOOLEAN : SysCallCore(wrong)
    BY <1>8, <2>3 DEF FastDoSysCall
  <2>5. /\ OnPath' /\ ~corrupt' /\ phase' \in {"start", "stopped"} /\ exit_type' = "GE_IGNORE"
    BY <1>0, <2>1, <2>2, <2>4, CallTogether
  <2> QED BY <2>5
<1>9. CASE UNCHANGED vars
  <2>1. OnPath'
    BY <1>9, <1>a DEF vars
  <2> QED BY <1>0, <1>9, <2>1 DEF vars
<1> QED BY <1>1, <1>2, <1>3, <1>4, <1>5, <1>6, <1>7, <1>8, <1>9 DEF Next, FastInv, Bounds, Within

LEMMA FastAlways == Spec => []FastInv
<1>1. Init => FastInv
  <2> SUFFICES ASSUME Init PROVE FastInv
    OBVIOUS
  <2>1. Entry \in Nat
    BY ProgramAssumption
  <2>2. OnPath
    <3>1. v = Len(tr) /\ s <= v /\ tr[v] = epc /\ s .. (v - 1) = {}
      BY <2>1, Singleton DEF Init
    <3> QED BY <3>1 DEF Init, OnPath, At
  <2> QED BY <2>2 DEF Init, FastInv
<1> QED BY <1>1, FastKept, TypeAlways, PTL DEF Spec

\* VexExecFastChk on any program: it dies only after an emulation error, the
\* shadow never overtakes VexExec, and the breakpoint it runs to is the call
\* VexExec stopped at, although the breakpoints of every block run so far are
\* set.
THEOREM FastChecker == Spec => [](fast => NoFalseAlarm /\ ShadowBehind /\ SyscallInStep)
<1>1. TypeInv /\ FastInv => (fast => NoFalseAlarm /\ ShadowBehind /\ SyscallInStep)
  <2> SUFFICES ASSUME TypeInv, FastInv, fast, ~bug
               PROVE  /\ phase # "dead" /\ s <= v /\ phase # "syscall"
                      /\ phase = "break" /\ tr[s] \in bps => v = s
    BY DEF NoFalseAlarm, ShadowBehind, SyscallInStep
  <2>1. tr[s] \in bps => v = s
    <3>1. /\ bps \subseteq Syscalls /\ s \in Nat /\ v \in Nat /\ s <= v
          /\ \A i \in s .. (v - 1) : tr[i] \notin Syscalls
      BY DEF FastInv, OnPath, TypeInv, TypeOK
    <3> QED BY <3>1
  <2> QED BY <2>1 DEF FastInv, OnPath
<1> QED BY <1>1, FastAlways, TypeAlways, PTL

(***************************************************************************)
(* VexExecChk, for programs it can compare.                                *)
(***************************************************************************)
\* What the program's shape says of one block.
LEMMA BlockShape ==
    ASSUME Comparable, NEW p \in Insn, NEW q \in Nat, Within(q, Bounds(p))
    PROVE  /\ q \in Insn /\ p <= q
           /\ q \in Syscalls => isSyscall(p) /\ q = BlockEnd[p] - 1
           /\ \A r \in Succ[q] : Within(r, Bounds(p)) => r = q + 1 \/ (r = p /\ ~isSyscall(p))
           /\ isSyscall(p) => q \notin Fixable /\ q \notin Illegal
<1>1. q \in Insn
  BY BoundsType, InBlock
<1>2. p <= q
  BY BoundsType DEF Within, Bounds
<1>3. q \in Syscalls => q = BlockEnd[p] - 1
  BY DEF Comparable, SyscallsEndBlocks
<1>4. \A r \in Succ[q] : Within(r, Bounds(p)) => r \in {q + 1, p}
  BY <1>1 DEF Comparable, LoopsRestart
<1>5. isSyscall(p) => q \notin Fixable \cup Illegal /\ p \notin Succ[q]
  BY <1>1 DEF Comparable, SyscallBlocksPlain
<1> QED BY <1>1, <1>2, <1>3, <1>4, <1>5 DEF isSyscall

\* The invariant of VexExecChk, without its condition.
ChkParts == ChkControl /\ Deferral /\ Fixing /\ CatchingUp

\* The parts that a step which leaves the path alone may disturb.
LEMMA PathAlone ==
    ASSUME OnPath, UNCHANGED <<v, s, tr, epc, exit_type>>
    PROVE  OnPath'
BY DEF OnPath, At

LEMMA BlockEntered ==
    ASSUME TypeInv, ChkParts, ~fast, DoVexSB, Comparable
    PROVE  ChkParts'
<1>0. /\ phase = "start" /\ epc \in Nat /\ exit_type = "GE_IGNORE"
      /\ UNCHANGED <<epc, exit_type, corrupt, is_deferred, deferred_bound, hit_syscall, bps>>
  BY DEF DoVexSB, ChkParts, ChkControl, TypeInv, TypeOK
<1>1. CASE epc \notin Insn
  <2>1. phase' = "stopped" /\ UNCHANGED <<blk, v, s, tr>>
    BY <1>1 DEF DoVexSB
  <2>2. ~corrupt => OnPath'
    BY <1>0, <2>1, PathAlone DEF ChkParts, CatchingUp
  <2>3. ChkControl' /\ Deferral' /\ Fixing'
    BY <1>0, <2>1 DEF ChkParts, ChkControl, Deferral, Fixing, canFixup, isSyscall, Bounds
  <2>4. CatchingUp'
    BY <1>0, <2>1, <2>2 DEF ChkParts, CatchingUp, Within, Bounds
  <2> QED BY <2>3, <2>4 DEF ChkParts
<1>2. CASE epc \in Insn /\ is_deferred
  <2>1. epc = blk
    BY <1>0, <1>2 DEF ChkParts, Deferral
  <2>2. phase' = "run" /\ blk' = blk /\ UNCHANGED <<v, s, tr>>
    BY <1>2, <2>1 DEF DoVexSB
  <2>3. Within(epc, Bounds(blk))
    BY <1>2, <2>1, StartIn
  <2>4. ~corrupt => OnPath'
    BY <1>0, <2>2, PathAlone DEF ChkParts, CatchingUp
  <2>5. ChkControl'
    BY <1>0, <2>2, <2>3 DEF ChkControl, Within, Bounds
  <2>6. Deferral' /\ Fixing'
    BY <1>0, <2>2 DEF ChkParts, Deferral, Fixing, canFixup, isSyscall, Bounds
  <2>7. CatchingUp'
    BY <1>0, <2>2, <2>4 DEF ChkParts, CatchingUp, Within, Bounds
  <2> QED BY <2>5, <2>6, <2>7 DEF ChkParts
<1>3. CASE epc \in Insn /\ ~is_deferred
  <2>1. ~corrupt /\ s = v /\ tr[v] = epc
    BY <1>0, <1>3 DEF ChkParts, Fixing, CatchingUp, OnPath, At
  <2>2. isMatch
    BY <2>1 DEF isMatch, Same
  <2>3. phase' = "run" /\ blk' = epc /\ v' = 1 /\ s' = 1 /\ tr' = <<epc>>
    BY <1>3, <2>2 DEF DoVexSB
  <2>4. OnPath'
    BY <1>0, <2>3, PathStarts
  <2>5. Within(epc, Bounds(epc))
    BY <1>3, StartIn
  <2>6. ChkControl'
    BY <1>0, <2>3, <2>5 DEF ChkControl, Within, Bounds
  <2>7. Deferral' /\ Fixing'
    BY <1>0, <1>3, <2>1 DEF Deferral, Fixing
  <2>8. CatchingUp'
    BY <2>3, <2>4 DEF CatchingUp
  <2> QED BY <2>6, <2>7, <2>8 DEF ChkParts
<1> QED BY <1>1, <1>2, <1>3

LEMMA InsnEmulated ==
    ASSUME TypeInv, ChkParts, ~fast, Comparable,
           NEW p \in UNION {Succ[q] : q \in Insn}, NEW leave \in BOOLEAN, EmuInsn(p, leave)
    PROVE  ChkParts'
<1>1. /\ phase = "run" /\ epc \notin Syscalls /\ v' = v + 1 /\ s' = s /\ epc' = p
      /\ tr' = (IF corrupt THEN tr ELSE Extended(v, p))
      /\ p \in (IF corrupt THEN Succ[epc] ELSE NextPCs(v))
      /\ UNCHANGED <<blk, exit_type, corrupt, is_deferred, deferred_bound>>
      /\ phase' = (IF leave THEN "check" ELSE "run")
      /\ leave \/ Within(p, Bounds(blk))
      /\ p = epc + 1 /\ Within(p, Bounds(blk)) => ~leave
  BY DEF EmuInsn, AfterBlock
<1>2. /\ p \in Nat /\ epc \in Nat /\ blk \in Insn /\ exit_type = "GE_IGNORE"
      /\ Within(epc, Bounds(blk))
  BY <1>1, BoundsType DEF ChkParts, ChkControl, TypeInv, TypeOK
<1>3. ~corrupt => OnPath' /\ tr' = Append(tr, p) /\ NextPCs(v) = Succ[epc]
  BY <1>1, <1>2, PathGrows DEF ChkParts, CatchingUp
<1>4. p \in Succ[epc]
  BY <1>1, <1>3
<1>5. leave /\ Within(p, Bounds(blk)) => p = blk /\ ~isSyscall(blk)
  BY <1>1, <1>2, <1>4, BlockShape
<1>6. ChkControl'
  BY <1>1, <1>2, <1>5 DEF ChkControl, Within, Bounds, isSyscall
<1>7. Deferral' /\ Fixing'
  BY <1>1 DEF ChkParts, Deferral, Fixing, isSyscall, Bounds, canFixup
<1>8. ASSUME ~corrupt, NEW i \in s' .. (v' - 1) PROVE Within(tr'[i], Bounds(blk'))
  <2>1. tr \in Seq(Nat) /\ v = Len(tr) /\ s \in 1 .. Len(tr) /\ tr[v] = epc
    BY <1>2, <1>8 DEF ChkParts, CatchingUp, OnPath, At, TypeInv, TypeOK
  <2>2. i \in 1 .. Len(tr) /\ (i \in s .. (v - 1) \/ i = v)
    BY <1>1, <2>1
  <2>3. \A j \in 1 .. Len(tr) : Append(tr, p)[j] = tr[j]
    BY <1>2, <2>1
  <2>4. Within(tr[i], Bounds(blk))
    BY <1>2, <1>8, <2>1, <2>2 DEF ChkParts, CatchingUp
  <2> QED BY <1>1, <1>3, <1>8, <2>2, <2>3, <2>4 DEF Within, Bounds
<1>9. CatchingUp'
  BY <1>1, <1>3, <1>8 DEF CatchingUp
<1> QED BY <1>6, <1>7, <1>9 DEF ChkParts

\* An instruction goes wrong that is known to.
LEMMA InsnDiffers ==
    ASSUME TypeInv, ChkParts, ~fast, EmuBug, ~bug'
    PROVE  ChkParts'
<1>1. /\ phase = "run" /\ corrupt' = TRUE /\ epc \in Fixable
      /\ UNCHANGED <<phase, blk, epc, exit_type, is_deferred, deferred_bound, bound, hit_syscall>>
  BY DEF EmuBug
<1>2. Within(epc, Bounds(blk))
  BY <1>1 DEF ChkParts, ChkControl
<1>3. canFixup'
  BY <1>1, <1>2 DEF canFixup, Within, Bounds
<1>4. ChkControl' /\ Deferral'
  BY <1>1 DEF ChkParts, ChkControl, Deferral, isSyscall, Within, Bounds
<1> QED BY <1>1, <1>3, <1>4 DEF ChkParts, Fixing, CatchingUp

LEMMA CallReached ==
    ASSUME TypeInv, ChkParts, ~fast, Comparable, EmuSyscall
    PROVE  ChkParts'
<1>1. /\ phase = "run" /\ epc \in Syscalls /\ epc' = epc + 1 /\ exit_type' = "GE_SYSCALL"
      /\ phase' = "check"
      /\ UNCHANGED <<blk, v, s, tr, corrupt, is_deferred, deferred_bound, hit_syscall>>
  BY DEF EmuSyscall, AfterBlock
<1>2. /\ exit_type = "GE_IGNORE" /\ Within(epc, Bounds(blk)) /\ epc \in Nat /\ blk \in Insn
      /\ BlockEnd[blk] \in Nat
  BY <1>1, BoundsType DEF ChkParts, ChkControl, TypeInv, TypeOK
<1>3. isSyscall(blk) /\ epc = BlockEnd[blk] - 1
  BY <1>1, <1>2, BlockShape
<1>4. ~Within(epc', Bounds(blk')) /\ epc' - 1 = BlockEnd[blk'] - 1
  BY <1>1, <1>2, <1>3 DEF Within, Bounds
<1>5. ~is_deferred
  BY <1>3 DEF ChkParts, Deferral
<1>6. ~corrupt
  <2> SUFFICES ASSUME corrupt PROVE FALSE
    OBVIOUS
  <2>1. PICK f \in Fixable : Within(f, Bounds(blk))
    BY DEF ChkParts, Fixing, canFixup
  <2>2. f \in Nat
    BY ProgramAssumption
  <2> QED BY <1>2, <1>3, <2>1, <2>2, BlockShape
<1>7. OnPath'
  BY <1>1, <1>2, <1>6, PathStops DEF ChkParts, CatchingUp
<1>8. ChkControl'
  BY <1>1, <1>3, <1>4 DEF ChkControl, isSyscall
<1>9. CatchingUp'
  BY <1>1, <1>6, <1>7 DEF ChkParts, CatchingUp, Within, Bounds
<1> QED BY <1>1, <1>5, <1>6, <1>8, <1>9 DEF ChkParts, Deferral, Fixing

\* The four ways doVexSB goes on after the block.
LEMMA BlockChecked ==
    ASSUME TypeInv, ChkParts, ~fast, Comparable, Check
    PROVE  ChkParts'
<1>1. /\ phase = "check" /\ UNCHANGED <<blk, epc, exit_type, v, s, tr, corrupt>>
      /\ is_deferred \in BOOLEAN /\ hit_syscall \in BOOLEAN
  BY DEF Check, TypeInv, TypeOK
<1>2. ~corrupt => OnPath' /\ \A i \in s' .. (v' - 1) : Within(tr'[i], Bounds(blk'))
  BY <1>1, PathAlone DEF ChkParts, CatchingUp, Within, Bounds
<1>3. corrupt' => canFixup'
  BY <1>1 DEF ChkParts, Fixing, canFixup, Within, Bounds
<1>4. /\ exit_type = "GE_SYSCALL" => isSyscall(blk) /\ epc - 1 = BlockEnd[blk] - 1
      /\ exit_type \in {"GE_IGNORE", "GE_SYSCALL"}
  BY DEF ChkParts, ChkControl, TypeInv, TypeOK
<1>5. CASE Within(epc, Bounds(blk))
  <2>1. epc = blk /\ ~isSyscall(blk)
    BY <1>1, <1>5 DEF ChkParts, ChkControl
  <2>2. /\ phase' = "exit" /\ is_deferred'
        /\ deferred_bound' = Bounds(blk) /\ UNCHANGED <<bound, hit_syscall>>
    BY <1>1, <1>5 DEF Check, KeepDeferring, Defer, ChkParts, Deferral
  <2>3. ChkControl'
    BY <1>1, <1>4, <2>1, <2>2 DEF ChkControl, isSyscall
  <2>4. Deferral' /\ Fixing'
    BY <1>1, <1>3, <2>1, <2>2 DEF Deferral, Fixing, isSyscall, Bounds
  <2>5. CatchingUp'
    BY <1>1, <1>2, <2>2 DEF CatchingUp
  <2> QED BY <2>3, <2>4, <2>5 DEF ChkParts
<1>6. CASE ~Within(epc, Bounds(blk)) /\ is_deferred
  <2>1. ~isSyscall(blk) /\ deferred_bound = Bounds(blk)
    BY <1>6 DEF ChkParts, Deferral
  <2>2. /\ phase' = "step" /\ ~is_deferred' /\ bound' = Bounds(blk)
    BY <1>6, <2>1 DEF Check, Resume
  <2>3. ChkControl'
    BY <1>1, <1>4, <1>6, <2>1, <2>2 DEF ChkControl, isSyscall, Within, Bounds
  <2>4. Deferral' /\ Fixing'
    BY <1>1, <1>3, <2>2 DEF Deferral, Fixing
  <2>5. CatchingUp'
    BY <1>1, <1>2, <2>2 DEF CatchingUp
  <2> QED BY <2>3, <2>4, <2>5 DEF ChkParts
<1>7. CASE ~Within(epc, Bounds(blk)) /\ ~is_deferred
  <2>1. /\ phase' = (IF isSyscall(blk) THEN "step_syscall" ELSE "step")
        /\ ~is_deferred' /\ bound' = Bounds(blk) /\ hit_syscall' = (hit_syscall \/ isSyscall(blk))
    BY <1>7 DEF Check, CatchUp
  <2>2. ChkControl'
    BY <1>1, <1>4, <1>7, <2>1 DEF ChkControl, isSyscall, Within, Bounds
  <2>3. Deferral'
    BY <2>1 DEF Deferral
  <2>4. Fixing'
    <3> SUFFICES ASSUME corrupt PROVE ~isSyscall(blk)
      BY <1>1, <1>3, <2>1 DEF Fixing
    <3>1. PICK f \in Fixable : Within(f, Bounds(blk))
      BY DEF ChkParts, Fixing, canFixup
    <3>2. f \in Nat /\ blk \in Insn
      BY ProgramAssumption DEF TypeInv, TypeOK
    <3> QED BY <3>1, <3>2, BlockShape
  <2>5. CatchingUp'
    BY <1>1, <1>2, <2>1 DEF CatchingUp
  <2> QED BY <2>2, <2>3, <2>4, <2>5 DEF ChkParts
<1> QED BY <1>5, <1>6, <1>7

\* The shadow catches up along the path: it stops where VexExec is, or before
\* an instruction the host does not know.
LEMMA ShadowCatchesUp ==
    ASSUME TypeInv, ChkParts, ~fast, Comparable, ShadowStep
    PROVE  ChkParts'
<1>1. /\ phase \in {"step", "step_syscall"} /\ bound = Bounds(blk) /\ ~Within(epc, Bounds(blk))
      /\ UNCHANGED <<blk, epc, exit_type, v, corrupt, is_deferred, deferred_bound, bound, hit_syscall>>
      /\ phase = "step_syscall" => isSyscall(blk) /\ hit_syscall
      /\ phase = "step" => exit_type = "GE_IGNORE"
      /\ exit_type = "GE_SYSCALL" => isSyscall(blk) /\ epc - 1 = BlockEnd[blk] - 1
  BY DEF ShadowStep, ChkParts, ChkControl
<1>2. /\ tr \in Seq(Nat) /\ s \in 1 .. Len(tr) /\ tr[s] \in Nat /\ blk \in Insn /\ v \in Nat
      /\ exit_type \in {"GE_IGNORE", "GE_SYSCALL"}
  BY DEF TypeInv, TypeOK
<1>3. ~is_deferred
  BY <1>1 DEF ChkParts, Deferral
<1>4. corrupt => canFixup /\ phase = "step"
  BY <1>1, <1>3 DEF ChkParts, Fixing
<1>5. ~corrupt => (ShadowDone(tr[s]) <=> s = v)
  <2> SUFFICES ASSUME ~corrupt PROVE ShadowDone(tr[s]) <=> s = v
    OBVIOUS
  <2>1. OnPath /\ \A i \in s .. (v - 1) : Within(tr[i], Bounds(blk))
    BY DEF ChkParts, CatchingUp
  <2>2. ASSUME s # v PROVE ~ShadowDone(tr[s])
    <3>1. s \in s .. (v - 1)
      BY <1>2, <2>1, <2>2 DEF OnPath
    <3> QED BY <1>1, <2>1, <3>1 DEF OnPath, ShadowDone
  <2>3. ASSUME s = v PROVE ShadowDone(tr[s])
    <3>1. CASE exit_type = "GE_IGNORE"
      BY <1>1, <2>1, <2>3, <3>1 DEF OnPath, At, ShadowDone
    <3>2. CASE exit_type = "GE_SYSCALL"
      BY <1>1, <2>1, <2>3, <3>2 DEF OnPath, At, ShadowDone, isSyscall
    <3> QED BY <1>2, <3>1, <3>2
  <2> QED BY <2>2, <2>3
<1>6. phase = "step_syscall" /\ ~ShadowDone(tr[s]) => tr[s] \notin Illegal
  BY <1>1, <1>2, BlockShape DEF ShadowDone
<1>7. corrupt' => canFixup'
  BY <1>1, <1>4 DEF canFixup, Within, Bounds
<1>8. CASE ShadowDone(tr[s]) \/ tr[s] \in Illegal
  <2>1. /\ UNCHANGED <<s, tr>> /\ phase' = (IF phase = "step" THEN "verify" ELSE "exit")
        /\ ShadowDone(tr[s]) \/ sigill'
    BY <1>8 DEF ShadowStep, AfterStep
  <2>2. ~corrupt => OnPath' /\ \A i \in s' .. (v' - 1) : Within(tr'[i], Bounds(blk'))
    BY <1>1, <2>1, PathAlone DEF ChkParts, CatchingUp, Within, Bounds
  <2>3. ~corrupt => s = v \/ (phase = "step" /\ sigill')
    BY <1>1, <1>5, <1>6, <1>8, <2>1
  <2>4. ChkControl'
    BY <1>1, <1>2, <2>1 DEF ChkControl, isSyscall
  <2>5. Deferral' /\ Fixing'
    BY <1>1, <1>3, <1>4, <1>7, <2>1 DEF Deferral, Fixing
  <2>6. CatchingUp'
    BY <1>1, <2>1, <2>2, <2>3 DEF CatchingUp
  <2> QED BY <2>4, <2>5, <2>6 DEF ChkParts
<1>9. CASE ~ShadowDone(tr[s]) /\ tr[s] \notin Illegal
  <2>1. phase' = phase /\ s' = s + 1
    BY <1>9 DEF ShadowStep
  <2>2. PICK p \in NextPCs(s) : tr' = Extended(s, p)
    BY <1>9 DEF ShadowStep
  <2>3. ~corrupt => /\ OnPath' /\ tr' = tr
                    /\ \A i \in s' .. (v' - 1) : Within(tr'[i], Bounds(blk'))
    <3> SUFFICES ASSUME ~corrupt
                 PROVE  /\ OnPath' /\ tr' = tr
                        /\ \A i \in s' .. (v' - 1) : Within(tr'[i], Bounds(blk'))
      OBVIOUS
    <3>1. OnPath /\ \A i \in s .. (v - 1) : Within(tr[i], Bounds(blk))
      BY DEF ChkParts, CatchingUp
    <3>2. s < v
      BY <1>2, <1>5, <1>9, <3>1 DEF OnPath
    <3>3. OnPath' /\ tr' = tr
      BY <1>1, <2>1, <2>2, <3>1, <3>2, PathFollowed
    <3>4. s' .. (v' - 1) \subseteq s .. (v - 1)
      BY <1>1, <1>2, <2>1
    <3> QED BY <1>1, <3>1, <3>3, <3>4 DEF Within, Bounds
  <2>4. ChkControl'
    BY <1>1, <1>2, <2>1 DEF ChkControl, isSyscall, Within, Bounds
  <2>5. Deferral' /\ Fixing'
    BY <1>1, <1>3, <1>4, <1>7, <2>1 DEF Deferral, Fixing
  <2>6. CatchingUp'
    BY <1>1, <2>1, <2>3 DEF CatchingUp
  <2> QED BY <2>4, <2>5, <2>6 DEF ChkParts
<1> QED BY <1>8, <1>9

\* verifyBlockRun finds both machines at one place or fixes one of them.
LEMMA BlockVerified ==
    ASSUME TypeInv, ChkParts, ~fast, Comparable, Verify
    PROVE  ChkParts'
<1>1. /\ phase = "verify" /\ exit_type = "GE_IGNORE" /\ epc \in Nat /\ tr[s] \in Nat
      /\ UNCHANGED <<blk, exit_type, is_deferred, deferred_bound, bound, hit_syscall>>
  BY DEF Verify, ChkParts, ChkControl, TypeInv, TypeOK
<1>2. ~is_deferred
  BY <1>1 DEF ChkParts, Deferral
<1>3. ASSUME NEW p \in Nat, Rejoin(p) PROVE ChkParts'
  <2>1. /\ epc' = p /\ tr' = <<p>> /\ v' = 1 /\ s' = 1 /\ ~corrupt' /\ phase' = "exit"
    BY <1>3 DEF Rejoin
  <2>2. OnPath'
    BY <1>1, <2>1, PathStarts
  <2> QED BY <1>1, <1>2, <2>1, <2>2 DEF ChkParts, ChkControl, Deferral, Fixing, CatchingUp
<1>4. CASE isMatch
  <2>1. phase' = "exit" /\ UNCHANGED <<epc, v, s, tr, corrupt>>
    BY <1>4 DEF Verify
  <2>2. ~corrupt /\ s = v
    BY <1>4 DEF isMatch, Same
  <2>3. OnPath' /\ \A i \in s' .. (v' - 1) : Within(tr'[i], Bounds(blk'))
    BY <1>1, <2>1, <2>2, PathAlone DEF ChkParts, CatchingUp, Within, Bounds
  <2> QED BY <1>1, <1>2, <2>1, <2>2, <2>3 DEF ChkParts, ChkControl, Deferral, Fixing, CatchingUp
<1>5. CASE ~isMatch
  <2>1. sigill \/ canFixup
    <3> SUFFICES ASSUME ~sigill, ~canFixup PROVE isMatch
      BY <1>5
    <3>1. ~corrupt
      BY DEF ChkParts, Fixing
    <3>2. s = v /\ tr[v] = epc
      BY <1>1, <3>1 DEF ChkParts, CatchingUp, OnPath, At
    <3> QED BY <3>1, <3>2 DEF isMatch, Same
  <2>2. CASE phase' = "stopped" /\ UNCHANGED <<epc, v, s, tr, corrupt>>
    <3>1. ~corrupt' => OnPath' /\ \A i \in s' .. (v' - 1) : Within(tr'[i], Bounds(blk'))
      BY <1>1, <2>2, PathAlone DEF ChkParts, CatchingUp, Within, Bounds
    <3>2. corrupt' => canFixup'
      BY <1>1, <2>2 DEF ChkParts, Fixing, canFixup, Within, Bounds
    <3> QED BY <1>1, <1>2, <2>2, <3>1, <3>2 DEF ChkParts, ChkControl, Deferral, Fixing, CatchingUp
  <2>3. CASE Rejoin(epc) \/ Rejoin(tr[s])
    BY <1>1, <1>3, <2>3
  <2> QED BY <1>5, <2>1, <2>2, <2>3 DEF Verify
<1> QED BY <1>4, <1>5

LEMMA BlockLeft ==
    ASSUME TypeInv, ChkParts, ~fast, Comparable, Exit
    PROVE  ChkParts'
<1>1. /\ phase = "exit" /\ exit_type \in {"GE_IGNORE", "GE_SYSCALL"}
      /\ phase' = (IF exit_type = "GE_IGNORE" THEN "start" ELSE "syscall")
      /\ UNCHANGED <<blk, epc, exit_type, v, s, tr, corrupt, is_deferred, deferred_bound, bound,
                     hit_syscall>>
  BY DEF Exit, TypeInv, TypeOK
<1>2. ~corrupt => OnPath' /\ \A i \in s' .. (v' - 1) : Within(tr'[i], Bounds(blk'))
  BY <1>1, PathAlone DEF ChkParts, CatchingUp, Within, Bounds
<1>3. corrupt' => canFixup' /\ is_deferred'
  BY <1>1 DEF ChkParts, Fixing, canFixup, Within, Bounds
<1>4. is_deferred => exit_type = "GE_IGNORE"
  BY <1>1 DEF ChkParts, Deferral, ChkControl
<1>5. ChkControl'
  BY <1>1 DEF ChkParts, ChkControl, isSyscall
<1>6. Deferral' /\ Fixing'
  BY <1>1, <1>3, <1>4 DEF ChkParts, Deferral, Fixing, isSyscall, Bounds
<1>7. CatchingUp'
  BY <1>1, <1>2 DEF ChkParts, CatchingUp
<1> QED BY <1>5, <1>6, <1>7 DEF ChkParts

LEMMA CallMade ==
    ASSUME TypeInv, ChkParts, ~fast, Comparable, DoSysCall, ~bug'
    PROVE  ChkParts'
<1>1. /\ phase = "syscall" /\ exit_type = "GE_SYSCALL" /\ hit_syscall
      /\ UNCHANGED <<blk, epc, is_deferred, deferred_bound, bound>>
  BY DEF DoSysCall, ChkParts, ChkControl
<1>2. ~is_deferred
  BY <1>1 DEF ChkParts, Deferral
<1>3. ~corrupt
  BY <1>1, <1>2 DEF ChkParts, Fixing
<1>4. OnPath /\ s = v
  BY <1>1, <1>2, <1>3 DEF ChkParts, CatchingUp
<1>5. PICK wrong \in BOOLEAN : SysCallCore(wrong)
  BY <1>1, <1>2 DEF DoSysCall
<1>6. /\ OnPath' /\ ~corrupt' /\ phase' \in {"start", "stopped"}
      /\ exit_type' = "GE_IGNORE" /\ s' = v' /\ v' = 1
  BY <1>1, <1>3, <1>4, <1>5, CallTogether
<1> QED BY <1>1, <1>2, <1>6 DEF ChkParts, ChkControl, Deferral, Fixing, CatchingUp

LEMMA ChkKept ==
    ASSUME Comparable
    PROVE  TypeInv /\ ChkInv /\ [Next]_vars => ChkInv'
<1> SUFFICES ASSUME TypeInv, ChkInv, [Next]_vars, ~fast', ~bug' PROVE ChkParts'
  BY DEF ChkInv, ChkParts
<1>1. ~fast /\ ~bug /\ ChkParts
  BY Monotone DEF ChkInv, ChkParts
<1>2. CASE DoVexSB
  BY <1>1, <1>2, BlockEntered
<1>3. ASSUME NEW p \in UNION {Succ[q] : q \in Insn}, NEW leave \in BOOLEAN, EmuInsn(p, leave)
      PROVE  ChkParts'
  BY <1>1, <1>3, InsnEmulated
<1>4. CASE EmuBug
  BY <1>1, <1>4, InsnDiffers
<1>5. CASE EmuSyscall
  BY <1>1, <1>5, CallReached
<1>6. CASE Check
  BY <1>1, <1>6, BlockChecked
<1>7. CASE ShadowStep
  BY <1>1, <1>7, ShadowCatchesUp
<1>8. CASE Verify
  BY <1>1, <1>8, BlockVerified
<1>9. CASE Exit
  BY <1>1, <1>9, BlockLeft
<1>10. CASE DoSysCall
  BY <1>1, <1>10, CallMade
<1>11. CASE StepToBreakpoint \/ FastDoSysCall
  BY <1>1, <1>11 DEF StepToBreakpoint, FastDoSysCall, ChkParts, ChkControl
<1>12. CASE UNCHANGED vars
  BY <1>1, <1>12 DEF vars, ChkParts, ChkControl, Deferral, Fixing, CatchingUp, OnPath, At, canFixup,
                     isSyscall, Within, Bounds
<1> QED BY <1>2, <1>3, <1>4, <1>5, <1>6, <1>7, <1>8, <1>9, <1>10, <1>11, <1>12 DEF Next

LEMMA ChkAlways ==
    ASSUME Comparable
    PROVE  Spec => []ChkInv
<1>1. Init => ChkInv
  <2> SUFFICES ASSUME Init PROVE ChkParts
    BY DEF ChkInv, ChkParts
  <2>1. Entry \in Nat
    BY ProgramAssumption
  <2>2. v = Len(tr) /\ s = v /\ s <= v /\ tr[v] = epc /\ s .. (v - 1) = {}
    BY <2>1, Singleton DEF Init
  <2>3. OnPath
    BY <2>2 DEF Init, OnPath, At
  <2> QED BY <2>2, <2>3 DEF Init, ChkParts, ChkControl, Deferral, Fixing, CatchingUp
<1>2. TypeInv /\ ChkInv /\ [Next]_vars => ChkInv'
  BY ChkKept
<1> QED BY <1>1, <1>2, TypeAlways, PTL DEF Spec

\* VexExecChk dies only after an emulation error: "MISMATCH: END OF BLOCK" is
\* never a false alarm for a program it can compare.
THEOREM NoFalseAlarms ==
    ASSUME Comparable
    PROVE  Spec => []NoFalseAlarm
<1>1. TypeInv /\ FastInv /\ ChkInv => NoFalseAlarm
  BY DEF TypeInv, TypeOK, FastInv, ChkInv, ChkControl, NoFalseAlarm
<1> QED BY <1>1, TypeAlways, FastAlways, ChkAlways, PTL

\* Both processes make the same system call at the same place, in both
\* checkers.
THEOREM SyscallsInStep ==
    ASSUME Comparable
    PROVE  Spec => []SyscallInStep
<1>1. TypeInv /\ ChkInv => (~fast => SyscallInStep)
  <2> SUFFICES ASSUME TypeInv, ChkInv, ~fast, ~bug
               PROVE  phase # "break" /\ (phase = "syscall" => v = s /\ tr[s] \in Syscalls)
    BY DEF SyscallInStep
  <2>1. phase # "break"
    BY DEF ChkInv, ChkControl
  <2>2. ASSUME phase = "syscall" PROVE v = s /\ tr[s] \in Syscalls
    <3>1. ~is_deferred
      BY <2>2 DEF ChkInv, Deferral
    <3>2. ~corrupt
      BY <2>2, <3>1 DEF ChkInv, Fixing
    <3>3. s = v /\ OnPath
      BY <2>2, <3>1, <3>2 DEF ChkInv, CatchingUp
    <3>4. exit_type = "GE_SYSCALL" /\ epc - 1 \in Syscalls
      BY <2>2 DEF ChkInv, ChkControl, isSyscall
    <3> QED BY <3>3, <3>4 DEF OnPath, At
  <2> QED BY <2>1, <2>2
<1>2. (fast => NoFalseAlarm /\ ShadowBehind /\ SyscallInStep) /\ (~fast => SyscallInStep)
        => SyscallInStep
  OBVIOUS
<1> QED BY <1>1, <1>2, TypeAlways, FastChecker, ChkAlways, PTL

\* The paranoid comparison before a block never fires: without a deferral the
\* two processes start every block in the same state.
THEOREM StartsInSync ==
    ASSUME Comparable
    PROVE  Spec => []InSync
<1>1. ChkInv => InSync
  <2> SUFFICES ASSUME ChkInv, phase = "start", ~fast, ~is_deferred, ~bug PROVE isMatch
    BY DEF InSync
  <2>1. ~corrupt /\ exit_type = "GE_IGNORE"
    BY DEF ChkInv, Fixing, ChkControl
  <2>2. s = v /\ OnPath
    BY <2>1 DEF ChkInv, CatchingUp
  <2> QED BY <2>1, <2>2 DEF OnPath, At, isMatch, Same
<1> QED BY <1>1, ChkAlways, PTL

(***************************************************************************)
(* The shadow behind VexExec while a difference waits to be fixed.         *)
(***************************************************************************)
LEMMA FixKept ==
    ASSUME Comparable, FixablesLeave
    PROVE  TypeInv /\ ChkInv /\ ChkInv' /\ FixBehind /\ [Next]_vars => FixBehind'
<1> SUFFICES ASSUME TypeInv, ChkInv, ChkInv', FixBehind, [Next]_vars, ~fast', ~bug', corrupt'
             PROVE  FixBehind'
  BY DEF FixBehind
<1>0. /\ ~fast /\ ~bug /\ ChkParts /\ ChkParts'
      /\ tr \in Seq(Nat) /\ s \in 1 .. Len(tr) /\ v \in Nat /\ blk \in Insn /\ epc \in Nat
      /\ tr[s] \in Nat
  BY Monotone DEF ChkInv, ChkParts, TypeInv, TypeOK
<1>1. CASE EmuBug
  <2>1. /\ phase = "run" /\ ~corrupt /\ epc \in Fixable
        /\ UNCHANGED <<phase, v, s, tr, epc>>
    BY <1>0, <1>1 DEF EmuBug
  <2>2. OnPath /\ exit_type = "GE_IGNORE"
    BY <1>0, <2>1 DEF ChkParts, CatchingUp, ChkControl
  <2> QED BY <1>0, <2>1, <2>2 DEF FixBehind, OnPath, At
<1>2. ASSUME ~corrupt, ~EmuBug PROVE FALSE
  <2>1. ASSUME NEW wrong \in BOOLEAN, SysCallCore(wrong) PROVE FALSE
    BY <1>0, <1>2, <2>1 DEF SysCallCore
  <2>2. CASE \E p \in UNION {Succ[q] : q \in Insn}, leave \in BOOLEAN : EmuInsn(p, leave)
    BY <1>2, <2>2 DEF EmuInsn
  <2>3. CASE DoSysCall \/ FastDoSysCall
    BY <1>2, <2>1, <2>3 DEF DoSysCall, FastDoSysCall
  <2>4. CASE DoVexSB \/ EmuSyscall \/ Check \/ ShadowStep \/ Exit \/ StepToBreakpoint \/ UNCHANGED vars
    BY <1>2, <2>4 DEF DoVexSB, EmuSyscall, Check, ShadowStep, Exit, StepToBreakpoint, vars
  <2>5. CASE Verify
    BY <1>2, <2>5 DEF Verify, Rejoin
  <2> QED BY <1>2, <2>2, <2>3, <2>4, <2>5 DEF Next
<1> SUFFICES ASSUME corrupt, ~EmuBug PROVE FixBehind'
  BY <1>1, <1>2
<1>3. /\ s <= v /\ s <= Len(tr)
      /\ phase = "run" => v = Len(tr) /\ tr[v] = epc /\ epc \in Fixable
      /\ phase # "run" => /\ phase \in {"check", "step", "verify", "stopped"}
                          /\ v \in {Len(tr), Len(tr) + 1} /\ v > 1
                          /\ tr[v - 1] \in Fixable /\ Within(tr[v - 1], Bounds(blk))
                          /\ v = Len(tr) => tr[v] \in Succ[tr[v - 1]]
      /\ phase = "check" => ~Within(epc, Bounds(blk))
  BY <1>0 DEF FixBehind
<1>4. CASE DoVexSB \/ Exit \/ DoSysCall \/ StepToBreakpoint \/ FastDoSysCall
  BY <1>3, <1>4 DEF DoVexSB, Exit, DoSysCall, StepToBreakpoint, FastDoSysCall
<1>5. ASSUME phase = "run"
      PROVE  /\ epc \notin Syscalls /\ Within(epc, Bounds(blk))
             /\ \A r \in Succ[epc] : ~Within(r, Bounds(blk))
  <2>1. Within(epc, Bounds(blk))
    BY <1>0, <1>5 DEF ChkParts, ChkControl
  <2> QED BY <1>0, <1>3, <1>5, <2>1 DEF FixablesLeave
<1>6. CASE EmuSyscall
  BY <1>5, <1>6 DEF EmuSyscall
<1>7. ASSUME NEW p \in UNION {Succ[q] : q \in Insn}, NEW leave \in BOOLEAN, EmuInsn(p, leave)
      PROVE  FixBehind'
  <2>1. /\ phase = "run" /\ p \in Succ[epc] /\ v' = v + 1 /\ epc' = p /\ UNCHANGED <<s, tr, blk>>
        /\ leave \/ Within(p, Bounds(blk))
        /\ phase' = (IF leave THEN "check" ELSE "run")
    BY <1>0, <1>7 DEF EmuInsn, AfterBlock
  <2>2. phase' = "check" /\ ~Within(epc', Bounds(blk'))
    BY <1>5, <2>1 DEF Within, Bounds
  <2>3. v' - 1 = v /\ v' = Len(tr') + 1 /\ v' > 1 /\ s' <= v' /\ s' <= Len(tr')
    BY <1>0, <1>3, <2>1
  <2>4. tr'[v' - 1] \in Fixable /\ Within(tr'[v' - 1], Bounds(blk'))
    BY <1>3, <1>5, <2>1, <2>3 DEF Within, Bounds
  <2>5. v' # Len(tr')
    BY <1>0, <2>1, <2>3
  <2> QED BY <2>2, <2>3, <2>4, <2>5 DEF FixBehind
<1>8. CASE Check
  <2>1. phase = "check" /\ ~Within(epc, Bounds(blk)) /\ UNCHANGED <<blk, epc, v, s, tr>>
    BY <1>3, <1>8 DEF Check
  <2>2. phase' \in {"step", "step_syscall"} /\ ~is_deferred'
    BY <1>8, <2>1 DEF Check, Resume, CatchUp
  <2>3. phase' = "step"
    BY <1>0, <2>2 DEF ChkParts, Fixing
  <2>4. Within(tr'[v' - 1], Bounds(blk'))
    BY <1>3, <2>1 DEF Within, Bounds
  <2> QED BY <1>3, <2>1, <2>3, <2>4 DEF FixBehind
<1>9. CASE ShadowStep
  <2>1. phase = "step" /\ bound = Bounds(blk) /\ UNCHANGED <<blk, v>>
    BY <1>0, <1>3, <1>9 DEF ShadowStep, ChkParts, ChkControl
  <2>2. CASE ShadowDone(tr[s]) \/ tr[s] \in Illegal
    <3>1. phase' = "verify" /\ UNCHANGED <<s, tr>>
      BY <1>9, <2>1, <2>2 DEF ShadowStep, AfterStep
    <3>2. Within(tr'[v' - 1], Bounds(blk'))
      BY <1>3, <2>1, <3>1 DEF Within, Bounds
    <3> QED BY <1>3, <2>1, <3>1, <3>2 DEF FixBehind
  <2>3. CASE ~ShadowDone(tr[s]) /\ tr[s] \notin Illegal
    <3>1. phase' = phase /\ s' = s + 1
      BY <1>9, <2>3 DEF ShadowStep
    <3>2. PICK p \in NextPCs(s) : tr' = Extended(s, p)
      BY <1>9, <2>3 DEF ShadowStep
    <3>3. s # v
      <4> SUFFICES ASSUME s = v PROVE ShadowDone(tr[s])
        BY <2>3
      <4>1. v = Len(tr) /\ tr[v] \in Succ[tr[v - 1]]
        BY <1>0, <1>3, <2>1
      <4>2. ~Within(tr[v], Bounds(blk))
        BY <1>0, <1>3, <2>1, <4>1 DEF FixablesLeave
      <4> QED BY <2>1, <4>2 DEF ShadowDone
    <3>4. v - 1 \in 1 .. Len(tr) /\ s < v
      BY <1>0, <1>3, <2>1, <3>3
    <3>5. CASE s < Len(tr)
      <4>1. tr' = tr
        BY <3>2, <3>5 DEF Extended
      <4>2. Within(tr'[v' - 1], Bounds(blk'))
        BY <1>3, <2>1, <4>1 DEF Within, Bounds
      <4>3. s' <= v' /\ s' <= Len(tr')
        BY <1>0, <2>1, <3>1, <3>4, <3>5, <4>1
      <4> QED BY <1>3, <2>1, <3>1, <4>1, <4>2, <4>3 DEF FixBehind
    <3>6. CASE ~(s < Len(tr))
      <4>1. s = Len(tr) /\ v = Len(tr) + 1 /\ v - 1 = s
        BY <1>0, <1>3, <2>1, <3>4, <3>6
      <4>2. p \in Succ[tr[v - 1]] /\ tr' = Append(tr, p)
        BY <3>2, <3>6, <4>1 DEF NextPCs, Extended
      <4>3. p \in Nat
        <5>1. tr[v - 1] \in Insn
          BY <1>3, <2>1, ProgramAssumption
        <5> QED BY <4>2, <5>1, BoundsType
      <4>4. Len(tr') = v /\ tr'[v] = p /\ tr'[v - 1] = tr[v - 1]
        BY <1>0, <4>1, <4>2, <4>3
      <4>5. Within(tr'[v' - 1], Bounds(blk'))
        BY <1>3, <2>1, <4>4 DEF Within, Bounds
      <4>6. s' <= v' /\ s' <= Len(tr')
        BY <1>0, <2>1, <3>1, <4>1, <4>4
      <4> QED BY <1>3, <2>1, <3>1, <4>2, <4>4, <4>5, <4>6 DEF FixBehind
    <3> QED BY <3>5, <3>6
  <2> QED BY <2>2, <2>3
<1>10. CASE Verify
  <2>1. phase = "verify" /\ phase' = "stopped" /\ UNCHANGED <<blk, v, s, tr>>
    BY <1>0, <1>10 DEF Verify, Rejoin, isMatch, Same, ChkParts, ChkControl
  <2>2. Within(tr'[v' - 1], Bounds(blk'))
    BY <1>3, <2>1 DEF Within, Bounds
  <2> QED BY <1>3, <2>1, <2>2 DEF FixBehind
<1>11. CASE UNCHANGED vars
  BY <1>3, <1>11 DEF vars, FixBehind, Within, Bounds
<1> QED BY <1>4, <1>6, <1>7, <1>8, <1>9, <1>10, <1>11 DEF Next

\* doVexSB's "ensures that shadow process's state <= llvm process's state", for
\* programs whose instructions that need a fixup leave their block.
THEOREM ShadowStaysBehind ==
    ASSUME Comparable, FixablesLeave
    PROVE  Spec => []ShadowBehind
<1>1. Init => FixBehind
  BY DEF Init, FixBehind
<1>2. TypeInv /\ ChkInv /\ ChkInv' /\ FixBehind /\ [Next]_vars => FixBehind'
  BY FixKept
<1>3. TypeInv /\ FastInv /\ ChkInv /\ FixBehind => ShadowBehind
  <2> SUFFICES ASSUME TypeInv, FastInv, ChkInv, FixBehind, ~bug PROVE s <= v
    BY DEF ShadowBehind
  <2>1. CASE fast
    BY <2>1 DEF FastInv, OnPath
  <2>2. CASE ~fast /\ corrupt
    BY <2>2 DEF FixBehind
  <2>3. CASE ~fast /\ ~corrupt
    BY <2>3 DEF ChkInv, CatchingUp, OnPath
  <2> QED BY <2>1, <2>2, <2>3
<1> QED BY <1>1, <1>2, <1>3, TypeAlways, FastAlways, ChkAlways, PTL DEF Spec
=============================================================================
