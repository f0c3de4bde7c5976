----------------------------- MODULE Checkpoint -----------------------------
(***************************************************************************)
(* ss_chkpt: a chain of snapshots of a traced process, one per system      *)
(* call.  GuestChkPtSlow saves all of memory each time; GuestChkPtFast and *)
(* GuestChkPtPrePost save the mappings that have soft-dirty pages and      *)
(* share the others with the snapshot before.                              *)
(*                                                                         *)
(* The set of mappings is fixed.  The kernel is known by its contract: a   *)
(* page whose content changed since clear_refs is soft-dirty or absent     *)
(* from the page table, and other pages may be either.  The vsyscall page  *)
(* never changes and is in no process's page table.                        *)
(***************************************************************************)
EXTENDS Integers

CONSTANTS
    Pages,       \* pages of the process
    Maps,        \* its mappings
    MapOf,       \* MapOf[p]: mapping of page p
    VSysPage,    \* mappings of type VSYSPAGE, which never change
    Values,      \* contents of a page
    SC_COUNT,    \* VEXLLVM_SC_COUNT
    None         \* no such snapshot

ASSUME CheckpointAssumption ==
    /\ MapOf \in [Pages -> Maps] /\ VSysPage \subseteq Maps
    /\ SC_COUNT \in Nat

VARIABLES
    mode,        \* "fast", "prepost" or "slow"
    wait,        \* VEXLLVM_CHKPT_WAITOPEN is set
    pc,          \* where main is
    seq,         \* main's loop counter
    at,          \* the process is stopped at "entry" or "exit" of a system call
    mem,         \* memory of the process
    absent,      \* its pages that are not in the page table
    dirty,       \* its other pages that are soft-dirty
    cleared,     \* what mem was at the last clear_refs
    img,         \* GuestChkPt's copy of the memory
    regs,        \* its registers: of the current stop?  moved back onto the call?
    saved        \* the snapshot directories

vars == <<mode, wait, pc, seq, at, mem, dirty, absent, cleared, img, regs, saved>>

Memory == [Pages -> Values]
VSysPages == {p \in Pages : MapOf[p] \in VSysPage}
\* Directories chkpt-<seq>, chkpt-<seq>-pre and chkpt-<seq>-post.
Names == (0 .. SC_COUNT) \X {"chkpt", "pre", "post"}
Registers == [fresh : BOOLEAN, fixed : BOOLEAN]

\* truth and stop record the process a snapshot was taken of.
Snapshots ==
    [content : Memory, regs : Registers,
     truth : Memory, stop : {"entry", "exit"}]

ASSUME NoneAssumption == None \notin Snapshots

\* main up to the first snapshot: the process stands at the entry of a system
\* call, its memory is slurped and its registers are fixed up.
Init ==
    /\ mode \in {"fast", "prepost", "slow"}
    /\ wait \in BOOLEAN
    /\ pc = "start"
    /\ seq = 0
    /\ at = "entry"
    /\ mem \in Memory
    /\ absent \in {S \in SUBSET Pages : VSysPages \subseteq S}
    /\ dirty \in SUBSET (Pages \ absent)
    /\ cleared = mem
    /\ img = mem
    /\ regs = [fresh |-> TRUE, fixed |-> TRUE]
    /\ saved = [n \in Names |-> None]

-----------------------------------------------------------------------------
(* Memory tracking.                                                        *)

clearSoftDirty ==
    /\ dirty' = {}
    /\ cleared' = mem

\* The contract of the kernel for what the process does until it next stops.
Run ==
    /\ mem' \in Memory
    /\ \A p \in VSysPages : mem'[p] = mem[p]
    /\ absent' \in {S \in SUBSET Pages : VSysPages \subseteq S}
    /\ dirty' \in SUBSET (Pages \ absent')
    /\ {p \in Pages : mem'[p] # cleared[p]} \subseteq dirty' \cup absent'

\* Mutant: only the soft-dirty bit is looked at.
changedIfDirty(m) == m \notin VSysPage /\ \E p \in dirty : MapOf[p] = m

\* loadMemDiff: a mapping has changed if one of its pages is soft-dirty or not
\* present.
changed(m) == m \notin VSysPage /\ \E p \in dirty \cup absent : MapOf[p] = m

\* loadMemDiff: what changed is read again, the rest is kept.
loadMemDiff == [p \in Pages |-> IF changed(MapOf[p]) THEN mem[p] ELSE img[p]]

-----------------------------------------------------------------------------
(* Snapshots.                                                              *)

slurpRegisters == [fresh |-> TRUE, fixed |-> FALSE]
fixupRegsPreSyscall(r) == [r EXCEPT !.fixed = TRUE]

write(name, content, r) ==
    saved' = [saved EXCEPT ![name] =
                [content |-> content, regs |-> r, truth |-> mem, stop |-> at]]

\* GuestSnapshot::saveDiff: changed mappings are written from the image d, the
\* others are those of the last snapshot.
saveDiff(name, last, d, r) ==
    write(name,
          [p \in Pages |-> IF changed(MapOf[p]) THEN d[p]
                           ELSE IF saved[last] = None THEN None
                           ELSE saved[last].content[p]],
          r)

\* Load what changed and save it with registers r.
Diff(name, last, r) ==
    /\ img' = loadMemDiff
    /\ regs' = r
    /\ saveDiff(name, last, loadMemDiff, r)

-----------------------------------------------------------------------------
(* waitForOpen.                                                            *)

Start ==
    /\ pc = "start"
    /\ IF wait
       THEN pc' = "wait" /\ clearSoftDirty
       ELSE pc' = "save_init" /\ UNCHANGED <<dirty, cleared>>
    /\ UNCHANGED <<mode, wait, seq, at, mem, absent, img, regs, saved>>

\* The call is not an open.
WaitOther ==
    /\ pc = "wait"
    /\ pc' = "wait_half1"
    /\ UNCHANGED <<mode, wait, seq, at, mem, dirty, absent, cleared, img, regs, saved>>

\* An open of another path.
WaitOpen ==
    /\ pc = "wait"
    /\ img' = loadMemDiff
    /\ clearSoftDirty
    /\ pc' = "wait_half1"
    /\ UNCHANGED <<mode, wait, seq, at, mem, absent, regs, saved>>

WaitDone ==
    /\ pc = "wait"
    /\ img' = loadMemDiff
    /\ pc' = "save_init"
    /\ UNCHANGED <<mode, wait, seq, at, mem, dirty, absent, cleared, regs, saved>>

\* The registers at the next call, as the tracer sees them at its entry.
WaitSlurp ==
    /\ pc = "wait_slurp"
    /\ regs' = slurpRegisters
    /\ pc' = "wait"
    /\ UNCHANGED <<mode, wait, seq, at, mem, dirty, absent, cleared, img, saved>>

-----------------------------------------------------------------------------
(* Running the process.                                                    *)

\* stepSyscalls makes two half steps; PrePost stops after each.
AfterHalf ==
    CASE pc = "half1" -> IF mode = "prepost" THEN "save_pre" ELSE "half2"
      [] pc = "half2" -> IF mode = "prepost" THEN "save_post" ELSE "save"
      [] pc = "wait_half1" -> "wait_half2"
      [] pc = "wait_half2" -> "wait_slurp"

Running == pc \in {"half1", "half2", "wait_half1", "wait_half2"}

stepHalfSyscall ==
    /\ Running
    /\ Run
    /\ at' = IF at = "entry" THEN "exit" ELSE "entry"
    /\ regs' = [regs EXCEPT !.fresh = FALSE]
    /\ pc' = AfterHalf
    /\ UNCHANGED <<mode, wait, seq, cleared, img, saved>>

\* The process exits, segfaults or stops for another signal (an assertion).
ProcessEnds ==
    /\ Running
    /\ pc' = "exited"
    /\ UNCHANGED <<mode, wait, seq, at, mem, dirty, absent, cleared, img, regs, saved>>

-----------------------------------------------------------------------------
(* saveInitialChkPt and the three versions of checkpoint.                  *)

\* PrePost goes on to complete the first system call.
SaveInitial ==
    /\ pc = "save_init"
    /\ IF mode = "prepost"
       THEN /\ write(<<0, "pre">>, img, regs)
            /\ clearSoftDirty
            /\ pc' = "half2"
            /\ UNCHANGED seq
       ELSE /\ write(<<0, "chkpt">>, img, regs)
            /\ pc' = "top"
            /\ seq' = 1
            /\ UNCHANGED <<dirty, cleared>>
    /\ UNCHANGED <<mode, wait, at, mem, absent, img, regs>>

\* The head of main's loop, and the clear_refs that opens a checkpoint.
Top ==
    /\ pc = "top"
    /\ seq < SC_COUNT
    /\ IF mode = "slow" THEN UNCHANGED <<dirty, cleared>> ELSE clearSoftDirty
    /\ pc' = "half1"
    /\ UNCHANGED <<mode, wait, seq, at, mem, absent, img, regs, saved>>

\* GuestChkPtFast::checkpoint after stepSyscalls.
SaveFast ==
    /\ pc = "save" /\ mode = "fast"
    /\ Diff(<<seq, "chkpt">>, <<seq - 1, "chkpt">>, fixupRegsPreSyscall(slurpRegisters))
    /\ pc' = "top" /\ seq' = seq + 1
    /\ UNCHANGED <<mode, wait, at, mem, dirty, absent, cleared>>

\* GuestChkPtSlow::checkpoint after stepSyscalls.
SaveSlow ==
    /\ pc = "save" /\ mode = "slow"
    /\ img' = mem
    /\ regs' = fixupRegsPreSyscall(slurpRegisters)
    /\ write(<<seq, "chkpt">>, mem, fixupRegsPreSyscall(slurpRegisters))
    /\ pc' = "top" /\ seq' = seq + 1
    /\ UNCHANGED <<mode, wait, at, mem, dirty, absent, cleared>>

\* Mutant: the backing is named as in the other modes.
SavePreUnnamed ==
    /\ pc = "save_pre"
    /\ Diff(<<seq, "pre">>, <<seq - 1, "chkpt">>, fixupRegsPreSyscall(slurpRegisters))
    /\ clearSoftDirty
    /\ pc' = "half2"
    /\ UNCHANGED <<mode, wait, seq, at, mem, absent>>

\* GuestChkPtPrePost::checkpoint, at the entry of the call.
SavePre ==
    /\ pc = "save_pre"
    /\ Diff(<<seq, "pre">>, <<seq - 1, "post">>, fixupRegsPreSyscall(slurpRegisters))
    /\ clearSoftDirty
    /\ pc' = "half2"
    /\ UNCHANGED <<mode, wait, seq, at, mem, absent>>

\* Mutants: the registers are moved back although the call is complete; the name
\* of the first half is kept.
SavePostFixed ==
    /\ pc = "save_post"
    /\ Diff(<<seq, "post">>, <<seq, "pre">>, fixupRegsPreSyscall(slurpRegisters))
    /\ pc' = "top" /\ seq' = seq + 1
    /\ UNCHANGED <<mode, wait, at, mem, dirty, absent, cleared>>

SavePostOverPre ==
    /\ pc = "save_post"
    /\ Diff(<<seq, "pre">>, <<seq, "pre">>, slurpRegisters)
    /\ pc' = "top" /\ seq' = seq + 1
    /\ UNCHANGED <<mode, wait, at, mem, dirty, absent, cleared>>

\* The same and saveInitialChkPt, at the exit of the call.
SavePost ==
    /\ pc = "save_post"
    /\ Diff(<<seq, "post">>, <<seq, "pre">>, slurpRegisters)
    /\ pc' = "top" /\ seq' = seq + 1
    /\ UNCHANGED <<mode, wait, at, mem, dirty, absent, cleared>>

\* The process is released.
Detach ==
    /\ pc = "top"
    /\ seq >= SC_COUNT
    /\ pc' = "done"
    /\ UNCHANGED <<mode, wait, seq, at, mem, dirty, absent, cleared, img, regs, saved>>

Halted == pc \in {"done", "exited"} /\ UNCHANGED vars

Next ==
    \/ Start \/ WaitOther \/ WaitOpen \/ WaitDone \/ WaitSlurp
    \/ stepHalfSyscall \/ ProcessEnds
    \/ SaveInitial \/ Top \/ SaveFast \/ SaveSlow \/ SavePre \/ SavePost
    \/ Detach \/ Halted

Spec == Init /\ [][Next]_vars
-----------------------------------------------------------------------------
TypeOK ==
    /\ mode \in {"fast", "prepost", "slow"} /\ wait \in BOOLEAN
    /\ pc \in {"start", "wait", "wait_half1", "wait_half2", "wait_slurp", "save_init",
               "top", "half1", "half2", "save_pre", "save_post", "save", "done", "exited"}
    /\ seq \in Nat /\ at \in {"entry", "exit"}
    /\ mem \in Memory /\ cleared \in Memory /\ img \in Memory
    /\ dirty \subseteq Pages /\ absent \subseteq Pages
    /\ regs \in Registers
    /\ saved \in [Names -> Snapshots \cup {None}]

\* Restoring any snapshot, along its chain of shared mappings down to the first,
\* gives the memory the process had when it was taken: nothing that happened
\* before a clear_refs, during waitForOpen or in another half of a system call
\* is lost.
RestoreExact == \A n \in Names : saved[n] # None => saved[n].content = saved[n].truth

\* A snapshot has the registers of its own stop, moved back onto the system call
\* exactly when the call is still to be made ("post-syscall so no need to call
\* doFixupSyscallRegs").  The first one is excepted when waitForOpen was used.
RegsOfStop ==
    \A n \in Names : saved[n] # None =>
        /\ saved[n].regs.fresh
        /\ saved[n].regs.fixed = (saved[n].stop = "entry") \/ (wait /\ n[1] = 0)

\* A snapshot that others build on is never written again.
Immutable == [][\A n \in Names : saved[n] # None => saved'[n] = saved[n]]_vars
=============================================================================
