-------------------------- MODULE CheckpointProofs --------------------------
(***************************************************************************)
(* Theorems about Checkpoint: every snapshot restores to the memory of its *)
(* stop, for any mappings, pages and number of snapshots.                  *)
(***************************************************************************)
EXTENDS Checkpoint, TLAPS

\* What has changed since clear_refs shows in the page table, and the vsyscall
\* page has not changed.
Tracked ==
    /\ {p \in Pages : mem[p] # cleared[p]} \subseteq dirty \cup absent
    /\ \A p \in VSysPages : mem[p] = cleared[p]

\* The image is that of the last clear_refs while the process may have moved on,
\* and that of now where it is about to be trusted.
Waiting == {"wait", "wait_half1", "wait_half2", "wait_slurp"}
Diffing == {"half1", "half2", "save", "save_pre", "save_post"}
ImageInv ==
    /\ pc \in Waiting => img = cleared
    /\ mode # "slow" /\ pc \in Diffing => img = cleared
    /\ pc \in {"start", "save_init", "top"} => img = mem

\* The snapshot that the next diff will share mappings with.
Backing ==
    IF mode # "prepost" THEN <<seq - 1, "chkpt">>
    ELSE IF pc \in {"half2", "save_post"} THEN <<seq, "pre">>
    ELSE <<seq - 1, "post">>

\* It has the memory of the last clear_refs, or of now.
BackingInv ==
    /\ pc \in Diffing => seq < SC_COUNT \/ seq = 0
    /\ pc \in {"top", "half1", "save", "save_pre"} => seq > 0
    /\ pc \in Diffing /\ mode # "slow" =>
          saved[Backing] # None /\ saved[Backing].content = cleared
    /\ pc = "top" /\ seq < SC_COUNT /\ mode # "slow" =>
          saved[Backing] # None /\ saved[Backing].content = mem

\* Which names are still free.
FreeInv ==
    \A n \in Names : saved[n] # None =>
        /\ pc \notin Waiting \cup {"start", "save_init"}
        /\ n[1] < seq \/ (n = <<seq, "pre">> /\ pc \in {"half2", "save_post", "exited"}
                            /\ mode = "prepost")

\* Where in a system call the process is stopped.
StopInv ==
    /\ pc \in {"start", "wait", "wait_half1", "wait_slurp", "save_init"} => at = "entry"
    /\ pc = "wait_half2" => at = "exit"
    /\ mode = "prepost" => /\ pc \in {"top", "half1", "save_post"} => at = "exit"
                           /\ pc \in {"half2", "save_pre"} => at = "entry"
    /\ mode # "prepost" => /\ pc \in {"top", "half1", "save"} => at = "entry"
                           /\ pc = "half2" => at = "exit"

\* save_pre and save_post belong to PrePost; seq is 0 before the first snapshot
\* and in PrePost's completion of the first system call.
PhaseInv ==
    /\ pc \in {"save_pre", "save_post"} => mode = "prepost"
    /\ pc = "save" => mode # "prepost"
    /\ pc \in Waiting => wait
    /\ pc \in Waiting \cup {"start", "save_init"} => seq = 0
    /\ pc \in {"half1", "half2"} /\ mode # "prepost" => seq > 0

\* The registers that waitForOpen and the first snapshot use.
RegsInv ==
    /\ pc \in {"start", "wait", "save_init"} => regs.fresh
    /\ pc \in {"start", "save_init"} => regs.fixed \/ (wait /\ pc # "start")

CkInv ==
    /\ TypeOK /\ Tracked /\ ImageInv /\ BackingInv /\ FreeInv
    /\ StopInv /\ PhaseInv /\ RegsInv
    /\ RestoreExact /\ RegsOfStop

-----------------------------------------------------------------------------
(* What loading and saving do.                                             *)

\* loadMemDiff brings an image of the last clear_refs up to date.
LEMMA LoadIsExact ==
    ASSUME TypeOK, Tracked, img = cleared
    PROVE  loadMemDiff = mem
<1>1. ASSUME NEW p \in Pages, ~changed(MapOf[p])
      PROVE  img[p] = mem[p]
    <2>1. p \in VSysPages \/ p \notin dirty \cup absent
        BY <1>1 DEF changed, VSysPages
    <2>2. mem[p] = cleared[p]
        BY <2>1 DEF Tracked
    <2> QED  BY <2>2
<1>2. \A p \in Pages : (IF changed(MapOf[p]) THEN mem[p] ELSE img[p]) = mem[p]
    BY <1>1
<1>3. mem = [p \in Pages |-> mem[p]]
    BY DEF TypeOK, Memory
<1> QED  BY <1>2, <1>3 DEF loadMemDiff

\* What write does to the directories.
LEMMA WriteSaves ==
    ASSUME TypeOK, NEW name \in Names, NEW d \in Memory, NEW r \in Registers,
           write(name, d, r)
    PROVE  /\ saved' \in [Names -> Snapshots \cup {None}]
           /\ saved'[name] # None
           /\ saved'[name].content = d /\ saved'[name].regs = r
           /\ saved'[name].truth = mem /\ saved'[name].stop = at
           /\ \A n \in Names \ {name} : saved'[n] = saved[n]
<1> DEFINE rec == [content |-> d, regs |-> r, truth |-> mem, stop |-> at]
<1>1. rec \in Snapshots
    BY DEF TypeOK, Snapshots
<1>2. saved' = [saved EXCEPT ![name] = rec]
    BY DEF write
<1>3. saved \in [Names -> Snapshots \cup {None}]
    BY DEF TypeOK
<1>4. saved'[name] = rec /\ \A n \in Names \ {name} : saved'[n] = saved[n]
    BY <1>2, <1>3, Zenon
<1>5. saved' \in [Names -> Snapshots \cup {None}]
    BY <1>1, <1>2, <1>3
<1>6. rec # None
    BY <1>1, NoneAssumption
<1>7. rec.content = d /\ rec.regs = r /\ rec.truth = mem /\ rec.stop = at
    OBVIOUS
<1> HIDE DEF rec
<1> QED  BY <1>4, <1>5, <1>6, <1>7, Zenon

\* A diff against a snapshot of the last clear_refs is a snapshot of now.
LEMMA DiffIsExact ==
    ASSUME TypeOK, Tracked, img = cleared,
           NEW name \in Names, NEW last \in Names, NEW r \in Registers,
           saved[last] # None, saved[last].content = cleared,
           Diff(name, last, r)
    PROVE  /\ img' = mem /\ regs' = r
           /\ write(name, mem, r)
<1>1. loadMemDiff = mem
    BY LoadIsExact
<1>2. \A p \in Pages : ~changed(MapOf[p]) => cleared[p] = mem[p]
    BY DEF changed, VSysPages, Tracked
<1>3. \A p \in Pages : (IF changed(MapOf[p]) THEN mem[p]
                        ELSE IF saved[last] = None THEN None
                        ELSE saved[last].content[p]) = mem[p]
    BY <1>2
<1>4. mem = [p \in Pages |-> mem[p]]
    BY DEF TypeOK, Memory
<1>5. [p \in Pages |-> IF changed(MapOf[p]) THEN mem[p]
                       ELSE IF saved[last] = None THEN None
                       ELSE saved[last].content[p]] = mem
    BY <1>3, <1>4
<1> QED  BY <1>1, <1>5 DEF Diff, saveDiff

\* Snapshot number k of a run is one of Names.
LEMMA NameOf ==
    ASSUME NEW k \in Nat, k <= SC_COUNT, NEW t \in {"chkpt", "pre", "post"}
    PROVE  <<k, t>> \in Names
<1>1. SC_COUNT \in Nat
    BY CheckpointAssumption
<1>2. k \in 0 .. SC_COUNT
    BY <1>1
<1> QED  BY <1>2, Zenon DEF Names

-----------------------------------------------------------------------------
(* Every action keeps CkInv.                                               *)

\* The state before the first snapshot satisfies the invariant.
LEMMA InitInv == Init => CkInv
<1> SUFFICES ASSUME Init PROVE CkInv
    OBVIOUS
<1>1. TypeOK
    BY DEF Init, TypeOK, Registers
<1>2. \A n \in Names : saved[n] = None
    BY DEF Init
<1>3. FreeInv /\ RestoreExact /\ RegsOfStop
    BY <1>2 DEF FreeInv, RestoreExact, RegsOfStop
<1>4. Tracked /\ ImageInv /\ BackingInv /\ StopInv /\ PhaseInv /\ RegsInv
    BY DEF Init, Tracked, ImageInv, BackingInv, StopInv, PhaseInv, RegsInv, Waiting,
           Diffing
<1> QED  BY <1>1, <1>3, <1>4 DEF CkInv

\* clear_refs starts tracking anew.
LEMMA ClearTracks ==
    ASSUME TypeOK, clearSoftDirty, mem' = mem
    PROVE  Tracked' /\ cleared' = mem' /\ dirty' = {} /\ cleared' \in Memory
BY DEF TypeOK, clearSoftDirty, Tracked

\* main enters waitForOpen, which starts tracking, or goes to the first snapshot.
LEMMA StartInv == CkInv /\ Start => CkInv'
<1> SUFFICES ASSUME CkInv, Start PROVE CkInv'
    OBVIOUS
<1> USE DEF CkInv
<1>1. TypeOK'
    BY ClearTracks DEF Start, TypeOK
<1>2. Tracked'
    <2>1. CASE wait
        BY <2>1, ClearTracks DEF Start
    <2>2. CASE ~wait
        BY <2>2 DEF Start, Tracked
    <2> QED  BY <2>1, <2>2
<1>3. ImageInv'
    <2>1. CASE wait
        BY <2>1, ClearTracks DEF Start, ImageInv, Waiting, Diffing
    <2>2. CASE ~wait
        BY <2>2 DEF Start, ImageInv, Waiting, Diffing
    <2> QED  BY <2>1, <2>2
<1>4. BackingInv' /\ StopInv' /\ PhaseInv' /\ RegsInv'
    BY DEF Start, BackingInv, StopInv, PhaseInv, RegsInv, Waiting, Diffing
<1>5. FreeInv' /\ RestoreExact' /\ RegsOfStop'
    BY DEF Start, FreeInv, RestoreExact, RegsOfStop
<1> QED  BY <1>1, <1>2, <1>3, <1>4, <1>5

\* A call that is not an open is skipped; its changes stay tracked.
LEMMA WaitOtherInv == CkInv /\ WaitOther => CkInv'
<1> SUFFICES ASSUME CkInv, WaitOther PROVE CkInv'
    OBVIOUS
<1> USE DEF CkInv
<1>1. TypeOK'
    BY DEF WaitOther, TypeOK
<1>2. Tracked' /\ ImageInv' /\ BackingInv' /\ StopInv' /\ PhaseInv' /\ RegsInv'
    BY DEF WaitOther, Tracked, ImageInv, BackingInv, StopInv, PhaseInv, RegsInv, Waiting,
           Diffing
<1>3. FreeInv' /\ RestoreExact' /\ RegsOfStop'
    BY DEF WaitOther, FreeInv, RestoreExact, RegsOfStop, Waiting
<1> QED  BY <1>1, <1>2, <1>3

\* An open of another path brings the image up to date and tracks anew.
LEMMA WaitOpenInv == CkInv /\ WaitOpen => CkInv'
<1> SUFFICES ASSUME CkInv, WaitOpen PROVE CkInv'
    OBVIOUS
<1> USE DEF CkInv
<1>1. img' = mem
    BY LoadIsExact DEF WaitOpen, ImageInv, Waiting
<1>2. Tracked' /\ cleared' = mem' /\ mem' = mem /\ dirty' = {}
    BY ClearTracks DEF WaitOpen
<1>3. TypeOK'
    BY <1>1, <1>2 DEF WaitOpen, TypeOK
<1>4. ImageInv' /\ BackingInv' /\ StopInv' /\ PhaseInv' /\ RegsInv'
    BY <1>1, <1>2 DEF WaitOpen, ImageInv, BackingInv, StopInv, PhaseInv, RegsInv, Waiting,
           Diffing
<1>5. FreeInv' /\ RestoreExact' /\ RegsOfStop'
    BY DEF WaitOpen, FreeInv, RestoreExact, RegsOfStop, Waiting
<1> QED  BY <1>2, <1>3, <1>4, <1>5

\* The open that was waited for brings the image up to date.
LEMMA WaitDoneInv == CkInv /\ WaitDone => CkInv'
<1> SUFFICES ASSUME CkInv, WaitDone PROVE CkInv'
    OBVIOUS
<1> USE DEF CkInv
<1>1. img' = mem
    BY LoadIsExact DEF WaitDone, ImageInv, Waiting
<1>2. TypeOK'
    BY <1>1 DEF WaitDone, TypeOK
<1>3. Tracked' /\ ImageInv' /\ BackingInv' /\ StopInv' /\ PhaseInv' /\ RegsInv'
    BY <1>1 DEF WaitDone, Tracked, ImageInv, BackingInv, StopInv, PhaseInv, RegsInv,
           Waiting, Diffing
<1>4. FreeInv' /\ RestoreExact' /\ RegsOfStop'
    BY DEF WaitDone, FreeInv, RestoreExact, RegsOfStop, Waiting
<1> QED  BY <1>2, <1>3, <1>4

\* waitForOpen reads the registers of the next call.
LEMMA WaitSlurpInv == CkInv /\ WaitSlurp => CkInv'
<1> SUFFICES ASSUME CkInv, WaitSlurp PROVE CkInv'
    OBVIOUS
<1> USE DEF CkInv
<1>1. TypeOK'
    BY DEF WaitSlurp, TypeOK, slurpRegisters, Registers
<1>2. Tracked' /\ ImageInv' /\ BackingInv' /\ StopInv' /\ PhaseInv'
    BY DEF WaitSlurp, Tracked, ImageInv, BackingInv, StopInv, PhaseInv, Waiting, Diffing
<1>3. RegsInv'
    BY DEF WaitSlurp, RegsInv, slurpRegisters
<1>4. FreeInv' /\ RestoreExact' /\ RegsOfStop'
    BY DEF WaitSlurp, FreeInv, RestoreExact, RegsOfStop, Waiting
<1> QED  BY <1>1, <1>2, <1>3, <1>4

\* The process runs to its next stop; the page table shows what it changed.
LEMMA StepInv == CkInv /\ stepHalfSyscall => CkInv'
<1> SUFFICES ASSUME CkInv, stepHalfSyscall PROVE CkInv'
    OBVIOUS
<1> USE DEF CkInv
<1>1. /\ pc = "half1" /\ mode = "prepost" => pc' = "save_pre"
      /\ pc = "half1" /\ mode # "prepost" => pc' = "half2"
      /\ pc = "half2" /\ mode = "prepost" => pc' = "save_post"
      /\ pc = "half2" /\ mode # "prepost" => pc' = "save"
      /\ pc = "wait_half1" => pc' = "wait_half2"
      /\ pc = "wait_half2" => pc' = "wait_slurp"
      /\ pc \in {"half1", "half2", "wait_half1", "wait_half2"}
    BY DEF stepHalfSyscall, AfterHalf, Running
<1>2. TypeOK'
    <2>1. regs' \in Registers
        BY DEF stepHalfSyscall, TypeOK, Registers
    <2> QED  BY <1>1, <2>1 DEF stepHalfSyscall, Run, TypeOK
<1>3. Tracked'
    BY DEF stepHalfSyscall, Run, Tracked, VSysPages
<1>4. ImageInv' /\ PhaseInv' /\ RegsInv'
    BY <1>1 DEF stepHalfSyscall, ImageInv, PhaseInv, RegsInv, Waiting, Diffing
<1>5. BackingInv'
    BY <1>1 DEF stepHalfSyscall, BackingInv, Backing, PhaseInv, Waiting, Diffing
<1>6. StopInv'
    BY <1>1 DEF stepHalfSyscall, StopInv
<1>7. FreeInv' /\ RestoreExact' /\ RegsOfStop'
    BY <1>1 DEF stepHalfSyscall, FreeInv, RestoreExact, RegsOfStop, Waiting
<1> QED  BY <1>2, <1>3, <1>4, <1>5, <1>6, <1>7

\* The process ends.
LEMMA EndsInv == CkInv /\ ProcessEnds => CkInv'
<1> SUFFICES ASSUME CkInv, ProcessEnds PROVE CkInv'
    OBVIOUS
<1> USE DEF CkInv
<1>1. TypeOK'
    BY DEF ProcessEnds, TypeOK
<1>2. Tracked' /\ ImageInv' /\ BackingInv' /\ StopInv' /\ PhaseInv' /\ RegsInv'
    BY DEF ProcessEnds, Tracked, ImageInv, BackingInv, StopInv, PhaseInv, RegsInv, Waiting,
           Diffing
<1>3. FreeInv' /\ RestoreExact' /\ RegsOfStop'
    BY DEF ProcessEnds, Running, FreeInv, RestoreExact, RegsOfStop, Waiting
<1> QED  BY <1>1, <1>2, <1>3

\* A snapshot of the memory, at this stop, under a name that is free, keeps what
\* is true of all snapshots.
LEMMA SaveKeeps ==
    ASSUME CkInv, NEW name \in Names, NEW r \in Registers, write(name, mem, r),
           saved[name] = None, wait' = wait,
           r.fresh, r.fixed = (at = "entry") \/ (wait /\ name[1] = 0)
    PROVE  /\ RestoreExact' /\ RegsOfStop'
           /\ saved' \in [Names -> Snapshots \cup {None}]
           /\ saved'[name] # None /\ saved'[name].content = mem
           /\ \A n \in Names \ {name} : saved'[n] = saved[n]
<1>1. TypeOK /\ mem \in Memory
    BY DEF CkInv, TypeOK
<1>2. /\ saved' \in [Names -> Snapshots \cup {None}]
      /\ saved'[name] # None
      /\ saved'[name].content = mem /\ saved'[name].regs = r
      /\ saved'[name].truth = mem /\ saved'[name].stop = at
      /\ \A n \in Names \ {name} : saved'[n] = saved[n]
    BY <1>1, WriteSaves
<1>3. RestoreExact'
    BY <1>2 DEF CkInv, RestoreExact
<1>4. RegsOfStop'
    BY <1>2 DEF CkInv, RegsOfStop
<1> QED  BY <1>2, <1>3, <1>4

\* The first snapshot is all of the image, which is up to date.
LEMMA SaveInitialInv == CkInv /\ SaveInitial => CkInv'
<1> SUFFICES ASSUME CkInv, SaveInitial PROVE CkInv'
    OBVIOUS
<1> DEFINE name == IF mode = "prepost" THEN <<0, "pre">> ELSE <<0, "chkpt">>
<1>1. name \in Names /\ name[1] = 0
    <2>1. 0 \in Nat /\ 0 <= SC_COUNT
        BY CheckpointAssumption
    <2> QED  BY <2>1, NameOf
<1>2. img = mem /\ at = "entry" /\ seq = 0 /\ regs \in Registers
    BY DEF CkInv, TypeOK, SaveInitial, ImageInv, StopInv, PhaseInv
<1>3. write(name, mem, regs)
    BY <1>2 DEF SaveInitial
<1>4. \A n \in Names : saved[n] = None
    BY DEF CkInv, SaveInitial, FreeInv
<1>5. regs.fresh /\ (regs.fixed = (at = "entry") \/ (wait /\ name[1] = 0))
    BY <1>1, <1>2 DEF CkInv, SaveInitial, RegsInv, Registers
<1>6. /\ RestoreExact' /\ RegsOfStop'
      /\ saved' \in [Names -> Snapshots \cup {None}]
      /\ saved'[name] # None /\ saved'[name].content = mem
      /\ \A n \in Names \ {name} : saved'[n] = saved[n]
    BY <1>1, <1>2, <1>3, <1>4, <1>5, SaveKeeps DEF SaveInitial
<1>7. /\ Tracked'
      /\ mode = "prepost" => cleared' = mem' /\ dirty' = {}
      /\ cleared' \in Memory /\ dirty' \subseteq Pages
    <2>1. CASE mode = "prepost"
        BY <2>1, ClearTracks DEF CkInv, SaveInitial
    <2>2. CASE mode # "prepost"
        BY <2>2 DEF CkInv, TypeOK, SaveInitial, Tracked
    <2> QED  BY <2>1, <2>2
<1>8. TypeOK'
    BY <1>6, <1>7 DEF CkInv, TypeOK, SaveInitial
<1>9. ImageInv' /\ StopInv' /\ PhaseInv' /\ RegsInv'
    BY <1>2, <1>7 DEF CkInv, SaveInitial, ImageInv, StopInv, PhaseInv, RegsInv, Waiting,
           Diffing
<1>10. BackingInv'
    BY <1>2, <1>6, <1>7 DEF SaveInitial, BackingInv, Backing, Diffing
<1>11. FreeInv'
    BY <1>1, <1>2, <1>4, <1>6 DEF SaveInitial, FreeInv, Waiting
<1> QED  BY <1>6, <1>7, <1>8, <1>9, <1>10, <1>11 DEF CkInv

\* A checkpoint starts from an image and a backing that are up to date.
LEMMA TopInv == CkInv /\ Top => CkInv'
<1> SUFFICES ASSUME CkInv, Top PROVE CkInv'
    OBVIOUS
<1>1. /\ Tracked'
      /\ mode # "slow" => cleared' = mem' /\ dirty' = {}
      /\ cleared' \in Memory /\ dirty' \subseteq Pages
    <2>1. CASE mode # "slow"
        BY <2>1, ClearTracks DEF CkInv, Top
    <2>2. CASE mode = "slow"
        BY <2>2 DEF CkInv, TypeOK, Top, Tracked
    <2> QED  BY <2>1, <2>2
<1>2. TypeOK'
    BY <1>1 DEF CkInv, TypeOK, Top
<1>3. ImageInv' /\ StopInv' /\ PhaseInv' /\ RegsInv'
    BY <1>1 DEF CkInv, TypeOK, Top, ImageInv, StopInv, PhaseInv, RegsInv, BackingInv,
           Waiting, Diffing
<1>4. BackingInv'
    BY <1>1 DEF CkInv, Top, BackingInv, Backing, Diffing
<1>5. FreeInv' /\ RestoreExact' /\ RegsOfStop'
    BY DEF CkInv, Top, FreeInv, RestoreExact, RegsOfStop, Waiting
<1> QED  BY <1>1, <1>2, <1>3, <1>4, <1>5 DEF CkInv

\* GuestChkPtFast saves a diff at the entry of a call.
LEMMA SaveFastInv == CkInv /\ SaveFast => CkInv'
<1> SUFFICES ASSUME CkInv, SaveFast PROVE CkInv'
    OBVIOUS
<1> DEFINE name == <<seq, "chkpt">>
           last == <<seq - 1, "chkpt">>
           r == fixupRegsPreSyscall(slurpRegisters)
<1>1. /\ seq \in Nat /\ seq <= SC_COUNT
      /\ mode = "fast" /\ img = cleared
      /\ seq > 0
    BY CheckpointAssumption
       DEF CkInv, TypeOK, SaveFast, BackingInv, ImageInv, PhaseInv, Diffing
<1>2. name \in Names /\ last \in Names
    <2>1. seq - 1 \in Nat /\ seq - 1 <= SC_COUNT
        BY <1>1, CheckpointAssumption
    <2> QED  BY <1>1, <2>1, NameOf
<1>3. saved[last] # None /\ saved[last].content = cleared
    BY <1>1 DEF CkInv, SaveFast, BackingInv, Backing, Diffing
<1>4. r \in Registers /\ r.fresh /\ r.fixed = TRUE
    BY DEF Registers, slurpRegisters, fixupRegsPreSyscall
<1>5. at = "entry"
    BY <1>1 DEF CkInv, SaveFast, StopInv
<1>6. img' = mem /\ regs' = r /\ write(name, mem, r)
    <2>1. Diff(name, last, r)
        BY DEF SaveFast
    <2> HIDE DEF r, name, last
    <2> QED  BY <1>1, <1>2, <1>3, <1>4, <2>1, DiffIsExact DEF CkInv
<1>7. saved[name] = None
    BY <1>1, <1>2 DEF CkInv, SaveFast, FreeInv
<1>8. /\ RestoreExact' /\ RegsOfStop'
      /\ saved' \in [Names -> Snapshots \cup {None}]
      /\ saved'[name] # None /\ saved'[name].content = mem
      /\ \A n \in Names \ {name} : saved'[n] = saved[n]
    <2>1. wait' = wait
        BY DEF SaveFast
    <2> HIDE DEF r, name
    <2> QED  BY <1>2, <1>4, <1>5, <1>6, <1>7, <2>1, SaveKeeps
<1>9. Tracked' /\ cleared' \in Memory
    BY DEF CkInv, TypeOK, SaveFast, Tracked
<1>10. TypeOK'
    BY <1>1, <1>4, <1>6, <1>8, <1>9 DEF CkInv, TypeOK, SaveFast
<1>11. ImageInv' /\ StopInv' /\ PhaseInv' /\ RegsInv'
    BY <1>1, <1>5, <1>6, <1>9 DEF SaveFast, ImageInv, StopInv, PhaseInv, RegsInv, Waiting,
           Diffing
<1>12. BackingInv'
    BY <1>1, <1>8, <1>9 DEF CkInv, SaveFast, BackingInv, Backing, Diffing
<1>13. FreeInv'
    BY <1>1, <1>2, <1>8 DEF CkInv, SaveFast, FreeInv, Waiting, Names
<1> QED  BY <1>8, <1>9, <1>10, <1>11, <1>12, <1>13 DEF CkInv

\* GuestChkPtPrePost saves a diff at the entry of a call and tracks anew.
LEMMA SavePreInv == CkInv /\ SavePre => CkInv'
<1> SUFFICES ASSUME CkInv, SavePre PROVE CkInv'
    OBVIOUS
<1> DEFINE name == <<seq, "pre">>
           last == <<seq - 1, "post">>
           r == fixupRegsPreSyscall(slurpRegisters)
<1>1. /\ seq \in Nat /\ seq <= SC_COUNT
      /\ mode = "prepost" /\ img = cleared
      /\ seq > 0
    BY CheckpointAssumption
       DEF CkInv, TypeOK, SavePre, BackingInv, ImageInv, PhaseInv, Diffing
<1>2. name \in Names /\ last \in Names
    <2>1. seq - 1 \in Nat /\ seq - 1 <= SC_COUNT
        BY <1>1, CheckpointAssumption
    <2> QED  BY <1>1, <2>1, NameOf
<1>3. saved[last] # None /\ saved[last].content = cleared
    BY <1>1 DEF CkInv, SavePre, BackingInv, Backing, Diffing
<1>4. r \in Registers /\ r.fresh /\ r.fixed = TRUE
    BY DEF Registers, slurpRegisters, fixupRegsPreSyscall
<1>5. at = "entry"
    BY <1>1 DEF CkInv, SavePre, StopInv
<1>6. img' = mem /\ regs' = r /\ write(name, mem, r)
    <2>1. Diff(name, last, r)
        BY DEF SavePre
    <2> HIDE DEF r, name, last
    <2> QED  BY <1>1, <1>2, <1>3, <1>4, <2>1, DiffIsExact DEF CkInv
<1>7. saved[name] = None
    BY <1>1, <1>2 DEF CkInv, SavePre, FreeInv
<1>8. /\ RestoreExact' /\ RegsOfStop'
      /\ saved' \in [Names -> Snapshots \cup {None}]
      /\ saved'[name] # None /\ saved'[name].content = mem
      /\ \A n \in Names \ {name} : saved'[n] = saved[n]
    <2>1. wait' = wait
        BY DEF SavePre
    <2> HIDE DEF r, name
    <2> QED  BY <1>2, <1>4, <1>5, <1>6, <1>7, <2>1, SaveKeeps
<1>9. Tracked' /\ cleared' = mem' /\ dirty' = {} /\ cleared' \in Memory
    BY ClearTracks DEF CkInv, SavePre
<1>10. TypeOK'
    BY <1>1, <1>4, <1>6, <1>8, <1>9 DEF CkInv, TypeOK, SavePre
<1>11. ImageInv' /\ StopInv' /\ PhaseInv' /\ RegsInv'
    BY <1>1, <1>5, <1>6, <1>9 DEF SavePre, ImageInv, StopInv, PhaseInv, RegsInv, Waiting,
           Diffing
<1>12. BackingInv'
    BY <1>1, <1>8, <1>9 DEF CkInv, SavePre, BackingInv, Backing, Diffing
<1>13. FreeInv'
    BY <1>1, <1>2, <1>8 DEF CkInv, SavePre, FreeInv, Waiting, Names
<1> QED  BY <1>8, <1>9, <1>10, <1>11, <1>12, <1>13 DEF CkInv

\* GuestChkPtPrePost saves a diff at the exit of a call.
LEMMA SavePostInv == CkInv /\ SavePost => CkInv'
<1> SUFFICES ASSUME CkInv, SavePost PROVE CkInv'
    OBVIOUS
<1> DEFINE name == <<seq, "post">>
           last == <<seq, "pre">>
           r == slurpRegisters
<1>1. /\ seq \in Nat /\ seq <= SC_COUNT
      /\ mode = "prepost" /\ img = cleared
    BY CheckpointAssumption
       DEF CkInv, TypeOK, SavePost, BackingInv, ImageInv, PhaseInv, Diffing
<1>2. name \in Names /\ last \in Names
    BY <1>1, CheckpointAssumption, NameOf
<1>3. saved[last] # None /\ saved[last].content = cleared
    BY <1>1 DEF CkInv, SavePost, BackingInv, Backing, Diffing
<1>4. r \in Registers /\ r.fresh /\ r.fixed = FALSE
    BY DEF Registers, slurpRegisters
<1>5. at = "exit"
    BY <1>1 DEF CkInv, SavePost, StopInv
<1>6. img' = mem /\ regs' = r /\ write(name, mem, r)
    <2>1. Diff(name, last, r)
        BY DEF SavePost
    <2> HIDE DEF r, name, last
    <2> QED  BY <1>1, <1>2, <1>3, <1>4, <2>1, DiffIsExact DEF CkInv
<1>7. saved[name] = None
    BY <1>1, <1>2 DEF CkInv, SavePost, FreeInv
<1>8. /\ RestoreExact' /\ RegsOfStop'
      /\ saved' \in [Names -> Snapshots \cup {None}]
      /\ saved'[name] # None /\ saved'[name].content = mem
      /\ \A n \in Names \ {name} : saved'[n] = saved[n]
    <2>1. wait' = wait
        BY DEF SavePost
    <2> HIDE DEF r, name
    <2> QED  BY <1>2, <1>4, <1>5, <1>6, <1>7, <2>1, SaveKeeps
<1>9. Tracked' /\ cleared' \in Memory
    BY DEF CkInv, TypeOK, SavePost, Tracked
<1>10. TypeOK'
    BY <1>1, <1>4, <1>6, <1>8, <1>9 DEF CkInv, TypeOK, SavePost
<1>11. ImageInv' /\ StopInv' /\ PhaseInv' /\ RegsInv'
    BY <1>1, <1>5, <1>6, <1>9 DEF SavePost, ImageInv, StopInv, PhaseInv, RegsInv, Waiting,
           Diffing
<1>12. BackingInv'
    BY <1>1, <1>8, <1>9 DEF CkInv, SavePost, BackingInv, Backing, Diffing
<1>13. FreeInv'
    BY <1>1, <1>2, <1>8 DEF CkInv, SavePost, FreeInv, Waiting, Names
<1> QED  BY <1>8, <1>9, <1>10, <1>11, <1>12, <1>13 DEF CkInv

\* GuestChkPtSlow saves all of memory.
LEMMA SaveSlowInv == CkInv /\ SaveSlow => CkInv'
<1> SUFFICES ASSUME CkInv, SaveSlow PROVE CkInv'
    OBVIOUS
<1> DEFINE name == <<seq, "chkpt">>
           r == fixupRegsPreSyscall(slurpRegisters)
<1>1. seq \in Nat /\ seq <= SC_COUNT /\ mode = "slow" /\ seq > 0
    BY CheckpointAssumption DEF CkInv, TypeOK, SaveSlow, BackingInv, Diffing
<1>2. name \in Names
    BY <1>1, NameOf
<1>3. r \in Registers /\ r.fresh /\ r.fixed = TRUE
    BY DEF Registers, slurpRegisters, fixupRegsPreSyscall
<1>4. at = "entry"
    BY <1>1 DEF CkInv, SaveSlow, StopInv
<1>5. saved[name] = None
    BY <1>1, <1>2 DEF CkInv, SaveSlow, FreeInv
<1>6. img' = mem /\ regs' = r /\ write(name, mem, r) /\ wait' = wait
    BY DEF SaveSlow
<1>7. /\ RestoreExact' /\ RegsOfStop'
      /\ saved' \in [Names -> Snapshots \cup {None}]
      /\ \A n \in Names \ {name} : saved'[n] = saved[n]
    <2> HIDE DEF r, name
    <2> QED  BY <1>2, <1>3, <1>4, <1>5, <1>6, SaveKeeps
<1>8. TypeOK'
    BY <1>1, <1>3, <1>6, <1>7 DEF CkInv, TypeOK, SaveSlow
<1>9. Tracked' /\ ImageInv' /\ StopInv' /\ PhaseInv' /\ RegsInv' /\ BackingInv'
    BY <1>1, <1>4, <1>6 DEF CkInv, SaveSlow, Tracked, ImageInv, StopInv, PhaseInv, RegsInv,
           BackingInv, Waiting, Diffing
<1>10. FreeInv'
    BY <1>1, <1>2, <1>7 DEF CkInv, SaveSlow, FreeInv, Waiting, Names
<1> QED  BY <1>7, <1>8, <1>9, <1>10 DEF CkInv

\* The process is released.
LEMMA DetachInv == CkInv /\ Detach => CkInv'
<1> SUFFICES ASSUME CkInv, Detach PROVE CkInv'
    OBVIOUS
<1> USE DEF CkInv
<1>1. TypeOK'
    BY DEF Detach, TypeOK
<1>2. Tracked' /\ ImageInv' /\ BackingInv' /\ StopInv' /\ PhaseInv' /\ RegsInv'
    BY DEF Detach, Tracked, ImageInv, BackingInv, StopInv, PhaseInv, RegsInv, Waiting,
           Diffing
<1>3. FreeInv' /\ RestoreExact' /\ RegsOfStop'
    BY DEF Detach, FreeInv, RestoreExact, RegsOfStop, Waiting
<1> QED  BY <1>1, <1>2, <1>3

\* Nothing changes.
LEMMA StutterInv == CkInv /\ UNCHANGED vars => CkInv'
<1> SUFFICES ASSUME CkInv, UNCHANGED vars PROVE CkInv'
    OBVIOUS
<1> USE DEF CkInv, vars
<1>1. TypeOK' /\ Tracked' /\ ImageInv' /\ StopInv' /\ PhaseInv' /\ RegsInv'
    BY DEF TypeOK, Tracked, ImageInv, StopInv, PhaseInv, RegsInv
<1>2. BackingInv'
    BY DEF BackingInv, Backing
<1>3. FreeInv' /\ RestoreExact' /\ RegsOfStop'
    BY DEF FreeInv, RestoreExact, RegsOfStop
<1> QED  BY <1>1, <1>2, <1>3
-----------------------------------------------------------------------------
(* The theorems.                                                           *)

\* The inductive invariant: the image and the snapshot to be shared are those of
\* the last clear_refs, and what changed since shows in the page table.
THEOREM CheckpointInvariant == Spec => []CkInv
<1>1. Init => CkInv
    BY InitInv
<1>2. CkInv /\ [Next]_vars => CkInv'
    <2> SUFFICES ASSUME CkInv, [Next]_vars PROVE CkInv'
        OBVIOUS
    <2> QED
        BY StartInv, WaitOtherInv, WaitOpenInv, WaitDoneInv, WaitSlurpInv, StepInv,
           EndsInv, SaveInitialInv, TopInv, SaveFastInv, SaveSlowInv, SavePreInv,
           SavePostInv, DetachInv, StutterInv DEF Next, Halted
<1> QED  BY <1>1, <1>2, PTL DEF Spec

\* Every variable keeps its type; in particular every diff has a snapshot to
\* share its unchanged mappings with.
THEOREM CheckpointTypes == Spec => []TypeOK
<1>1. CkInv => TypeOK
    BY DEF CkInv
<1> QED  BY <1>1, CheckpointInvariant, PTL

\* Every snapshot of every mode restores to the memory of its stop, whatever the
\* process writes and whatever pages the kernel reports beyond those.
THEOREM RestoresExactly == Spec => []RestoreExact
<1>1. CkInv => RestoreExact
    BY DEF CkInv
<1> QED  BY <1>1, CheckpointInvariant, PTL

\* Every snapshot has the registers of its stop, moved back onto the system call
\* exactly when it is still to be made.
THEOREM RegistersOfStop == Spec => []RegsOfStop
<1>1. CkInv => RegsOfStop
    BY DEF CkInv
<1> QED  BY <1>1, CheckpointInvariant, PTL

\* A write under a name that is free changes no other snapshot.
LEMMA WriteIsNew ==
    ASSUME CkInv, NEW name \in Names, saved[name] = None, NEW d, NEW r,
           write(name, d, r), NEW n \in Names, saved[n] # None
    PROVE  saved'[n] = saved[n]
BY DEF CkInv, TypeOK, write

\* No snapshot is ever written again, so that the ones sharing its mappings stay
\* as they were saved.
THEOREM SnapshotsImmutable == Spec => Immutable
<1> DEFINE Kept == \A n \in Names : saved[n] # None => saved'[n] = saved[n]
<1>1. CkInv /\ [Next]_vars => [Kept]_vars
    <2> SUFFICES ASSUME CkInv, Next PROVE Kept
        OBVIOUS
    <2>1. seq \in Nat /\ (pc \in Diffing => seq <= SC_COUNT)
        BY CheckpointAssumption DEF CkInv, TypeOK, BackingInv
    <2>2. CASE SaveInitial
        <3>1. \A n \in Names : saved[n] = None
            BY <2>2 DEF CkInv, SaveInitial, FreeInv
        <3> QED  BY <3>1
    <2>3. CASE SaveFast \/ SaveSlow
        <3>1. <<seq, "chkpt">> \in Names
            BY <2>1, <2>3, NameOf DEF SaveFast, SaveSlow, Diffing
        <3>2. saved[<<seq, "chkpt">>] = None
            BY <2>1, <2>3, <3>1 DEF CkInv, FreeInv, SaveFast, SaveSlow
        <3> QED  BY <2>3, <3>1, <3>2, WriteIsNew DEF SaveFast, SaveSlow, Diff, saveDiff
    <2>4. CASE SavePre
        <3>1. <<seq, "pre">> \in Names
            BY <2>1, <2>4, NameOf DEF SavePre, Diffing
        <3>2. saved[<<seq, "pre">>] = None
            BY <2>1, <2>4, <3>1 DEF CkInv, FreeInv, SavePre
        <3> QED  BY <2>4, <3>1, <3>2, WriteIsNew DEF SavePre, Diff, saveDiff
    <2>5. CASE SavePost
        <3>1. <<seq, "post">> \in Names
            BY <2>1, <2>5, NameOf DEF SavePost, Diffing
        <3>2. saved[<<seq, "post">>] = None
            BY <2>1, <2>5, <3>1 DEF CkInv, FreeInv, SavePost
        <3> QED  BY <2>5, <3>1, <3>2, WriteIsNew DEF SavePost, Diff, saveDiff
    <2>6. CASE \/ Start \/ WaitOther \/ WaitOpen \/ WaitDone \/ WaitSlurp
               \/ stepHalfSyscall \/ ProcessEnds \/ Top \/ Detach \/ Halted
        BY <2>6 DEF Start, WaitOther, WaitOpen, WaitDone, WaitSlurp, stepHalfSyscall,
                    ProcessEnds, Top, Detach, Halted, vars
    <2> QED  BY <2>2, <2>3, <2>4, <2>5, <2>6 DEF Next
<1> QED  BY <1>1, CheckpointInvariant, PTL DEF Spec, Immutable
=============================================================================
