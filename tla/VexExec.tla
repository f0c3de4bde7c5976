------------------------------ MODULE VexExec ------------------------------
(***************************************************************************)
(* The dispatcher: VexExec::stepVSB/doNextSB, the write protection of      *)
(* mappings that are executed, the SIGSEGV handler that undoes it when the *)
(* guest stores into its code, and the deferred flush of the tampered      *)
(* mapping.  The caches are those of JITCache; the guest's block is an     *)
(* arbitrary sequence of at most MaxStores stores followed by an exit.     *)
(***************************************************************************)
EXTENDS JITCache

CONSTANTS
    Maps,             \* mappings known to GuestMem
    NoMap,            \* lookupMapping found nothing
    MapOf,            \* MapOf[a]: the mapping that holds a
    Start, End,       \* byte range [Start[m], End[m]) of each mapping
    ReqProt,          \* protection the guest asked for
    EndAddr,          \* EndAddr[a]: end of the superblock that starts at a
    MAX_CODE_BYTES,   \* slack added to a flush on both sides
    ExitTypes,        \* exit types the guest's blocks raise
    MaxStores         \* bound: stores of one block into mapped code

ASSUME MapsAssumption ==
    /\ MapOf \in [Addr -> Maps \cup {NoMap}] /\ NoMap \notin Maps
    /\ Start \in [Maps -> Nat] /\ End \in [Maps -> Nat]
    /\ \A m \in Maps : Start[m] = 0 \/ Start[m] >= MAX_CODE_BYTES  \* page aligned
    /\ ReqProt \in [Maps -> SUBSET {"R", "W", "X"}]
    /\ \A a \in Addr : MapOf[a] # NoMap =>
          Start[MapOf[a]] <= a /\ a < End[MapOf[a]]
    /\ EndAddr \in [Addr -> Nat]
    /\ MAX_CODE_BYTES \in Nat /\ MaxStores \in Nat
    /\ \A m \in Maps :
          <<Start[m] - MAX_CODE_BYTES, End[m] + MAX_CODE_BYTES>> \in Ranges

Continue == {"GE_IGNORE", "GE_CALL", "GE_RETURN", "GE_EMWARN"}
SysCall == {"GE_INT", "GE_SYSCALL"}
ASSUME ExitAssumption ==
    ExitTypes \subseteq Continue \cup SysCall \cup
        {"GE_SIGTRAP", "GE_SIGSEGV", "GE_SIGBUS", "GE_YIELD"}

VARIABLES
    pc,          \* where the dispatcher is
    cur,         \* elfptr / vsb of the block being dispatched
    running,     \* code pointer doVexSB called
    next_addr,
    new_jmpaddr, \* what the block returned
    exit_type,
    cur_prot,    \* protection of each mapping in the host
    to_flush,    \* range a store has tampered with; first = 0: none
    fault,       \* address of the store in progress, 0 when none
    stores       \* stores the block has done

execVars == <<pc, cur, running, next_addr, new_jmpaddr, exit_type,
              cur_prot, to_flush, fault, stores>>
vars == <<execVars, jitVars>>

NoFlush == [first |-> 0, second |-> 0]

Init ==
    /\ JITInit
    /\ pc = "ctor"
    /\ cur = 0 /\ running = Null
    /\ next_addr = 0 /\ new_jmpaddr = 0
    /\ exit_type = "GE_IGNORE"
    /\ cur_prot = ReqProt
    /\ to_flush = NoFlush
    /\ fault = 0 /\ stores = 0

\* The constructor reads VEXLLVM_VSB_MAXCACHE; beginStepping starts at the
\* guest's PC.
Begin ==
    /\ pc = "ctor"
    /\ UNCHANGED jitVars \/ \E x \in MaxChoices : SetMaxCache(x)
    /\ next_addr' \in Addr
    /\ pc' = "top"
    /\ UNCHANGED <<cur, running, new_jmpaddr, exit_type, cur_prot,
                   to_flush, fault, stores>>

\* Mutant: the flush comes before the exit switch, with the block still held.
FlushTamperedEarly ==
    /\ pc = "exit"
    /\ to_flush.first # 0
    /\ FlushRange(to_flush.first - MAX_CODE_BYTES,
                  to_flush.second + MAX_CODE_BYTES)
    /\ to_flush' = NoFlush
    /\ UNCHANGED <<pc, cur, running, next_addr, new_jmpaddr, exit_type,
                   cur_prot, fault, stores>>

\* doNextSB: drop the code of the mapping a store has tampered with.
FlushTampered ==
    /\ pc = "top"
    /\ to_flush.first # 0
    /\ FlushRange(to_flush.first - MAX_CODE_BYTES,
                  to_flush.second + MAX_CODE_BYTES)
    /\ to_flush' = NoFlush
    /\ UNCHANGED <<pc, cur, running, next_addr, new_jmpaddr, exit_type,
                   cur_prot, fault, stores>>

\* doNextSB returns NULL: a jump to NULL or to memory without PROT_EXEC.
NotExecutable(a) ==
    \/ a = 0
    \/ a \in Addr /\ MapOf[a] # NoMap /\ "X" \notin ReqProt[MapOf[a]]

Stop ==
    /\ pc = "top" /\ jpc = "idle"
    /\ to_flush.first = 0
    /\ NotExecutable(next_addr)
    /\ pc' = "stopped"
    /\ UNCHANGED jitVars
    /\ UNCHANGED <<cur, running, next_addr, new_jmpaddr, exit_type,
                   cur_prot, to_flush, fault, stores>>

\* Mutant: the mapping is given back the protection the guest asked for.
protectAsAsked(a) ==
    IF MapOf[a] # NoMap THEN [cur_prot EXCEPT ![MapOf[a]] = ReqProt[MapOf[a]]]
    ELSE cur_prot

\* getSBFromGuestAddr writes the protected mapping back when it was writable.
protect(a) ==
    IF MapOf[a] # NoMap /\ "W" \in cur_prot[MapOf[a]]
    THEN [cur_prot EXCEPT ![MapOf[a]] = ReqProt[MapOf[a]] \ {"W"}]
    ELSE cur_prot

\* getSBFromGuestAddr up to getVSB; no superblock ends the run.
Dispatch ==
    /\ pc = "top"
    /\ to_flush.first = 0
    /\ ~NotExecutable(next_addr)
    /\ GetVSB(next_addr)
    /\ cur' = next_addr
    /\ cur_prot' = protect(next_addr)
    /\ pc' = IF cachedVSB(c', next_addr) = Null THEN "stopped" ELSE "fptr"
    /\ UNCHANGED <<running, next_addr, new_jmpaddr, exit_type,
                   to_flush, fault, stores>>

\* getFPtr, cached or compiled.
FPtrHit ==
    /\ pc = "fptr"
    /\ GetCachedFPtr(cur)
    /\ pc' = "exec"
    /\ UNCHANGED <<cur, running, next_addr, new_jmpaddr, exit_type,
                   cur_prot, to_flush, fault, stores>>

FPtrMiss ==
    /\ pc = "fptr"
    /\ GetFPtr(cur)
    /\ pc' = "jit"
    /\ UNCHANGED <<cur, running, next_addr, new_jmpaddr, exit_type,
                   cur_prot, to_flush, fault, stores>>

FPtrPrefetch ==
    /\ pc = "jit"
    /\ PrefetchNext \/ \E a \in Addr : PrefetchExit(a)
    /\ UNCHANGED execVars

FPtrDone ==
    /\ pc = "jit"
    /\ FinishGetFPtr
    /\ pc' = "exec"
    /\ UNCHANGED <<cur, running, next_addr, new_jmpaddr, exit_type,
                   cur_prot, to_flush, fault, stores>>

\* The assertion that closes getSBFromGuestAddr.
Spans(a) == MapOf[a] # NoMap /\ ~(EndAddr[a] < End[MapOf[a]])

AssertSpan ==
    /\ pc = "exec" /\ jpc = "idle"
    /\ Spans(cur)
    /\ pc' = "dead"
    /\ UNCHANGED jitVars
    /\ UNCHANGED <<cur, running, next_addr, new_jmpaddr, exit_type,
                   cur_prot, to_flush, fault, stores>>

\* doVexSB: look the code pointer up and call it.
DoVexSB ==
    /\ pc = "exec"
    /\ ~Spans(cur)
    /\ GetCachedFPtr(cur)
    /\ running' = cachedFPtr(c, cur)
    /\ stores' = 0
    /\ pc' = "run"
    /\ UNCHANGED <<cur, next_addr, new_jmpaddr, exit_type, cur_prot,
                   to_flush, fault>>

\* The block starts a store into mapped memory that holds code.
Store(x) ==
    /\ pc = "run" /\ jpc = "idle"
    /\ fault = 0
    /\ MapOf[x] # NoMap
    /\ stores < MaxStores
    /\ fault' = x
    /\ stores' = stores + 1
    /\ UNCHANGED jitVars
    /\ UNCHANGED <<pc, cur, running, next_addr, new_jmpaddr, exit_type,
                   cur_prot, to_flush>>

\* The store instruction executes: it takes effect or traps.
StoreWrites ==
    /\ pc = "run"
    /\ fault # 0
    /\ "W" \in cur_prot[MapOf[fault]]
    /\ \E k \in Code \cup {Bad} : k # mem[fault] /\ GuestWrite(fault, k)
    /\ fault' = 0
    /\ UNCHANGED <<pc, cur, running, next_addr, new_jmpaddr, exit_type,
                   cur_prot, to_flush, stores>>

StoreTraps ==
    /\ pc = "run" /\ jpc = "idle"
    /\ fault # 0
    /\ "W" \notin cur_prot[MapOf[fault]]
    /\ pc' = "segv"
    /\ UNCHANGED jitVars
    /\ UNCHANGED <<cur, running, next_addr, new_jmpaddr, exit_type,
                   cur_prot, to_flush, fault, stores>>

\* Mutants: the handler drops the wrong permission; it records no flush.
unprotectWrongBit(m) == [cur_prot EXCEPT ![m] = ReqProt[m] \ {"W"}]
flushNothing(m) == NoFlush

\* The mapping becomes writable again and its code is to be flushed.
unprotect(m) == [cur_prot EXCEPT ![m] = ReqProt[m] \ {"X"}]
flushTamperedCode(m) == [first |-> Start[m], second |-> End[m]]

\* signalHandler for a store into a mapping; the store is then retried.
SignalHandler ==
    LET m == MapOf[fault]
    IN  /\ pc = "segv" /\ jpc = "idle"
        /\ IF "X" \in ReqProt[m] /\ "W" \notin cur_prot[m]
           THEN /\ cur_prot' = unprotect(m)
                /\ to_flush' = flushTamperedCode(m)
                /\ pc' = "run"
           ELSE /\ pc' = "dead"
                /\ UNCHANGED <<cur_prot, to_flush>>
        /\ UNCHANGED jitVars
        /\ UNCHANGED <<cur, running, next_addr, new_jmpaddr, exit_type,
                       fault, stores>>

\* The block returns its jump target and leaves its exit type in the CPU state.
BlockExit(a, et) ==
    /\ pc = "run" /\ jpc = "idle"
    /\ fault = 0
    /\ new_jmpaddr' = a
    /\ exit_type' = et
    /\ pc' = "exit"
    /\ UNCHANGED jitVars
    /\ UNCHANGED <<cur, running, next_addr, cur_prot, to_flush, fault,
                   stores>>

\* The exit switch of doNextSB.  A system call may end the guest; the default
\* doTrap does nothing; other exit types fail an assertion.
HandleExit ==
    /\ pc = "exit" /\ jpc = "idle"
    /\ \/ /\ exit_type \in Continue \cup SysCall \cup {"GE_SIGTRAP"}
          /\ exit_type' = "GE_IGNORE"
          /\ next_addr' = new_jmpaddr
          /\ pc' = "top"
       \/ /\ exit_type \in SysCall
          /\ exit_type' = "GE_IGNORE"
          /\ pc' = "stopped"
          /\ UNCHANGED next_addr
       \/ /\ exit_type \notin Continue \cup SysCall \cup {"GE_SIGTRAP"}
          /\ pc' = "dead"
          /\ UNCHANGED <<exit_type, next_addr>>
    /\ UNCHANGED jitVars
    /\ UNCHANGED <<cur, running, new_jmpaddr, cur_prot, to_flush, fault, stores>>

\* The process dies: rand() % 0 while making room, or a wild dereference.
Die ==
    /\ pc \notin {"ctor", "stopped", "dead"}
    /\ Crash \/ (pc = "top" /\ to_flush.first = 0 /\ ~NotExecutable(next_addr)
                   /\ VictimOfNone(next_addr))
    /\ UNCHANGED execVars

\* run() has returned or the process is gone.
Halted ==
    /\ pc \in {"stopped", "dead"} \/ jpc = "dead"
    /\ UNCHANGED vars

Block ==
    \/ \E x \in Addr : Store(x)
    \/ \E a \in Addr \cup {0}, et \in ExitTypes : BlockExit(a, et)

Step ==
    \/ Begin \/ FlushTampered \/ Stop \/ Dispatch
    \/ FPtrHit \/ FPtrMiss \/ FPtrPrefetch \/ FPtrDone
    \/ AssertSpan \/ DoVexSB
    \/ Block \/ StoreWrites \/ StoreTraps \/ SignalHandler
    \/ HandleExit

Next == Step \/ Die \/ Halted

Spec == Init /\ [][Next]_vars

\* One thread that the host schedules: while it can take a step it takes one.
FairSpec == Spec /\ WF_vars(Step)
-----------------------------------------------------------------------------
Alive == jpc # "dead"
InBlock == Alive /\ pc \in {"fptr", "jit", "exec", "run", "segv", "exit"}

TypeOK ==
    /\ JITTypeOK
    /\ pc \in {"ctor", "top", "fptr", "jit", "exec", "run", "segv", "exit",
               "stopped", "dead"}
    /\ cur \in Addr \cup {0} /\ fault \in Addr \cup {0}
    /\ next_addr \in Addr \cup {0} /\ new_jmpaddr \in Addr \cup {0}
    /\ running \in Code \cup {Null}
    /\ exit_type \in ExitTypes \cup {"GE_IGNORE"}
    /\ cur_prot \in [Maps -> SUBSET {"R", "W", "X"}]
    /\ to_flush \in [first : Nat, second : Nat]
    /\ stores \in 0 .. MaxStores

\* signalHandler's "be careful about not flushing the code we're currently
\* running": from getVSB to the exit switch, the superblock the dispatcher
\* holds stays cached, and while the block runs so does the code it runs.
HeldBlockCached ==
    InBlock =>
        /\ c.vexsb[cur] # Absent
        /\ pc \in {"run", "segv", "exit"} => c.jit[cur] = running

\* The superblock that doNextSB is about to run was translated from the bytes
\* that are in memory now: the write protection of getSBFromGuestAddr and the
\* deferred flush leave no window for a store to go unnoticed.
VSBFresh == Alive /\ pc \in {"fptr", "jit", "exec"} => c.vexsb[cur] = mem[cur]

\* The compiled code that starts to run is that of the bytes in memory.
CodeFresh == Alive /\ pc = "run" /\ stores = 0 => running = mem[cur]

\* doVexSB is never reached with a writable mapping: a store of the block into
\* its own mapping always traps first.
RunProtected ==
    Alive /\ pc \in {"fptr", "jit", "exec"} /\ MapOf[cur] # NoMap =>
        "W" \notin cur_prot[MapOf[cur]]

\* A store that traps is eventually resolved: the block goes on to its exit or
\* the process ends.
FaultResolves ==
    (Alive /\ pc = "segv") ~> (pc \in {"exit", "stopped", "dead"} \/ ~Alive)
=============================================================================
