# A TLA+ model of vexllvm

vexllvm runs a guest program by translating it, one superblock at a time, from
machine code to VEX IR (`VexXlate`, `VexSB`), from VEX to LLVM IR (`VexStmt`,
`VexExpr`, `GenLLVM`), and from LLVM IR to host code (`JITEngine`), and calling the
result.  This directory holds a model of

* the parts that keep state between superblocks: the translation caches, the dispatcher
  with its treatment of self-modifying code, the executors that cross-check the
  translation against a ptraced native process, the on-disk cache of code fragments,
  and the checkpointer that saves a chain of snapshots of a traced process;
* the translation itself: libVEX's callbacks, the emission of statements and
  expressions, and the operators;
* what stands between a guest and the host kernel: the translated system calls, the
  guest's signals and its shared memory.

Paths below are relative to the repository; line numbers are those of
`PROJECT.json`, whose `map` gives the lines each definition stands for.

## 1. Inventory

| Part | State | Operations | Talks to |
|---|---|---|---|
| `DirectCache` (`src/directcache.h`) | array of (guest pointer, pointer), indexed by a hash | `put`, `get`, `flush` | sits in front of three maps |
| `VexFCache` (`src/vexfcache.cc`) | `vexsb_cache`, `func_cache`, `max_cache_ents`, two direct caches | `getVSB`, `getFunc`, `evict`, `flush`, `flush(b,e)`, `setMaxCache` | `VexXlate`, `GenLLVM` |
| `VexJITCache` (`src/vexjitcache.cc`) | `jit_cache`, its direct cache | `getFPtr` with prefetch of constant exits, `evict`, `flush`, `flush(b,e)` | `VexFCache`, `JITEngine` |
| `JITEngine` (`src/jitengine.cc`) | `func_addrs`, execution engine and memory manager | `getPointerToFunction`, `mod_to_engine` | LLVM, `JITObjectCache` |
| `VexExec` (`src/vexexec.cc`) | next address, pending flush, protections of mappings, CPU state | `beginStepping`, `stepVSB`, `doNextSB`, `doVexSB`, `signalHandler` | the caches, guestlib's `GuestMem` and `Syscalls` |
| `VexExecChk`, `VexExecFastChk` | deferral flag and bounds, `hit_syscall` | `doVexSB`, `verifyBlockRun`, `doSysCall` | `PTImgChk` |
| `PTImgChk`, `PTShadow*` | the shadow process, its breakpoints, memory log | `isMatch`, `fixup`, `stepThroughBounds`, `stepSysCall` | ptrace |
| `FragCache` (`src/fragcache.cc`) | one file and buffer per fragment length, the hash table and its pending records | `addFragment`, `findLength`, `create`, destructor | the file system |
| `VexXlate`, `VexSB` | global callback state of libVEX, the superblock's statements and temporaries | `xlate`, callbacks, `patchBadDecode`, `emit` | libVEX, `FragCache` |
| `VexStmt`, `VexExpr` | values of the temporaries | `emit` of each class | `GenLLVM` |
| `VexOp*` | none | some six hundred emitters in two floating point back ends | LLVM, bitcode helpers |
| `GenLLVM` | insertion block, two caches of pointers into the guest context, memory log slot, open module | `readCtx`, `writeCtx`, `load`, `store`, `takeModule` | LLVM |
| `JITObjectCache` | directory of object files | `notifyObjectCompiled`, `getObject` | file system |
| `ss_chkpt` | chain of snapshots, soft-dirty bits of the traced process | three checkpoint loops | ptrace, `/proc` |
| system call translation (`src/cpu/*syscalls.cc`, `src/qemu/translatedsyscall.c`) | names made by `path()` during a call | `apply`, `do_syscall` and its helpers | the host kernel, guest memory |
| guest signals (`src/qemu/translatedsignal.c`) | table of actions, number tables; the host's actions and mask | `signal_init`, `do_sigaction`, the mask calls | the host kernel, `VexExec`'s handler |
| shared memory (`do_shmat`, `do_shmdt`) | `shm_regions`, page flags | attach, detach | the host kernel |
| `elfcore`, `debugprintpass`, drivers | none between calls | output, `main` | |

**Hard behaviours.**  The program has one thread of its own, but four things are
concurrent with it or interrupt it: a SIGSEGV taken in the middle of a block, the
guest's stores into code that is cached, the shadow process, and the end of the
process at any point of a file write.  To these come stale cached state (three maps,
three direct caches and a symbol table hold views of the same guest bytes), a
cache limit that makes one lookup evict what another one holds, and pending work
(a deferred flush, a deferred comparison, pending hash records) that must be done
before something else happens.  The emitter must keep definitions dominating their uses
through the branches that statements open.  A system call goes wrong in the middle of
several steps: a pointer is bad, the host refuses, a conversion is ignored.
`PROJECT.json` lists each as a hazard at its line.

**What makes each part correct.**

* Direct caches: never answer what the map behind them no longer holds.
* Caches: the limit is a limit; functions have superblocks; a range flush leaves
  nothing of the range.
* Dispatcher: what is run is the translation of what is in memory; the block that
  runs is not dropped under its feet; a fault is resolved.
* Cross-checkers: an error is reported only if there is one; the shadow never runs
  ahead; both processes make the same system calls at the same place.
* Checkpoints: each snapshot restores to the memory and registers of its stop.
* Translation: the emitted code does to registers, memory, temporaries and control what
  the VEX block says; the IR is well formed; an answer of `xlate` is a translation of the
  bytes it was given.
* Operators: each gives VEX's value.
* System calls: a failing call stores nothing and consumes nothing, the kernel is given
  initialised data, the guest is told what happened, as one of its own errnos.
* Signals and shared memory: the emulator's tables agree with the host, and its own
  handler stays installed.
* Fragment cache: nothing is stored twice, nothing stored is lost while the process
  lives, a crash leaves only what had been stored.

## 2. Modules

| Module | Models | Extends |
|---|---|---|
| `DirectCache` | `put`, `get`, `flush` as functions on a slot table, and the lookup-then-refill idiom of its users | |
| `JITCache` | `VexFCache`, `VexJITCache`, `JITEngine`'s symbols, the open module | `DirectCache` |
| `VexExec` | dispatcher, write protection, signal handler, deferred flush | `JITCache` |
| `VexExecProofs` | theorems about `JITCache` and `VexExec` | `VexExec` |
| `XCheck` | both cross-checkers, the comparison, the shadow's stepping; the class of programs they can compare | |
| `XCheckProofs` | theorems about `XCheck` | `XCheck` |
| `FragStore` | abstract specification of a crash-safe set of fragments | |
| `FragCache` | `FragCache`, `FCFile`, `FCHash`, and crashes in their writes | refines `FragStore` |
| `FragCacheProofs` | theorems about `FragCache`, the refinement among them | `FragCache` |
| `Checkpoint` | `ss_chkpt`: three checkpoint modes, `waitForOpen`, soft-dirty tracking | |
| `CheckpointProofs` | theorems about `Checkpoint` | `Checkpoint` |
| `VexIR` | reference machine for VEX IR (external) | |
| `GenLLVM` | emission context: context pointers and their caches, loads, stores, memory log | `VexIR` |
| `VexExpr`, `VexStmt` | expressions, one action per statement kind, begin and end of a block | `GenLLVM` |
| `VexXlate` | `xlate`, libVEX's callbacks, patching, the fragment record | |
| `FrontEnd` | composition: a translated block is emitted, statement by statement | `VexXlate`, `VexStmt` |
| `FrontEndProofs` | theorems about the answers of `xlate` and about what is emitted | `FrontEnd` |
| `LLVMInt` | LLVM's integer instructions on lanes (external) | |
| `VexOpState` | shapes, helpers and the state of one operator application | `LLVMInt` |
| `VexOpInt`, `VexOpFP` | integer and floating point emitters, the latter in both back ends | `VexOpState` |
| `VexOp` | `createOp`, VEX's definition of each operator, the comparison | `VexOpInt`, `VexOpFP` |
| `VexOpProofs` | theorems about the operators | `VexOp` |
| `GuestAccess` | the moves a system call is made of (`translatedutil.h`) | |
| `SyscallNet`, `SyscallIPC`, `SyscallFile`, `SyscallProc` | each call as a sequence of moves | `GuestAccess` |
| `SyscallTable` | the switch: all calls and branches, and the calls that depart from the rest | the four |
| `SyscallXlate` | what a move does; `apply` around the calls | `SyscallTable` |
| `SyscallRules` | rules for a case that can be read off its moves | `SyscallTable` |
| `SyscallProofs` | theorems about `SyscallXlate` from those rules | `SyscallXlate`, `SyscallRules` |
| `SignalState`, `ShmRegions` | signal table, masks and numbers; attached segments | |
| `GuestKernel` | both beside each other | `SignalState`, `ShmRegions` |
| `GuestKernelProofs` | theorems about both | `GuestKernel` |
| `MC*` | constants for the runs | |

**Data.**  A superblock, a function and a piece of host code are each the *version of
guest code* they were made from; `mem` gives the version now in memory, and `Bad`
stands for bytes that cannot be translated.  The dispatched block is an arbitrary
sequence of stores followed by an arbitrary exit.  In `XCheck` a machine state is its
place on the correct path of the guest program, plus a flag that VexExec's registers
have gone wrong.  In `FragCache` a code sequence is a number of `MaxLen` bits whose
leading bits are its prefixes, and a digest is injective.  In `Checkpoint` a page has one of
a set of contents; a snapshot has, for each page, what a restore along its chain of
shared mappings finds.

A VEX value is a sequence of bytes 0 to 3 (one for a byte, two for a word, four for a
vector), registers and memory are a few such bytes, and the emitted code is executed as it is emitted, on `run`, next to the
reference machine `g`; both ways of a branch are followed in what is *known* to
dominate, one way in what is executed.  A byte of an operator has 1, 2, 4 or 8
bits, and every width keeps its ratio to it; a floating point value is a number of halves, NaN or
−0, and the rounded operations are uninterpreted, since both back ends hand them on.  A system call is a sequence of moves
(check a pointer, read, host call, convert errno, store, leave), each
with the conditions the code puts around it; the data are left out, and the arguments
that are not pointers are the choice of the branch.  Nine signals stand for
the kinds the code tells apart.

**Atomicity.**  `getFPtr` is split at its prefetch loop, where each iteration can evict.
`doNextSB` is split at every call that leaves it: lookup of the superblock, of the
code pointer, the block, each store and trap in it, the signal handler and the exit
switch.  In `FragCache` an operation is one action, and a crash inside one of its
writes is an action with every outcome the write order allows.

**Undefined behaviour.**  `VexJITCache::getFPtr` hands the module to the engine, which
destroys its functions while `func_cache` keeps pointing to them.  `ub` records the
first dereference of such a pointer; from then on the process may die at any time
(`Crash`).  `rand() % 0` (limit 0) ends the process (`VictimOfNone`).  The record length
that `FCHash::add` leaves unassigned is a choice from `Junk`.

**External.**  guestlib's `GuestMem`, `Syscalls` and ptrace plumbing are not in the
repository.  A mapping is its range, the protection the guest asked for and its current
protection; a system call ends the guest or continues it.  For `ss_chkpt` the kernel is
its soft-dirty contract (`Run`): a page whose content differs from that at the last
`clear_refs` is soft-dirty or absent, other pages may be either.  `GuestSnapshot::saveDiff`
writes the mappings it is told have changed and shares the others with the snapshot
it is told to build on.

## 3. Runs

| Run | Expectation | What it shows |
|---|---|---|
| `caches` | pass | Three addresses over two direct-cache slots, limits 0, 1, 2 and none, and every order of lookups, prefetches, evictions, guest stores and range flushes: direct caches are coherent, the limit holds, functions have superblocks, and, without a limit, code pointers and functions have the same keys and a flush leaves nothing |
| `dispatch` | pass | Two blocks of one RWX mapping that rewrite each other and themselves: the superblock dispatched is that of the bytes in memory, and the block in progress is never dropped |
| `dispatch_maps` | pass | Four blocks in a code mapping, a data mapping and none, with limits: blocks are prepared only in protected mappings; every fault is resolved |
| `stale_code` | violation | The symbol of a rewritten block is still known to `JITEngine`, so that its old machine code runs |
| `crosscheck` | pass | A loop of one block, a system call, a known-different and an illegal instruction, under both checkers: no false alarm, the shadow stays behind, system calls in step |
| `fragcache` | pass | Exact searches, no duplicates, and refinement of `FragStore`, with crashes in every write, also when a file that a crash left unsorted hides a fragment that is then added again |
| `checkpoints` | pass | All three modes with and without `waitForOpen`, any writes and any pattern of soft-dirty and absent pages: every snapshot restores to the memory and registers of its stop, and none is written twice |
| `syscalls` | pass | Every branch of every call, each pointer NULL, good or bad, both bases, every host outcome: failed calls store nothing, refused ones have changed nothing, no garbage goes to the kernel, outcomes and errnos are reported, outside the named exceptions |
| `guest_kernel` | pass | Any order of sigaction, mask and shm calls: VexExec's handlers stay, dispositions follow the table, a mask reads back as it was set, tracked segments are the attached ones and access follows attachment.  As an assumption, the rules of `SyscallRules` are evaluated on every case of the switch |
| `operators` | pass | Every operator of `createOp`, all shapes, both back ends, against VEX's definition |
| `front_end` | pass | Every kind of statement after every other, in blocks that follow each other: same effects as the reference machine, well-formed IR, sound answers of `xlate` |
| `double_cas` | violation | A double compare-and-swap writes when neither half matches, and writes the low half twice |

**Bounds.**  `caches`: three addresses in two slots is the least that has a collision and
an address outside it, and the least in which a prefetch has two exits; limits 1 and 2
are below the number of addresses, so that evictions happen in prefetches; the flush
ranges are all intervals of addresses.  `dispatch`: two code versions tell
stale from fresh, two stores per block allow a block to tamper twice.  `crosscheck`:
`MaxLag` bounds the distance from the last place the states were seen equal and is
longer than two rounds of the loop and the way out of it.  `fragcache`: triggers of 1
make both flushes happen; of three sequences two have a common prefix, so that digests
of one are met in the lookup of another; four fragments of two bytes are the least with
which a fragment that an unsorted file hides is added again while another is buffered.

`checkpoints`: a mapping of two pages (one dirty page makes the clean one be saved), one of
one page that can stay unchanged meanwhile, the vsyscall page, two contents, and
`SC_COUNT` 2, which gives PrePost four snapshots in a chain; the two contents are
symmetric.

`syscalls`: at most two names are made by `path()` in a call; nothing else is bounded, a call's
moves are finite.  `guest_kernel`: one signal of each kind and three
real time ones (first, last, and one between that the C library keeps); three addresses compete for two slots, so that the table
is full; the two tables do not meet, and each is explored beside the other's first
state; seven of the signals are in the word of the old mask calls, and the sets guests pass put
signals inside and outside that word, kept and not, side by side.  `operators`: with a byte of one bit all 128-bit operators fit in 16 bits, with wider bytes the
narrower ones do, 8-bit arithmetic at its real width included; operands are all values of
a type of up to three bits, else its boundaries and `Patterns`, which put boundaries into lanes
(six are enough to kill the mutants; the theorems need no bound).
`front_end`: three statements are enough for a definition, a statement that opens
a block and a use; two blocks show what one leaves to the next; the first statement
of a block defines a vector or a condition, which the constraint `Opening` asks; `Short` follows only
short blocks by another.
Deadlock is not checked where the end of the guest, of the operand space or of the
bounds is the end of the run.

**Named exceptions.**  Where the code has exceptions to a property they are named next to
it, call by call or operator by operator, and the property says there are no others:
`WritesOnFailure`, `EffectBeforeCheck`, `HandsOverGarbage`, `MisreportsOutcome`, `FillsOwnCopy` and
`NotConverted` in `SyscallTable`, `KnownDivergence` in `VexOp`, `KnownIllFormed` and `odd` in
`VexStmt`, `HasBytesInOperand` in `FrontEnd`.  `QNarrowUn16Sto8Ux8` needs no exception because its
emitter never gives a value: both integer properties speak of the values emitted.

**Fairness.**  Only `FaultResolves` needs any: `WF_vars(Step)`, the dispatcher's single
thread is scheduled by the host.  The number of stores of a block is bounded by
`MaxStores`; a guest block has finitely many instructions.

## 4. Theorems

`VexExecProofs` proves of the caches, for every set of addresses, slot count, limit, exit
graph and set of flush ranges:

* `JITInvariant`: `JITSpec => []JITInv`.  `JITInv` strengthens the type invariant with
  coherence of the three direct caches, the limit, `Keys(func) ⊆ Keys(vexsb)`, and what
  holds in the middle of a `getFPtr`: each part needs the others (the bound on the
  superblock map needs that `getFunc` on a cached function allocates nothing, which is
  coherence of `func_dc`; type correctness of a function needs that its superblock is
  there).
* `JITTypeCorrect`, `Coherence`, `Bounded`, `FunctionsHaveVSBs` are its parts.
* `Alignment`: as long as no limit is set, code pointers and functions have the same keys
  between calls, from the stronger invariant `AlignInv` that says which keys may differ
  during a prefetch (the head of the request and the functions collected so far).
* `FlushIsComplete`: as long as no limit is set, a range flush leaves nothing of the range
  in any map or direct cache; from `Alignment` and `Coherence`.

and of the dispatcher, for every layout of mappings and blocks:

* `Implements`: every run of the dispatcher is a run of `JITSpec`, so that all of the above
  holds of it; `TypeCorrect`; and `Protected`, that a block is prepared only while its
  mapping is not writable, from the invariant `ExecInv` that ties the dispatcher's position
  to that of the cache operation in progress.
* `HeldBlocksStay`: as long as no limit is set, the block `doNextSB` holds is cached until
  the exit switch, and the code that runs is the code cached for it (`HeldInv`, which
  needs that prefetch removes nothing and that the pending flush waits for the next call).
* `SuperblocksFresh`: what is about to run was translated from the bytes in memory.  The
  invariant is `Fresh`: a cached superblock of a mapping is that of memory and the mapping
  is protected, or its flush is pending.  The hypotheses are the places where the scheme
  ends: `ExitsStay` (prefetch translates the exits of a block without protecting their
  mapping), `CodeNotAtZero` (`to_flush` uses 0 for none), and `OneFlushPending` (it holds one
  range).  `OneMappingFresh` derives the last from the layout: with one mapping of code
  at most one flush is ever pending.  The instance of the run `dispatch` meets them.

`CheckpointProofs` proves `TypeOK`, `RestoreExact`, `RegsOfStop` and `Immutable` for any pages,
mappings, contents and number of snapshots.  `RestoreExact` is not inductive: a diff is
right only because the image and the snapshot it builds on are both those of the last
`clear_refs` (`ImageInv`, `BackingInv`), because everything that changed since shows in the
page table (`Tracked`), and because the name to be written is free (`FreeInv`).

`FragCacheProofs` proves, for any codes, lengths and triggers:

* `SearchIsExact` and `StoredOnce`, from `FilesInv`: outside damaged lengths, files are in
  order and nothing is twice in file and buffer.  Each needs the other: a search is
  exact only on a sorted file, and adding keeps duplicates out only if the search
  is exact.  Lemmas: the binary search answers membership on every non-decreasing
  sequence (`BsearchExact`), and the sort gives a non-decreasing permutation (`SortedIs`).
* `TypeCorrect`; and `ImplementsStore`, the refinement of `FragStore`, one step of
  the store for each action, crashes in the middle of a flush included.  The proof
  found that the store needs `Sync`: a file that a crash left unsorted can hide a fragment,
  and adding it again moves the buffer to disk without storing anything new.
* `CloseKeepsAll`: an orderly close has on disk all that was in files and buffers.  The
  abstract `End` lets a close lose what is buffered, as a crash does; this theorem says that it
  does not.

`XCheckProofs` proves `TypeCorrect` and, for `VexExecFastChk` on every program, `FastChecker`: no
false alarm, the shadow stays behind, and the breakpoint it runs to is the call that
VexExec stopped at (`FastInv`).  For `VexExecChk` it proves `NoFalseAlarms`, `SyscallsInStep` and
`StartsInSync` for every program that is `Comparable`: system calls end their block, a jump back
into a block goes to its start, and a block that ends in a system call neither loops nor has an
instruction that needs a fixup.  Each part is necessary: without the second the shadow
overtakes in a nested loop, without the third a deferred block is compared before the
call (section 5).  `ChkInv` says where the two processes are in each phase: the shadow is behind
by less than the block, or the deferral that is pending says why not.  `ShadowStaysBehind` also needs
`FixablesLeave`, that an instruction to be fixed up leaves its block, and the invariant
`FixBehind`: while the registers wait for a fixup the shadow could otherwise go round
the block once more than VexExec.  `MCXCheck` assumes both of its program, so that TLC
evaluates them.

`GuestKernelProofs` proves the type invariant and all six properties of signals and shared
memory for any numbering of the signals and any number of slots and addresses.  The masks
read back because the table that `signal_init` builds is its own inverse (`TableSwaps`) and the
conversion of sets goes through union and difference; a slot in use is an attached
segment because `do_shmat` takes the first free slot and `do_shmdt` frees the first
slot of the address it detaches.

`SyscallProofs` does not follow three hundred cases.  `SyscallRules` states, for each property,
a rule on the moves of a case: pointers are checked before anything changes (`ChecksFirst`), stores
come after all that can fail (`StoresLast`), an ignored conversion reads only through a
pointer known not to be NULL (`ReadsAll`), a result is assigned and not overridden
(`ReportsResult`), the kernel fills the guest's own buffer (`FillsGuest`), every result is
converted (`Converts`).  The theorems say that a switch that follows the rule has the
property, whatever the pointers, the base and the host do: `TypeCorrect`, `FailuresStoreNothing`,
`FaultsComeFirst`, `InputsInitialised`, `OutcomesReported`, `BuffersAreGuests`, `ErrnosAreTargets`.  Each has an
invariant that says what the moves passed so far have left behind (`StoreInv`, `EffectInv`,
`GarbageInv`, `ReportInv`, `FillInv`, `ErrnoInv` over `CallInv`).  That the calls of
this repository follow the rules, outside the named exceptions, is a finite statement that TLC
evaluates (`CallsFollowRules` in `MCGuestKernel`); it stands beside the run
`syscalls`, which executes the calls themselves.  A case added to the switch has only to be
checked against the rules.

`FrontEndProofs` proves `TranslationsAreSound` for every guest code: the bytes that are translated
are the guest's, patched only at system calls; what is answered is their block,
whatever the globals held before; and each retry has fewer places left to patch.  The
invariant is `XlInv`.

It also proves, for every sequence of statements, every expression the model forms and every guest
base, the two properties of emission:

* `EmissionIsWellFormed`: `Spec => []WellFormed`.  That nothing emitted so far is broken says
  nothing of the next statement; the inductive invariant `Struct` says what the emitter holds:
  each temporary has an LLVM type that can carry its guest type and is `Placed`, that is, dominates the
  insert block or was made in the branch of a guarded dirty call, of which the insert block is
  no part (so that using it is the named defect and never an accident); and a cached context pointer
  points where its key says and was made in the entry block if it is given out there.  Blocks are
  the paths of labels that lead to them, so that domination is the prefix order (`PrefixTrans`, `Siblings`).
* `EmissionIsFaithful`: `Spec => []Faithful`.  `Faithful` compares the two machines on what the
  guest can see and is not inductive: `Mirror` adds that memory and registers are digits, that a
  temporary in reach has the guest's bytes, that the vsyscall byte is the one faked, and that the exit
  type is `GE_IGNORE` for as long as no exit was taken, which is what makes a side exit that is not taken
  harmless.  An expression is followed through `Yields` (a value of the type, whose bytes are the
  guest's) and, where it opens blocks, `Makes`.  The hypothesis `fake_vsys_reads` is the
  setting under which a load from the vsyscall page stays inside the modelled memory; otherwise such a load is emitted
  as a load of the host's own page.

One lemma per statement kind (`PutKeeps` .. `EmitEndKeeps`) shows that the statement keeps both, through the closing
lemmas `Keeps`, `Defines` and `DefinesTwo`: a statement that defines no temporary, one, or two.  TLC checked `Struct` and
`Mirror` as invariants of the instance of `front_end` before they were proved.

`VexOpProofs` proves all three properties of the operators, whatever undefined bits turn out to be: the two about
integers for every operand, every scale of the widths and every `MaxBits` (`Patterns` is any set of numbers; when it is `Nat`,
the operands are all values of their types); the one about floating point for the model's set `Floats` of numbers of halves,
NaN and −0, at the width unit of the model.

* `FloatsAreExact`: both floating point back ends give VEX's value for every operator of the
  table outside `KnownDivergence`.  A result that the model's numbers cannot hold is a symbol of
  operation, rounding mode and operands (`Sym`), so that two roundings, or two modes, are two values.  The
  reference rounds in the mode the guest asks for, rounds a multiply-add once and keeps the sign of a zero; the
  emitters round to nearest, or truncate, twice where they multiply and add.  What is proved of the
  operators with a mode is therefore exactness in the one mode the emitter happens to use, and of
  multiply-add nothing: every one is in `KnownDivergence`.  The invariant only adds that operator and operands stay what
  they were; the content is in one lemma per emitter.  `Remainder` needs that three bits of a
  quotient survive its reduction to four, `Selects` that only low lanes can be unordered, `SoftRounding` that
  signed and unsigned readings agree below the sign bit.
* `MovementIsExact`: `Spec => []MovementExact`, every lane and bit of the conversions, halves, element accesses,
  interleavings and permutations is where VEX wants it.
* `ArithmeticIsExact`: `Spec => []ArithmeticExact`, every integer operator that computes gives the exact result reduced
  to its lanes where VEX defines one.  Scalar shifts are exact for every amount, which `SHIFT_EMIT` reduces; the
  amounts of lane shifts are below the width of the lane, a divisor is not zero and a quotient fits (`ArithDefined`).

The last two share the invariant `Operands`: operator and operands keep the values of their types
that they started with (`OperandsFit`), which no step that emits can disturb.  What is hard is arithmetic on a
width that is a variable.  The argument is built up as follows.

1. Powers of two.  The provers know nothing of `2^n` for a variable `n`.  `PowNext` and `PowNat` get its laws from
   counting the subsets of a set of `n` numbers, `PowSum` and `PowMono` follow.
2. Division: `DivUnique`, then `DivAdd`, `DivTwice` and congruences (`Same`).
3. Lanes.  `Packed`, `Repacked` and `SameLanes`: packing and cutting into lanes undo each other.  A bit is a lane of
   width one, which gives the bitwise operations (`AndBits` ..) and that a shift and an or join
   halves (`Concatenated`).
4. Signs.  `SignedSame`, `SignedBack` and `Extended`: a word extended to more bits stands for the same number, and a number
   in range survives being cut.
5. One lemma per emitter: `HighHalf` .. `ByteSpread` for movement, `Complemented` .. `ZerosCounted` for arithmetic.  `Saturated` shows
   that one more bit is enough for sum and difference; `Divisions` that quotient and remainder fill
   their halves; `HalfOf` that no carry of an average is lost; `LowZeros` and `HighZeros` that the counting loops stop
   at the right bit.  The loops of the emitters are followed by `Loops`: a recursion over an interval has a solution.

**Assumptions** (`ASSUME`s of the modules, evaluated by TLC in every run): finite `Addr`, distinct
markers, ranges of integers, mappings that contain their addresses; signal constants among the
signals (`SigAssumption`); nonzero addresses and at least one slot (`ShmAssumption`); prefixes that
are numbers (`CacheAssumption`); blocks made of instructions (`ProgramAssumption`); guest code in which
libVEX finds an end (`XlateAssumption`); bytes of 1, 2, 4 or 8 bits (`UnitsAssumption`), operand patterns that are
numbers (`PatternsAssumption`).

**Induction** over data is out of the prover's reach as such; where a lemma needs it (the binary
search, the sort, the least free slot, the first stop of a code) the proof takes a minimal
counterexample, from `WFMin` and the well-foundedness of the naturals, or a fact on
finite sets.  `VexOpProofs` derives induction for sets of numbers (`ByInduction`) the same way.

**Only model-checked**: `FaultResolves` (liveness under fairness) and the two violations.  Every other property of
every run is stated by a theorem.

## 5. Known defects

Shown by runs: `stale_code` and `double_cas`.  Met while modelling; each is in the model, as a named exception, an
action, or a case outside a run's instance:

* `to_flush` holds one range: a block that stores into two protected mappings loses the
  first flush (vexexec.cc:355).  `VSBFresh` fails for two mappings.
* A store into a mapping asked for as `R-X` traps for ever (vexexec.cc:383).
* The shadow overtakes VexExec when a loop is nested in a superblock (vexexecchk.cc:77),
  and a resumed block that ends in a system call is compared before the call
  (vexexecchk.cc:82): a false alarm.
* `FCHash::flush` asserts to find a record that was never written (fragcache.cc:404).
* `lock_user` compares base plus address with NULL (translatedutil.h:22-28): EFAULT
  only for NULL at base 0; everything else that is bad faults in the emulator.
* `readlink` puts the guest's buffer through `path()`; `nanosleep`, `clock_nanosleep`, multicast
  membership, `recvmsg` and `mq_open` may hand over uninitialised data; `clock_nanosleep`
  reports its errno as a success; `semop` through `ipc` and `mq_getsetattr` hand on −1; the
  control calls of System V IPC store on failure; `modify_ldt` and `arch_prctl` of the
  switch return an unassigned value, since their `assert("...")` is always true.
* A guest may block SIGSEGV; guest signal 64 is refused by the C library after the table
  has changed; `ssetmask` ors masks; `sigprocmask` with `SIG_SETMASK` clears the real time signals.
* `shmdt(0)` matches a free slot; a full table leaves segments untracked.
* `recvmsg` has stored into the guest's buffers when `host_to_target_cmsg` answers EFAULT
  (translatedsyscall.c:1619, 1106-1108): `"message"` in `WritesOnFailure`.
* Host errnos reach the guest unconverted (`NotConverted`): −EAFNOSUPPORT of a netlink socket (translatedsyscall.c:1528,
  against line 1502, "do_socket() Must return target values and target errnos."), −ENOSYS of `pipe2` with
  flags (913), −EINVAL of `do_sigaction` through both sigaction calls (translatedsignal.c:579, 589), −EPERM of
  `arch_prctl` (amd64syscalls.cc:166), and the result of `fadvise64`.
* `translateSyscall` and `getSyscallName` compare with `>` where the table ends at `>=`.
* Rounding modes are dropped: by arithmetic and conversions (vexop_macros.h:76, "probably wrong to discard
  rounding info"; vexop_softfloat.cc:156, "FIXME: ignores first parameter, rounding mode") and by rounding to an
  integral float (vexop_fp.cc:166, "TODO: rounding mode"), which also makes −0 and −0.5 +0; a
  multiply-add rounds twice.
* `QNarrowUn16Sto8Ux8` has one operand and is emitted by a macro for two (vexop.cc:1377, vexexpr.cc:462, 784): it
  asserts or is ill typed.  Lane shifts by the lane width or more are undefined in the emitted IR.
* The comment at vexop.cc:1085-1090 gives `Ctz` as 0x1→1, 0x2→2, 0x4→3; the code below it, and VEX, as 0, 1, 2.
* With a limit on the caches, a prefetch may evict the block `doNextSB` holds (`HeldBlocksStay` assumes none).
* Unsigned conversions of the softfloat back end are signed; negation is 0 − x; unordered minimum and maximum; the helper
  `vexop_cls32` answers 0 for non-negative lanes; `get_vt` of `Cls32x4` and `Cls32x2` has its
  arguments swapped (vexop.cc:1118-1119).  `KnownDivergence` and the operators' comments say which.
* A guarded dirty call that sets a temporary leaves a value that does not dominate its
  uses; a dirty helper without arguments indexes an empty vector (vexstmt.cc:378); jump
  kinds unknown to `VexStmtExit` or `loadJump` assert; context offsets are rounded down to a
  multiple of the access (genllvm.cc:235-270).
* `patchBadDecode` patches an operand that looks like `int 0x2e` and reads one byte past its
  buffer (vexxlate.cc:229-237); the fragment is recorded before the unhandled check.

## 6. Not modelled

* Drivers, core writer, debug pass and printing: I/O.  `JITObjectCache`: what a partial object
  does is decided in LLVM's loader.
* `VexSB::load`, `getInstExtents`, constants of 256 bits and floating constants, and the
  construction of the guest context's type.  The alignment of 8 that `store` and `load` state to
  LLVM (genllvm.cc:338, 389) whatever the address is: LLVM makes an unaligned access undefined then, and the
  model's accesses are simply done.
* The cross-checkers with a log of the last store (`VEXLLVM_LAST_STORE`; `GenLLVM` has the log itself): `VexExecFastChk`
  then returns from a system call before it sets the shadow's PC (vexexecfastchk.cc:24-26); `isSigSegv` of the shadow is external, and the
  model of `VexExecChk` takes it to be a PC outside the program.
* System calls: the number tables and structure layouts (data); cases under `CONFIG_` options
  that are not defined, the inotify calls among them (`CONFIG_INOTIFY` is defined nowhere, and
  translatedsyscall.c:473-477 undefines their numbers then), and Alpha; signal delivery, whose functions assert in this port.
* Two processes sharing a fragment directory, and system calls that write into protected
  pages (the kernel answers `EFAULT`), need models of what is outside the repository.
* Mappings that appear between two checkpoints are slurped but are not in the changed set
  (`loadMemDiff` asks about the mappings of the last stop); what `saveDiff` does with them
  is decided in guestlib, so the model's mappings are fixed.  `waitForOpen` leaves the
  registers as they are at the entry of the call; `RegsOfStop` excepts the first snapshot then.

## 7. Plan

* A bound on what `SuperblocksFresh` excludes: that a second mapping's pending flush is the only way
  for a superblock to become stale.
