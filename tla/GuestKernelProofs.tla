------------------------- MODULE GuestKernelProofs --------------------------
(***************************************************************************)
(* Proofs about the signal tables and the shared memory table, for every   *)
(* numbering of the signals and every number of slots and addresses.       *)
(***************************************************************************)
EXTENDS GuestKernel, TLAPS, WellFoundedInduction

(***************************************************************************)
(* Signal numbers: the table signal_init() builds is its own inverse.      *)
(***************************************************************************)
\* The two ends of the real time range change places, nothing else moves.
LEMMA TableSwaps ==
    ASSUME NEW h \in Sigs
    PROVE  /\ h = SIGRTMIN => host_to_target_signal_table[h] = SIGRTMAX
           /\ h = SIGRTMAX => host_to_target_signal_table[h] = SIGRTMIN
           /\ h \notin {SIGRTMIN, SIGRTMAX} => host_to_target_signal_table[h] = h
<1> SIGRTMIN \in 1 .. NSIG /\ SIGRTMAX \in 1 .. NSIG /\ SIGRTMIN <= SIGRTMAX /\ NSIG \in Nat
  BY SigAssumption DEF Sigs
<1>1. /\ h = SIGRTMIN => fill_host_to_target_signal_table[h] = SIGRTMAX
      /\ h = SIGRTMAX => fill_host_to_target_signal_table[h] = SIGRTMIN
      /\ h \notin {SIGRTMIN, SIGRTMAX} => fill_host_to_target_signal_table[h] \in {h, 0}
  BY DEF fill_host_to_target_signal_table, Sigs
<1> QED BY <1>1 DEF host_to_target_signal_table, Sigs

\* host_to_target_signal() maps signals to signals and undoes itself.
LEMMA HostInvolution ==
    ASSUME NEW h \in Sigs
    PROVE  host_to_target_signal(h) \in Sigs /\ host_to_target_signal(host_to_target_signal(h)) = h
<1>1. SIGRTMIN \in Sigs /\ SIGRTMAX \in Sigs
  BY SigAssumption
<1> QED BY <1>1, TableSwaps DEF host_to_target_signal

\* On signals the two directions are one function.
LEMMA TargetIsHost ==
    ASSUME NEW t \in Sigs
    PROVE  target_to_host_signal(t) = host_to_target_signal(t)
<1> DEFINE g == host_to_target_signal_table[t]
<1>0. \A h \in Sigs : host_to_target_signal_table[h] \in Sigs
                      /\ host_to_target_signal_table[host_to_target_signal_table[h]] = h
  BY HostInvolution DEF host_to_target_signal
<1>1. g \in Sigs /\ host_to_target_signal_table[g] = t
  BY <1>0
<1>2. \A h \in Sigs \cup {0} :
          ( \/ h \in Sigs /\ host_to_target_signal_table[h] = t
            \/ h = 0 /\ \A k \in Sigs : host_to_target_signal_table[k] # t ) => h = g
  BY <1>0, <1>1
<1>3. target_to_host_signal_table[t] = g
  BY <1>1, <1>2 DEF target_to_host_signal_table
<1> QED BY <1>3 DEF target_to_host_signal, host_to_target_signal

\* Different signals of the guest are different signals of the host.
LEMMA TargetInjective ==
    ASSUME NEW t \in Sigs, NEW u \in Sigs, target_to_host_signal(t) = target_to_host_signal(u)
    PROVE  t = u
BY TargetIsHost, HostInvolution

\* Converting a set of signals there and back gives it again.
LEMMA SetsReadBack ==
    ASSUME NEW S \in SUBSET Sigs
    PROVE  /\ target_to_host_sigset(S) \in SUBSET Sigs
           /\ host_to_target_sigset(S) \in SUBSET Sigs
           /\ host_to_target_sigset(target_to_host_sigset(S)) = S
BY TargetIsHost, HostInvolution DEF target_to_host_sigset, host_to_target_sigset

\* The conversion of sets goes through union and difference.
LEMMA SetsDistribute ==
    ASSUME NEW S \in SUBSET Sigs, NEW T \in SUBSET Sigs
    PROVE  /\ host_to_target_sigset(S \cup T) = host_to_target_sigset(S) \cup host_to_target_sigset(T)
           /\ host_to_target_sigset(S \ T) = host_to_target_sigset(S) \ host_to_target_sigset(T)
<1>1. host_to_target_sigset(S \cup T) = host_to_target_sigset(S) \cup host_to_target_sigset(T)
  BY DEF host_to_target_sigset
<1>2. host_to_target_sigset(S \ T) \subseteq host_to_target_sigset(S) \ host_to_target_sigset(T)
  BY HostInvolution DEF host_to_target_sigset
<1>3. host_to_target_sigset(S) \ host_to_target_sigset(T) \subseteq host_to_target_sigset(S \ T)
  BY DEF host_to_target_sigset
<1> QED BY <1>1, <1>2, <1>3

\* What is there can be combined with the guest's set before or after the
\* conversion.
LEMMA MaskConverts ==
    ASSUME NEW how \in {"BLOCK", "UNBLOCK", "SETMASK"},
           NEW S \in SUBSET Sigs, NEW old \in SUBSET Sigs
    PROVE  /\ Mask(how, target_to_host_sigset(S), old) \in SUBSET Sigs
           /\ host_to_target_sigset(Mask(how, target_to_host_sigset(S), old))
                = Mask(how, S, host_to_target_sigset(old))
<1> DEFINE T == target_to_host_sigset(S)
<1>1. T \in SUBSET Sigs /\ host_to_target_sigset(T) = S
  BY SetsReadBack
<1> HIDE DEF T
<1>2. /\ host_to_target_sigset(old \cup T) = host_to_target_sigset(old) \cup S
      /\ host_to_target_sigset(old \ T) = host_to_target_sigset(old) \ S
  BY <1>1, SetsDistribute
<1>3. CASE how = "BLOCK"
  BY <1>1, <1>2, <1>3 DEF Mask, T
<1>4. CASE how = "UNBLOCK"
  BY <1>1, <1>2, <1>4 DEF Mask, T
<1>5. CASE how = "SETMASK"
  BY <1>1, <1>5 DEF Mask, T
<1> QED BY <1>3, <1>4, <1>5

(***************************************************************************)
(* Signal state.                                                           *)
(***************************************************************************)
SigInv == SigTypeOK /\ SmcHandlerKept /\ DispositionFollowsTable /\ MaskReadsBack

\* The state beginStepping() leaves satisfies the invariant.
LEMMA SigInitInv == SigInit => SigInv
<1> SUFFICES ASSUME SigInit PROVE SigInv
  OBVIOUS
<1>1. SIGSEGV \in Sigs
  BY SigAssumption
<1>2. SigTypeOK
  BY DEF SigInit, SigTypeOK
<1>3. SmcHandlerKept
  BY <1>1 DEF SigInit, SmcHandlerKept
<1>4. DispositionFollowsTable
  BY TargetIsHost, HostInvolution DEF SigInit, DispositionFollowsTable
<1>5. MaskReadsBack
  BY DEF SigInit, MaskReadsBack, host_to_target_sigset
<1> QED BY <1>2, <1>3, <1>4, <1>5 DEF SigInv

\* Setting the mask: the guest finds what it asked for when the host's new set
\* is what it asked for, converted, up to the signals no mask holds.
LEMMA SetMaskInv ==
    ASSUME SigInv, NEW host \in SUBSET Sigs, NEW guest \in SUBSET Sigs, SetMask(host, guest),
           host_to_target_sigset(host) \ host_to_target_sigset(Unblockable)
             = guest \ host_to_target_sigset(Unblockable)
    PROVE  SigInv'
<1>1. SigTypeOK'
  BY DEF SigInv, SigTypeOK, SetMask
<1>2. SmcHandlerKept' /\ DispositionFollowsTable'
  BY DEF SigInv, SmcHandlerKept, DispositionFollowsTable, SetMask
<1>3. Unblockable \in SUBSET Sigs
  BY SigAssumption DEF Unblockable
<1>4. MaskReadsBack'
  BY <1>3, SetsDistribute DEF MaskReadsBack, SetMask
<1> QED BY <1>1, <1>2, <1>4 DEF SigInv

\* Every signal call, every arriving signal and every store to translated code
\* preserves the invariant.
LEMMA SigNextInv == SigInv /\ [SigNext]_sigvars => SigInv'
<1> SUFFICES ASSUME SigInv, [SigNext]_sigvars PROVE SigInv'
  OBVIOUS
<1>0. Unblockable \in SUBSET Sigs /\ MaskSets \subseteq SUBSET Sigs /\ SIGSEGV \in Sigs
  BY SigAssumption DEF Unblockable
<1>1. ASSUME NEW t \in Sigs, NEW handler \in {"DFL", "IGN", "guest"}, do_sigaction(t, handler)
      PROVE  SigInv'
  <2> DEFINE h == target_to_host_signal(t)
  <2>1. h \in Sigs
    BY TargetIsHost, HostInvolution
  <2>2. HostAction(t, handler) \in {"DFL", "IGN", "emulator"}
    BY DEF HostAction
  <2>3. SigTypeOK'
    BY <1>1, <2>1, <2>2 DEF SigInv, SigTypeOK, do_sigaction
  <2>4. SmcHandlerKept'
    BY <1>0, <1>1, <2>1 DEF SigInv, SigTypeOK, SmcHandlerKept, do_sigaction
  <2>5. DispositionFollowsTable'
    <3> SUFFICES ASSUME NEW u \in Sigs,
                        target_to_host_signal(u) \notin {SIGSEGV, SIGBUS} \cup Reserved
                 PROVE  disposition'[target_to_host_signal(u)]
                            \in {HostAction(u, sigact_table'[u])}
                                \cup (IF sigact_table'[u] = "DFL" THEN {"DFL"} ELSE {})
      BY DEF DispositionFollowsTable
    <3>1. CASE u = t
      BY <1>1, <2>1, <3>1 DEF SigInv, SigTypeOK, do_sigaction
    <3>2. CASE u # t
      <4>1. target_to_host_signal(u) \in Sigs /\ target_to_host_signal(u) # h
        BY <3>2, TargetInjective, TargetIsHost, HostInvolution
      <4>2. sigact_table'[u] = sigact_table[u]
            /\ disposition'[target_to_host_signal(u)] = disposition[target_to_host_signal(u)]
        BY <1>1, <2>1, <3>2, <4>1 DEF SigInv, SigTypeOK, do_sigaction
      <4> QED BY <4>2 DEF SigInv, DispositionFollowsTable
    <3> QED BY <3>1, <3>2
  <2>6. MaskReadsBack'
    BY <1>1 DEF SigInv, MaskReadsBack, do_sigaction
  <2> QED BY <2>3, <2>4, <2>5, <2>6 DEF SigInv
<1>2. ASSUME NEW how \in {"BLOCK", "UNBLOCK", "SETMASK"}, NEW S \in SUBSET Sigs,
             SetMask(Mask(how, target_to_host_sigset(S), blocked), Mask(how, S, asked))
      PROVE  SigInv'
  <2> DEFINE new == Mask(how, target_to_host_sigset(S), blocked)
             U == host_to_target_sigset(Unblockable)
  <2>1. S \in SUBSET Sigs /\ blocked \in SUBSET Sigs /\ asked \in SUBSET Sigs
    BY <1>2 DEF SigInv, SigTypeOK
  <2>2. new \in SUBSET Sigs /\ host_to_target_sigset(new) = Mask(how, S, host_to_target_sigset(blocked))
    BY <2>1, MaskConverts
  <2>3. host_to_target_sigset(blocked) = asked \ U
    BY DEF SigInv, MaskReadsBack
  <2>4. Mask(how, S, asked) \in SUBSET Sigs
    BY <2>1 DEF Mask
  <2>5. Mask(how, S, asked \ U) \ U = Mask(how, S, asked) \ U
    BY DEF Mask
  <2> HIDE DEF new, U
  <2>6. host_to_target_sigset(new) \ U = Mask(how, S, asked) \ U
    BY <2>2, <2>3, <2>5
  <2>7. SetMask(new, Mask(how, S, asked))
    BY <1>2 DEF new
  <2> QED BY <2>2, <2>4, <2>6, <2>7, SetMaskInv DEF U
<1>3. ASSUME NEW how \in {"BLOCK", "UNBLOCK", "SETMASK"}, NEW S \in MaskSets, rt_sigprocmask(how, S)
      PROVE  SigInv'
  <2>1. S \in SUBSET Sigs
    BY <1>0
  <2> QED BY <1>2, <1>3, <2>1 DEF rt_sigprocmask
<1>4. ASSUME NEW how \in {"BLOCK", "UNBLOCK", "SETMASK"}, NEW S \in MaskSets, sigprocmask(how, S)
      PROVE  SigInv'
  <2>1. S \cap OldWord \in SUBSET Sigs
    BY <1>0
  <2> QED BY <1>2, <1>4, <2>1 DEF sigprocmask, target_to_host_old_sigset
<1>5. ASSUME NEW S \in MaskSets, ssetmask(S)
      PROVE  SigInv'
  <2>1. S \cap OldWord \in SUBSET Sigs
    BY <1>0
  <2> QED BY <1>2, <1>5, <2>1 DEF ssetmask, target_to_host_old_sigset
<1>6. ASSUME NEW h \in Sigs, Arrives(h)
      PROVE  SigInv'
  <2>1. (h \in NonFatal) \in BOOLEAN
    OBVIOUS
  <2>2. alive' \in BOOLEAN
    BY <1>6, <2>1, Zenon DEF Arrives
  <2> QED BY <1>6, <2>2 DEF Arrives, SigInv, SigTypeOK, SmcHandlerKept, DispositionFollowsTable, MaskReadsBack
<1>7. CASE StoreToCode
  BY <1>7 DEF StoreToCode, SigInv, SigTypeOK, SmcHandlerKept, DispositionFollowsTable, MaskReadsBack
<1>8. CASE UNCHANGED sigvars
  BY <1>8 DEF sigvars, SigInv, SigTypeOK, SmcHandlerKept, DispositionFollowsTable, MaskReadsBack
<1> QED BY <1>1, <1>3, <1>4, <1>5, <1>6, <1>7, <1>8 DEF SigNext

(***************************************************************************)
(* The shared memory table.                                                *)
(***************************************************************************)
\* Two slots with one address, and an attached address without a slot, are
\* each the trace of one of the two exceptions.
SlotsDistinct ==
    \A i, j \in Slots : LET a == shm_regions[i].start
                        IN  a # 0 /\ a = shm_regions[j].start /\ a \notin doubled => i = j
AttachedIsTracked ==
    \A a \in attached : a \notin overflowed \cup doubled => Found(a)

ShmInv == ShmTypeOK /\ TrackedIsAttached /\ AccessFollowsAttachment
          /\ SlotsDistinct /\ AttachedIsTracked

\* Where a slot has an address, a lowest one does.
LEMMA FirstFound ==
    ASSUME NEW a, Found(a)
    PROVE  First(a) \in Slots /\ shm_regions[First(a)].start = a
<1> DEFINE T == {i \in Slots : shm_regions[i].start = a}
<1>1. T \subseteq Nat /\ T # {}
  BY ShmAssumption DEF Slots, Found
<1>2. PICK i \in T : \A j \in T : ~ (<<j, i>> \in OpToRel(<, Nat))
  BY <1>1, WFMin, NatLessThanWellFounded, Zenon
<1>3. \A j \in T : ~ (j < i)
  BY <1>1, <1>2 DEF OpToRel
<1>4. \A j \in T : i <= j
  BY <1>1, <1>3
<1>5. \A j \in Slots : shm_regions[j].start = a => i <= j
  BY <1>4
<1> QED BY <1>5 DEF First

\* The empty table satisfies the invariant.
LEMMA ShmInitInv == ShmInit => ShmInv
<1> SUFFICES ASSUME ShmInit PROVE ShmInv
  OBVIOUS
<1>1. ShmTypeOK
  BY DEF ShmInit, ShmTypeOK
<1>2. TrackedIsAttached /\ SlotsDistinct
  BY DEF ShmInit, TrackedIsAttached, SlotsDistinct
<1>3. AccessFollowsAttachment /\ AttachedIsTracked
  BY DEF ShmInit, AccessFollowsAttachment, AttachedIsTracked
<1> QED BY <1>1, <1>2, <1>3 DEF ShmInv

\* do_shmat() preserves the invariant.
LEMMA ShmatInv ==
    ASSUME ShmInv, NEW a \in Addrs, NEW remap \in BOOLEAN, NEW access \in {"r", "rw"},
           do_shmat(a, remap, access)
    PROVE  ShmInv'
<1> DEFINE k == First(0)
<1>0. a # 0
  BY ShmAssumption
<1>1. CASE Found(0)
  <2>1. k \in Slots /\ shm_regions[k].start = 0
    BY <1>1, FirstFound
  <2> HIDE DEF k
  <2>2. /\ shm_regions' = [shm_regions EXCEPT ![k] = [start |-> a, size |-> 1]]
        /\ overflowed' = overflowed
    BY <1>1 DEF do_shmat, k
  <2>3. /\ shm_regions'[k].start = a
        /\ \A i \in Slots \ {k} : shm_regions'[i].start = shm_regions[i].start
    BY <2>1, <2>2 DEF ShmInv, ShmTypeOK
  <2>4. ShmTypeOK'
    BY <2>1, <2>2 DEF ShmInv, ShmTypeOK, do_shmat
  <2>5. TrackedIsAttached'
    BY <2>3 DEF ShmInv, TrackedIsAttached, do_shmat
  <2>6. AccessFollowsAttachment'
    BY <2>2 DEF ShmInv, ShmTypeOK, AccessFollowsAttachment, do_shmat
  <2>7. SlotsDistinct'
    BY <2>1, <2>3, <1>0 DEF ShmInv, TrackedIsAttached, SlotsDistinct, do_shmat
  <2>8. AttachedIsTracked'
    <3> SUFFICES ASSUME NEW b \in attached', b \notin overflowed' \cup doubled'
                 PROVE  \E i \in Slots : shm_regions'[i].start = b
      BY DEF AttachedIsTracked, Found
    <3>1. CASE b = a
      BY <2>1, <2>3, <3>1
    <3>2. CASE b # a
      <4>1. PICK i \in Slots : shm_regions[i].start = b
        BY <2>2, <3>2 DEF ShmInv, AttachedIsTracked, Found, do_shmat
      <4>2. b # 0
        BY <3>2, ShmAssumption DEF ShmInv, ShmTypeOK, do_shmat
      <4> QED BY <2>1, <2>3, <4>1, <4>2
    <3> QED BY <3>1, <3>2
  <2> QED BY <2>4, <2>5, <2>6, <2>7, <2>8 DEF ShmInv
<1>2. CASE ~Found(0)
  <2>1. shm_regions' = shm_regions /\ overflowed' = overflowed \cup {a}
    BY <1>2 DEF do_shmat
  <2>2. ShmTypeOK'
    BY <2>1 DEF ShmInv, ShmTypeOK, do_shmat
  <2>3. TrackedIsAttached' /\ SlotsDistinct'
    BY <2>1 DEF ShmInv, TrackedIsAttached, SlotsDistinct, do_shmat
  <2>4. AccessFollowsAttachment'
    BY <2>1 DEF ShmInv, ShmTypeOK, AccessFollowsAttachment, do_shmat
  <2>5. AttachedIsTracked'
    BY <2>1 DEF ShmInv, AttachedIsTracked, Found, do_shmat
  <2> QED BY <2>2, <2>3, <2>4, <2>5 DEF ShmInv
<1> QED BY <1>1, <1>2

\* do_shmdt() preserves the invariant, with the null address too.
LEMMA ShmdtInv ==
    ASSUME ShmInv, NEW a \in Addrs \cup {0}, do_shmdt(a)
    PROVE  ShmInv'
<1> DEFINE k == First(a)
<1>0. attached' = attached \ {a} /\ overflowed' = overflowed /\ doubled' = doubled
  BY DEF do_shmdt
<1>1. CASE Found(a)
  <2>1. k \in Slots /\ shm_regions[k].start = a
    BY <1>1, FirstFound
  <2>2. /\ shm_regions' = [shm_regions EXCEPT ![k].start = 0]
        /\ ClearFlags(a, shm_regions[k].size)
    BY <1>1 DEF do_shmdt
  <2> HIDE DEF k
  <2>3. /\ shm_regions' \in [Slots -> [start : Addrs \cup {0}, size : {0, 1}]]
        /\ shm_regions'[k].start = 0
        /\ \A i \in Slots \ {k} : shm_regions'[i].start = shm_regions[i].start
    BY <2>1, <2>2 DEF ShmInv, ShmTypeOK
  <2>4. ShmTypeOK'
    BY <1>0, <2>2, <2>3 DEF ShmInv, ShmTypeOK, ClearFlags
  <2>5. TrackedIsAttached'
    BY <1>0, <2>1, <2>3 DEF ShmInv, TrackedIsAttached, SlotsDistinct
  <2>6. AccessFollowsAttachment'
    <3>1. CASE a \in attached \/ shm_regions[k].size = 0
      BY <1>0, <2>2, <3>1 DEF ShmInv, ShmTypeOK, AccessFollowsAttachment, ClearFlags
    <3>2. CASE ~ (a \in attached \/ shm_regions[k].size = 0)
      BY <1>0, <2>2, <3>2 DEF ShmInv, AccessFollowsAttachment, ClearFlags
    <3> QED BY <3>1, <3>2
  <2>7. SlotsDistinct'
    BY <1>0, <2>1, <2>3 DEF ShmInv, SlotsDistinct
  <2>8. AttachedIsTracked'
    <3> SUFFICES ASSUME NEW b \in attached \ {a}, b \notin overflowed \cup doubled
                 PROVE  \E i \in Slots : shm_regions'[i].start = b
      BY <1>0 DEF AttachedIsTracked, Found
    <3>1. PICK i \in Slots : shm_regions[i].start = b
      BY DEF ShmInv, AttachedIsTracked, Found
    <3> QED BY <2>1, <2>3, <3>1
  <2> QED BY <2>4, <2>5, <2>6, <2>7, <2>8 DEF ShmInv
<1>2. CASE ~Found(a)
  <2>1. UNCHANGED <<shm_regions, flags, failed>>
    BY <1>2 DEF do_shmdt
  <2>2. ShmTypeOK'
    BY <1>0, <2>1 DEF ShmInv, ShmTypeOK
  <2>3. TrackedIsAttached' /\ SlotsDistinct'
    BY <1>0, <1>2, <2>1 DEF ShmInv, TrackedIsAttached, SlotsDistinct, Found
  <2>4. AccessFollowsAttachment'
    BY <1>0, <1>2, <2>1 DEF ShmInv, AccessFollowsAttachment, AttachedIsTracked
  <2>5. AttachedIsTracked'
    BY <1>0, <2>1 DEF ShmInv, AttachedIsTracked, Found
  <2> QED BY <2>2, <2>3, <2>4, <2>5 DEF ShmInv
<1> QED BY <1>1, <1>2

\* Every shared memory call preserves the invariant.
LEMMA ShmNextInv == ShmInv /\ [ShmNext]_shmvars => ShmInv'
<1>1. ASSUME ShmInv, UNCHANGED shmvars PROVE ShmInv'
  BY <1>1 DEF shmvars, ShmInv, ShmTypeOK, TrackedIsAttached, AccessFollowsAttachment,
              SlotsDistinct, AttachedIsTracked, Found
<1> QED BY <1>1, ShmatInv, ShmdtInv DEF ShmNext

(***************************************************************************)
(* The specification.                                                      *)
(***************************************************************************)
KernelInv == SigInv /\ ShmInv

\* Both invariants hold throughout.
LEMMA KernelInvariant == Spec => []KernelInv
<1>1. Init => KernelInv
  BY SigInitInv, ShmInitInv DEF Init, KernelInv
<1>2. KernelInv /\ [Next]_vars => KernelInv'
  BY SigNextInv, ShmNextInv DEF Next, vars, KernelInv
<1> QED BY <1>1, <1>2, PTL DEF Spec

\* Every variable keeps its type.
THEOREM TypeCorrect == Spec => []TypeOK
<1>1. KernelInv => TypeOK
  BY DEF KernelInv, SigInv, ShmInv, TypeOK
<1> QED BY <1>1, KernelInvariant, PTL

\* No sequence of sigaction() calls takes the handler of SIGSEGV away from the
\* dispatcher, whatever number it has and whatever the tables exchange.
THEOREM SmcHandlerStays == Spec => []SmcHandlerKept
<1>1. KernelInv => SmcHandlerKept
  BY DEF KernelInv, SigInv
<1> QED BY <1>1, KernelInvariant, PTL

\* do_sigaction() keeps the host's dispositions and the guest's table together
\* for every signal it may change.
THEOREM DispositionsFollow == Spec => []DispositionFollowsTable
<1>1. KernelInv => DispositionFollowsTable
  BY DEF KernelInv, SigInv
<1> QED BY <1>1, KernelInvariant, PTL

\* The mask calls may be mixed in any order and the guest still reads back the
\* mask it set, because the conversion of sets is its own inverse and goes
\* through union and difference.
THEOREM MasksReadBack == Spec => []MaskReadsBack
<1>1. KernelInv => MaskReadsBack
  BY DEF KernelInv, SigInv
<1> QED BY <1>1, KernelInvariant, PTL

\* A slot in use is an attached segment, unless it was attached twice.
THEOREM SlotsAreAttached == Spec => []TrackedIsAttached
<1>1. KernelInv => TrackedIsAttached
  BY DEF KernelInv, ShmInv
<1> QED BY <1>1, KernelInvariant, PTL

\* Page flags follow the attachments, for every number of slots, unless the
\* table overflowed or a segment was replaced.
THEOREM AccessMatches == Spec => []AccessFollowsAttachment
<1>1. KernelInv => AccessFollowsAttachment
  BY DEF KernelInv, ShmInv
<1> QED BY <1>1, KernelInvariant, PTL

\* page_set_flags() asserts only in do_shmdt() of a null address or of one
\* attached twice: any other address with a slot is attached.
THEOREM AbortsOnlyOnMisuse == Spec => AbortOnlyOnMisuse
<1>1. ASSUME KernelInv, [Next]_vars
      PROVE  [failed' /\ ~failed => \E a \in doubled \cup {0} : do_shmdt(a)]_shmvars
  <2> SUFFICES ASSUME Next, failed', ~failed
               PROVE  \E a \in doubled \cup {0} : do_shmdt(a)
    BY <1>1 DEF vars, shmvars
  <2>1. PICK a \in Addrs \cup {0} : do_shmdt(a)
    BY DEF Next, shmvars, ShmNext, do_shmat
  <2>2. Found(a) /\ ~ (a \in attached)
    BY <2>1 DEF do_shmdt, ClearFlags
  <2>3. a = 0 \/ a \in doubled
    BY <1>1, <2>2 DEF Found, KernelInv, ShmInv, TrackedIsAttached
  <2> QED BY <2>1, <2>3
<1> QED BY <1>1, KernelInvariant, PTL DEF Spec, AbortOnlyOnMisuse
=============================================================================
