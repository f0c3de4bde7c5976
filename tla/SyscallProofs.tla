---------------------------- MODULE SyscallProofs ----------------------------
(***************************************************************************)
(* The properties of SyscallXlate for every switch whose cases follow the  *)
(* rules of SyscallRules.  The rules say something about the text of a     *)
(* case; the proofs follow the steps of a call, through early exits,       *)
(* skipped conversions and failing host calls.  Each property has an       *)
(* invariant that says what the steps passed so far have left behind.      *)
(***************************************************************************)
EXTENDS SyscallXlate, SyscallRules, FiniteSetTheorems, TLAPS

\* the steps of a call between apply()'s first and last
Move ==
    \/ Skip \/ Finish \/ Lock \/ TryLock \/ Access \/ Path \/ PathTooLong
    \/ Fault \/ HostSucceeds \/ HostFails \/ Fill \/ Quiet \/ ProbeStep \/ SetResult \/ MinusOneStep
    \/ Forget \/ Unset \/ Refuse \/ LeaveOnError \/ Stop \/ ExitProcess

\* between two calls nothing is left of the last
Between ==
    /\ call = NoCall /\ ptrs = <<>> /\ pc = 1 /\ ret = "unset" /\ temps = 0
    /\ host = "none" /\ did = FALSE /\ wrote = FALSE /\ garbage = "no" /\ moved = {}

\* An unconditional check that was passed did not find NULL.
Locked ==
    \A i \in 1 .. pc - 1 :
        /\ steps[i].op = "lock" /\ steps[i].when = "always"
        /\ \A q \in steps[i].nn : ~IsNull(q)
        => ~LockFails(steps[i].p)

CallInv ==
    /\ TypeOK
    /\ status = "idle" => Between
    /\ status # "idle" => call \in Calls
    /\ BranchTaken(call, ptrs)
    /\ temps <= Cardinality(Paths(steps, pc - 1))
    /\ Locked

EffectInv ==
    /\ did => \E i \in 1 .. pc - 1 : Effect(steps[i])
    /\ ret = "efault" => status = "done" /\ (Name \notin EffectBeforeCheck => ~did)

StoreInv ==
    Name \notin WritesOnFailure =>
        /\ wrote => /\ ~is_error(ret)
                    /\ \E i \in 1 .. pc - 1 : steps[i].op \in {"write", "fill"}
        /\ status = "run" /\ is_error(ret) =>
            \E j \in 1 .. pc - 1 :
                /\ KeepsError(steps[j])
                /\ \A k \in 1 .. pc - 1 : k > j => ~(steps[k].op = "leave" /\ Always(steps[k]))

GarbageInv == Name \notin HandsOverGarbage => garbage = "no"

\* a step that cannot be passed without ret being assigned
Settles(m) == Always(m) /\ (Assigns(m) \/ m.op \in {"fail", "failhost", "abort", "noreturn"})

ReportInv ==
    Name \notin MisreportsOutcome =>
        /\ ret = "unset" => \A i \in 1 .. pc - 1 : ~Settles(steps[i])
        /\ status = "done" => ret # "unset"
        /\ status = "run" /\ host # "none" => \E i \in 1 .. pc - 1 : Deciding(steps[i])
        /\ status = "run" /\ ret = "error" =>
            \E i \in 1 .. pc - 1 : Deciding(steps[i]) /\ steps[i].op \notin {"raw", "rawor"}
        /\ host = "failed" => is_error(ret)
        /\ host = "ok" => ret # "error"

FillInv ==
    /\ moved \subseteq {steps[i].p : i \in Paths(steps, pc - 1)}
    /\ status = "done" /\ ret = "ok" => pc > Len(steps)
    /\ Name \notin FillsOwnCopy =>
        ((\E i \in 1 .. pc - 1 : steps[i].op = "fill") => wrote \/ is_error(ret))

ErrnoInv == <<call[1], call[2]>> \notin NotConverted => ret \notin {"raw", "unconverted"}
-----------------------------------------------------------------------------
\* Whatever the call, its steps are a well-made sequence.
LEMMA StepsWell ==
    ASSUME AllWellMade, call \in Calls \cup {NoCall}
    PROVE  WellMade(steps) /\ Len(steps) \in Nat /\ DOMAIN steps = 1 .. Len(steps)
<1>1. WellMade(steps)
  <2>1. CASE call \in Calls
    BY <2>1 DEF AllWellMade, steps
  <2>2. CASE call = NoCall
    <3>1. steps = <<>> /\ Len(steps) = 0 /\ DOMAIN steps = {}
      <4>1. NoCall[3] = <<>>
        BY DEF NoCall
      <4>2. steps = <<>>
        BY <2>2, <4>1 DEF steps
      <4>3. Len(<<>>) = 0 /\ DOMAIN <<>> = {}
        OBVIOUS
      <4> QED BY <4>2, <4>3
    <3>2. Paths(steps, Len(steps)) = {}
      BY <3>1 DEF Paths
    <3>3. Cardinality(Paths(steps, Len(steps))) = 0
      BY <3>2, FS_EmptySet
    <3> QED BY <3>1, <3>3, MaxTempsAssumption DEF WellMade
  <2> QED BY <2>1, <2>2
<1> QED BY <1>1 DEF WellMade

\* A move changes neither the call nor its pointers, goes forward, and passes
\* its own step and at most the rest of a conversion.
LEMMA Forward ==
    ASSUME AllWellMade, TypeOK, Move
    PROVE  /\ UNCHANGED <<base, call, ptrs>> /\ status = "run" /\ status' # "idle"
           /\ pc' \in 1 .. Len(steps) + 1 /\ pc <= pc' /\ steps' = steps
           /\ \A i \in 1 .. pc' - 1 : i \notin 1 .. pc - 1 =>
                /\ i \in DOMAIN steps /\ pc \in DOMAIN steps
                /\ i = pc \/ steps[i].op \in {"trylock", "read", "write"}
<1>1. WellMade(steps) /\ Len(steps) \in Nat /\ DOMAIN steps = 1 .. Len(steps)
  BY StepsWell DEF TypeOK
<1>2. pc \in 1 .. Len(steps) + 1
  BY DEF TypeOK
<1>3. ASSUME Advance, Running PROVE pc' = pc + 1 /\ pc \in DOMAIN steps
  BY <1>1, <1>2, <1>3 DEF Advance, Running
<1> DEFINE Goal == /\ UNCHANGED <<base, call, ptrs>> /\ status = "run" /\ status' # "idle"
                   /\ \/ pc' = pc
                      \/ pc' = pc + 1 /\ pc \in DOMAIN steps
                      \/ /\ pc \in DOMAIN steps /\ steps[pc].op = "trylock"
                         /\ pc' = pc + 1 + steps[pc].arg
<1>4. Goal
  <2>1. ASSUME Advance, Running PROVE Goal
    BY <1>3, <2>1 DEF Advance, Running
  <2>2. ASSUME NEW r, Exit(r), Running PROVE Goal
    BY <2>2 DEF Exit, Running
  <2>3. ASSUME NEW how \in {"abort", "fault", "gone"}, Halt(how), Running PROVE Goal
    BY <2>3 DEF Halt, Running
  <2>4. CASE TryLock
    BY <2>1, <2>4, <1>1, <1>2 DEF TryLock, At, Running, cur
  <2>5. CASE Skip \/ Access \/ Path \/ HostSucceeds \/ HostFails \/ Fill \/ Quiet \/ SetResult
             \/ MinusOneStep \/ Forget \/ Unset
    BY <2>1, <2>5 DEF Skip, Access, Path, HostSucceeds, HostFails, Fill, Quiet, SetResult,
                      MinusOneStep, Forget, Unset, At
  <2>6. CASE Lock \/ ProbeStep \/ Refuse \/ LeaveOnError
    BY <2>1, <2>2, <2>6 DEF Lock, ProbeStep, Refuse, LeaveOnError, At
  <2>7. CASE PathTooLong \/ Fault \/ Stop \/ ExitProcess
    BY <2>3, <2>7 DEF PathTooLong, Fault, Stop, ExitProcess, At
  <2>8. CASE Finish
    BY <2>8 DEF Finish
  <2> QED BY <2>4, <2>5, <2>6, <2>7, <2>8 DEF Move
<1>5. steps' = steps
  BY <1>4 DEF steps
<1>6. CASE pc' = pc
  BY <1>2, <1>4, <1>5, <1>6
<1>7. CASE pc' = pc + 1 /\ pc \in DOMAIN steps
  BY <1>1, <1>2, <1>4, <1>5, <1>7
<1>8. CASE /\ pc \in DOMAIN steps /\ steps[pc].op = "trylock"
           /\ pc' = pc + 1 + steps[pc].arg
  <2>1. /\ steps[pc].arg \in Nat /\ pc + steps[pc].arg <= Len(steps)
        /\ \A j \in Window(steps, pc) : steps[j].op \in {"trylock", "read", "write"}
    BY <1>1, <1>8 DEF WellMade
  <2>2. ASSUME NEW i \in 1 .. pc' - 1, i \notin 1 .. pc - 1, i # pc
        PROVE  i \in Window(steps, pc)
    BY <1>2, <1>8, <2>1, <2>2 DEF Window
  <2> QED BY <1>1, <1>2, <1>4, <1>5, <1>8, <2>1, <2>2
<1> QED BY <1>4, <1>6, <1>7, <1>8

\* Every step is a move, or begins or ends a call.
LEMMA NextIs == [Next]_vars => Enter \/ Leave \/ Move \/ UNCHANGED vars
BY DEF Next, Move, Over-----------------------------------------------------------------------------
\* What a move may leave in the variables of the call.
LEMMA MoveValues ==
    ASSUME TypeOK, Move
    PROVE  /\ ret' \in Rets /\ host' \in {"none", "ok", "failed"}
           /\ status' \in {"run", "done", "fault", "abort", "gone"}
           /\ did' \in BOOLEAN /\ wrote' \in BOOLEAN
           /\ garbage' \in {"no", "pending", "given"}
           /\ \/ UNCHANGED <<temps, moved>>
              \/ /\ Running /\ cur.op \in PathOps /\ pc' = pc + 1
                 /\ temps' = temps + 1 /\ moved' = moved \cup {cur.p}
<1> USE DEF TypeOK, ghosts
<1>1. CASE HostSucceeds
  <2>1. OnSuccess(cur.op) \subseteq Rets
    BY DEF OnSuccess, Rets
  <2> QED BY <1>1, <2>1 DEF HostSucceeds, HandOver, Advance, Running
<1>2. CASE HostFails
  <2>1. OnFailure(cur.op) \in Rets
    BY DEF OnFailure, Rets
  <2> QED BY <1>2, <2>1 DEF HostFails, HandOver, Advance, Running
<1>3. CASE Fill
  BY <1>3 DEF Fill, HandOver, Advance, Running, At, Rets
<1>4. CASE Path
  BY <1>4 DEF Path, Advance, Running, At, PathOps
<1>5. CASE Lock \/ ProbeStep \/ Refuse \/ LeaveOnError
  BY <1>5 DEF Lock, ProbeStep, Refuse, LeaveOnError, Advance, Running, At, Exit, Rets
<1>6. CASE Skip \/ Finish \/ TryLock \/ Access
  BY <1>6 DEF Skip, Finish, TryLock, Access, Advance, Running, At
<1>7. CASE PathTooLong \/ Fault \/ Stop \/ ExitProcess
  BY <1>7 DEF PathTooLong, Fault, Stop, ExitProcess, Halt
<1>8. CASE Quiet \/ SetResult \/ MinusOneStep \/ Forget \/ Unset
  BY <1>8 DEF Quiet, SetResult, MinusOneStep, Forget, Unset, Advance, Running, At, Rets
<1> QED BY <1>1, <1>2, <1>3, <1>4, <1>5, <1>6, <1>7, <1>8 DEF Move

\* path() is called at most once per step passed.
LEMMA PathsGrow ==
    ASSUME NEW s, NEW n \in Nat, NEW m \in Nat, n <= m
    PROVE  /\ Paths(s, n) \subseteq Paths(s, m) /\ IsFiniteSet(Paths(s, m))
           /\ Cardinality(Paths(s, n)) \in Nat /\ Cardinality(Paths(s, m)) \in Nat
           /\ Cardinality(Paths(s, n)) <= Cardinality(Paths(s, m))
<1>1. Paths(s, n) \subseteq Paths(s, m) /\ Paths(s, m) \subseteq 1 .. m
  BY DEF Paths
<1>2. IsFiniteSet(1 .. m)
  BY FS_Interval
<1>3. IsFiniteSet(Paths(s, m))
  BY <1>1, <1>2, FS_Subset
<1> QED BY <1>1, <1>3, FS_Subset, FS_CardinalityType

LEMMA PathsNext ==
    ASSUME NEW s, NEW n \in Nat \ {0}, s[n].op \in PathOps
    PROVE  Cardinality(Paths(s, n)) = Cardinality(Paths(s, n - 1)) + 1
<1>1. Paths(s, n) = Paths(s, n - 1) \cup {n} /\ n \notin Paths(s, n - 1)
  BY DEF Paths
<1>2. IsFiniteSet(Paths(s, n - 1))
  BY PathsGrow
<1> QED BY <1>1, <1>2, FS_AddElement

LEMMA CallInit ==
    ASSUME Init, AllWellMade
    PROVE  CallInv
<1>1. WellMade(steps) /\ steps = <<>> /\ Len(steps) = 0 /\ DOMAIN steps = {}
  <2>1. NoCall[3] = <<>>
    BY DEF NoCall
  <2>2. steps = <<>>
    BY <2>1 DEF steps, Init
  <2> QED BY <2>2, StepsWell DEF Init
<1>2. PtrsOf(steps) = {}
  BY <1>1 DEF PtrsOf
<1>3. <<>> \in [{} -> {"null", "good", "bad"}]
  OBVIOUS
<1>4. TypeOK
  <2>1. ptrs \in [PtrsOf(steps) -> {"null", "good", "bad"}]
    BY <1>2, <1>3 DEF Init
  <2>2. pc \in 1 .. Len(steps) + 1 /\ temps \in 0 .. MaxTemps
    BY <1>1, MaxTempsAssumption DEF Init
  <2> QED BY <2>1, <2>2 DEF Init, TypeOK, Rets
<1>5. BranchTaken(call, ptrs)
  BY <1>1 DEF Init, BranchTaken, steps
<1>6. temps <= Cardinality(Paths(steps, pc - 1))
  BY PathsGrow DEF Init
<1>7. Locked
  BY DEF Init, Locked
<1> QED BY <1>4, <1>5, <1>6, <1>7 DEF Init, CallInv, Between
LEMMA LeaveKept ==
    ASSUME AllWellMade, CallInv, Leave
    PROVE  CallInv' /\ Between' /\ status' = "idle"
<1>1. steps' = <<>> /\ Len(steps') = 0 /\ DOMAIN steps' = {}
  <2>1. NoCall[3] = <<>>
    BY DEF NoCall
  <2>2. steps' = <<>>
    BY <2>1 DEF steps, Leave
  <2> QED BY <2>2
<1>2. PtrsOf(steps') = {}
  BY <1>1 DEF PtrsOf
<1>3. <<>> \in [{} -> {"null", "good", "bad"}]
  OBVIOUS
<1>4. TypeOK'
  <2>1. ptrs' \in [PtrsOf(steps') -> {"null", "good", "bad"}]
    BY <1>2, <1>3 DEF Leave
  <2>2. pc' \in 1 .. Len(steps') + 1 /\ temps' \in 0 .. MaxTemps
    BY <1>1, MaxTempsAssumption DEF Leave
  <2>3. call' \in Calls \cup {NoCall} /\ base' \in Bases
    BY DEF Leave, CallInv, TypeOK
  <2> QED BY <2>1, <2>2, <2>3 DEF Leave, TypeOK, Rets
<1>5. BranchTaken(call', ptrs')
  BY <1>1 DEF BranchTaken, steps
<1>6. temps' <= Cardinality(Paths(steps', pc' - 1))
  BY PathsGrow DEF Leave
<1>7. Locked'
  BY DEF Leave, Locked
<1> QED BY <1>4, <1>5, <1>6, <1>7 DEF Leave, CallInv, Between

LEMMA EnterKept ==
    ASSUME AllWellMade, CallInv, Enter
    PROVE  /\ CallInv' /\ call' \in Calls /\ Between
           /\ pc' = 1 /\ ret' = "unset" /\ status' = "run" /\ UNCHANGED ghosts
<1>1. PICK d \in Calls : \E a \in [PtrsOf(d[3]) -> {"null", "good", "bad"}] :
            BranchTaken(d, a) /\ call' = d /\ ptrs' = a
  BY DEF Enter
<1>2. /\ call' \in Calls /\ BranchTaken(call', ptrs')
      /\ ptrs' \in [PtrsOf(steps') -> {"null", "good", "bad"}]
  BY <1>1 DEF steps
<1>3. Between
  BY DEF Enter, CallInv
<1>4. WellMade(steps') /\ Len(steps') \in Nat
  <2>1. WellMade(call'[3]) /\ steps' = call'[3]
    BY <1>2 DEF AllWellMade, steps
  <2> QED BY <2>1 DEF WellMade
<1>5. TypeOK'
  <2>1. pc' \in 1 .. Len(steps') + 1
    BY <1>4 DEF Enter
  <2>2. UNCHANGED <<base, temps, host, did, wrote, garbage, moved>> /\ ret' = "unset" /\ status' = "run"
    BY DEF Enter, ghosts
  <2>3. moved' \subseteq PtrsOf(steps')
    BY <1>3, <2>2 DEF Between
  <2>4. /\ base \in Bases /\ temps \in 0 .. MaxTemps /\ host \in {"none", "ok", "failed"}
        /\ did \in BOOLEAN /\ wrote \in BOOLEAN /\ garbage \in {"no", "pending", "given"}
    BY DEF CallInv, TypeOK
  <2> QED BY <1>2, <2>1, <2>2, <2>3, <2>4 DEF TypeOK, Rets
<1>6. temps' <= Cardinality(Paths(steps', pc' - 1))
  <2>1. temps' = 0 /\ pc' = 1
    BY <1>3 DEF Enter, Between
  <2> QED BY <2>1, PathsGrow
<1>7. Locked'
  BY DEF Enter, Locked
<1> QED BY <1>2, <1>3, <1>5, <1>6, <1>7 DEF Enter, CallInv

LEMMA MoveKept ==
    ASSUME AllWellMade, CallInv, Move
    PROVE  CallInv'
<1> DEFINE n == pc - 1
           m == pc' - 1
<1>1. /\ UNCHANGED <<base, call, ptrs>> /\ status = "run" /\ status' # "idle"
      /\ pc' \in 1 .. Len(steps) + 1 /\ pc <= pc' /\ steps' = steps
      /\ \A i \in 1 .. pc' - 1 : i \notin 1 .. pc - 1 =>
            /\ i \in DOMAIN steps /\ pc \in DOMAIN steps
            /\ i = pc \/ steps[i].op \in {"trylock", "read", "write"}
  BY Forward DEF CallInv
<1>2. WellMade(steps) /\ Len(steps) \in Nat /\ DOMAIN steps = 1 .. Len(steps)
  BY StepsWell DEF CallInv, TypeOK
<1>3. /\ ret' \in Rets /\ host' \in {"none", "ok", "failed"}
      /\ status' \in {"run", "done", "fault", "abort", "gone"}
      /\ did' \in BOOLEAN /\ wrote' \in BOOLEAN
      /\ garbage' \in {"no", "pending", "given"}
      /\ \/ UNCHANGED <<temps, moved>>
         \/ /\ Running /\ cur.op \in PathOps /\ pc' = pc + 1
            /\ temps' = temps + 1 /\ moved' = moved \cup {cur.p}
  BY MoveValues DEF CallInv
<1>4. /\ pc \in 1 .. Len(steps) + 1 /\ n \in Nat /\ m \in Nat /\ n <= m /\ m <= Len(steps)
      /\ temps \in 0 .. MaxTemps /\ temps <= Cardinality(Paths(steps, n))
  <2>1. pc \in 1 .. Len(steps) + 1 /\ temps \in 0 .. MaxTemps
    BY DEF CallInv, TypeOK
  <2>2. temps <= Cardinality(Paths(steps, n))
    BY DEF CallInv
  <2>3. pc' \in 1 .. Len(steps) + 1 /\ pc <= pc' /\ Len(steps) \in Nat
    BY <1>1, <1>2
  <2>4. n \in Nat /\ m \in Nat /\ n <= m /\ m <= Len(steps)
    <3>1. ASSUME NEW a \in Nat, NEW b \in 1 .. a + 1, NEW d \in 1 .. a + 1, b <= d
          PROVE  b - 1 \in Nat /\ d - 1 \in Nat /\ b - 1 <= d - 1 /\ d - 1 <= a
      BY <3>1
    <3> QED BY <2>1, <2>3, <3>1
  <2> HIDE DEF n, m
  <2> QED BY <2>1, <2>2, <2>4
<1>5. /\ Cardinality(Paths(steps, n)) <= Cardinality(Paths(steps, m))
      /\ Cardinality(Paths(steps, m)) <= Cardinality(Paths(steps, Len(steps)))
      /\ Cardinality(Paths(steps, n)) \in Nat /\ Cardinality(Paths(steps, m)) \in Nat
      /\ Cardinality(Paths(steps, Len(steps))) \in Nat
  <2> HIDE DEF n, m
  <2> QED BY <1>2, <1>4, PathsGrow
<1>6. temps' \in Nat /\ temps' <= Cardinality(Paths(steps, m))
  <2>1. CASE UNCHANGED temps
    <3> HIDE DEF n, m
    <3> QED BY <1>4, <1>5, <2>1
  <2>2. CASE cur.op \in PathOps /\ pc' = pc + 1 /\ temps' = temps + 1
    <3>1. pc \in Nat \ {0} /\ m = pc /\ n = pc - 1
      BY <1>4, <2>2
    <3>2. Cardinality(Paths(steps, m)) = Cardinality(Paths(steps, n)) + 1
      BY <3>1, <2>2, PathsNext DEF cur
    <3> HIDE DEF n, m
    <3> QED BY <1>4, <1>5, <2>2, <3>2
  <2> QED BY <1>3, <2>1, <2>2
<1>7. temps' \in 0 .. MaxTemps
  <2>1. Cardinality(Paths(steps, Len(steps))) <= MaxTemps
    BY <1>2 DEF WellMade
  <2> HIDE DEF n, m
  <2> QED BY <1>5, <1>6, <2>1, MaxTempsAssumption
<1>8. moved' \subseteq PtrsOf(steps)
  <2>1. moved \subseteq PtrsOf(steps)
    BY DEF CallInv, TypeOK
  <2>2. CASE Running /\ cur.op \in PathOps /\ moved' = moved \cup {cur.p}
    <3>1. pc \in DOMAIN steps
      BY <1>2, <1>4, <2>2 DEF Running
    <3>2. steps[pc].p # NoPtr
      BY <1>2, <2>2, <3>1 DEF WellMade, cur, PathOps, ThroughPtr
    <3>3. cur.p \in PtrsOf(steps)
      BY <3>1, <3>2 DEF cur, PtrsOf
    <3> QED BY <2>1, <2>2, <3>3
  <2> QED BY <1>3, <2>1, <2>2
<1>9. TypeOK'
  BY <1>1, <1>3, <1>7, <1>8 DEF CallInv, TypeOK
<1>10. Locked'
  <2> SUFFICES ASSUME NEW i \in 1 .. pc' - 1,
                      steps[i].op = "lock", steps[i].when = "always",
                      \A q \in steps[i].nn : ~IsNull(q)
               PROVE  ~LockFails(steps[i].p)
    BY <1>1 DEF Locked, LockFails, IsNull
  <2>1. CASE i \in 1 .. pc - 1
    BY <2>1 DEF CallInv, Locked
  <2>2. CASE i \notin 1 .. pc - 1
    <3>1. i = pc /\ pc \in DOMAIN steps /\ cur.op = "lock" /\ pc' > pc
      <4>1. pc \in DOMAIN steps /\ (i = pc \/ steps[i].op \in {"trylock", "read", "write"})
        BY <1>1, <2>2
      <4>2. i = pc
        BY <4>1
      <4>3. pc' \in Nat /\ pc \in 1 .. pc' - 1
        BY <1>1, <4>2
      <4>4. pc' > pc
        <5>1. ASSUME NEW b \in Nat, NEW a \in 1 .. b - 1 PROVE b > a
          BY <5>1
        <5> QED BY <4>3, <5>1
      <4> QED BY <4>1, <4>2, <4>4 DEF cur
    <3>2. Taken
      BY <3>1 DEF Taken, cur
    <3>3. Lock
      BY <1>2, <3>1, <3>2 DEF Move, Skip, Finish, TryLock, Access, Path, PathTooLong, Fault,
          HostSucceeds, HostFails, Fill, Quiet, ProbeStep, SetResult, MinusOneStep, Forget,
          Unset, Refuse, LeaveOnError, Stop, ExitProcess, At, HostOps
    <3> QED BY <1>4, <3>1, <3>3 DEF Lock, Exit, cur
  <2> QED BY <2>1, <2>2
<1>11. BranchTaken(call', ptrs')
  BY <1>1 DEF CallInv
<1>12. call' \in Calls
  BY <1>1 DEF CallInv
<1> QED BY <1>1, <1>6, <1>9, <1>10, <1>11, <1>12 DEF CallInv

LEMMA CallKept ==
    ASSUME AllWellMade, CallInv, [Next]_vars
    PROVE  CallInv'
<1>1. CASE UNCHANGED vars
  BY <1>1 DEF vars, CallInv, TypeOK, Between, Locked, LockFails, IsNull, steps, BranchTaken
<1> QED BY <1>1, NextIs, EnterKept, LeaveKept, MoveKept

LEMMA CallAlways ==
    ASSUME AllWellMade
    PROVE  Spec => []CallInv
<1>1. Init => CallInv
  BY CallInit
<1>2. CallInv /\ [Next]_vars => CallInv'
  BY CallKept
<1> QED BY <1>1, <1>2, PTL DEF Spec

\* A call never makes more names than g_to_delete has room for and apply()
\* deletes, a skipped conversion never leads out of its case, and the
\* position, the result and the pointers of a call keep their types.
THEOREM TypeCorrect ==
    ASSUME AllWellMade
    PROVE  Spec => []TypeOK
<1>1. CallInv => TypeOK
  BY DEF CallInv
<1> QED BY <1>1, CallAlways, PTL-----------------------------------------------------------------------------
\* A check of a pointer that cannot be NULL does not fail.
LEMMA CheckHolds ==
    ASSUME AllWellMade, CallInv, Running, Taken, cur.op \in {"lock", "trylock"}, LockFails(cur.p)
    PROVE  pc \in DOMAIN steps /\ ~NeverNull(steps, pc)
<1>1. pc \in DOMAIN steps /\ cur = steps[pc]
  <2>1. Len(steps) \in Nat /\ DOMAIN steps = 1 .. Len(steps) /\ pc \in 1 .. Len(steps) + 1
    BY StepsWell DEF CallInv, TypeOK
  <2> QED BY <2>1 DEF Running, cur
<1>2. IsNull(cur.p) /\ \A q \in cur.nn : ~IsNull(q)
  BY DEF LockFails, Taken
<1>3. \A j \in DOMAIN steps : steps[j].op = "given" => ~IsNull(steps[j].p)
  BY DEF CallInv, BranchTaken, steps, IsNull
<1>4. ASSUME NEW j \in 1 .. pc - 1, steps[j].op = "lock", steps[j].p = cur.p,
             steps[j].nn \subseteq cur.nn, steps[j].when = "always"
      PROVE  FALSE
  BY <1>2, <1>4 DEF CallInv, Locked
<1> QED BY <1>1, <1>2, <1>3, <1>4 DEF NeverNull

\* Every step of a call in progress has its place in the case.
LEMMA Here ==
    ASSUME AllWellMade, CallInv, Running
    PROVE  pc \in DOMAIN steps /\ cur = steps[pc] /\ pc \in Nat \ {0} /\ call \in Calls
<1>1. Len(steps) \in Nat /\ DOMAIN steps = 1 .. Len(steps) /\ pc \in 1 .. Len(steps) + 1
  BY StepsWell DEF CallInv, TypeOK
<1>2. pc \in DOMAIN steps /\ pc \in Nat \ {0}
  BY <1>1 DEF Running
<1> QED BY <1>2 DEF CallInv, Running, cur

\* A move keeps the call; the steps it has passed stay passed.
LEMMA MoveFrame ==
    ASSUME AllWellMade, CallInv, Move
    PROVE  /\ UNCHANGED <<base, call, ptrs, steps, Name>> /\ status = "run" /\ call \in Calls
           /\ 1 .. pc - 1 \subseteq 1 .. pc' - 1
           /\ pc' = pc + 1 => pc \in 1 .. pc' - 1
           /\ pc' = pc + 1 => 1 .. pc' - 1 = (1 .. pc - 1) \cup {pc}
<1>1. /\ UNCHANGED <<base, call, ptrs>> /\ status = "run" /\ steps' = steps
      /\ pc' \in 1 .. Len(steps) + 1 /\ pc <= pc' /\ pc \in 1 .. Len(steps) + 1
  BY Forward DEF CallInv, TypeOK
<1>2. pc \in Nat \ {0} /\ pc' \in Nat \ {0} /\ pc <= pc'
  <2>1. Len(steps) \in Nat
    BY StepsWell DEF CallInv, TypeOK
  <2> QED BY <1>1, <2>1
<1>3. ASSUME NEW a \in Nat \ {0}, NEW b \in Nat \ {0}, a <= b
      PROVE  /\ 1 .. a - 1 \subseteq 1 .. b - 1
             /\ b = a + 1 => a \in 1 .. b - 1 /\ 1 .. b - 1 = (1 .. a - 1) \cup {a}
  BY <1>3
<1>4. Name' = Name
  BY <1>1 DEF Name
<1>5. call \in Calls
  BY <1>1 DEF CallInv
<1> QED BY <1>1, <1>2, <1>3, <1>4, <1>5

\* apply() starts and ends every call with nothing done.
LEMMA EndsClean ==
    ASSUME AllWellMade, CallInv, Enter \/ Leave
    PROVE  /\ pc' = 1 /\ 1 .. pc' - 1 = {} /\ ret' = "unset" /\ status' \in {"run", "idle"}
           /\ host' = "none" /\ did' = FALSE /\ wrote' = FALSE /\ garbage' = "no" /\ moved' = {}
<1>1. CASE Enter
  BY <1>1, EnterKept DEF Between, ghosts
<1>2. CASE Leave
  BY <1>2, LeaveKept DEF Between
<1> QED BY <1>1, <1>2

LEMMA EffectMoves ==
    ASSUME AllWellMade, AllCheckFirst, CallInv, EffectInv, Move
    PROVE  EffectInv'
<1>1. /\ UNCHANGED <<call, steps, Name>> /\ status = "run"
      /\ 1 .. pc - 1 \subseteq 1 .. pc' - 1 /\ (pc' = pc + 1 => pc \in 1 .. pc' - 1)
  BY MoveFrame
<1>2. \/ did' = did
      \/ Running /\ cur.op \in (HostOps \cup {"fill", "quiet"}) \ {"get"} /\ pc' = pc + 1
  <2> USE DEF ghosts, Advance
  <2>1. CASE HostSucceeds
    <3>1. did \in BOOLEAN
      BY DEF CallInv, TypeOK
    <3> QED BY <2>1, <3>1 DEF HostSucceeds
  <2>2. CASE Fill \/ Quiet
    BY <2>2 DEF Fill, Quiet, At, Running
  <2>3. CASE Skip \/ Finish \/ Lock \/ TryLock \/ Access \/ Path \/ HostFails \/ ProbeStep
    BY <2>3 DEF Skip, Finish, Lock, TryLock, Access, Path, HostFails, ProbeStep
  <2>4. CASE PathTooLong \/ Fault \/ Stop \/ ExitProcess
    BY <2>4 DEF PathTooLong, Fault, Stop, ExitProcess, Halt
  <2>5. CASE SetResult \/ MinusOneStep \/ Forget \/ Unset \/ Refuse \/ LeaveOnError
    BY <2>5 DEF SetResult, MinusOneStep, Forget, Unset, Refuse, LeaveOnError
  <2> QED BY <2>1, <2>2, <2>3, <2>4, <2>5 DEF Move
<1>3. did' => \E i \in 1 .. pc' - 1 : Effect(steps[i])
  <2>1. CASE did' = did
    <3> SUFFICES ASSUME did PROVE \E i \in 1 .. pc' - 1 : Effect(steps[i])
      BY <2>1
    <3>1. PICK i \in 1 .. pc - 1 : Effect(steps[i])
      BY DEF EffectInv
    <3> QED BY <1>1, <3>1
  <2>2. CASE Running /\ cur.op \in (HostOps \cup {"fill", "quiet"}) \ {"get"} /\ pc' = pc + 1
    <3>1. Effect(steps[pc])
      BY <2>2 DEF Effect, cur
    <3> QED BY <1>1, <2>2, <3>1
  <2> QED BY <1>2, <2>1, <2>2
<1>4. ret # "efault"
  BY <1>1 DEF EffectInv
<1>5. ret' = "efault" => Lock /\ LockFails(cur.p)
  <2> USE <1>4 DEF ghosts
  <2>1. CASE HostSucceeds
    BY <2>1 DEF HostSucceeds, OnSuccess
  <2>2. CASE HostFails
    BY <2>2 DEF HostFails, OnFailure
  <2>3. CASE Skip \/ Finish \/ TryLock \/ Access \/ Path \/ Fill \/ Quiet
    BY <2>3 DEF Skip, Finish, TryLock, Access, Path, Fill, Quiet
  <2>4. CASE PathTooLong \/ Fault \/ Stop \/ ExitProcess
    BY <2>4 DEF PathTooLong, Fault, Stop, ExitProcess, Halt
  <2>5. CASE SetResult \/ MinusOneStep \/ Forget \/ Unset \/ Refuse \/ LeaveOnError \/ ProbeStep
    BY <2>5 DEF SetResult, MinusOneStep, Forget, Unset, Refuse, LeaveOnError, ProbeStep, Exit
  <2>6. CASE Lock
    BY <2>6 DEF Lock
  <2> QED BY <2>1, <2>2, <2>3, <2>4, <2>5, <2>6 DEF Move
<1>6. ASSUME Lock, LockFails(cur.p)
      PROVE  status' = "done" /\ (Name' \notin EffectBeforeCheck => ~did')
  <2>1. status' = "done" /\ did' = did /\ Running /\ Taken /\ cur.op = "lock"
    BY <1>6 DEF Lock, Exit, ghosts, At
  <2>2. pc \in DOMAIN steps /\ ~NeverNull(steps, pc) /\ cur = steps[pc] /\ call \in Calls
    BY <1>6, <2>1, CheckHolds, Here
  <2>3. MayFault(steps, pc)
    BY <2>1, <2>2 DEF MayFault
  <2>4. ASSUME Name \notin EffectBeforeCheck PROVE \A i \in 1 .. pc - 1 : ~Effect(steps[i])
    BY <2>2, <2>3, <2>4 DEF AllCheckFirst, ChecksFirst, Name, steps
  <2> QED BY <1>1, <2>1, <2>4 DEF EffectInv
<1> QED BY <1>1, <1>3, <1>5, <1>6 DEF EffectInv

\* EFAULT from a pointer check of do_syscall() comes before the host call that
\* changes something, in every case that checks its pointers first.
THEOREM FaultsComeFirst ==
    ASSUME AllWellMade, AllCheckFirst
    PROVE  Spec => []FaultedCallChangesNothing
<1>1. Init => EffectInv
  BY DEF Init, EffectInv
<1>2. ASSUME CallInv, EffectInv, [Next]_vars PROVE EffectInv'
  <2>1. CASE Enter \/ Leave
    BY <1>2, <2>1, EndsClean DEF EffectInv
  <2>2. CASE UNCHANGED vars
    BY <1>2, <2>2 DEF vars, EffectInv, Name, steps
  <2> QED BY <1>2, <2>1, <2>2, NextIs, EffectMoves
<1>3. EffectInv => FaultedCallChangesNothing
  BY DEF EffectInv, FaultedCallChangesNothing
<1> QED BY <1>1, <1>2, <1>3, CallAlways, PTL DEF Spec-----------------------------------------------------------------------------
\* What a move does to the result, and when.
GoesOn(r, h) == ret' = r /\ host' = h /\ pc' = pc + 1 /\ status' = status
Leaves(r, h) == ret' = r /\ host' = h /\ status' = "done" /\ pc' = pc

HostMove ==
    /\ cur.op \in HostOps /\ wrote' = wrote
    /\ (\E r \in OnSuccess(cur.op) : GoesOn(r, "ok")) \/ GoesOn(OnFailure(cur.op), "failed")
FillMove ==
    /\ cur.op = "fill"
    /\ \/ GoesOn("ok", "ok") /\ wrote' = (wrote \/ cur.p \notin moved)
       \/ GoesOn("error", "failed") /\ wrote' = wrote
OwnMove ==
    /\ wrote' = wrote
    /\ \/ cur.op = "lock" /\ LockFails(cur.p) /\ Leaves("efault", host)
       \/ cur.op = "probe" /\ Leaves("error", "failed")
       \/ cur.op = "fail" /\ Leaves("error", host)
       \/ cur.op = "failhost" /\ Leaves("unconverted", host)
       \/ cur.op = "result" /\ GoesOn("ok", host)
       \/ cur.op = "minusone" /\ GoesOn("raw", host)
       \/ cur.op = "leave" /\ is_error(ret) /\ Leaves(ret, host)
       \/ cur.op = "leave" /\ ~is_error(ret) /\ GoesOn(ret, host)
\* the moves that leave the result alone; they go on, except that some stop
\* the emulator
PlainOps == {"given", "givennull", "trylock", "read", "write", "path", "unixpath", "lock",
             "quiet", "probe", "uninit", "unassigned"}
PlainMove ==
    /\ UNCHANGED <<ret, host>>
    /\ \/ /\ Running /\ status' = status /\ pc' = pc + 1 /\ wrote' = wrote
          /\ ~Taken \/ cur.op \in PlainOps
       \/ Running /\ Taken /\ cur.op = "trylock" /\ status' = status /\ wrote' = wrote
       \/ /\ Running /\ Taken /\ cur.op = "write" /\ status' = status /\ pc' = pc + 1
          /\ wrote' = TRUE
       \/ pc' = pc /\ status' \in {"fault", "abort", "gone"} /\ wrote' = wrote
\* the end of the case
EndMove == ~Running /\ pc > Len(steps) /\ Leaves(ret, host) /\ wrote' = wrote

LEMMA Outcome ==
    ASSUME AllWellMade, CallInv, Move
    PROVE  (Running /\ Taken /\ (HostMove \/ FillMove \/ OwnMove)) \/ PlainMove \/ EndMove
<1> USE DEF ghosts, Advance, Exit, At
<1>1. CASE HostSucceeds \/ HostFails
  BY <1>1 DEF HostSucceeds, HostFails, HostMove, GoesOn
<1>2. CASE Fill
  BY <1>2 DEF Fill, FillMove, GoesOn
<1>3. CASE Lock
  BY <1>3 DEF Lock, OwnMove, Leaves, PlainMove, PlainOps
<1>4. CASE ProbeStep
  BY <1>4 DEF ProbeStep, OwnMove, Leaves, PlainMove, PlainOps
<1>5. CASE Refuse \/ SetResult \/ MinusOneStep
  BY <1>5 DEF Refuse, SetResult, MinusOneStep, OwnMove, Leaves, GoesOn
<1>6. CASE LeaveOnError
  BY <1>6 DEF LeaveOnError, OwnMove, Leaves, GoesOn
<1>7. CASE PathTooLong \/ Fault \/ Stop \/ ExitProcess
  BY <1>7 DEF PathTooLong, Fault, Stop, ExitProcess, Halt, PlainMove
<1>8. CASE Skip \/ Path \/ Quiet \/ Forget \/ Unset
  BY <1>8 DEF Skip, Path, Quiet, Forget, Unset, PlainMove, PlainOps
<1>9. CASE TryLock
  BY <1>9 DEF TryLock, PlainMove
<1>10. CASE Access
  <2>1. wrote \in BOOLEAN
    BY DEF CallInv, TypeOK
  <2> QED BY <1>10, <2>1 DEF Access, PlainMove, PlainOps
<1>11. CASE Finish
  <2>1. ~Running
    <3>1. Len(steps) \in Nat /\ pc \in 1 .. Len(steps) + 1
      BY StepsWell DEF CallInv, TypeOK
    <3> QED BY <1>11, <3>1 DEF Finish, Running
  <2> QED BY <1>11, <2>1 DEF Finish, EndMove, Leaves
<1> QED BY <1>1, <1>2, <1>3, <1>4, <1>5, <1>6, <1>7, <1>8, <1>9, <1>10, <1>11 DEF Move

\* Errnos: what is not converted is in the named cases.
LEMMA ErrnoMoves ==
    ASSUME AllWellMade, AllConvert, CallInv, ErrnoInv, Move
    PROVE  ErrnoInv'
<1>1. UNCHANGED <<call, steps>> /\ call \in Calls
  BY MoveFrame
<1> SUFFICES ASSUME <<call[1], call[2]>> \notin NotConverted PROVE ret' \notin {"raw", "unconverted"}
  BY <1>1 DEF ErrnoInv
<1>2. ret \notin {"raw", "unconverted"}
  BY DEF ErrnoInv
<1>3. ASSUME Running PROVE cur.op \notin {"raw", "rawor", "negated", "minusone", "failhost"}
  BY <1>1, <1>3, Here DEF AllConvert, Converts, steps
<1>4. CASE Running /\ Taken /\ HostMove
  <2>1. \A r \in OnSuccess(cur.op) : r \notin {"raw", "unconverted"}
    BY <1>2 DEF OnSuccess
  <2>2. OnFailure(cur.op) \notin {"raw", "unconverted"}
    BY <1>3, <1>4 DEF OnFailure
  <2> QED BY <1>4, <2>1, <2>2 DEF HostMove, GoesOn
<1>5. CASE Running /\ Taken /\ (FillMove \/ OwnMove)
  BY <1>2, <1>3, <1>5 DEF FillMove, OwnMove, GoesOn, Leaves
<1>6. CASE PlainMove \/ EndMove
  BY <1>2, <1>6 DEF PlainMove, EndMove, Leaves
<1> QED BY <1>4, <1>5, <1>6, Outcome

\* "All errnos that do_syscall() returns must be -TARGET_<errcode>", in every
\* case that puts each host call through get_errno(); the multiplexers, the
\* helpers and the or-ed results keep it so.
THEOREM ErrnosAreTargets ==
    ASSUME AllWellMade, AllConvert
    PROVE  Spec => []TargetErrnos
<1>1. Init => ErrnoInv
  BY DEF Init, ErrnoInv
<1>2. ASSUME CallInv, ErrnoInv, [Next]_vars PROVE ErrnoInv'
  <2>1. CASE Enter \/ Leave
    BY <1>2, <2>1, EndsClean DEF ErrnoInv
  <2>2. CASE UNCHANGED vars
    BY <1>2, <2>2 DEF vars, ErrnoInv
  <2> QED BY <1>2, <2>1, <2>2, NextIs, ErrnoMoves
<1>3. ErrnoInv => TargetErrnos
  BY DEF ErrnoInv, TargetErrnos
<1> QED BY <1>1, <1>2, <1>3, CallAlways, PTL DEF Spec

\* Structures: none that nobody filled is pending.
LEMMA GarbageMoves ==
    ASSUME AllWellMade, AllReadAll, CallInv, GarbageInv, Move
    PROVE  GarbageInv'
<1>1. UNCHANGED <<call, steps, Name>> /\ call \in Calls
  BY MoveFrame
<1> SUFFICES ASSUME Name \notin HandsOverGarbage PROVE garbage' = "no"
  BY <1>1 DEF GarbageInv
<1>2. garbage = "no"
  BY DEF GarbageInv
<1>3. ReadsAll(steps)
  BY <1>1 DEF AllReadAll, Name, steps
<1> USE DEF ghosts
<1>4. CASE Forget
  <2>1. Running /\ cur.op = "uninit"
    BY <1>4 DEF Forget, At
  <2>2. pc \in DOMAIN steps /\ cur = steps[pc]
    BY <2>1, Here
  <2> QED BY <1>3, <2>1, <2>2 DEF ReadsAll
<1>5. CASE TryLock
  <2> SUFFICES ASSUME LockFails(cur.p),
                      \E i \in pc + 1 .. pc + cur.arg : steps[i].op = "read"
               PROVE  FALSE
    BY <1>2, <1>5 DEF TryLock
  <2>1. Running /\ Taken /\ cur.op = "trylock"
    BY <1>5 DEF TryLock, At
  <2>2. pc \in DOMAIN steps /\ cur = steps[pc] /\ ~NeverNull(steps, pc)
    BY <2>1, CheckHolds, Here
  <2> QED BY <1>3, <2>1, <2>2 DEF ReadsAll, Window
<1>6. CASE HostSucceeds \/ HostFails \/ Fill
  BY <1>2, <1>6 DEF HostSucceeds, HostFails, Fill, HandOver
<1>7. CASE Skip \/ Finish \/ Lock \/ Access \/ Path \/ Quiet \/ ProbeStep \/ SetResult \/ MinusOneStep
           \/ Unset \/ Refuse \/ LeaveOnError
  BY <1>2, <1>7 DEF Skip, Finish, Lock, Access, Path, Quiet, ProbeStep, SetResult, MinusOneStep,
                    Unset, Refuse, LeaveOnError
<1>8. CASE PathTooLong \/ Fault \/ Stop \/ ExitProcess
  BY <1>2, <1>8 DEF PathTooLong, Fault, Stop, ExitProcess, Halt
<1> QED BY <1>4, <1>5, <1>6, <1>7, <1>8 DEF Move

\* The kernel is never given a structure that no conversion filled, although
\* the result of many conversions is ignored: where their pointer may be NULL
\* they read nothing.
THEOREM InputsInitialised ==
    ASSUME AllWellMade, AllReadAll
    PROVE  Spec => []HostInputInitialised
<1>1. Init => GarbageInv
  BY DEF Init, GarbageInv
<1>2. ASSUME CallInv, GarbageInv, [Next]_vars PROVE GarbageInv'
  <2>1. CASE Enter \/ Leave
    BY <1>2, <2>1, EndsClean DEF GarbageInv
  <2>2. CASE UNCHANGED vars
    BY <1>2, <2>2 DEF vars, GarbageInv, Name
  <2> QED BY <1>2, <2>1, <2>2, NextIs, GarbageMoves
<1>3. GarbageInv => HostInputInitialised
  BY DEF GarbageInv, HostInputInitialised
<1> QED BY <1>1, <1>2, <1>3, CallAlways, PTL DEF Spec-----------------------------------------------------------------------------
\* Nothing is stored while an error is in ret, and nothing fails after a store.
LEMMA StoreMoves ==
    ASSUME AllWellMade, AllStoreLast, CallInv, StoreInv, Move
    PROVE  StoreInv'
<1> DEFINE Left(n, j) == \A k \in 1 .. n : k > j => ~(steps[k].op = "leave" /\ Always(steps[k]))
           Stored(n) == \E i \in 1 .. n : steps[i].op \in {"write", "fill"}
           Erred(n) == \E j \in 1 .. n : KeepsError(steps[j]) /\ Left(n, j)
<1>1. /\ UNCHANGED <<call, steps, Name>> /\ status = "run" /\ call \in Calls
      /\ 1 .. pc - 1 \subseteq 1 .. pc' - 1 /\ (pc' = pc + 1 => pc \in 1 .. pc' - 1)
      /\ pc' = pc + 1 => 1 .. pc' - 1 = (1 .. pc - 1) \cup {pc}
  BY MoveFrame
<1> SUFFICES ASSUME Name \notin WritesOnFailure
             PROVE  /\ wrote' => ~is_error(ret') /\ Stored(pc' - 1)
                    /\ status' = "run" /\ is_error(ret') => Erred(pc' - 1)
  BY <1>1 DEF StoreInv, is_error
<1>2. /\ wrote => ~is_error(ret) /\ Stored(pc - 1)
      /\ is_error(ret) => Erred(pc - 1)
  BY <1>1 DEF StoreInv
<1>3. StoresLast(steps)
  BY <1>1 DEF AllStoreLast, Name, steps
<1>4. ASSUME Running PROVE pc \in DOMAIN steps /\ cur = steps[pc] /\ pc \in Nat \ {0}
  BY <1>4, Here
<1>5. ASSUME wrote, Running PROVE ~MakesError(steps, pc)
  <2>1. PICK i \in 1 .. pc - 1 : steps[i].op \in {"write", "fill"}
    BY <1>2, <1>5
  <2>2. Len(steps) \in Nat /\ DOMAIN steps = 1 .. Len(steps) /\ pc \in 1 .. Len(steps)
    BY <1>4, <1>5, StepsWell DEF CallInv, TypeOK
  <2>3. i \in DOMAIN steps /\ pc \in i + 1 .. Len(steps)
    <3>1. ASSUME NEW l \in Nat, NEW q \in 1 .. l, NEW h \in 1 .. q - 1
          PROVE  h \in 1 .. l /\ q \in h + 1 .. l
      BY <3>1
    <3> QED BY <2>2, <3>1
  <2> QED BY <1>3, <2>1, <2>3 DEF StoresLast
<1>6. ASSUME wrote, wrote' = wrote PROVE Stored(pc' - 1)
  BY <1>1, <1>2, <1>6
\* the step just taken is the last one passed
<1>7. ASSUME Running, pc' = pc + 1 PROVE pc \in 1 .. pc' - 1 /\ Left(pc' - 1, pc)
  <2>1. \A k \in 1 .. pc' - 1 : ~(k > pc)
    BY <1>4, <1>7
  <2> QED BY <1>1, <1>7, <2>1
\* steps that do not end an error
<1>8. ASSUME is_error(ret), \A k \in (1 .. pc' - 1) \ (1 .. pc - 1) : ~(steps[k].op = "leave" /\ Always(steps[k]))
      PROVE  Erred(pc' - 1)
  <2>1. PICK j \in 1 .. pc - 1 : KeepsError(steps[j]) /\ Left(pc - 1, j)
    BY <1>2, <1>8
  <2>2. j \in 1 .. pc' - 1 /\ Left(pc' - 1, j)
    BY <1>1, <1>8, <2>1
  <2> QED BY <2>1, <2>2
<1>9. ASSUME Running, Taken, HostMove
      PROVE  /\ wrote' => ~is_error(ret') /\ Stored(pc' - 1)
             /\ status' = "run" /\ is_error(ret') => Erred(pc' - 1)
  <2>1. pc' = pc + 1 /\ wrote' = wrote /\ cur.op \in HostOps
    BY <1>9 DEF HostMove, GoesOn
  <2>2. CASE cur.op = "positive"
    <3>1. ret' \in {"ok", "positive"}
      BY <1>9, <2>2 DEF HostMove, GoesOn, OnSuccess, OnFailure
    <3> QED BY <1>6, <2>1, <3>1 DEF is_error
  <2>3. CASE cur.op # "positive"
    <3>1. KeepsError(steps[pc])
      BY <1>4, <1>9, <2>1, <2>3 DEF KeepsError
    <3>2. ~wrote
      BY <1>5, <1>9, <3>1 DEF MakesError
    <3> QED BY <1>7, <1>9, <2>1, <3>1, <3>2
  <2> QED BY <2>2, <2>3
<1>10. ASSUME Running, Taken, FillMove
       PROVE  /\ wrote' => ~is_error(ret') /\ Stored(pc' - 1)
              /\ status' = "run" /\ is_error(ret') => Erred(pc' - 1)
  <2>1. pc' = pc + 1 /\ cur.op = "fill" /\ steps[pc].op = "fill"
    BY <1>4, <1>10 DEF FillMove, GoesOn
  <2>2. KeepsError(steps[pc])
    BY <2>1 DEF KeepsError
  <2>3. ~wrote
    BY <1>5, <1>10, <2>2 DEF MakesError
  <2>4. Stored(pc' - 1) /\ Erred(pc' - 1)
    BY <1>7, <1>10, <2>1, <2>2
  <2>5. wrote' => ret' = "ok"
    BY <1>10, <2>3 DEF FillMove, GoesOn
  <2> QED BY <2>4, <2>5 DEF is_error
<1>11. ASSUME Running, Taken, OwnMove
       PROVE  /\ wrote' => ~is_error(ret') /\ Stored(pc' - 1)
              /\ status' = "run" /\ is_error(ret') => Erred(pc' - 1)
  <2>1. wrote' = wrote
    BY <1>11 DEF OwnMove
  <2>2. CASE cur.op = "lock" /\ LockFails(cur.p) /\ Leaves("efault", host)
    <3>1. ~NeverNull(steps, pc) /\ cur = steps[pc]
      BY <1>4, <1>11, <2>2, CheckHolds
    <3>2. ~wrote
      BY <1>5, <1>11, <2>2, <3>1 DEF MakesError, MayFault
    <3> QED BY <2>1, <2>2, <3>2 DEF Leaves
  <2>3. CASE cur.op \in {"probe", "fail", "failhost"} /\ status' = "done"
    <3>1. ~wrote
      BY <1>4, <1>5, <1>11, <2>3 DEF MakesError
    <3> QED BY <2>1, <2>3, <3>1
  <2>4. CASE cur.op = "result" /\ ret' = "ok"
    BY <1>6, <2>1, <2>4 DEF is_error
  <2>5. CASE cur.op = "minusone" /\ pc' = pc + 1
    <3>1. KeepsError(steps[pc])
      BY <1>4, <1>11, <2>5 DEF KeepsError
    <3>2. ~wrote
      BY <1>5, <1>11, <3>1 DEF MakesError
    <3> QED BY <1>7, <1>11, <2>1, <2>5, <3>1, <3>2
  <2>6. CASE cur.op = "leave" /\ ret' = ret /\ (status' = "done" \/ ~is_error(ret))
    BY <1>2, <1>6, <2>1, <2>6
  <2> QED BY <1>11, <2>2, <2>3, <2>4, <2>5, <2>6 DEF OwnMove, Leaves, GoesOn
<1>12. ASSUME PlainMove
       PROVE  /\ wrote' => ~is_error(ret') /\ Stored(pc' - 1)
              /\ status' = "run" /\ is_error(ret') => Erred(pc' - 1)
  <2>1. ret' = ret
    BY <1>12 DEF PlainMove
  <2>2. CASE Running /\ pc' = pc + 1 /\ wrote' = wrote /\ (~Taken \/ cur.op \in PlainOps)
    <3>1. ~(steps[pc].op = "leave" /\ Always(steps[pc]))
      BY <1>4, <2>2 DEF Taken, PlainOps, Always
    <3>2. \A k \in (1 .. pc' - 1) \ (1 .. pc - 1) : k = pc
      BY <1>1, <2>2
    <3> QED BY <1>2, <1>6, <1>8, <2>1, <2>2, <3>1, <3>2
  <2>3. CASE Running /\ cur.op = "trylock" /\ wrote' = wrote
    <3>1. \A k \in (1 .. pc' - 1) \ (1 .. pc - 1) : steps[k].op # "leave"
      BY <1>4, <2>3, Forward DEF CallInv
    <3> QED BY <1>2, <1>6, <1>8, <2>1, <2>3, <3>1
  <2>4. CASE Running /\ Taken /\ cur.op = "write" /\ pc' = pc + 1
    <3>1. ~is_error(ret)
      <4> SUFFICES ASSUME is_error(ret) PROVE FALSE
        OBVIOUS
      <4>1. cur.when # "ok"
        BY <2>4 DEF Taken
      <4>2. PICK j \in 1 .. pc - 1 : KeepsError(steps[j]) /\ Left(pc - 1, j)
        BY <1>2
      <4>3. PICK k \in j + 1 .. pc - 1 : steps[k].op = "leave" /\ Always(steps[k])
        BY <1>3, <1>4, <2>4, <4>1, <4>2 DEF StoresLast
      <4>4. k \in 1 .. pc - 1 /\ k > j
        <5>1. ASSUME NEW q \in Nat, NEW h \in 1 .. q - 1, NEW i \in h + 1 .. q - 1
              PROVE  i \in 1 .. q - 1 /\ i > h
          BY <5>1
        <5> QED BY <1>4, <2>4, <5>1
      <4> QED BY <4>2, <4>3, <4>4
    <3>2. Stored(pc' - 1)
      BY <1>1, <1>4, <2>4
    <3> QED BY <2>1, <3>1, <3>2
  <2>5. CASE pc' = pc /\ status' \in {"fault", "abort", "gone"} /\ wrote' = wrote
    BY <1>2, <2>1, <2>5
  <2> QED BY <1>12, <2>2, <2>3, <2>4, <2>5 DEF PlainMove
<1>13. ASSUME EndMove
       PROVE  /\ wrote' => ~is_error(ret') /\ Stored(pc' - 1)
              /\ status' = "run" /\ is_error(ret') => Erred(pc' - 1)
  BY <1>2, <1>13 DEF EndMove, Leaves
<1> QED BY <1>9, <1>10, <1>11, <1>12, <1>13, Outcome

\* A call that returns an error has stored nothing in guest memory, in every
\* case that stores last.
THEOREM FailuresStoreNothing ==
    ASSUME AllWellMade, AllStoreLast
    PROVE  Spec => []FailedCallWritesNothing
<1>1. Init => StoreInv
  BY DEF Init, StoreInv, is_error
<1>2. ASSUME CallInv, StoreInv, [Next]_vars PROVE StoreInv'
  <2>1. CASE Enter \/ Leave
    BY <1>2, <2>1, EndsClean DEF StoreInv, is_error
  <2>2. CASE UNCHANGED vars
    BY <1>2, <2>2 DEF vars, StoreInv, Name, steps, is_error
  <2> QED BY <1>2, <2>1, <2>2, NextIs, StoreMoves
<1>3. StoreInv => FailedCallWritesNothing
  BY DEF StoreInv, FailedCallWritesNothing
<1> QED BY <1>1, <1>2, <1>3, CallAlways, PTL DEF Spec-----------------------------------------------------------------------------
\* ret has a value once a step that settles it is passed, and the value tells
\* the outcome of the last host call.
LEMMA ReportMoves ==
    ASSUME AllWellMade, AllReportResult, CallInv, ReportInv, Move
    PROVE  ReportInv'
<1> DEFINE Open(n) == \A i \in 1 .. n : ~Settles(steps[i])
           Decided(n) == \E i \in 1 .. n : Deciding(steps[i])
           Erred(n) == \E i \in 1 .. n : Deciding(steps[i]) /\ steps[i].op \notin {"raw", "rawor"}
           Goal == /\ ret' = "unset" => Open(pc' - 1)
                   /\ status' = "done" => ret' # "unset"
                   /\ status' = "run" /\ host' # "none" => Decided(pc' - 1)
                   /\ status' = "run" /\ ret' = "error" => Erred(pc' - 1)
                   /\ host' = "failed" => is_error(ret')
                   /\ host' = "ok" => ret' # "error"
<1>1. /\ UNCHANGED <<call, steps, Name>> /\ status = "run" /\ call \in Calls
      /\ 1 .. pc - 1 \subseteq 1 .. pc' - 1 /\ (pc' = pc + 1 => pc \in 1 .. pc' - 1)
      /\ pc' = pc + 1 => 1 .. pc' - 1 = (1 .. pc - 1) \cup {pc}
  BY MoveFrame
<1> SUFFICES ASSUME Name \notin MisreportsOutcome PROVE Goal
  BY <1>1 DEF ReportInv, is_error
<1>2. /\ ret = "unset" => Open(pc - 1)
      /\ host # "none" => Decided(pc - 1)
      /\ ret = "error" => Erred(pc - 1)
      /\ host = "failed" => is_error(ret)
      /\ host = "ok" => ret # "error"
  BY <1>1 DEF ReportInv
<1>3. ReportsResult(steps)
  BY <1>1 DEF AllReportResult, Name, steps
<1>4. ASSUME Running PROVE pc \in DOMAIN steps /\ cur = steps[pc] /\ pc \in Nat \ {0}
  BY <1>4, Here
<1>5. ASSUME Decided(pc - 1) PROVE Decided(pc' - 1)
  BY <1>1, <1>5
<1>6. ASSUME Erred(pc - 1) PROVE Erred(pc' - 1)
  BY <1>1, <1>6
<1>7. ASSUME pc' = pc + 1, Open(pc - 1), ~Settles(steps[pc]) PROVE Open(pc' - 1)
  BY <1>1, <1>7
<1>8. host \in {"none", "ok", "failed"}
  BY DEF CallInv, TypeOK
<1>9. ASSUME Running, Taken, HostMove PROVE Goal
  <2>1. pc' = pc + 1 /\ cur.op \in HostOps /\ steps[pc] = cur /\ pc \in 1 .. pc' - 1
    BY <1>1, <1>4, <1>9 DEF HostMove, GoesOn
  <2>2. cur.op \notin {"positive", "signed"}
    BY <1>3, <1>4, <1>9 DEF ReportsResult
  <2>3. Decided(pc' - 1)
    BY <2>1 DEF Deciding
  <2>4. status' = status
    BY <1>9 DEF HostMove, GoesOn
  <2>5. CASE cur.op = "rawor" /\ ret' = ret /\ host' = "ok"
    <3>1. ret # "error"
      BY <1>2, <1>3, <1>4, <1>9, <2>5 DEF ReportsResult
    <3>2. ~Settles(steps[pc])
      BY <2>1, <2>5 DEF Settles, Assigns
    <3> QED BY <1>1, <1>2, <1>7, <2>1, <2>3, <2>4, <2>5, <3>1, <3>2
  <2>6. CASE cur.op \in HostOps \ {"rawor"} /\ ret' = "ok" /\ host' = "ok"
    BY <1>1, <2>3, <2>4, <2>6
  <2>7. CASE cur.op \in {"raw", "rawor"} /\ ret' = "raw" /\ host' = "failed"
    BY <1>1, <2>3, <2>4, <2>7 DEF is_error
  <2>8. CASE cur.op \notin {"raw", "rawor"} /\ ret' \in {"error", "unconverted"} /\ host' = "failed"
    <3>1. Erred(pc' - 1)
      BY <2>1, <2>8 DEF Deciding
    <3> QED BY <1>1, <2>3, <2>4, <2>8, <3>1 DEF is_error
  <2>9. \/ cur.op = "rawor" /\ ret' = ret /\ host' = "ok"
        \/ cur.op \in HostOps \ {"rawor"} /\ ret' = "ok" /\ host' = "ok"
        \/ cur.op \in {"raw", "rawor"} /\ ret' = "raw" /\ host' = "failed"
        \/ cur.op \notin {"raw", "rawor"} /\ ret' \in {"error", "unconverted"} /\ host' = "failed"
    BY <1>9, <2>1, <2>2 DEF HostMove, GoesOn, OnSuccess, OnFailure
  <2> QED BY <2>5, <2>6, <2>7, <2>8, <2>9
<1>10. ASSUME Running, Taken, FillMove PROVE Goal
  <2>1. pc' = pc + 1 /\ steps[pc].op = "fill" /\ pc \in 1 .. pc' - 1
    BY <1>1, <1>4, <1>10 DEF FillMove, GoesOn
  <2>2. Decided(pc' - 1) /\ Erred(pc' - 1)
    BY <2>1 DEF Deciding
  <2>3. \/ ret' = "ok" /\ host' = "ok" /\ status' = status
        \/ ret' = "error" /\ host' = "failed" /\ status' = status
    BY <1>10 DEF FillMove, GoesOn
  <2> QED BY <1>1, <2>2, <2>3 DEF is_error
<1>11. ASSUME Running, Taken, OwnMove PROVE Goal
  <2>1. CASE cur.op = "lock" /\ Leaves("efault", host)
    BY <2>1 DEF Leaves, is_error
  <2>2. CASE cur.op = "probe" /\ Leaves("error", "failed")
    BY <2>2 DEF Leaves, is_error
  <2>3. CASE cur.op \in {"fail", "failhost"} /\ (\E r \in {"error", "unconverted"} : Leaves(r, host))
    <3>1. ~Decided(pc - 1)
      BY <1>3, <1>4, <1>11, <2>3 DEF ReportsResult
    <3>2. host = "none"
      BY <1>2, <3>1
    <3> QED BY <2>3, <3>2 DEF Leaves
  <2>4. CASE cur.op = "result" /\ GoesOn("ok", host)
    <3>1. cur.when = "ok" \/ ~Decided(pc - 1)
      BY <1>3, <1>4, <1>11, <2>4 DEF ReportsResult
    <3>2. host # "failed"
      BY <1>2, <1>11, <3>1 DEF Taken
    <3> QED BY <1>1, <1>2, <1>5, <2>4, <3>2 DEF GoesOn
  <2>5. CASE cur.op = "minusone" /\ GoesOn("raw", host)
    BY <1>1, <1>2, <1>5, <2>5 DEF GoesOn, is_error
  <2>6. CASE cur.op = "leave" /\ is_error(ret) /\ Leaves(ret, host)
    BY <1>2, <2>6 DEF Leaves, is_error
  <2>7. CASE cur.op = "leave" /\ ~is_error(ret) /\ GoesOn(ret, host)
    <3>1. ~Settles(steps[pc])
      BY <1>4, <1>11, <2>7 DEF Settles, Assigns, HostOps
    <3> QED BY <1>1, <1>2, <1>5, <1>6, <1>7, <2>7, <3>1 DEF GoesOn
  <2> QED BY <1>11, <2>1, <2>2, <2>3, <2>4, <2>5, <2>6, <2>7 DEF OwnMove
<1>12. ASSUME PlainMove PROVE Goal
  <2>1. ret' = ret /\ host' = host /\ status' # "done"
    BY <1>1, <1>12 DEF PlainMove
  <2>2. ASSUME Open(pc - 1) PROVE Open(pc' - 1)
    <3>1. CASE Running /\ pc' = pc + 1 /\ (~Taken \/ cur.op \in PlainOps)
      <4>1. ~Settles(steps[pc])
        BY <1>4, <3>1 DEF Settles, Assigns, Always, Taken, PlainOps, HostOps
      <4> QED BY <1>7, <2>2, <3>1, <4>1
    <3>2. CASE Running /\ cur.op = "trylock"
      <4>1. \A k \in (1 .. pc' - 1) \ (1 .. pc - 1) : steps[k].op \in {"trylock", "read", "write"}
        BY <1>4, <3>2, Forward DEF CallInv
      <4>2. \A k \in (1 .. pc' - 1) \ (1 .. pc - 1) : ~Settles(steps[k])
        BY <4>1 DEF Settles, Assigns, HostOps
      <4> QED BY <2>2, <4>2
    <3>3. CASE pc' = pc
      BY <2>2, <3>3
    <3> QED BY <1>12, <3>1, <3>2, <3>3 DEF PlainMove, PlainOps
  <2> QED BY <1>1, <1>2, <1>5, <1>6, <2>1, <2>2
<1>13. ASSUME EndMove PROVE Goal
  <2>1. PICK i \in DOMAIN steps : Settles(steps[i])
    BY <1>3 DEF ReportsResult, Settles
  <2>2. i \in 1 .. pc - 1
    <3>1. Len(steps) \in Nat /\ DOMAIN steps = 1 .. Len(steps) /\ pc \in 1 .. Len(steps) + 1
      BY StepsWell DEF CallInv, TypeOK
    <3>2. pc > Len(steps)
      BY <1>13 DEF EndMove
    <3>3. ASSUME NEW l \in Nat, NEW q \in 1 .. l + 1, q > l, NEW h \in 1 .. l PROVE h \in 1 .. q - 1
      BY <3>3
    <3> QED BY <3>1, <3>2, <3>3
  <2>3. ret # "unset"
    BY <1>2, <2>1, <2>2
  <2> QED BY <1>2, <1>13, <2>3 DEF EndMove, Leaves
<1> QED BY <1>9, <1>10, <1>11, <1>12, <1>13, Outcome

\* The guest is told what the last host call did, in every case that assigns
\* its result and never overrides a host call's.
THEOREM OutcomesReported ==
    ASSUME AllWellMade, AllReportResult
    PROVE  Spec => []OutcomeReported
<1>1. Init => ReportInv
  BY DEF Init, ReportInv
<1>2. ASSUME CallInv, ReportInv, [Next]_vars PROVE ReportInv'
  <2>1. CASE Enter \/ Leave
    BY <1>2, <2>1, EndsClean DEF ReportInv
  <2>2. CASE UNCHANGED vars
    BY <1>2, <2>2 DEF vars, ReportInv, Name, steps, is_error
  <2> QED BY <1>2, <2>1, <2>2, NextIs, ReportMoves
<1>3. ReportInv => OutcomeReported
  BY DEF ReportInv, OutcomeReported, Returned
<1> QED BY <1>1, <1>2, <1>3, CallAlways, PTL DEF Spec-----------------------------------------------------------------------------
\* Only pointers that went through path() are names of the emulator.
LEMMA MovedMoves ==
    ASSUME AllWellMade, CallInv, FillInv, Move
    PROVE  (moved \subseteq {steps[i].p : i \in Paths(steps, pc - 1)})'
<1>1. /\ steps' = steps /\ 1 .. pc - 1 \subseteq 1 .. pc' - 1
      /\ pc' = pc + 1 => pc \in 1 .. pc' - 1
  BY MoveFrame
<1>2. Paths(steps, pc - 1) \subseteq Paths(steps, pc' - 1)
  BY <1>1 DEF Paths
<1>3. moved \subseteq {steps[i].p : i \in Paths(steps, pc' - 1)}
  BY <1>2 DEF FillInv
<1>4. CASE Running /\ cur.op \in PathOps /\ pc' = pc + 1 /\ moved' = moved \cup {cur.p}
  <2>1. pc \in Paths(steps, pc' - 1) /\ cur.p = steps[pc].p
    BY <1>1, <1>4, Here DEF Paths
  <2> QED BY <1>1, <1>3, <1>4, <2>1
<1>5. CASE moved' = moved
  BY <1>1, <1>3, <1>5
<1> QED BY <1>4, <1>5, MoveValues DEF CallInv

\* Once a buffer was to be filled it is filled, or ret tells that it is not.
LEMMA FillMoves ==
    ASSUME AllWellMade, AllFillGuest, CallInv, FillInv, Move
    PROVE  FillInv'
<1> DEFINE Filled(n) == \E i \in 1 .. n : steps[i].op = "fill"
           Kept == Filled(pc' - 1) => wrote' \/ is_error(ret')
           Ends == status' = "done" /\ ret' = "ok" => pc' > Len(steps)
<1>1. /\ UNCHANGED <<call, steps, Name>> /\ status = "run" /\ call \in Calls
      /\ 1 .. pc - 1 \subseteq 1 .. pc' - 1
      /\ pc' = pc + 1 => 1 .. pc' - 1 = (1 .. pc - 1) \cup {pc}
  BY MoveFrame
<1>2. Ends
  <2>1. CASE Running /\ Taken /\ (HostMove \/ FillMove)
    BY <1>1, <2>1 DEF HostMove, FillMove, GoesOn
  <2>2. CASE Running /\ Taken /\ OwnMove
    BY <1>1, <2>2 DEF OwnMove, GoesOn, Leaves, is_error
  <2>3. CASE PlainMove
    BY <1>1, <2>3 DEF PlainMove
  <2>4. CASE EndMove
    BY <2>4 DEF EndMove, Leaves
  <2> QED BY <2>1, <2>2, <2>3, <2>4, Outcome
<1>3. ASSUME Name \notin FillsOwnCopy PROVE Kept
  <2>1. FillsGuest(steps)
    BY <1>1, <1>3 DEF AllFillGuest, Name, steps
  <2>2. Filled(pc - 1) => wrote \/ is_error(ret)
    BY <1>3 DEF FillInv
  <2>3. ASSUME Running PROVE pc \in DOMAIN steps /\ cur = steps[pc]
    BY <2>3, Here
  \* a step that is passed without its effect is no fill
  <2>4. ASSUME pc' = pc + 1, steps[pc].op # "fill", wrote' = wrote, ret' = ret \/ wrote PROVE Kept
    <3>1. Filled(pc' - 1) => Filled(pc - 1)
      BY <1>1, <2>4
    <3> QED BY <2>2, <2>4, <3>1
  \* after a fill, a host call or a constant result needs that it succeeded
  <2>5. ASSUME Running, Taken, cur.op \in HostOps \cup {"result"}, Filled(pc - 1) PROVE wrote
    <3>1. PICK i \in 1 .. pc - 1 : steps[i].op = "fill"
      BY <2>5
    <3>2. Len(steps) \in Nat /\ DOMAIN steps = 1 .. Len(steps) /\ pc \in 1 .. Len(steps)
      BY <2>3, <2>5, StepsWell DEF CallInv, TypeOK
    <3>3. i \in DOMAIN steps /\ pc \in i + 1 .. Len(steps)
      <4>1. ASSUME NEW l \in Nat, NEW q \in 1 .. l, NEW h \in 1 .. q - 1
            PROVE  h \in 1 .. l /\ q \in h + 1 .. l
        BY <4>1
      <4> QED BY <3>2, <4>1
    <3>4. cur.when = "ok"
      BY <2>1, <2>3, <2>5, <3>1, <3>3 DEF FillsGuest
    <3> QED BY <2>2, <2>5, <3>4 DEF Taken
  <2>6. CASE Running /\ Taken /\ cur.op \in HostOps \cup {"result"} /\ wrote' = wrote /\ pc' = pc + 1
    <3>1. steps[pc].op # "fill"
      BY <2>3, <2>6 DEF HostOps
    <3>2. Filled(pc' - 1) => Filled(pc - 1)
      BY <1>1, <2>6, <3>1
    <3> QED BY <2>5, <2>6, <3>2
  <2>7. CASE Running /\ Taken /\ FillMove
    <3>1. pc \in DOMAIN steps /\ cur = steps[pc] /\ steps[pc].op = "fill"
      BY <2>3, <2>7 DEF FillMove
    <3>2. cur.p \notin moved
      <4>1. \A j \in 1 .. pc - 1 : steps[j].op \in PathOps => steps[j].p # cur.p
        BY <2>1, <3>1 DEF FillsGuest
      <4>2. moved \subseteq {steps[i].p : i \in Paths(steps, pc - 1)}
        BY DEF FillInv
      <4> QED BY <4>1, <4>2 DEF Paths
    <3> QED BY <2>7, <3>2 DEF FillMove, GoesOn, is_error
  <2>8. CASE Running /\ Taken /\ OwnMove /\ cur.op # "result"
    <3>1. CASE is_error(ret')
      BY <3>1
    <3>2. CASE cur.op = "leave" /\ GoesOn(ret, host)
      BY <2>3, <2>4, <2>8, <3>2 DEF OwnMove, GoesOn
    <3> QED BY <2>8, <3>1, <3>2 DEF OwnMove, GoesOn, Leaves, is_error
  <2>9. CASE PlainMove
    <3>1. ret' = ret /\ (wrote => wrote')
      BY <2>9 DEF PlainMove
    <3>2. Filled(pc' - 1) => Filled(pc - 1)
      <4>1. CASE Running /\ pc' = pc + 1 /\ (~Taken \/ cur.op \in PlainOps)
        <5>1. steps[pc].op # "fill"
          BY <2>1, <2>3, <4>1 DEF FillsGuest, Always, Taken, PlainOps
        <5> QED BY <1>1, <4>1, <5>1
      <4>2. CASE Running /\ cur.op = "trylock"
        <5>1. \A k \in (1 .. pc' - 1) \ (1 .. pc - 1) : steps[k].op # "fill"
          BY <2>3, <4>2, Forward DEF CallInv
        <5> QED BY <5>1
      <4>3. CASE pc' = pc
        BY <4>3
      <4> QED BY <2>9, <4>1, <4>2, <4>3 DEF PlainMove, PlainOps
    <3> QED BY <2>2, <3>1, <3>2 DEF is_error
  <2>10. CASE EndMove
    BY <2>2, <2>10 DEF EndMove, Leaves
  <2>11. HostMove => cur.op \in HostOps /\ wrote' = wrote /\ pc' = pc + 1
    BY DEF HostMove, GoesOn
  <2>12. OwnMove /\ cur.op = "result" => wrote' = wrote /\ pc' = pc + 1
    BY DEF OwnMove, GoesOn
  <2> QED BY <2>6, <2>7, <2>8, <2>9, <2>10, <2>11, <2>12, Outcome
<1> QED BY <1>1, <1>2, <1>3, MovedMoves DEF FillInv, is_error

\* What the kernel was asked to store for the guest is in guest memory when the
\* call succeeds, in every case that hands the kernel the guest's own buffer.
THEOREM BuffersAreGuests ==
    ASSUME AllWellMade, AllFillGuest
    PROVE  Spec => []FilledBufferIsGuests
<1>1. Init => FillInv
  BY DEF Init, FillInv
<1>2. ASSUME CallInv, FillInv, [Next]_vars PROVE FillInv'
  <2>1. CASE Enter \/ Leave
    BY <1>2, <2>1, EndsClean DEF FillInv
  <2>2. CASE UNCHANGED vars
    BY <1>2, <2>2 DEF vars, FillInv, Name, steps, is_error
  <2> QED BY <1>2, <2>1, <2>2, NextIs, FillMoves
<1>3. ASSUME CallInv, FillInv PROVE FilledBufferIsGuests
  <2> SUFFICES ASSUME Returned, ret = "ok", Name \notin FillsOwnCopy,
                      NEW i \in DOMAIN steps, steps[i].op = "fill"
               PROVE  wrote
    BY DEF FilledBufferIsGuests
  <2>1. Len(steps) \in Nat /\ DOMAIN steps = 1 .. Len(steps) /\ pc \in 1 .. Len(steps) + 1
    BY <1>3, StepsWell DEF CallInv, TypeOK
  <2>2. pc > Len(steps)
    BY <1>3 DEF FillInv, Returned
  <2>3. i \in 1 .. pc - 1
    <3>1. ASSUME NEW l \in Nat, NEW q \in 1 .. l + 1, q > l, NEW h \in 1 .. l PROVE h \in 1 .. q - 1
      BY <3>1
    <3> QED BY <2>1, <2>2, <3>1
  <2> QED BY <1>3, <2>3 DEF FillInv, is_error
<1> QED BY <1>1, <1>2, <1>3, CallAlways, PTL DEF Spec
=============================================================================
