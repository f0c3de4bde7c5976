---------------------------- MODULE SyscallXlate ----------------------------
(***************************************************************************)
(* One translated system call after another: apply() of                    *)
(* src/src/cpu/{amd64,i386,arm}syscalls.cc around do_syscall() of          *)
(* src/src/qemu/translatedsyscall.c.                                       *)
(*                                                                         *)
(* A call is a sequence of the steps of GuestAccess; this module says what *)
(* each step does.  Every branch of every call is run with each of its     *)
(* guest pointers NULL, valid or invalid, with guest memory based at       *)
(* address zero or elsewhere, and with every host call succeeding or       *)
(* failing.                                                                *)
(*                                                                         *)
(* Left out: what the data are.  The arguments that are not pointers are   *)
(* the choice of the branch.                                               *)
(***************************************************************************)
EXTENDS SyscallTable

CONSTANT Bases    \* what getBase() may be: "zero", "elsewhere"

ASSUME BasesAssumption == Bases \subseteq {"zero", "elsewhere"} /\ Bases # {}

(***************************************************************************)
(* State.                                                                  *)
(***************************************************************************)
VARIABLES
    base,     \* getBase(): fixed while the guest runs
    call,     \* the call being translated: name, branch, steps; or NoCall
    ptrs,     \* each guest pointer of the call: "null", "good" or "bad"
    pc,       \* the next step
    ret,      \* ret of do_syscall()
    status,   \* "idle" (guest code runs), "run", "done" (at the label fail),
              \* "fault" (the emulator's own access trapped), "abort", "gone"
    temps,    \* length of g_to_delete
    \* what happened during this call, for the properties
    host,     \* outcome of the last host call that decides the result
    did,      \* a host call changed something outside the caller
    wrote,    \* guest memory was stored to
    garbage,  \* a host structure nobody stored in: "no", "pending", "given"
    moved     \* the pointers path() replaced by a name of the emulator

vars == <<base, call, ptrs, pc, ret, status, temps, host, did, wrote, garbage, moved>>

NoCall == <<"none", "", <<>>>>
steps == call[3]
cur == steps[pc]

\* the guest address p, as an address the emulator or the kernel can use
Usable(p) == ptrs[p] = "good"
IsNull(p) == ptrs[p] = "null"
\* lock_user() and lock_user_struct(): base plus address, compared with NULL
LockFails(p) == IsNull(p) /\ base = "zero"

is_error(r) == r \in {"error", "efault", "raw", "unconverted"}

Rets == {"unset", "ok", "positive", "error", "efault", "raw", "unconverted"}

TypeOK ==
    /\ base \in Bases
    /\ call \in Calls \cup {NoCall}
    /\ pc \in 1 .. Len(steps) + 1
    /\ ptrs \in [PtrsOf(steps) -> {"null", "good", "bad"}]
    /\ ret \in Rets
    /\ status \in {"idle", "run", "done", "fault", "abort", "gone"}
    \* every call frees what it made
    /\ temps \in 0 .. MaxTemps
    /\ host \in {"none", "ok", "failed"}
    /\ did \in BOOLEAN /\ wrote \in BOOLEAN
    /\ garbage \in {"no", "pending", "given"}
    /\ moved \subseteq PtrsOf(steps)

Init ==
    /\ base \in Bases
    /\ call = NoCall /\ ptrs = <<>> /\ pc = 1 /\ ret = "unset" /\ status = "idle"
    /\ temps = 0 /\ host = "none" /\ did = FALSE /\ wrote = FALSE /\ garbage = "no"
    /\ moved = {}

(***************************************************************************)
(* Steps.                                                                  *)
(***************************************************************************)
ghosts == <<host, did, wrote, garbage, moved>>

\* the branch of the switch: the arguments decide it, and whether the
\* pointers it tests are NULL
BranchTaken(c, a) ==
    \A i \in DOMAIN c[3] : /\ c[3][i].op = "given" => a[c[3][i].p] # "null"
                           /\ c[3][i].op = "givennull" => a[c[3][i].p] = "null"

\* apply(): a special case, or no passthrough and do_syscall()
Enter ==
    /\ status = "idle"
    /\ \E c \in Calls : \E a \in [PtrsOf(c[3]) -> {"null", "good", "bad"}] :
        /\ BranchTaken(c, a)
        /\ call' = c /\ ptrs' = a
    /\ status' = "run" /\ pc' = 1 /\ ret' = "unset"
    /\ UNCHANGED <<base, temps, ghosts>>

\* apply() deletes the names path() made and returns to the guest
Leave ==
    /\ status = "done"
    /\ status' = "idle" /\ call' = NoCall /\ ptrs' = <<>> /\ pc' = 1 /\ ret' = "unset"
    /\ temps' = 0
    /\ host' = "none" /\ did' = FALSE /\ wrote' = FALSE /\ garbage' = "no" /\ moved' = {}
    /\ UNCHANGED base

Running == status = "run" /\ pc <= Len(steps)
\* the conditions the code puts around the step
Taken ==
    /\ \A q \in cur.nn : ~IsNull(q)
    /\ cur.when = "ok" => ~is_error(ret)
    /\ cur.when = "error" => is_error(ret)
At(op) == Running /\ Taken /\ cur.op = op

Advance == pc' = pc + 1 /\ UNCHANGED <<base, call, ptrs, status>>
Exit(r) == ret' = r /\ status' = "done" /\ UNCHANGED <<base, call, ptrs, pc>>
Halt(how) == status' = how /\ UNCHANGED <<base, call, ptrs, pc, ret, temps, ghosts>>

\* a step whose condition does not hold, or that only names the branch
Skip ==
    /\ Running
    /\ ~Taken \/ cur.op \in {"given", "givennull"}
    /\ Advance /\ UNCHANGED <<ret, temps, ghosts>>

\* the end of the case
Finish ==
    /\ status = "run" /\ pc > Len(steps)
    /\ status' = "done"
    /\ UNCHANGED <<base, call, ptrs, pc, ret, temps, ghosts>>

Lock ==
    /\ At("lock")
    /\ IF LockFails(cur.p) THEN Exit("efault") ELSE Advance /\ UNCHANGED ret
    /\ UNCHANGED <<temps, ghosts>>

\* a conversion whose result is ignored: what it would have read stays as the
\* compiler left it
TryLock ==
    /\ At("trylock")
    /\ IF LockFails(cur.p)
       THEN /\ pc' = pc + 1 + cur.arg
            /\ garbage' = IF \E i \in pc + 1 .. pc + cur.arg : steps[i].op = "read"
                          THEN "pending" ELSE garbage
            /\ UNCHANGED <<base, call, ptrs, status>>
       ELSE Advance /\ UNCHANGED garbage
    /\ UNCHANGED <<ret, temps, host, did, wrote, moved>>

\* the emulator's own load or store through a guest pointer
Access ==
    /\ At("read") \/ At("write")
    /\ Usable(cur.p)
    /\ Advance
    /\ wrote' = (wrote \/ cur.op = "write")
    /\ UNCHANGED <<ret, temps, host, did, garbage, moved>>

\* path(): the name is read, and copied when it is absolute
Path ==
    /\ At("path") \/ At("unixpath")
    /\ Usable(cur.p)
    /\ Advance
    /\ \/ UNCHANGED <<temps, moved>>
       \/ temps' = temps + 1 /\ moved' = moved \cup {cur.p}
    /\ UNCHANGED <<ret, host, did, wrote, garbage>>

\* the name no longer fits sun_path
PathTooLong == At("unixpath") /\ Usable(cur.p) /\ Halt("abort")

Fault ==
    /\ \E op \in {"read", "write", "path", "unixpath"} : At(op)
    /\ ~Usable(cur.p)
    /\ Halt("fault")

\* Mutant: the host's errno without the table of the target's.
HostErrno(op) ==
    CASE op \in {"raw", "rawor"} -> "raw"
      [] op = "positive" -> "positive"
      [] OTHER -> "unconverted"

\* What the result becomes when the host call failed: get_errno() makes
\* errno of the C library's -1.
OnFailure(op) ==
    CASE op \in {"raw", "rawor"} -> "raw"
      [] op = "positive" -> "positive"
      [] op = "negated" -> "unconverted"
      [] OTHER -> "error"
\* ... and when it succeeded
OnSuccess(op) ==
    CASE op = "rawor" -> {ret}
      [] op = "signed" -> {"ok", "error"}
      [] OTHER -> {"ok"}

HandOver == garbage' = IF garbage = "pending" THEN "given" ELSE garbage

HostSucceeds ==
    /\ Running /\ Taken /\ cur.op \in HostOps
    /\ \A p \in cur.arg : Usable(p)
    /\ ret' \in OnSuccess(cur.op)
    /\ host' = "ok"
    /\ did' = (did \/ cur.op # "get")
    /\ HandOver
    /\ Advance /\ UNCHANGED <<temps, wrote, moved>>

\* the kernel checks the addresses it is handed
HostFails ==
    /\ Running /\ Taken /\ cur.op \in HostOps
    /\ ret' = OnFailure(cur.op)
    /\ host' = "failed"
    /\ HandOver
    /\ Advance /\ UNCHANGED <<temps, did, wrote, moved>>

\* the kernel stores into the buffer it is given: the guest's, or the name
\* path() made of it
Fill ==
    /\ At("fill")
    /\ \/ /\ Usable(cur.p)
          /\ ret' = "ok" /\ host' = "ok"
          /\ did' = TRUE /\ wrote' = (wrote \/ cur.p \notin moved)
       \/ /\ ret' = "error" /\ host' = "failed" /\ UNCHANGED <<did, wrote>>
    /\ HandOver
    /\ Advance /\ UNCHANGED <<temps, moved>>

Quiet == At("quiet") /\ did' = TRUE /\ Advance /\ UNCHANGED <<ret, temps, host, wrote, garbage, moved>>

\* a failed probe is the result of the call
ProbeStep ==
    /\ At("probe")
    /\ \/ Advance /\ UNCHANGED <<ret, host>>
       \/ Exit("error") /\ host' = "failed"
    /\ UNCHANGED <<temps, did, wrote, garbage, moved>>

SetResult ==
    /\ At("result") /\ ret' = "ok" /\ Advance /\ UNCHANGED <<temps, ghosts>>
MinusOneStep ==
    /\ At("minusone") /\ ret' = "raw" /\ Advance /\ UNCHANGED <<temps, ghosts>>
Forget ==
    /\ At("uninit") /\ garbage' = "pending" /\ Advance
    /\ UNCHANGED <<ret, temps, host, did, wrote, moved>>
Unset == At("unassigned") /\ Advance /\ UNCHANGED <<ret, temps, ghosts>>
Refuse ==
    /\ \/ At("fail") /\ Exit("error")
       \/ At("failhost") /\ Exit("unconverted")
    /\ UNCHANGED <<temps, ghosts>>
LeaveOnError ==
    /\ At("leave")
    /\ IF is_error(ret) THEN Exit(ret) ELSE Advance /\ UNCHANGED ret
    /\ UNCHANGED <<temps, ghosts>>
Stop == At("abort") /\ Halt("abort")
ExitProcess == At("noreturn") /\ Halt("gone")

Over == status \in {"fault", "abort", "gone"} /\ UNCHANGED vars

Next ==
    \/ Enter \/ Leave \/ Skip \/ Finish \/ Lock \/ TryLock \/ Access \/ Path \/ PathTooLong
    \/ Fault \/ HostSucceeds \/ HostFails \/ Fill \/ Quiet \/ ProbeStep \/ SetResult \/ MinusOneStep
    \/ Forget \/ Unset \/ Refuse \/ LeaveOnError \/ Stop \/ ExitProcess \/ Over

Spec == Init /\ [][Next]_vars

(***************************************************************************)
(* Properties, outside the exceptions that SyscallTable names.             *)
(***************************************************************************)
Returned == status = "done"
Name == call[1]

\* A call that returns an error has stored nothing in guest memory: a guest
\* that repeats it after EINTR or EFAULT finds its buffers as it left them.
FailedCallWritesNothing ==
    Returned /\ is_error(ret) /\ Name \notin WritesOnFailure => ~wrote

\* EFAULT from one of do_syscall()'s own pointer checks comes before the host
\* call that changes something: no descriptor is opened, no data are read and
\* no child is reaped for a guest that is told it gave a bad address.
FaultedCallChangesNothing ==
    Returned /\ ret = "efault" /\ Name \notin EffectBeforeCheck => ~did

\* The kernel is never given a structure of the emulator's stack that the
\* conversion did not fill, although many conversions' results are ignored.
HostInputInitialised == garbage = "given" => Name \in HandsOverGarbage

\* The guest learns what the last host call did: do_syscall() returns a value
\* it has assigned, a failure is an error to the guest, and a success is one
\* only if a pointer check failed after it.
OutcomeReported ==
    Returned /\ Name \notin MisreportsOutcome =>
        /\ ret # "unset"
        /\ host = "failed" => is_error(ret)
        /\ host = "ok" => ret # "error"

\* What the kernel was asked to store for the guest is in guest memory when
\* the call succeeds, not in a temporary that apply() deletes.
FilledBufferIsGuests ==
    Returned /\ ret = "ok" /\ Name \notin FillsOwnCopy
        => ((\E i \in DOMAIN steps : steps[i].op = "fill") => wrote)

\* The comment over do_syscall(): "All errnos that do_syscall() returns must be
\* -TARGET_<errcode>."  Every other path to the guest passes get_errno() exactly
\* once, helpers and the multiplexers socketcall and ipc included.
TargetErrnos ==
    Returned /\ <<call[1], call[2]>> \notin NotConverted => ret \notin {"raw", "unconverted"}
=============================================================================
