---------------------------- MODULE GuestAccess ----------------------------
(***************************************************************************)
(* What a translated system call does, as a sequence of steps.             *)
(*                                                                         *)
(* do_syscall() and its helpers (src/src/qemu/translatedsyscall.c) are a   *)
(* switch of some three hundred cases, all made of the same few moves:     *)
(* check a guest pointer, read through it, convert, make the host call,    *)
(* convert its errno, write through a guest pointer, leave with an error.  *)
(* Each case is kept here as the sequence of those moves in the order of   *)
(* the code, with its conditions; what is converted is left out.  The      *)
(* moves are the macros and inlines of src/src/qemu/translatedutil.h.      *)
(*                                                                         *)
(* A step has                                                              *)
(*   op    the move;                                                       *)
(*   p     the guest pointer it goes through (NoPtr when it has none);     *)
(*   nn    the pointers that must not be NULL for it to be taken: the      *)
(*         code's "if (addr)" around it;                                   *)
(*   when  "ok" or "error" when the code takes it only if the result so    *)
(*         far is not, or is, an error: "if (!is_error(ret))" around it;   *)
(*   arg   a host call's pointers, an error's name, a skip's length.       *)
(***************************************************************************)
EXTENDS Naturals, Sequences

NoPtr == "none"

Step(op, p, arg) == <<[op |-> op, p |-> p, nn |-> {}, when |-> "always", arg |-> arg]>>

\* if (!lock_user(...)) return -TARGET_EFAULT
lock_user(p) == Step("lock", p, 0)

\* reads and stores through a pointer; get_user_*() and put_user_*() do not
\* check it first and always return 0
get_user(p) == Step("read", p, 0)
put_user(p) == Step("write", p, 0)

\* a whole structure: locked, then copied field by field
CopyIn(p) == lock_user(p) \o get_user(p)
CopyOut(p) == lock_user(p) \o put_user(p)

\* lock_user_string() alone, and followed by path(), which reads the string
\* and, when it is absolute, allocates the chrooted name
UserString(p) == lock_user(p)
path(p) == Step("path", p, 0)
UserPath(p) == UserString(p) \o path(p)
\* path() on a unix socket's name, which must still fit the host structure
unix_path(p) == Step("unixpath", p, 0)

\* get_errno(f(...)): a host call that is handed the guest pointers in P;
\* HostGet changes nothing outside the caller, HostSet does
HostGet(P) == Step("get", NoPtr, P)
HostSet(P) == Step("set", NoPtr, P)
\* the host call fills the guest buffer p
HostFill(p) == Step("fill", p, 0)
\* the same with the raw -1 of the C library left as it is
HostRaw(P) == Step("raw", NoPtr, P)
\* the raw result or-ed into the result so far
HostRawOr(P) == Step("rawor", NoPtr, P)
\* a call that returns its errno as a positive number, given to get_errno(),
\* which looks for -1; and one whose returned errno is only negated
HostPositive(P) == Step("positive", NoPtr, P)
HostNegated(P) == Step("negated", NoPtr, P)
\* a result that can be -1 without being an error, given to get_errno()
HostSigned == Step("signed", NoPtr, {})
\* the next host call is given a structure nothing was stored in
Uninitialised == Step("uninit", NoPtr, 0)
\* a host call that changes the caller and whose result is not looked at
HostQuiet == Step("quiet", NoPtr, {})
\* a host call inside a conversion: its failure is returned at once, its
\* success is not the result
Probe == Step("probe", NoPtr, {})

\* return -TARGET_e, return -e with the host's number, and a result that is a
\* constant
Fail(e) == Step("fail", NoPtr, e)
FailHost(e) == Step("failhost", NoPtr, e)
Result == Step("result", NoPtr, 0)
\* the all-ones result of a handler that never assigns it
MinusOne == Step("minusone", NoPtr, 0)
\* if (is_error(ret)) return: leave with the error that is there
LeaveIfError == Step("leave", NoPtr, 0)
\* assert(!"..."): the emulator stops
Abort == Step("abort", NoPtr, 0)
\* the case ends without assigning ret
Unassigned == Step("unassigned", NoPtr, 0)
\* the call does not come back to the guest that made it
NoReturn == Step("noreturn", NoPtr, 0)

\* the branch is the one the code takes when p is not NULL, or is NULL
Given(p) == Step("given", p, 0)
GivenNull(p) == Step("givennull", p, 0)

\* if (p) { s }
IfPtr(p, s) == [i \in DOMAIN s |-> [s[i] EXCEPT !.nn = @ \cup {p}]]
\* if (!is_error(ret)) { s }
IfOK(s) == [i \in DOMAIN s |-> [s[i] EXCEPT !.when = "ok"]]
\* if (is_error(ret)) { s }
IfError(s) == [i \in DOMAIN s |-> [s[i] EXCEPT !.when = "error"]]
\* a conversion whose own EFAULT the caller ignores: the rest of it is not
\* done and the call goes on with what the host structure held
Ignored(s) ==
    [i \in DOMAIN s |-> IF s[i].op = "lock"
                        THEN [s[i] EXCEPT !.op = "trylock", !.arg = Len(s) - i]
                        ELSE s[i]]

\* the steps that enter the host with a set of guest pointers
HostOps == {"get", "set", "raw", "rawor", "positive", "negated", "signed"}

\* the pointers a sequence of steps goes through
PtrsOf(s) ==
    UNION {s[i].nn \cup (IF s[i].p = NoPtr THEN {} ELSE {s[i].p})
               \cup (IF s[i].op \in HostOps THEN s[i].arg ELSE {})
           : i \in DOMAIN s}
=============================================================================
