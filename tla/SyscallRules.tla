---------------------------- MODULE SyscallRules -----------------------------
(***************************************************************************)
(* Rules for the cases of do_syscall() that can be read off their steps,   *)
(* without running them.  SyscallProofs shows that a switch that follows   *)
(* them has the properties of SyscallXlate; TLC evaluates the rules on     *)
(* every case.  They are also what to ask of a case that is added.         *)
(***************************************************************************)
EXTENDS SyscallTable

\* the moves that go through a guest pointer
ThroughPtr == {"lock", "trylock", "read", "write", "path", "unixpath", "fill"}
PathOps == {"path", "unixpath"}
\* the calls of path() among the first n moves
Paths(s, n) == {i \in 1 .. n : s[i].op \in PathOps}

\* what the conversion at i leaves out when its pointer is bad
Window(s, i) == i + 1 .. i + s[i].arg

\* Every move with a pointer names it, what a conversion leaves out is part of
\* the case and nothing but the rest of the conversion, and no case makes
\* more names than g_to_delete holds.
WellMade(s) ==
    /\ s \in Seq({s[i] : i \in DOMAIN s})
    /\ \A i \in DOMAIN s :
        /\ s[i].op \in ThroughPtr => s[i].p # NoPtr
        /\ s[i].op = "trylock" =>
            /\ s[i].arg \in Nat /\ i + s[i].arg <= Len(s)
            /\ \A j \in Window(s, i) : s[j].op \in {"trylock", "read", "write"}
    /\ Cardinality(Paths(s, Len(s))) <= MaxTemps

\* no condition is around the move
Always(m) == m.nn = {} /\ m.when = "always"

\* The pointer of move i is known not to be NULL: by the condition around the
\* move, by the branch, or because an earlier move looked.
NeverNull(s, i) ==
    \/ s[i].p \in s[i].nn
    \/ \E j \in DOMAIN s : s[j].op = "given" /\ s[j].p = s[i].p
    \/ \E j \in 1 .. i - 1 : /\ s[j].op = "lock" /\ s[j].p = s[i].p
                             /\ s[j].nn \subseteq s[i].nn /\ s[j].when = "always"
MayFault(s, i) == s[i].op = "lock" /\ ~NeverNull(s, i)

\* the host calls whose outcome is the result, and those that change something
Deciding(m) == m.op \in HostOps \cup {"fill"}
Effect(m) == m.op \in (HostOps \cup {"fill", "quiet"}) \ {"get"}
\* the moves that may leave an error in ret and go on, and all that may make one
KeepsError(m) == m.op \in (HostOps \ {"positive"}) \cup {"fill", "minusone"}
MakesError(s, i) ==
    KeepsError(s[i]) \/ s[i].op \in {"probe", "fail", "failhost"} \/ MayFault(s, i)
\* the moves after which ret has a value
Assigns(m) == m.op \in (HostOps \ {"rawor"}) \cup {"fill", "result", "minusone"}

\* Pointers are checked before the host call that changes something.
ChecksFirst(s) == \A j \in DOMAIN s : MayFault(s, j) => \A i \in 1 .. j - 1 : ~Effect(s[i])

\* What is stored is stored after everything that can fail, and only when
\* nothing has failed.
StoresLast(s) ==
    \A i \in DOMAIN s :
        /\ s[i].op \in {"write", "fill"} => \A j \in i + 1 .. Len(s) : ~MakesError(s, j)
        /\ s[i].op = "write" =>
            \/ s[i].when = "ok"
            \/ \A j \in 1 .. i - 1 : KeepsError(s[j]) =>
                \E k \in j + 1 .. i - 1 : s[k].op = "leave" /\ Always(s[k])

\* A conversion whose result is ignored fills its structure all the same.
ReadsAll(s) ==
    \A i \in DOMAIN s :
        /\ s[i].op # "uninit"
        /\ s[i].op = "trylock" =>
            NeverNull(s, i) \/ \A j \in Window(s, i) : s[j].op # "read"

\* A case assigns ret whatever happens, or does not come back; a constant
\* result or error of its own never replaces the outcome of a host call; raw
\* results are or-ed only with raw ones.
ReportsResult(s) ==
    /\ \E i \in DOMAIN s :
        /\ Always(s[i])
        /\ Assigns(s[i]) \/ s[i].op \in {"fail", "failhost", "abort", "noreturn"}
    /\ \A i \in DOMAIN s :
        /\ s[i].op \notin {"positive", "signed"}
        /\ s[i].op = "result" => s[i].when = "ok" \/ \A j \in 1 .. i - 1 : ~Deciding(s[j])
        /\ s[i].op \in {"fail", "failhost"} => \A j \in 1 .. i - 1 : ~Deciding(s[j])
        /\ s[i].op = "rawor" =>
            \A j \in 1 .. i - 1 : Deciding(s[j]) => s[j].op \in {"raw", "rawor"}

\* The kernel fills the guest's own buffer, always, and nothing after it hides
\* its failure.
FillsGuest(s) ==
    \A i \in DOMAIN s : s[i].op = "fill" =>
        /\ Always(s[i])
        /\ \A j \in 1 .. i - 1 : s[j].op \in PathOps => s[j].p # s[i].p
        /\ \A j \in i + 1 .. Len(s) : s[j].op \in HostOps \cup {"result"} => s[j].when = "ok"

\* Every result of the C library goes through get_errno(), and no error of the
\* code's own is a number of the host.
Converts(s) ==
    \A i \in DOMAIN s : s[i].op \notin {"raw", "rawor", "negated", "minusone", "failhost"}

(***************************************************************************)
(* The rules of the switch; the exceptions are those of the properties.    *)
(***************************************************************************)
AllWellMade == \A c \in Calls : WellMade(c[3])
AllCheckFirst == \A c \in Calls : c[1] \notin EffectBeforeCheck => ChecksFirst(c[3])
AllStoreLast == \A c \in Calls : c[1] \notin WritesOnFailure => StoresLast(c[3])
AllReadAll == \A c \in Calls : c[1] \notin HandsOverGarbage => ReadsAll(c[3])
AllReportResult == \A c \in Calls : c[1] \notin MisreportsOutcome => ReportsResult(c[3])
AllFillGuest == \A c \in Calls : c[1] \notin FillsOwnCopy => FillsGuest(c[3])
AllConvert == \A c \in Calls : <<c[1], c[2]>> \notin NotConverted => Converts(c[3])
=============================================================================
