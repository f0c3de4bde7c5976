---------------------------- MODULE SyscallFile -----------------------------
(***************************************************************************)
(* The cases of do_syscall() in src/src/qemu/translatedsyscall.c, in the   *)
(* order of the source, as the steps of GuestAccess: part one, exit to     *)
(* readlinkat.  A case with branches has one entry per branch.  a1 .. a6   *)
(* are the arguments that are guest addresses, s1 .. are addresses found   *)
(* in guest structures.                                                    *)
(***************************************************************************)
EXTENDS SyscallNet

\* a call that takes one path, and one that takes two (both are checked
\* before either is used)
PathCall(p) == UserPath(p) \o HostSet({})
TwoPaths(p, q) == UserString(p) \o UserString(q) \o path(p) \o path(q) \o HostSet({})
Plain == HostSet({})
unimplemented == Fail("ENOSYS")

target_to_host_timespec(p) == CopyIn(p)
host_to_target_timespec(p) == CopyOut(p)

\* two consecutive timevals, or none
Times(p) == IfPtr(p, copy_from_user_timeval(p) \o copy_from_user_timeval(p))

EmptyReadUnset == [read_empty |-> Unassigned]

exit_to_unlinkat ==
    [exit     |-> NoReturn,
     read_empty |-> Result,
     read     |-> lock_user("a2") \o HostFill("a2"),
     write    |-> lock_user("a2") \o HostSet({"a2"}),
     open     |-> PathCall("a1"),
     openat   |-> PathCall("a2"),
     close    |-> Plain,
     brk      |-> Abort,
     waitpid  |-> HostSet({}) \o IfOK(IfPtr("a2", put_user("a2"))),
     waitid   |-> HostSet({}) \o IfOK(IfPtr("a3", CopyOut("a3"))),
     waitid_none |-> HostSet({}),
     creat    |-> PathCall("a1"),
     link     |-> TwoPaths("a1", "a2"),
     linkat   |-> Given("a2") \o Given("a4") \o TwoPaths("a2", "a4"),
     linkat_from_null |-> GivenNull("a2") \o Fail("EFAULT"),
     linkat_to_null   |-> GivenNull("a4") \o Fail("EFAULT"),
     unlink   |-> PathCall("a1"),
     unlinkat |-> PathCall("a2")]

chdir_to_pause ==
    [chdir   |-> PathCall("a1"),
     time    |-> HostGet({}) \o IfOK(IfPtr("a1", put_user("a1"))),
     mknod   |-> PathCall("a1"),
     mknodat |-> PathCall("a2"),
     chmod   |-> PathCall("a1"),
     oldstat |-> unimplemented,
     lseek   |-> Plain,
     getpid  |-> HostGet({}),
     mount   |-> UserString("a1") \o UserString("a2") \o UserString("a3")
                 \o path("a1") \o path("a2") \o HostSet({"a3", "a5"}),
     umount  |-> PathCall("a1"),
     stime   |-> get_user("a1") \o HostSet({}),
     ptrace  |-> unimplemented,
     alarm   |-> Plain,
     pause   |-> HostGet({})]

utime_to_dup ==
    [utime     |-> IfPtr("a2", CopyIn("a2")) \o PathCall("a1"),
     utimes    |-> Times("a2") \o PathCall("a1"),
     futimesat |-> Times("a3") \o PathCall("a2"),
     access    |-> UserPath("a1") \o HostGet({}),
     faccessat |-> UserPath("a2") \o HostGet({}),
     nice      |-> HostSigned,
     sync      |-> Result,
     kill      |-> Plain,
     rename    |-> TwoPaths("a1", "a2"),
     renameat  |-> TwoPaths("a2", "a4"),
     mkdir     |-> PathCall("a1"),
     mkdirat   |-> PathCall("a2"),
     rmdir     |-> PathCall("a1"),
     dup       |-> Plain]

\* do_sigaction() on structures of the emulator (old sigaction) or straight on
\* the guest's (rt_sigaction): the old action is stored before the new one is
\* read and installed.  Its branches are modelled in SignalState.
do_sigaction_at(act, oact) ==
    IfPtr(oact, put_user(oact)) \o IfPtr(act, get_user(act)) \o HostSet({})

pipe_to_setsid ==
    [times   |-> HostGet({}) \o IfPtr("a1", CopyOut("a1")),
     acct_off |-> GivenNull("a1") \o Plain,
     acct    |-> Given("a1") \o PathCall("a1"),
     umount2 |-> PathCall("a1"),
     lock    |-> unimplemented,
     setpgid |-> Plain,
     umask   |-> Plain,
     chroot  |-> PathCall("a1"),
     dup2    |-> Plain,
     getppid |-> HostGet({}),
     getpgrp |-> HostGet({}),
     setsid  |-> Plain]

\* the branch for targets other than Alpha and MIPS.  do_sigaction() "return host
\* values and errnos": get_errno() looks for -1 and passes its -EINVAL for a bad
\* signal number on.
sigaction_to_ssetmask ==
    [sigaction    |-> IfPtr("a2", CopyIn("a2")) \o HostSet({}) \o IfOK(IfPtr("a3", CopyOut("a3"))),
     sigaction_bad |-> IfPtr("a2", CopyIn("a2")) \o FailHost("EINVAL"),
     rt_sigaction |-> IfPtr("a2", lock_user("a2")) \o IfPtr("a3", lock_user("a3"))
                      \o do_sigaction_at("a2", "a3"),
     rt_sigaction_bad |-> IfPtr("a2", lock_user("a2")) \o IfPtr("a3", lock_user("a3"))
                      \o FailHost("EINVAL"),
     sgetmask     |-> Result,
     ssetmask     |-> HostQuiet \o Result]

sigprocmask_to_sigsuspend ==
    LET mask == IfPtr("a2", CopyIn("a2")) \o HostSet({}) \o IfOK(IfPtr("a3", CopyOut("a3")))
    IN  [sigprocmask        |-> mask,
         sigprocmask_how    |-> Given("a2") \o Fail("EINVAL"),
         rt_sigprocmask     |-> mask,
         rt_sigprocmask_how |-> Given("a2") \o Fail("EINVAL"),
         sigpending         |-> HostGet({}) \o IfOK(CopyOut("a1")),
         rt_sigpending      |-> HostGet({}) \o IfOK(CopyOut("a1")),
         sigsuspend         |-> CopyIn("a1") \o HostGet({}),
         rt_sigsuspend      |-> CopyIn("a1") \o HostGet({})]

rt_sigtimedwait_to_select ==
    [rt_sigtimedwait |-> CopyIn("a1") \o IfPtr("a3", Ignored(target_to_host_timespec("a3")))
                         \o HostSet({}) \o IfOK(IfPtr("a2", CopyOut("a2"))),
     rt_sigqueueinfo |-> CopyIn("a3") \o HostSet({}),
     sigreturn    |-> Abort,
     rt_sigreturn |-> Abort,
     sethostname  |-> UserString("a1") \o HostSet({"a1"}),
     setrlimit    |-> CopyIn("a2") \o HostSet({}),
     getrlimit    |-> HostGet({}) \o IfOK(CopyOut("a2")),
     getrusage    |-> HostGet({}) \o IfOK(Ignored(host_to_target_rusage("a2"))),
     gettimeofday |-> HostGet({}) \o IfOK(copy_to_user_timeval("a1")),
     settimeofday |-> copy_from_user_timeval("a1") \o HostSet({}),
     select       |-> CopyIn("a1") \o do_select("s1", "s2", "s3", "s4"),
     pselect6     |-> unimplemented]

\* readlink and readlinkat put the output buffer through path() too
symlink_to_munlockall ==
    LET readlinks(p, buf) == UserString(p) \o lock_user(buf) \o path(p) \o path(buf) \o HostFill(buf)
    IN  [symlink    |-> TwoPaths("a1", "a2"),
         symlinkat  |-> TwoPaths("a1", "a3"),
         readlink   |-> readlinks("a1", "a2"),
         readlink_self |-> UserString("a1") \o lock_user("a2") \o get_user("a1") \o Abort,
         readlinkat |-> readlinks("a2", "a3"),
         uselib     |-> unimplemented,
         swapon     |-> PathCall("a1"),
         mmap       |-> Abort,
         mmap2      |-> Abort,
         munmap     |-> Abort,
         mprotect   |-> Abort,
         mremap     |-> Abort,
         msync      |-> HostSet({"a1"}),
         mlock      |-> HostSet({"a1"}),
         munlock    |-> HostSet({"a1"}),
         mlockall   |-> Plain,
         munlockall |-> Plain]

truncate_to_ioperm ==
    [truncate    |-> PathCall("a1"),
     ftruncate   |-> Plain,
     fchmod      |-> Plain,
     fchmodat    |-> PathCall("a2"),
     getpriority |-> HostGet({}),
     setpriority |-> Plain,
     statfs      |-> UserPath("a1") \o HostGet({}) \o IfOK(CopyOut("a2")),
     fstatfs     |-> HostGet({}) \o IfOK(CopyOut("a2")),
     statfs64    |-> UserPath("a1") \o HostGet({}) \o IfOK(CopyOut("a3")),
     fstatfs64   |-> HostGet({}) \o IfOK(CopyOut("a3")),
     ioperm      |-> unimplemented]

\* an itimerval is two timevals; stat, lstat and fstat share the copy out
syslog_to_fstat ==
    [syslog    |-> UserString("a2") \o HostSet({"a2"}),
     syslog_read |-> UserString("a2") \o HostFill("a2"),
     setitimer |-> Times("a2") \o HostSet({})
                   \o IfOK(IfPtr("a3", copy_to_user_timeval("a3") \o copy_to_user_timeval("a3"))),
     getitimer |-> HostGet({})
                   \o IfOK(IfPtr("a2", copy_to_user_timeval("a2") \o copy_to_user_timeval("a2"))),
     stat      |-> UserPath("a1") \o HostGet({}) \o IfOK(CopyOut("a2")),
     lstat     |-> UserPath("a1") \o HostGet({}) \o IfOK(CopyOut("a2")),
     fstat     |-> HostGet({}) \o IfOK(CopyOut("a2"))]

olduname_to_sysinfo ==
    [olduname |-> unimplemented,
     vhangup  |-> Plain,
     wait4    |-> HostSet({}) \o IfOK(IfPtr("a2", put_user("a2"))
                                     \o IfPtr("a4", Ignored(host_to_target_rusage("a4")))),
     swapoff  |-> UserString("a1") \o HostSet({"a1"}),
     sysinfo  |-> HostGet({}) \o IfOK(IfPtr("a1", CopyOut("a1")))]

\* assert("!...") of modify_ldt is true: the case falls out of the switch
fsync_to_personality ==
    [fsync         |-> Plain,
     exit_group    |-> NoReturn,
     setdomainname |-> UserString("a1") \o HostSet({"a1"}),
     uname         |-> lock_user("a1") \o HostGet({}) \o IfOK(put_user("a1")),
     modify_ldt    |-> Unassigned,
     vm86old       |-> unimplemented,
     vm86          |-> Abort,
     adjtimex      |-> unimplemented,
     getpgid       |-> HostGet({}),
     fchdir        |-> Plain,
     personality   |-> Plain]

\* getdents of a 32-bit guest on a 64-bit host repacks the records, on other
\* pairs the kernel fills the guest's buffer, and the records are swapped
llseek_to_getdents ==
    [_llseek       |-> HostSet({}) \o IfOK(put_user("a4")),
     getdents_repack |-> HostSet({}) \o IfOK(CopyOut("a2")),
     getdents_nomem  |-> Fail("ENOMEM"),
     getdents      |-> lock_user("a2") \o HostFill("a2") \o IfOK(get_user("a2") \o put_user("a2"))]
=============================================================================
