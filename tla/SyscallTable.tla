---------------------------- MODULE SyscallTable ----------------------------
(***************************************************************************)
(* The switch of do_syscall() (src/src/qemu/translatedsyscall.c) as one    *)
(* set: every branch of every call, with its steps.                        *)
(***************************************************************************)
EXTENDS SyscallProc, SyscallIPC, FiniteSets

CONSTANT MaxTemps      \* the most names g_to_delete ever holds

ASSUME MaxTempsAssumption == MaxTemps \in Nat

\* the entries of a table, and of the branches r of a function
Entries(t) == {<<k, "", t[k]>> : k \in DOMAIN t}
Branches(name, r) == {<<name, k, r[k]>> : k \in DOMAIN r}
AllBranches(t) == UNION {Branches(k, t[k]) : k \in DOMAIN t}

FileCalls ==
    UNION {Entries(exit_to_unlinkat), Entries(chdir_to_pause), Entries(utime_to_dup),
           Entries(pipe_to_setsid), Entries(sigaction_to_ssetmask),
           Entries(sigprocmask_to_sigsuspend), Entries(rt_sigtimedwait_to_select),
           Entries(symlink_to_munlockall), Entries(truncate_to_ioperm),
           Branches("pipe", do_pipe("a1")), Branches("ioctl", do_ioctl("a3")),
           Branches("ifconf", do_ioctl_ifconf("a3", "s1"))}

ProcCalls ==
    UNION {Entries(syslog_to_fstat), Entries(olduname_to_sysinfo),
           Entries(fsync_to_personality), Entries(llseek_to_getdents),
           Entries(getdents64_to_writev), Entries(getsid_to_sched_rr_get_interval),
           Entries(nanosleep_to_pwrite64), Entries(getcwd_to_fstat64),
           Entries(fstatat_to_setfsgid), Entries(lchown32_to_setfsgid32),
           Entries(pivot_root_to_fcntl64), Entries(security_to_getdomainname),
           Entries(clock_gettime_to_utimensat), Entries(mq_open_to_mq_getsetattr),
           Entries(do_fcntl), Entries(do_futex)}

\* the socket calls as calls of their own and through socketcall
SocketCalls ==
    UNION {Branches("accept", do_accept("a2", "a3")),
           Branches("bind", do_bind("a2")),
           Branches("connect", do_connect("a2")),
           Branches("getpeername", do_getpeername("a2", "a3")),
           Branches("getsockname", do_getsockname("a2", "a3")),
           Branches("getsockopt_ip", do_getsockopt_ip("a4", "a5")),
           Branches("getsockopt_socket", do_getsockopt_socket("a4", "a5")),
           {<<"listen", "", HostSet({})>>},
           Branches("recvfrom", do_recvfrom("a2", "a5", "a6")),
           Branches("message", do_sendrecvmsg("a2", "s1", "s2", "s3", "s4")),
           Branches("sendto", do_sendto("a2", "a5")),
           {<<"shutdown", "", HostSet({})>>},
           Branches("socket", do_socket),
           {<<"socketpair", "", do_socketpair("a4")>>},
           Branches("setsockopt_ip", do_setsockopt_ip("a4")),
           Branches("setsockopt_socket", do_setsockopt_socket("a4")),
           AllBranches(do_socketcall_names("a2")), AllBranches(do_socketcall_data("a2"))}

\* the System V calls as calls of their own and through ipc; only the former
\* put the result of do_semop() through get_errno(), where -1 becomes errno
IPCCalls ==
    UNION {AllBranches(do_ipc),
           {<<"semop", "direct", target_to_host_sembuf("a2") \o HostSet({})>>},
           Branches("semctl_direct", do_semctl("a4")),
           Branches("msgctl_direct", do_msgctl("a3")),
           {<<"msgsnd", "direct", do_msgsnd("a2")>>},
           {<<"msgrcv", "direct", do_msgrcv("a2")>>},
           Branches("shmctl_direct", do_shmctl("a3")),
           {<<"shmat", "direct", do_shmat>>, <<"shmdt", "direct", do_shmdt>>}}

\* The calls apply() answers itself, before tryPassthrough() and do_syscall().
\* ARM_cacheflush() returns true and leaves sc_ret at ~0.
AMD64_arch_prctl ==
    [get_fs |-> Result, set_fs |-> HostQuiet \o Result, other |-> FailHost("EPERM")]
I386_mmap2 == [plain |-> HostSet({})]
ARM_special == [cacheflush |-> MinusOne, set_tls |-> HostQuiet \o Result, mmap2 |-> HostSet({})]
SpecialCalls ==
    UNION {Branches("AMD64_arch_prctl", AMD64_arch_prctl), Branches("I386_mmap2", I386_mmap2),
           Branches("ARM", ARM_special)}

\* any other number
DefaultCalls == {<<"default", "", unimplemented>>}

Calls == FileCalls \cup ProcCalls \cup SocketCalls \cup IPCCalls \cup SpecialCalls
         \cup DefaultCalls

(***************************************************************************)
(* Calls that depart from what the others do.  The properties of           *)
(* SyscallXlate and the rules of SyscallRules except these and no others.  *)
(***************************************************************************)
\* the control calls of System V IPC store their structure, and the message
\* queue calls their time, priority or attributes, whatever the host said;
\* msgrcv stores the type, times the times; rt_sigaction stores the old action
\* before it tries the new one; nanosleep stores the rest on purpose; recvmsg
\* has the message in the guest's buffers when host_to_target_cmsg() fails
WritesOnFailure ==
    {"semctl", "semctl_direct", "msgctl", "msgctl_direct", "shmctl", "shmctl_direct", "msgrcv",
     "mq_timedsend", "mq_timedreceive", "mq_getsetattr", "times", "rt_sigaction", "nanosleep",
     "message"}

\* the packed directory entries and the control message of recvmsg are locked
\* only once the host call has consumed its data
EffectBeforeCheck == {"getdents_repack", "message"}

\* sleeping without a time, a membership or an iovec at NULL, opening a queue
\* without attributes
HandsOverGarbage ==
    {"nanosleep", "clock_nanosleep", "setsockopt_ip", "message", "mq_open_noattr"}

\* nice() may return -1; clock_nanosleep() returns its errno; assert("...") of a
\* string literal is true, and the cases of modify_ldt and arch_prctl end there
MisreportsOutcome == {"nice", "clock_nanosleep", "modify_ldt", "arch_prctl"}

\* the calls that put their output buffer through path() too
FillsOwnCopy == {"readlink", "readlinkat"}

\* semop through ipc and both halves of mq_getsetattr hand on the C library's
\* -1, which the guest reads as EPERM; posix_fadvise()'s errno is negated but not
\* converted; the ARM cache flush leaves the result at ~0.  The errnos the code
\* makes up itself are the host's in do_socket() for netlink, in do_pipe2(), in
\* do_sigaction() for a bad signal number and in AMD64_arch_prctl().
NotConverted ==
    {<<"semop", "plain">>, <<"mq_getsetattr", "">>, <<"fadvise64", "">>, <<"ARM", "cacheflush">>,
     <<"socket", "netlink">>, <<"pipe", "flags">>, <<"sigaction_bad", "">>,
     <<"rt_sigaction_bad", "">>, <<"AMD64_arch_prctl", "other">>}
=============================================================================
