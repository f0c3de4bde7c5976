---------------------------- MODULE SyscallProc -----------------------------
(***************************************************************************)
(* The cases of do_syscall() in src/src/qemu/translatedsyscall.c, part     *)
(* two: getdents64 to mq_getsetattr, with the helpers they call.  The      *)
(* conventions are those of SyscallFile.  The cases behind CONFIG_SPLICE,  *)
(* CONFIG_EVENTFD, CONFIG_EPOLL and the like are not compiled in this      *)
(* build and end in unimplemented.  So do inotify_init, inotify_add_watch  *)
(* and inotify_rm_watch: no build file defines CONFIG_INOTIFY, and without *)
(* it lines 473 to 477 take their numbers back (#undef TARGET_NR_inotify_  *)
(* init and so on), which removes the cases at 7192 to 7215.               *)
(***************************************************************************)
EXTENDS SyscallFile

\* either structure, cleared and stored field by field
host_to_target_stat64(p) == CopyOut(p)

\* an unknown command is an error before the pointer is looked at
do_fcntl ==
    [fcntl_badcmd |-> Fail("EINVAL"),
     fcntl_getlk  |-> CopyIn("a3") \o HostGet({}) \o IfOK(CopyOut("a3")),
     fcntl_setlk  |-> CopyIn("a3") \o HostSet({}),
     fcntl_getlk64 |-> CopyIn("a3") \o HostGet({}) \o IfOK(CopyOut("a3")),
     fcntl_setlk64 |-> CopyIn("a3") \o HostSet({}),
     fcntl_getfl  |-> HostGet({}),
     fcntl_setfl  |-> HostSet({}),
     fcntl_own    |-> HostSet({}),
     fcntl_other  |-> HostSet({})]

\* only FUTEX_WAIT converts a timeout, and without looking at the conversion's
\* result; the requeueing operations hand over both words
do_futex ==
    [futex_wait    |-> IfPtr("a4", Ignored(target_to_host_timespec("a4"))) \o HostSet({"a1"}),
     futex_wake    |-> HostSet({"a1"}),
     futex_requeue |-> HostSet({"a1", "a5"}),
     futex_other   |-> Fail("ENOSYS")]

getdents64_to_writev ==
    LET vector(host) == lock_iovec("a2") \o host \o unlock_iovec("a2")
    IN  [getdents64 |-> lock_user("a2") \o HostFill("a2") \o IfOK(get_user("a2") \o put_user("a2")),
         _newselect |-> do_select("a2", "a3", "a4", "a5"),
         poll       |-> CopyIn("a1") \o HostGet({}) \o IfOK(put_user("a1")),
         ppoll      |-> CopyIn("a1") \o IfPtr("a3", target_to_host_timespec("a3"))
                        \o IfPtr("a4", CopyIn("a4")) \o HostGet({})
                        \o IfOK(IfPtr("a3", Ignored(host_to_target_timespec("a3"))))
                        \o IfOK(put_user("a1")),
         flock      |-> Plain,
         readv      |-> vector(HostFill("s1")),
         writev     |-> vector(HostSet({"s1"}))]

getsid_to_sched_rr_get_interval ==
    [getsid    |-> HostGet({}),
     fdatasync |-> Plain,
     _sysctl   |-> Fail("ENOTDIR"),
     sched_getaffinity_size |-> Fail("EINVAL"),
     sched_getaffinity |-> HostGet({}) \o IfOK(put_user("a3")),
     sched_setaffinity_size |-> Fail("EINVAL"),
     sched_setaffinity |-> CopyIn("a3") \o HostSet({}),
     sched_setparam    |-> CopyIn("a2") \o HostSet({}),
     sched_getparam    |-> HostGet({}) \o IfOK(CopyOut("a2")),
     sched_setscheduler |-> CopyIn("a3") \o HostSet({}),
     sched_getscheduler |-> HostGet({}),
     sched_yield        |-> Plain,
     sched_get_priority_max |-> HostGet({}),
     sched_get_priority_min |-> HostGet({}),
     sched_rr_get_interval |-> HostGet({}) \o IfOK(Ignored(host_to_target_timespec("a2")))]

\* an interrupted nanosleep stores the remaining time, on purpose
nanosleep_to_pwrite64 ==
    [nanosleep      |-> Ignored(target_to_host_timespec("a1")) \o HostGet({})
                        \o IfError(IfPtr("a2", Ignored(host_to_target_timespec("a2")))),
     query_module   |-> unimplemented,
     nfsservctl     |-> unimplemented,
     prctl_pdeathsig |-> HostGet({}) \o IfOK(IfPtr("a2", put_user("a2"))),
     prctl          |-> HostSet({}),
     arch_prctl     |-> Unassigned,
     pread          |-> lock_user("a2") \o HostFill("a2"),
     pwrite         |-> lock_user("a2") \o HostSet({"a2"}),
     pread64        |-> lock_user("a2") \o HostFill("a2"),
     pwrite64       |-> lock_user("a2") \o HostSet({"a2"})]

BufferThroughPath ==
    [getcwd |-> lock_user("a1") \o path("a1") \o HostFill("a1")]

getcwd_to_fstat64 ==
    [getcwd      |-> lock_user("a1") \o HostFill("a1"),
     capget      |-> unimplemented,
     capset      |-> unimplemented,
     sigaltstack |-> Abort,
     sendfile    |-> unimplemented,
     ugetrlimit  |-> HostGet({}) \o IfOK(CopyOut("a2")),
     truncate64  |-> PathCall("a1"),
     ftruncate64 |-> Plain,
     stat64      |-> UserPath("a1") \o HostGet({}) \o IfOK(host_to_target_stat64("a2")),
     lstat64     |-> UserPath("a1") \o HostGet({}) \o IfOK(host_to_target_stat64("a2")),
     fstat64     |-> HostGet({}) \o IfOK(host_to_target_stat64("a2"))]

\* the three ids are stored one after the other
ThreeIds == HostGet({}) \o IfOK(put_user("a1") \o put_user("a2") \o put_user("a3"))

fstatat_to_setfsgid ==
    [newfstatat |-> UserPath("a2") \o HostGet({}) \o IfOK(host_to_target_stat64("a3")),
     lchown     |-> PathCall("a1"),
     getuid     |-> HostGet({}),
     getgid     |-> HostGet({}),
     geteuid    |-> HostGet({}),
     getegid    |-> HostGet({}),
     setreuid   |-> Plain,
     setregid   |-> Plain,
     getgroups_size |-> HostGet({}),
     getgroups  |-> HostGet({}) \o IfOK(CopyOut("a2")),
     setgroups  |-> CopyIn("a2") \o HostSet({}),
     fchown     |-> Plain,
     fchownat   |-> PathCall("a2"),
     setresuid  |-> Plain,
     getresuid  |-> ThreeIds,
     setresgid  |-> Plain,
     getresgid  |-> ThreeIds,
     chown      |-> PathCall("a1"),
     setuid     |-> Plain,
     setgid     |-> Plain,
     setfsuid   |-> Plain,
     setfsgid   |-> Plain]

lchown32_to_setfsgid32 ==
    [lchown32    |-> PathCall("a1"),
     getuid32    |-> HostGet({}),
     getgid32    |-> HostGet({}),
     geteuid32   |-> HostGet({}),
     getegid32   |-> HostGet({}),
     setreuid32  |-> Plain,
     setregid32  |-> Plain,
     getgroups32_size |-> HostGet({}),
     getgroups32 |-> HostGet({}) \o IfOK(CopyOut("a2")),
     setgroups32 |-> CopyIn("a2") \o HostSet({}),
     fchown32    |-> Plain,
     setresuid32 |-> Plain,
     getresuid32 |-> ThreeIds,
     setresgid32 |-> Plain,
     getresgid32 |-> ThreeIds,
     chown32     |-> PathCall("a1"),
     setuid32    |-> Plain,
     setgid32    |-> Plain,
     setfsuid32  |-> Plain,
     setfsgid32  |-> Plain]

\* mincore fills the vector it locked as a string
pivot_root_to_fcntl64 ==
    [pivot_root |-> unimplemented,
     mincore    |-> lock_user("a1") \o UserString("a3") \o HostFill("a3"),
     fadvise64  |-> HostNegated({}),
     madvise    |-> Result,
     fcntl64_badcmd |-> Fail("EINVAL"),
     fcntl64_getlk  |-> CopyIn("a3") \o HostGet({}) \o IfOK(CopyOut("a3")),
     fcntl64_setlk  |-> CopyIn("a3") \o HostSet({})]

\* set_thread_area and get_thread_area: the i386 translation, which must not
\* be reached (i386syscalls.cc has handled them), and the others
security_to_getdomainname ==
    [security  |-> unimplemented,
     gettid    |-> HostGet({}),
     readahead |-> Plain,
     setxattr  |-> Fail("EOPNOTSUPP"),
     set_thread_area_i386 |-> Abort,
     set_thread_area      |-> unimplemented,
     get_thread_area_i386 |-> Abort,
     get_thread_area      |-> unimplemented]

clock_gettime_to_utimensat ==
    LET clock == HostGet({}) \o IfOK(Ignored(host_to_target_timespec("a2")))
        times == IfPtr("a3", Ignored(target_to_host_timespec("a3"))
                             \o Ignored(target_to_host_timespec("a3")))
    IN  [clock_gettime   |-> clock,
         clock_getres    |-> clock,
         clock_nanosleep |-> Ignored(target_to_host_timespec("a3")) \o HostPositive({})
                             \o IfPtr("a4", Ignored(host_to_target_timespec("a4"))),
         set_tid_address |-> HostSet({"a1"}),
         tkill           |-> Plain,
         tgkill          |-> Plain,
         set_robust_list |-> unimplemented,
         utimensat_fd    |-> times \o GivenNull("a2") \o HostSet({}),
         utimensat       |-> times \o Given("a2") \o PathCall("a2")]

\* the message queues: names and buffers are handed over unchecked, the
\* attributes and the priority whatever the host call said
mq_open_to_mq_getsetattr ==
    LET timed(host) == IfPtr("a5", Ignored(target_to_host_timespec("a5"))) \o host
                       \o IfPtr("a5", Ignored(host_to_target_timespec("a5")))
    IN  [mq_open         |-> Given("a4") \o Ignored(copy_from_user_mq_attr("a4")) \o HostSet({"a1"}),
         mq_open_noattr  |-> GivenNull("a4") \o Uninitialised \o HostSet({"a1"}),
         mq_unlink       |-> HostSet({"a1"}),
         mq_timedsend    |-> timed(HostSet({"a2"})),
         mq_timedreceive |-> timed(HostFill("a2")) \o IfPtr("a4", put_user("a4")),
         mq_getsetattr   |-> Result
                             \o IfPtr("a3", HostRaw({}) \o Ignored(copy_to_user_mq_attr("a3")))
                             \o IfPtr("a2", Ignored(copy_from_user_mq_attr("a2")) \o HostRawOr({}))]
=============================================================================
