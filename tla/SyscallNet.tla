----------------------------- MODULE SyscallNet -----------------------------
(***************************************************************************)
(* select, pipes and sockets: do_select() to do_socketcall() of            *)
(* src/src/qemu/translatedsyscall.c, as the steps of GuestAccess.          *)
(* A function with a switch is a record of its branches.                   *)
(***************************************************************************)
EXTENDS GuestAccess

(***************************************************************************)
(* Conversions.  host_to_target_rusage() and the timeval and mq_attr pairs *)
(* are a lock followed by the fields.                                      *)
(***************************************************************************)
copy_from_user_fdset(p) == CopyIn(p)
copy_to_user_fdset(p) == CopyOut(p)
host_to_target_rusage(p) == CopyOut(p)
copy_from_user_timeval(p) == CopyIn(p)
copy_to_user_timeval(p) == CopyOut(p)
copy_from_user_mq_attr(p) == CopyIn(p)
copy_to_user_mq_attr(p) == CopyOut(p)
target_to_host_ip_mreq(p) == CopyIn(p)
\* reads the address; a unix name goes through path(), whose longer result
\* must still fit (the assertion)
target_to_host_sockaddr(p) == CopyIn(p) \o unix_path(p)
host_to_target_sockaddr(p) == CopyOut(p)
\* c is msg_control, a pointer of the message header m; msg_controllen of the
\* header is stored in any case
target_to_host_cmsg(c) == CopyIn(c)
host_to_target_cmsg(c, m) == CopyOut(c) \o put_user(m)

OutsAlways(r, w, e, tv) ==
    IfPtr(r, copy_from_user_fdset(r)) \o HostGet({}) \o IfPtr(r, copy_to_user_fdset(r))

do_select(r, w, e, tv) ==
    LET ins  == IfPtr(r, copy_from_user_fdset(r)) \o IfPtr(w, copy_from_user_fdset(w))
                \o IfPtr(e, copy_from_user_fdset(e)) \o IfPtr(tv, copy_from_user_timeval(tv))
        outs == IfPtr(r, copy_to_user_fdset(r)) \o IfPtr(w, copy_to_user_fdset(w))
                \o IfPtr(e, copy_to_user_fdset(e)) \o IfPtr(tv, copy_to_user_timeval(tv))
    IN  ins \o HostGet({}) \o IfOK(outs)

\* do_pipe2() is compiled without CONFIG_PIPE2: flags are never supported, and
\* get_errno() passes the host's ENOSYS on
do_pipe2 == FailHost("ENOSYS")
do_pipe(p) ==
    [plain |-> HostSet({}) \o LeaveIfError \o put_user(p), flags |-> do_pipe2]

\* the TCP and IP levels: an int, a membership, a source membership
do_setsockopt_ip(p) ==
    [tcp_short   |-> Fail("EINVAL"),
     tcp         |-> get_user(p) \o HostSet({}),
     ip_int      |-> get_user(p) \o HostSet({}),
     ip_empty    |-> HostSet({}),
     mreq_size   |-> Fail("EINVAL"),
     mreq        |-> Ignored(target_to_host_ip_mreq(p)) \o HostSet({}),
     source_size |-> Fail("EINVAL"),
     source      |-> HostSet({p}),
     ip_other    |-> Fail("ENOPROTOOPT")]

\* the socket level: the option's number is translated, its value is an int
do_setsockopt_socket(p) ==
    [so_short |-> Fail("EINVAL"),
     so_int   |-> get_user(p) \o HostSet({}),
     so_other |-> Fail("ENOPROTOOPT")]

\* options that are one int: length in, host call, value and length out;
\* the structured ones are refused
do_getsockopt_socket(p, len) ==
    [so_other |-> Fail("EOPNOTSUPP"),
     so_len   |-> get_user(len) \o Fail("EINVAL"),
     so_int   |-> get_user(len) \o HostGet({}) \o LeaveIfError \o put_user(p) \o put_user(len)]

do_getsockopt_ip(p, len) ==
    [ip_len   |-> get_user(len) \o Fail("EINVAL"),
     ip_int   |-> get_user(len) \o HostGet({}) \o LeaveIfError \o put_user(len) \o put_user(p),
     ip_other |-> Fail("ENOPROTOOPT")]

\* the elements' bases are not checked: "we must call writev even if a
\* element has invalid base address"
lock_iovec(v) == CopyIn(v)
\* reads the vector again, releases what it locked
unlock_iovec(v) == CopyIn(v)

\* "Must return target values and target errnos", but the refusal of netlink is
\* the host's errno
do_socket ==
    [netlink |-> FailHost("EAFNOSUPPORT"), other |-> HostSet({})]

AddressUnchecked(a) ==
    [negative |-> Fail("EINVAL"),
     plain    |-> Ignored(target_to_host_sockaddr(a)) \o HostSet({})]

do_bind(a) ==
    [negative |-> Fail("EINVAL"),
     plain    |-> target_to_host_sockaddr(a) \o HostSet({})]

do_connect(a) ==
    [negative |-> Fail("EINVAL"),
     plain    |-> target_to_host_sockaddr(a) \o HostSet({})]

\* m is the message header, n its msg_name, v its msg_iov, b the base of an
\* element and c its msg_control.  The result of lock_iovec() and of
\* unlock_iovec() is ignored.  recvmsg() stores in the guest's own elements,
\* before the control message is looked at.
do_sendrecvmsg(m, n, v, b, c) ==
    LET head == lock_user(m) \o get_user(m)
                \o IfPtr(n, target_to_host_sockaddr(n)) \o Ignored(lock_iovec(v))
    IN  [send         |-> head \o target_to_host_cmsg(c) \o HostSet({b})
                          \o Ignored(unlock_iovec(v)),
         send_nocmsg  |-> head \o HostSet({b}) \o Ignored(unlock_iovec(v)),
         recv         |-> head \o HostFill(b) \o IfOK(host_to_target_cmsg(c, m))
                          \o Ignored(unlock_iovec(v)),
         recv_nocmsg  |-> head \o HostFill(b) \o IfOK(put_user(m))
                          \o Ignored(unlock_iovec(v))]

do_accept(a, len) ==
    [noaddr   |-> GivenNull(a) \o HostSet({}),
     negative |-> Given(a) \o get_user(len) \o Fail("EINVAL"),
     addr     |-> Given(a) \o get_user(len) \o HostSet({})
                  \o IfOK(Ignored(host_to_target_sockaddr(a)) \o put_user(len))]

\* getpeername and getsockname have the same body
do_getpeername(a, len) ==
    [negative |-> get_user(len) \o Fail("EINVAL"),
     addr     |-> get_user(len) \o HostGet({})
                  \o IfOK(Ignored(host_to_target_sockaddr(a)) \o put_user(len))]
do_getsockname(a, len) ==
    [negative |-> get_user(len) \o Fail("EINVAL"),
     addr     |-> get_user(len) \o HostGet({})
                  \o IfOK(Ignored(host_to_target_sockaddr(a)) \o put_user(len))]

AlwaysZero(p) == HostSet({}) \o IfOK(put_user(p)) \o Result

do_socketpair(p) == HostSet({}) \o IfOK(put_user(p))

do_sendto(msg, a) ==
    [negative |-> Fail("EINVAL"),
     noaddr   |-> GivenNull(a) \o lock_user(msg) \o HostSet({msg}),
     addr     |-> Given(a) \o lock_user(msg) \o target_to_host_sockaddr(a) \o HostSet({msg})]

do_recvfrom(msg, a, len) ==
    [noaddr   |-> GivenNull(a) \o lock_user(msg) \o HostFill(msg),
     negative |-> Given(a) \o lock_user(msg) \o get_user(len) \o Fail("EINVAL"),
     addr     |-> Given(a) \o lock_user(msg) \o get_user(len) \o HostFill(msg)
                  \o IfOK(Ignored(host_to_target_sockaddr(a)) \o put_user(len))]

\* every branch r of a function, behind the same first steps
Behind(s, r) == [k \in DOMAIN r |-> s \o r[k]]

\* the arguments are read from the array at vptr, then the function above is
\* called; s1, s2, ... are the pointers found there
do_socketcall_names(vptr) ==
    LET args(r) == Behind(get_user(vptr), r)
    IN  [socket      |-> args(do_socket),
         bind        |-> args(do_bind("s1")),
         connect     |-> args(do_connect("s1")),
         listen      |-> args([plain |-> HostSet({})]),
         accept      |-> args(do_accept("s1", "s2")),
         getsockname |-> args(do_getsockname("s1", "s2")),
         getpeername |-> args(do_getpeername("s1", "s2")),
         socketpair  |-> args([plain |-> do_socketpair("s1")])]

do_socketcall_data(vptr) ==
    LET args(r) == Behind(get_user(vptr), r)
    IN  [send       |-> args([plain |-> lock_user("s1") \o HostSet({"s1"})]),
         recv       |-> args([plain |-> lock_user("s1") \o HostFill("s1")]),
         sendto     |-> args(do_sendto("s1", "s2")),
         recvfrom   |-> args(do_recvfrom("s1", "s2", "s3")),
         shutdown   |-> args([plain |-> HostSet({})]),
         message    |-> args(do_sendrecvmsg("s1", "s2", "s3", "s4", "s5")),
         setsockopt_ip     |-> args(do_setsockopt_ip("s1")),
         setsockopt_socket |-> args(do_setsockopt_socket("s1")),
         getsockopt_ip     |-> args(do_getsockopt_ip("s1", "s2")),
         getsockopt_socket |-> args(do_getsockopt_socket("s1", "s2")),
         other      |-> [plain |-> Fail("ENOSYS")]]
=============================================================================
