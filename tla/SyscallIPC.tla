----------------------------- MODULE SyscallIPC -----------------------------
(***************************************************************************)
(* System V semaphores, message queues and shared memory: do_semctl() to   *)
(* do_ipc() of src/src/qemu/translatedsyscall.c, and the ioctls.           *)
(* The table of attached segments is in module ShmRegions.                 *)
(***************************************************************************)
EXTENDS GuestAccess

\* the structure conversions: lock, nested lock of the ipc_perm, fields
target_to_host_ipc_perm(p) == CopyIn(p)
host_to_target_ipc_perm(p) == CopyOut(p)
target_to_host_semid_ds(p) == lock_user(p) \o target_to_host_ipc_perm(p) \o get_user(p)
host_to_target_semid_ds(p) == lock_user(p) \o host_to_target_ipc_perm(p) \o put_user(p)
host_to_target_seminfo(p) == CopyOut(p)
target_to_host_msqid_ds(p) == lock_user(p) \o target_to_host_ipc_perm(p) \o get_user(p)
host_to_target_msqid_ds(p) == lock_user(p) \o host_to_target_ipc_perm(p) \o put_user(p)
host_to_target_msginfo(p) == CopyOut(p)
target_to_host_shmid_ds(p) == lock_user(p) \o target_to_host_ipc_perm(p) \o get_user(p)
host_to_target_shmid_ds(p) == lock_user(p) \o host_to_target_ipc_perm(p) \o put_user(p)
host_to_target_shminfo(p) == CopyOut(p)
host_to_target_shm_info(p) == CopyOut(p)
target_to_host_sembuf(p) == CopyIn(p)

\* the number of semaphores is asked of the host first, both ways
target_to_host_semarray(p) == Probe \o CopyIn(p)
host_to_target_semarray(p) == Probe \o CopyOut(p)

\* the structure is copied out whether or not the host call succeeded
do_semctl(p) ==
    [val  |-> HostSet({}),
     all  |-> target_to_host_semarray(p) \o HostSet({}) \o host_to_target_semarray(p),
     ds   |-> target_to_host_semid_ds(p) \o HostSet({}) \o host_to_target_semid_ds(p),
     info |-> HostGet({}) \o host_to_target_seminfo(p),
     none |-> HostSet({}),
     other |-> Fail("EINVAL")]

\* the result of semop() is returned as it is
do_semop(p) == target_to_host_sembuf(p) \o HostRaw({})

do_msgctl(p) ==
    [ds   |-> target_to_host_msqid_ds(p) \o HostSet({}) \o host_to_target_msqid_ds(p),
     rmid |-> HostSet({}),
     info |-> HostGet({}) \o host_to_target_msginfo(p),
     other |-> Fail("EINVAL")]

do_msgsnd(p) == CopyIn(p) \o HostSet({})

LockedLate(p) == HostSet({}) \o lock_user(p) \o IfOK(put_user(p))

\* the text is stored when the call received some, the type in any case
do_msgrcv(p) == lock_user(p) \o HostSet({}) \o IfOK(put_user(p)) \o put_user(p)

do_shmctl(p) ==
    [ds   |-> target_to_host_shmid_ds(p) \o HostSet({}) \o host_to_target_shmid_ds(p),
     info |-> HostGet({}) \o host_to_target_shminfo(p),
     shm_info |-> HostGet({}) \o host_to_target_shm_info(p),
     none |-> HostSet({}),
     other |-> Fail("EINVAL")]

\* size, attach, page flags; the requested address is not dereferenced
do_shmat == Probe \o HostSet({})
do_shmdt == HostSet({})

\* a4 is third, a5 is ptr; shmctl is given third
do_ipc ==
    [semop  |-> [plain |-> do_semop("a5")],
     semget |-> [plain |-> HostSet({})],
     semctl |-> do_semctl("a5"),
     msgget |-> [plain |-> HostSet({})],
     msgsnd |-> [plain |-> do_msgsnd("a5")],
     msgctl |-> do_msgctl("a5"),
     msgrcv |-> [old |-> CopyIn("a5") \o do_msgrcv("s1"), new |-> do_msgrcv("a5")],
     shmat  |-> [plain |-> do_shmat \o LeaveIfError \o put_user("a4"),
                 ibcs |-> Fail("EINVAL")],
     shmdt  |-> [plain |-> do_shmdt],
     shmget |-> [plain |-> HostSet({})],
     shmctl |-> do_shmctl("a4"),
     other  |-> [plain |-> Fail("ENOSYS")]]

\* the interface list: its own length limit, then the records at the buffer
\* b named in the structure, whose lock is not checked
do_ioctl_ifconf(p, b) ==
    LET head == CopyIn(p)
    IN  [empty |-> head \o HostGet({}) \o IfOK(CopyOut(p)),
         some  |-> head \o HostGet({}) \o IfOK(CopyOut(p) \o put_user(b)),
         nomem |-> head \o Fail("ENOMEM")]

\* by the table's argument type and access; unknown commands are refused
do_ioctl(p) ==
    [unknown |-> Fail("ENOSYS"),
     null    |-> HostSet({}),
     int     |-> HostSet({}),
     ptrvoid |-> HostSet({p}),
     ioc_r   |-> HostGet({}) \o IfOK(CopyOut(p)),
     ioc_w   |-> CopyIn(p) \o HostSet({}),
     ioc_rw  |-> CopyIn(p) \o HostSet({}) \o IfOK(CopyOut(p)),
     type    |-> Fail("ENOSYS")]
=============================================================================
