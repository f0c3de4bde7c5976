----------------------------- MODULE MCSyscall ------------------------------
(* Every branch of every translated call, both bases.                       *)
EXTENDS SyscallXlate
=============================================================================
