SPECIFICATION Spec
CONSTANTS
    Insn = {0, 1, 2, 3, 4, 5}
    Entry = 0
    Succ <- LoopSucc
    BlockEnd <- LoopEnd
    Syscalls = {3}
    Fixable = {4}
    Illegal = {5}
    MaxLag = 8
INVARIANTS NoFalseAlarm ShadowBehind SyscallInStep InSync
CHECK_DEADLOCK FALSE
