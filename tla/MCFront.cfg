SPECIFICATION Spec
CONSTANTS
    Codes <- MCCodes
    IsX86 = TRUE
    MaxCalls = 2
    Base = 4
    fake_vsys_reads = TRUE
    log_last_store = TRUE
    JumpKinds = {"Boring", "Call", "Sys_sysenter", "SigTRAP", "SigSEGV"}
    MaxStmts = 3
    MaxBlocks = 2
CONSTRAINTS Opening Short
INVARIANTS Faithful WellFormed
PROPERTIES TranslationSound
CHECK_DEADLOCK FALSE
