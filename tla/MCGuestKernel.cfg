SPECIFICATION Spec
CONSTANTS
    NSIG = 9
    SIGKILL = 2
    SIGSTOP = 6
    SIGSEGV = 4
    SIGBUS = 3
    NonFatal = {5, 6}
    SIGRTMIN = 7
    SIGRTMAX = 9
    Reserved = {7, 8}
    OldWord = {1, 2, 3, 4, 5, 6, 7}
    MaskSets <- MCMaskSets
    Addrs = {1, 2, 3}
    N_SHM_REGIONS = 2
CONSTRAINT Apart
INVARIANTS
    SmcHandlerKept
    DispositionFollowsTable
    MaskReadsBack
    TrackedIsAttached
    AccessFollowsAttachment
PROPERTIES
    AbortOnlyOnMisuse
CHECK_DEADLOCK FALSE
