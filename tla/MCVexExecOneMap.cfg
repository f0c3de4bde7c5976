SPECIFICATION Spec
CONSTANTS
    Addr = {16, 20}
    DC_SIZE = 2
    Null = Null
    Absent = Absent
    NoMap = NoMap
    Code = {1, 2}
    Bad = Bad
    Exits <- MCExits
    FetchExits = TRUE
    Ranges <- MCRanges
    Unbounded = 4
    MaxChoices = {}
    Maps = {"a"}
    MapOf <- MCMapOf
    Start <- MCStart
    End <- MCEnd
    EndAddr <- MCEndAddr
    ReqProt <- MCAllRWX
    MAX_CODE_BYTES = 8
    ExitTypes = {"GE_IGNORE", "GE_SYSCALL", "GE_YIELD"}
    MaxStores = 2
INVARIANTS TypeOK HeldBlockCached VSBFresh
