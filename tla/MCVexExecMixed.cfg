SPECIFICATION FairSpec
CONSTANTS
    Addr = {4, 16, 28, 64}
    DC_SIZE = 2
    Null = Null
    Absent = Absent
    NoMap = NoMap
    Code = {1}
    Bad = Bad
    Exits <- MCExits
    FetchExits = TRUE
    Ranges <- MCRanges
    Unbounded = 5
    MaxChoices = {0, 2}
    Maps = {"a", "b"}
    MapOf <- MCMapOf
    Start <- MCStart
    End <- MCEnd
    EndAddr <- MCEndAddr
    ReqProt <- MCOneData
    MAX_CODE_BYTES = 8
    ExitTypes = {"GE_IGNORE", "GE_INT", "GE_YIELD"}
    MaxStores = 1
INVARIANTS RunProtected
PROPERTIES FaultResolves
