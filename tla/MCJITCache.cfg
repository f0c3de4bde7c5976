SPECIFICATION JITSpec
CONSTANTS
    Addr = {4, 8, 12}
    DC_SIZE = 2
    Null = Null
    Absent = Absent
    Code = {1}
    Bad = Bad
    Exits <- MCExits
    FetchExits = TRUE
    Ranges <- MCRanges
    Unbounded = 4
    MaxChoices = {0, 1, 2}
INVARIANTS JITTypeOK DCCoherent CacheBounded FuncHasVSB KeysAligned
PROPERTIES FlushComplete
CHECK_DEADLOCK FALSE
