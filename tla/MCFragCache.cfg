SPECIFICATION Spec
CONSTANTS
    MaxLen = 2
    Codes = {0, 2, 4}
    FLUSH_FCF_TRIGGER = 1
    FLUSH_FCH_TRIGGER = 1
    Junk = {2}
    MaxFrags <- Room
INVARIANTS SearchExact NoDuplicates
PROPERTIES StoreSpec
