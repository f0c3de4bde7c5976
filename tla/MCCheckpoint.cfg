SPECIFICATION Spec
CONSTANTS
    Pages = {1, 2, 3, 4}
    Maps = {"data", "stack", "vsyscall"}
    MapOf <- MCMapOf
    VSysPage = {"vsyscall"}
    Values = {v0, v1}
    SC_COUNT = 2
    None = None
SYMMETRY Swap
INVARIANTS TypeOK RestoreExact RegsOfStop
PROPERTIES Immutable
