SPECIFICATION Spec
CONSTANTS
    Units <- MCUnits
    MaxBits = 16
    Patterns <- MCPatterns
INVARIANTS
    MovementExact
    ArithmeticExact
    FloatExact
CHECK_DEADLOCK FALSE
