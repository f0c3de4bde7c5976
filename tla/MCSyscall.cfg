SPECIFICATION Spec
CONSTANTS
    Bases = {"zero", "elsewhere"}
    MaxTemps = 2
INVARIANTS
    FailedCallWritesNothing
    FaultedCallChangesNothing
    HostInputInitialised
    OutcomeReported
    FilledBufferIsGuests
    TargetErrnos
