SPECIFICATION Spec
CONSTANTS
    TidMax = 4
    QUANTUM_TICKS = 1
    NSlots = 1
    Sigs = {9}
    MaxSessions = 1
INVARIANT ExitReachesProcess
