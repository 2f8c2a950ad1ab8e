SPECIFICATION FairSpec
CONSTANTS
    TidMax = 5
    QUANTUM_TICKS = 1
    NSlots = 2
    Sigs = {9}
    MaxSessions = 1
INVARIANTS UserHasProcess ProcessInv
PROPERTIES OrphanCollected
