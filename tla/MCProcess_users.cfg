SPECIFICATION Spec
CONSTANTS
    TidMax = 6
    QUANTUM_TICKS = 1
    NSlots = 2
    Sigs = {9, 20}
    MaxSessions = 0
INVARIANTS ProcessInv UserExitsWhole WaiterNotStuck
