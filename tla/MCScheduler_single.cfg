CONSTANTS
    NCores = 1
    TidMax = 4
    QUANTUM_TICKS = 2
    priority <- MCpriority
    affinity <- MCaffinity
    AnyCore = AnyCore
    Pinned = {1}
    CoreIds = {1, 2}
SPECIFICATION SideFairSpec
INVARIANTS Inv LockInv
PROPERTIES ZombieIsFinal NotStarved ZombieFreed
