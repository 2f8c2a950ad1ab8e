SPECIFICATION IpcSpec
CONSTANTS
    Readers = {r1, r2}
    Writers = {w1, w2}
    Capacity = 2
    UsizeMod = 4
    MaxBytes = 4
    Builds = {TRUE, FALSE}
    Fifo = FALSE
    LastPc = 2
    Sigs = {2, 9, 10}
    Pids = {1, 2}
    KernelPids = {1}
    Inos = {1, 2, 3, 4}
    Paths <- SomePaths
    OpenFlags <- SomeFlags
    MaxLen = 1
    MAX_OPEN_FILES = 4
    UsedFds = {1, 3, 4}
    MaxCalls = 5
    LongNames = {"long"}
INVARIANTS NoLostWakeup KernelFrameKept SavedWhileHandling VfsInv
PROPERTIES CallReturns IsChannel CallsDoNoMore
CHECK_DEADLOCK FALSE
