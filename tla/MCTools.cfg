CONSTANTS
    LINE_BUF = 3
    MAX_LINES = 3
    MAX_BUF = 4
    CHUNK = 2
    I32_MAX = 11
    Jobs <- MCJobs
    B64_LINE = 8
    MAX_NODES = 3
    MAX_COLS = 2
    STACK = 5
    BITS = 10
    USIZE = 8
    CodeJobs <- MCCodeJobs
    PAGE = 6
    PageJobs <- MCPageJobs
    READ = 2
    ALL = 24
    LONG = 5
    ROWS = 3
    NAMES = 4
    LOG_MAX = 4
    KILO = 6
    MaxFaults = 1
    Tasks <- MCTasks
    Procs = {p1, p2}
    Ports = {80}
    MAX_OPEN_FILES = 2
    MAX_SOCKETS = 3
    MAX_OPS = 5
    MAX_LINK = 1
    Loaders = {t1, t2}
    ImageFiles <- MCImageFiles
    ArgLists <- MCArgLists
    SLOT_SIZE = 28
    SLOT_COUNT = 2
    USER_IBUS_BASE = 512
    DATA_BASE = 128
    IBUS_MIN = 500
    LINK_DATA = 400
    WORD = 1024
    MAX_LOADS = 2
SPECIFICATION ToolsSpec
INVARIANTS  CodecsPrint PagesPrint   LoadedWhole
PROPERTIES AcceptKeepsListening NetAnswers
CHECK_DEADLOCK FALSE
