SPECIFICATION RemoteSpec
CONSTANTS
    RING_CAP = 2
    MAX_AUTH_ATTEMPTS = 2
    INITIAL_WINDOW = 2
    PEER_WINDOW = 2
    PACKET = 2
    SEQ = 2
    TX_SIZE = 2
    MAX_INPUT = 2
    MAX_CONNS = 2
    MAX_EXTRAS = 1
    SHELL_TEXT <- MCShellText
    LINE = 16
    MAX_ARGV = 4
    MAX_STAGES = 3
    MAX_LINE = 18
    SCRIPT_MAX = 30
    CAPACITY = 1
    ITEMS = 2
    MAX_KEYS = 5
    MAX_OPEN_FILES = 16
    Bin <- MCBin
    Dir <- MCDir
    Keys <- MCKeys
    Programs <- MCPrograms
    Openable <- MCOpenable
    Sessions <- MCSessions
INVARIANTS SshInv KeysInStep Credits  AfterLine PipelineWired LinesRead
 
CHECK_DEADLOCK FALSE
