SPECIFICATION Spec
CONSTANTS
    Tasks = {k1, k2}
    Idle = Idle
    Devices = {dev}
    Lock = Lock
    NoTask = NoTask
    PipeTasks = {w1, w2}
    PIPE_BUF_SIZE = 3
    Atomic = 2
    Waiters = {f1, f2}
    Wakers = {f3}
    Words = {a, b}
    NoWord = NoWord
    Callers = {c1, c2}
    MaxCount = 2
    MaxEventCalls = 5
    MaxNow = 8
    Fds = {1, 2}
    MaxHeld = 2
    Procs = {1, 2, 3}
    Init1 = 1
    Threads = {1, 2, 3}
    First = 1
    ExitCodes = {1}
    MaxSends = 2
    NoMask = NoMask
    MaxFrames = 1
    Spaces = {1, 2}
    Top = 3
    Frames = {1, 2}
    MaxCalls = 2
    MaxLost = 1
    Inos = {1, 2, 3}
    Names = {"x", "y"}
    MaxLinks = 2
    MaxMounts = 2
    MaxNames = 2
    PathLen = 2
    FdProcs = {1, 2}
    MAX_FDS = 2
    MaxFiles = 3
    MaxTyped = 2
    MaxLine = 2
    MaxRaw = 2
    Masters = {1, 2, 3}
    MAX_PTYS = 2
SYMMETRY Symmetry
INVARIANTS
    WaitsAreSound
    ChannelsAreSound
    ProcessesAreSound
    ResourcesAreSound
CHECK_DEADLOCK FALSE
