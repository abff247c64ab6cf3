SPECIFICATION Spec
CONSTANTS
    Bodies = {1, 2}
    Big = 3
    Budget = 7
    MaxMessages = 6
    MaxTurns = 3
    MaxRounds = 2
    MaxCalls = 2
    Files = {f1, f2}
    NoFile = NoFile
    Urls = {u1, u2}
    NoUrl = NoUrl
    Starters = {s1, s2}
    MaxDownloads = 3
    Settings = {"thinking", "aur"}
    Setters = {t1, t2}
    MaxSets = 3
    RotateAt = 3
    Window = 3
    MaxEntries = 8
    Limit = 2
    Ids = {disk, units}
    HealthIds = {disk, units}
    Texts = {x1, x2}
    Actions = {a1}
    Writers = {w1, w2}
    NoNotice = NoNotice
    MaxQueue = 1
    MaxSuspends = 2
    AppLists <- MCAppLists
    Quick <- MCQuick
    BarScreens = {"left", "right"}
    Rows = 2
    KeptLines = 1
    MaxTransit = 2
    MaxAsks = 2
    MaxToolCalls = 2
    MaxCrashes = 1
    Connectors = {"A", "B"}
    Panels <- MCPanels
    MaxPlugs = 1
    MaxRequests = 2
    Notes = {1, 2, 3}
    NoteLimit = 2
    Launches = {p1, p2, p3}
    MaxConnections = 2
INVARIANTS
    PromptIsSound
    OnlyWholeModels
    SettingsAgree
    TailIsTheEnd
    EventsTellTheList
    SleepsLocked
    BarIsSound
    ShellIsSound
    ServicesAreSound
CHECK_DEADLOCK FALSE
