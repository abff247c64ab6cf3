SPECIFICATION Spec
CONSTANTS
    a = a
    d = d
    legacy = legacy
    NoWindow = NoWindow
    Toplevels = {a, d}
    X11Windows = {legacy}
    Parent <- MCParent
    Client <- MCClient
    Desks = {"one", "two"}
    MaxBatch = 2
    StickyLists <- MCStickyLists
    Tiles = {w1, w2}
    Launchers = {w2}
    Screens <- MCScreens
    NoTile = NoTile
    MaxLayoutOps = 5
    Widths = {300, 1920}
    Heights = {200, 1080}
    Fractions = {0, 80, 100}
    Gaps = {0, 8}
    MaxTiles = 3
    ScreenSets = {}
    Reach = 0
INVARIANTS
    WindowsAreReachable
    ReachedWindowsShow
    TilesAreSound
CHECK_DEADLOCK FALSE
