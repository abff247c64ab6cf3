SPECIFICATION DeskSpec
CONSTANTS
    Timeouts = {0, 2, 3, 5}
    Clients = {shell}
    Surfaces = {player}
    MaxIdle = 6
    Wins = {"w1", "w2", "game"}
    Inhibiting = {"game"}
    Buttons = {1, 2}
    Fingers = {1, 2}
    MaxPresses = 2
    MaxNaps = 1
    MaxSent = 2
    ScreenSets <- MCScreenSets
    Reach = 7
    Widths = {300, 1000, 1920}
    Heights = {260, 1080}
    Fractions = {0, 30, 70}
    Gaps = {0, 8}
    MaxTiles = 3
INVARIANTS
    NothingIsMissed
    DarkMeansLocked
    ShellIsTold
    InputIsPaired
    PointerGeometryIsSound
    HealthIsSound
PROPERTY
    KeepsThePromise
CHECK_DEADLOCK FALSE
