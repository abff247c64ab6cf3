SPECIFICATION Spec
CONSTANTS
    Crtcs = {a, b}
    MaxHelpers = 2
INVARIANTS
    LoopIsAlive
    FramesAreSound
PROPERTY
    LoopsGoOn
CHECK_DEADLOCK FALSE
