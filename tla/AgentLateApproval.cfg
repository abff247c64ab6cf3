\* One connection, one chat of two rounds with one call each.
SPECIFICATION Spec
CONSTANTS
    Conns = {c1}
    Sids = {s1}
    NoSid = NoSid
    MaxRounds = 2
    MaxCalls = 1
    MaxTurns = 1
    MaxQueue = 1
INVARIANTS
    ApprovalIsItsOwn
