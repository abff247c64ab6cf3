\* Two connections that may name the same session; two transactions and two
\* reboots, enough for a record to be overwritten and a hint to outlive its reason.
SPECIFICATION DaemonSpec
CONSTANTS
    Conns = {c1, c2}
    Sids = {s1}
    NoSid = NoSid
    MaxRounds = 2
    MaxCalls = 2
    MaxTurns = 3
    MaxQueue = 1
    Clients = {}
    Timer = timer
    Updater = updater
    MaxTxn = 2
    MaxBoots = 2
INVARIANTS
    OnlyApprovedRuns
    TurnsAreKept
    VerdictIsSound
PROPERTIES
    ChatsEnd
    EventuallyJudged
