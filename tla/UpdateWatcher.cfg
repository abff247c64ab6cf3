\* One client and the watcher, an update of the system or of something else, so
\* two lists of different risk, and two days of news and updates.
SPECIFICATION UpdatesSpec
CONSTANTS
    Packages = {kernel, app}
    SystemPackages = {kernel}
    Lists = {{}, {kernel}, {app}}
    BigBatch = 2
    Requesters = {c1}
    Watcher = watcher
    MaxDay = 1
INVARIANTS
    RatingIsSound
    ChecksAreSerial
